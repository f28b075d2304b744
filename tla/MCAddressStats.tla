--------------------------- MODULE MCAddressStats ---------------------------
(* Two addresses: a small transfer one way, a large one back, and one to oneself. *)
EXTENDS AddressStats

T(from, to, amount, day) == [from |-> from, to |-> to, amount |-> amount, day |-> day]
MCTransfers == {T("a", "b", 1, 1), T("b", "a", 3, 1), T("a", "a", 2, 2)}
=============================================================================
