-------------------------- MODULE MCTransactionList --------------------------
(* Rows of two tokens; a search that selects one of them. *)
EXTENDS TransactionList

X == [token |-> "x", from |-> "a", to |-> "b", odd |-> FALSE]
Y == [token |-> "y", from |-> "b", to |-> "b", odd |-> TRUE]
MCRows == <<X, Y, X>>
MCSearches == {[term |-> NoTerm, odd |-> FALSE], [term |-> "a", odd |-> FALSE]}
=============================================================================
