---------------------------- MODULE MCSyncToken ----------------------------
(* Two tokens and four blocks for TLC: block 2 has two transfers of token a, block 4    *)
(* two transfers of a (one with value zero) and one of b with the hash of the other.   *)
EXTENDS SyncToken

T(token, block, pos, hash, valid) ==
  [token |-> token, block |-> block, pos |-> pos, hash |-> hash, valid |-> valid]

MCTransfers == {T("a", 1, 1, 1, TRUE), T("a", 2, 2, 2, TRUE), T("a", 2, 3, 3, TRUE),
                T("b", 3, 4, 4, TRUE), T("a", 4, 5, 5, FALSE), T("a", 4, 6, 6, TRUE),
                T("b", 4, 7, 6, TRUE)}
MCTokenOrder == <<"a", "b">>
MCDeployment == [t \in {"a", "b"} |-> IF t = "a" THEN 1 ELSE 2]
=============================================================================
