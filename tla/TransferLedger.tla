--------------------------- MODULE TransferLedger ---------------------------
(***************************************************************************)
(* What the ingestion pipeline promises to those who read the database and *)
(* listen to NEW_TRANSACTION, without blocks, queues, timers and retries:  *)
(* a ledger of transfers that only grows.  A transfer passes through the   *)
(* memory of the process, is recorded in one step in the table and in the  *)
(* statistics, and is announced when it is recorded.  What is in memory    *)
(* may be forgotten; what is recorded may not.                             *)
(***************************************************************************)
CONSTANT Transfers         \* the transfers of the chain, each with its hash

VARIABLES held,            \* transfers in the memory of the process
          recorded,        \* transfers with a row of their own
          counted,         \* transfers the statistics include
          announced        \* transfers the clients were told of

ledger == <<recorded, counted, announced>>

Init == held = {} /\ recorded = {} /\ counted = {} /\ announced = {}

\* Some answer of the chain arrives.
Fetch == /\ held \subseteq held' /\ held' \subseteq Transfers
         /\ UNCHANGED ledger

\* A batch fails, or the process ends.
Forget == held' \subseteq held /\ UNCHANGED ledger

\* A batch B commits: one row for each hash that had none, and all of B
\* counted, together.
Record ==
  \E B \in SUBSET held :
    /\ counted' = counted \cup B
    /\ \E new \in SUBSET B :
         /\ recorded' = recorded \cup new
         /\ \A e \in new : \A r \in recorded' : r.hash = e.hash => r = e
         /\ \A e \in B : \E r \in recorded' : r.hash = e.hash
    /\ UNCHANGED <<held, announced>>

\* Only what memory holds and the statistics already count.
Announce ==
  \E B \in SUBSET (held \cap counted) :
    /\ announced' = announced \cup B
    /\ held' \subseteq held
    /\ UNCHANGED <<recorded, counted>>

Next == Fetch \/ Forget \/ Record \/ Announce

Spec == Init /\ [][Next]_<<held, ledger>>
=============================================================================
