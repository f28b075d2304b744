--------------------------- MODULE MCEventMonitor ---------------------------
(* A chain of three blocks for TLC: block 1 is MIN_DEPLOYMENT_BLOCK, block  *)
(* 2 holds a transfer of each token, block 3 two transfers of one           *)
(* transaction and a zero-value one.                                        *)
EXTENDS EventMonitor, TLC

Log(block, token, hash, valid) ==
  [block |-> block, token |-> token, hash |-> hash, valid |-> valid]

Transfers == << Log(2, "A", "h1", TRUE), Log(2, "B", "h2", TRUE),
                Log(3, "A", "h3", TRUE), Log(3, "B", "h3", TRUE) >>
AllLogs == Append(Transfers, Log(3, "A", "h4", FALSE))

MCTokens == {"A", "B"}
MCTokenOrder == <<"A", "B">>

AnswersFrom(logs) ==
  [S \in SUBSET MCTokens, a \in Blocks, b \in Blocks |->
     SelectSeq(logs, LAMBDA e : e.token \in S /\ e.block \in a..b)]

AllEvents == Elements(AllLogs)
AllAnswers == AnswersFrom(AllLogs)
TransferEvents == Elements(Transfers)
TransferAnswers == AnswersFrom(Transfers)

\* At most two of the failures, ends of the process, disconnections and connections after
\* the first, of the same kind or of two.
FaultBound == 2
FewFaults == spent.rpc + spent.db + spent.restarts + spent.connections =< 1 + FaultBound

TaskSymmetry == Permutations(Tasks)
=============================================================================
