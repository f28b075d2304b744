------------------------ MODULE EventMonitor_proofs ------------------------
(***************************************************************************)
(* Ingestion for every chain, configuration and bound: the types, the      *)
(* inductive invariant IInv with the safety properties it implies, and     *)
(* the refinement of TransferLedger.                                       *)
(***************************************************************************)
EXTENDS EventMonitor, SequenceTheorems, WellFoundedInduction, TLAPS

\* The order argument does not cover what the token fallback fetched late.
Exempt(e) == Settled(e) \/ e \in viaFallback

\* isProcessing admits one batch at a time.
OneBatch == /\ Len(inflight) =< 1
            /\ Len(inflight) = 1 => isProcessing

SavedIsStored ==
  \A i \in 1..Len(inflight) : inflight[i].saved =>
    \A e \in Valid(Elements(inflight[i].events)) : Stored(e) /\ e \in counted

\* Whatever is of an earlier block than a queued event is ahead of it.
QueueOrder ==
  \A i \in 1..Len(queue), e \in Valid(Events) :
    e.block < queue[i].block =>
      Exempt(e) \/ e \in InFlight \/ \E j \in 1..(i - 1) : queue[j] = e

InFlightOrder ==
  \A f \in InFlight, e \in Valid(Events) :
    e.block < f.block => Exempt(e) \/ e \in InFlight

\* Blocks reach memory whole, one after the other.
KnownAccounted ==
  \A f \in Events, e \in Valid(Events) :
    (f \in rows \/ InMemory(f)) /\ e.block =< f.block => Accounted(e)

Fetching == {"startCatchUp", "pollCatchUp", "pollBlock"}

\* What a call in progress relies on: the blocks before its next one.
TaskCovered(t) ==
  /\ \A e \in Valid(Events) :
       /\ tasks[t].pc \in Fetching /\ e.block < tasks[t].from => Accounted(e)
       /\ tasks[t].pc \in {"startHead", "pollToken"} /\ e.block =< tasks[t].from => Accounted(e)
  /\ tasks[t].pc = "pollToken" =>
       EventsIn(Tokens, tasks[t].from, tasks[t].from) \subseteq viaFallback

TasksCovered == \A t \in Tasks : TaskCovered(t)

\* Polling only ever runs from a block that a start has set.
PollStart ==
  /\ pollTimer => lastProcessedBlock \in Blocks
  /\ \A t \in Tasks : tasks[t].pc \in {"settle", "pollHead", "pollCatchUp", "pollBlock", "pollToken",
                                       "startJump", "startCatchUp"}
        => lastProcessedBlock \in Blocks

Order == OneBatch /\ SavedIsStored /\ QueueOrder /\ InFlightOrder /\ NoLossBelowResume
Account == KnownAccounted /\ TasksCovered /\ NoSilentGap
IInv == TypeOK /\ PollStart /\ Order /\ Account /\ EmittedIsStored /\ StatsMatchRows

-----------------------------------------------------------------------------
(* The helpers.                                                            *)

\* A count that is at most one.
LEMMA AtMostOne ==
  ASSUME NEW n \in Nat, n =< 1
  PROVE  /\ n # 1 => n = 0
         /\ \A i \in 1..n : i = 1 /\ n = 1
OBVIOUS

\* processingQueue.push: the queue holds what it held, then the new logs.
LEMMA ConcatElements ==
  ASSUME NEW s \in Seq(Events), NEW t \in Seq(Events)
  PROVE  /\ s \o t \in Seq(Events)
         /\ Len(s \o t) = Len(s) + Len(t)
         /\ \A i \in 1..Len(s) : (s \o t)[i] = s[i]
         /\ \A i \in 1..Len(t) : (s \o t)[Len(s) + i] = t[i]
         /\ Elements(s \o t) = Elements(s) \cup Elements(t)
<1>1. /\ s \o t \in Seq(Events)
      /\ Len(s \o t) = Len(s) + Len(t)
      /\ \A i \in 1..(Len(s) + Len(t)) : (s \o t)[i] = IF i <= Len(s) THEN s[i] ELSE t[i - Len(s)]
  BY ConcatProperties
<1>2. Len(s) \in Nat /\ Len(t) \in Nat
  BY LenProperties
<1>3. /\ \A i \in 1..Len(s) : (s \o t)[i] = s[i]
      /\ \A i \in 1..Len(t) : (s \o t)[Len(s) + i] = t[i]
  BY <1>1, <1>2
<1>4. Elements(s \o t) \subseteq Elements(s) \cup Elements(t)
  BY <1>1, <1>2 DEF Elements
<1>5. Elements(s) \cup Elements(t) \subseteq Elements(s \o t)
  <2>1. \A i \in 1..Len(s) : i \in 1..Len(s \o t) /\ (s \o t)[i] = s[i]
    BY <1>1, <1>2, <1>3
  <2>2. \A i \in 1..Len(t) : Len(s) + i \in 1..Len(s \o t) /\ (s \o t)[Len(s) + i] = t[i]
    BY <1>1, <1>2, <1>3
  <2> QED BY <2>1, <2>2 DEF Elements
<1> QED BY <1>1, <1>3, <1>4, <1>5

\* splice(0, n): the batch is the front of the queue, the rest stays in order.
LEMMA TakeBatchSplits ==
  ASSUME NEW by \in Tasks \cup {"timer"},
         queue \in Seq(Events), inflight \in Seq(Batch), OneBatch,
         CanProcess, TakeBatch(by)
  PROVE  /\ inflight = <<>> /\ InFlight = {}
         /\ isProcessing' = TRUE
         /\ queue' \in Seq(Events) /\ inflight' \in Seq(Batch) /\ Len(inflight') = 1
         /\ inflight'[1].saved = FALSE
         /\ \E n \in 1..Len(queue) :
              /\ Len(queue') = Len(queue) - n
              /\ \A i \in 1..Len(queue') : queue'[i] = queue[n + i]
              /\ InFlight' = {queue[i] : i \in 1..n}
              /\ Len(inflight'[1].events) = n
              /\ \A i \in 1..n : inflight'[1].events[i] = queue[i]
<1> DEFINE n == Smaller(BatchSize, Len(queue))
           ev == SubSeq(queue, 1, n)
           b == [events |-> ev, saved |-> FALSE, by |-> by]
<1>1. Len(queue) \in Nat /\ Len(queue) # 0
  BY EmptySeq, LenProperties DEF CanProcess
<1>2. n \in 1..Len(queue)
  BY <1>1, ConfigAssumption DEF Smaller
<1>3. inflight = <<>>
  <2>1. Len(inflight) \in Nat
    BY LenProperties
  <2>2. Len(inflight) # 1
    BY DEF OneBatch, CanProcess
  <2>3. Len(inflight) =< 1
    BY DEF OneBatch
  <2>4. Len(inflight) = 0
    BY <2>1, <2>2, <2>3, AtMostOne
  <2> QED BY <2>4, EmptySeq
<1>4. InFlight = {}
  BY <1>3, EmptySeq DEF InFlight
<1>5. \A i \in 1..Len(queue) : queue[i] \in Events
  BY ElementOfSeq
<1>6. /\ ev \in Seq(Events) /\ Len(ev) = n
      /\ \A i \in 1..n : ev[i] = queue[i]
  <2>1. \A i \in 1..n : queue[i] \in Events
    BY <1>2, <1>5
  <2> HIDE DEF n
  <2> QED BY <2>1, <1>1, <1>2, SubSeqProperties
<1>7. /\ queue' \in Seq(Events) /\ Len(queue') = Len(queue) - n
      /\ \A i \in 1..Len(queue') : queue'[i] = queue[n + i]
  <2>1. queue' = SubSeq(queue, n + 1, Len(queue))
    BY DEF TakeBatch
  <2> HIDE DEF n
  <2>2. \A i \in (n + 1)..Len(queue) : queue[i] \in Events
    BY <1>2, <1>5, <1>1
  <2>3. /\ queue' \in Seq(Events)
        /\ Len(queue') = IF n + 1 <= Len(queue) THEN Len(queue) - (n + 1) + 1 ELSE 0
        /\ \A i \in 1..(Len(queue) - (n + 1) + 1) : queue'[i] = queue[(n + 1) + i - 1]
    BY <2>1, <2>2, <1>1, <1>2, SubSeqProperties
  <2> QED BY <2>3, <1>1, <1>2
<1>8. b \in Batch
  BY <1>6 DEF Batch
<1>9. inflight' \in Seq(Batch) /\ Len(inflight') = 1 /\ inflight'[1] = b
  <2>1. inflight' = Append(inflight, b)
    BY DEF TakeBatch
  <2> HIDE DEF b
  <2> QED BY <2>1, <1>3, <1>8, AppendProperties, EmptySeq
<1>10. InFlight' = Elements(ev)
  <2>1. InFlight' = UNION {Elements(inflight'[i].events) : i \in 1..Len(inflight')}
    BY DEF InFlight
  <2>2. 1..Len(inflight') = {1}
    BY <1>9
  <2>3. inflight'[1].events = ev
    <3> HIDE DEF ev
    <3> QED BY <1>9
  <2> QED BY <2>1, <2>2, <2>3
<1>11. Elements(ev) = {queue[i] : i \in 1..n}
  BY <1>6 DEF Elements
<1>12. isProcessing' = TRUE /\ inflight'[1].saved = FALSE
  BY <1>9 DEF TakeBatch
<1>14. inflight'[1].events = ev
  <2>1. b.events = ev
    BY DEF b
  <2> HIDE DEF b, ev
  <2> QED BY <1>9, <2>1
<1> HIDE DEF n, ev, b
<1>15. Len(inflight'[1].events) = n /\ \A i \in 1..n : inflight'[1].events[i] = queue[i]
  BY <1>6, <1>14
<1>13. InFlight' = {queue[i] : i \in 1..n}
  BY <1>10, <1>11
<1> QED BY <1>2, <1>3, <1>4, <1>7, <1>9, <1>12, <1>13, <1>15

\* The finally of processQueuedEvents leaves no batch behind.
LEMMA EndOfBatchEmpties ==
  ASSUME inflight \in Seq(Batch), OneBatch, NEW i \in 1..Len(inflight), EndOfBatch(i)
  PROVE  /\ inflight' = <<>> /\ InFlight' = {} /\ isProcessing' = FALSE /\ queue' = queue
         /\ InFlight = Elements(inflight[1].events) /\ i = 1 /\ Len(inflight) = 1
         /\ inflight[1] \in Batch
<1>1. i = 1 /\ Len(inflight) = 1
  <2>1. Len(inflight) \in Nat
    BY LenProperties
  <2>2. Len(inflight) =< 1
    BY DEF OneBatch
  <2> QED BY <2>1, <2>2, AtMostOne
<1>2. SubSeq(inflight, 1, 0) = <<>> /\ SubSeq(inflight, 2, 1) = <<>>
  BY SubSeqEmpty, <1>1
<1>3. inflight' = <<>>
  BY <1>1, <1>2, EmptySeq, ConcatEmptySeq DEF EndOfBatch, Without
<1>4. InFlight' = {}
  BY <1>3, EmptySeq DEF InFlight
<1>5. InFlight = Elements(inflight[1].events)
  <2>1. 1..Len(inflight) = {1}
    BY <1>1
  <2> QED BY <2>1 DEF InFlight
<1> QED BY <1>1, <1>3, <1>4, <1>5, ElementOfSeq DEF EndOfBatch

\* Blocks are natural numbers between the two bounds.
LEMMA BlockBounds ==
  /\ MinBlock \in Nat /\ MinBlock \in Blocks /\ MinBlock > 0
  /\ \A b \in Blocks : b \in Nat /\ b >= MinBlock /\ b =< MaxBlock
  /\ \A b \in Nat : b >= MinBlock /\ b =< MaxBlock => b \in Blocks
BY BlockAssumption DEF Blocks

\* A new call is a task.
LEMMA CallTyped ==
  /\ Idle \in Task
  /\ \A pc \in PC, a \in Blocks, b \in Blocks : Call(pc, a, b) \in Task
<1>1. 1 \in 1..Len(TokenOrder)
  <2>1. Len(TokenOrder) \in Nat \ {0}
    BY EventAssumption, EmptySeq
  <2> QED BY <2>1
<1>2. "idle" \in PC
  BY DEF PC
<1> QED BY <1>1, <1>2, BlockBounds DEF Idle, Call, Task

\* What eth_getLogs returns for the ranges and token sets the code asks for.
LEMMA LogsTyped ==
  ASSUME NEW S, S = Tokens \/ \E k \in Tokens : S = {k},
         NEW a \in Blocks, NEW b \in Blocks
  PROVE  /\ GetLogs[S, a, b] \in Seq(Events)
         /\ Elements(GetLogs[S, a, b]) = EventsIn(S, a, b)
         /\ \A i, j \in 1..Len(GetLogs[S, a, b]) :
              i < j => GetLogs[S, a, b][i].block =< GetLogs[S, a, b][j].block
<1>1. S \in {Tokens} \cup {{k} : k \in Tokens}
  OBVIOUS
<1> QED BY <1>1, GetLogsAssumption DEF Elements

-----------------------------------------------------------------------------
(* Types.                                                                  *)

Typed == TypeOK /\ PollStart /\ OneBatch

\* fastCatchUp's batch ends in its range.
LEMMA BatchEndTyped ==
  ASSUME TypeOK, NEW t \in Tasks
  PROVE  /\ BatchEnd(t) \in Blocks
         /\ BatchEnd(t) =< tasks[t].to
         /\ tasks[t].from =< tasks[t].to => tasks[t].from =< BatchEnd(t)
         /\ BatchEnd(t) < tasks[t].to => BatchEnd(t) + 1 \in Blocks
<1> DEFINE a == tasks[t].from
           b == tasks[t].to
<1>1. a \in Blocks /\ b \in Blocks
  BY DEF TypeOK, Task
<1>2. CatchUpBatchSize \in Nat /\ CatchUpBatchSize > 0
  BY ConfigAssumption
<1>3. BatchEnd(t) = IF a + CatchUpBatchSize - 1 < b THEN a + CatchUpBatchSize - 1 ELSE b
  BY DEF BatchEnd, Smaller
<1> HIDE DEF a, b
<1>4. /\ BatchEnd(t) \in Blocks /\ BatchEnd(t) =< b
      /\ a =< b => a =< BatchEnd(t)
      /\ BatchEnd(t) < b => BatchEnd(t) + 1 \in Blocks
  BY <1>1, <1>2, <1>3, BlockAssumption DEF Blocks
<1> QED BY <1>4 DEF a, b

\* The bounds on the environment are spent one at a time.
LEMMA SpendTyped ==
  ASSUME TypeOK, NEW what \in {"rpc", "db", "restarts", "connections"}, Spend(what)
  PROVE  spent' \in [{"rpc", "db", "restarts", "connections"} -> Nat]
BY DEF TypeOK, Spend

\* saveLastProcessedBlockNumber stores a block, or nothing.
LEMMA SaveBlockTyped ==
  ASSUME TypeOK, NEW b \in Blocks, SaveLastProcessedBlock(b)
  PROVE  redisBlock' \in {0} \cup Blocks
BY DEF TypeOK, SaveLastProcessedBlock

\* queueEvent only ever appends logs of the chain.
LEMMA PushTyped ==
  ASSUME TypeOK, NEW S, S = Tokens \/ \E k \in Tokens : S = {k},
         NEW a \in Blocks, NEW b \in Blocks, QueueEvents(GetLogs[S, a, b])
  PROVE  queue' \in Seq(Events)
BY LogsTyped, ConcatElements DEF TypeOK, QueueEvents

\* The start, catch-up and poll steps that do not touch the queue.
LEMMA TypeCalls ==
  ASSUME TypeOK, PollStart, NEW t \in Tasks
  PROVE  /\ Connection(t) => TypeOK' /\ PollStart'
         /\ \A b \in Blocks : LoadSavedBlock(t, b) => TypeOK' /\ PollStart'
         /\ LoadSavedBlockFails(t) => TypeOK' /\ PollStart'
         /\ StartBlockPolling(t) => TypeOK' /\ PollStart'
         /\ PollTimer(t) => TypeOK' /\ PollStart'
         /\ PollFails(t) => TypeOK' /\ PollStart'
<1> USE DEF pipeline, db, timers, redisVars, history
<1>0. Connection(t) \/ PollTimer(t) => reread' \subseteq Events
  BY DEF Connection, PollTimer, MayReread, TypeOK
<1>1. Connection(t) => TypeOK' /\ PollStart'
  BY CallTyped, BlockBounds, SpendTyped, <1>0 DEF Connection, TypeOK, PollStart, PC, Call
<1>2. ASSUME NEW b \in Blocks, LoadSavedBlock(t, b) PROVE TypeOK' /\ PollStart'
  BY <1>2, CallTyped, SaveBlockTyped DEF LoadSavedBlock, TypeOK, PollStart, PC, Call
<1>3. LoadSavedBlockFails(t) => TypeOK' /\ PollStart'
  BY CallTyped, BlockBounds, SpendTyped DEF LoadSavedBlockFails, DbMayFail, TypeOK, PollStart, PC, Call
<1>4. StartBlockPolling(t) => TypeOK' /\ PollStart'
  BY CallTyped DEF StartBlockPolling, TypeOK, PollStart, PC, Idle
<1>5. PollTimer(t) => TypeOK' /\ PollStart'
  BY CallTyped, BlockBounds, <1>0 DEF PollTimer, TypeOK, PollStart, PC, Call
<1>6. PollFails(t) => TypeOK' /\ PollStart'
  BY CallTyped, SpendTyped DEF PollFails, RpcMayFail, TypeOK, PollStart, PC, Idle
<1> QED BY <1>1, <1>2, <1>3, <1>4, <1>5, <1>6

\* Where a start and a poll decide their range.
LEMMA TypeRanges ==
  ASSUME TypeOK, PollStart, NEW t \in Tasks, NEW h \in Blocks
  PROVE  /\ StartFrom(t, h) => TypeOK' /\ PollStart'
         /\ PollFrom(t, h) => TypeOK' /\ PollStart'
<1> USE DEF pipeline, db, timers, redisVars, history
<1>1. /\ CatchUpMaxGap \in Nat /\ FastGap \in Nat
      /\ MaxBlocksPerPoll \in Nat /\ MaxBlocksPerPoll > 0
      /\ CatchUpMaxBlocks \in Nat /\ CatchUpMaxBlocks > 0
  BY ConfigAssumption
<1>2. ASSUME StartFrom(t, h) PROVE TypeOK' /\ PollStart'
  <2> DEFINE saved == tasks[t].from
             start == Larger(h - CatchUpMaxBlocks, MinBlock)
  <2>1. saved \in Blocks
    BY DEF TypeOK, Task
  <2>2. ASSUME h > saved + CatchUpMaxGap PROVE start \in Blocks /\ start + 1 \in Blocks
    <3> HIDE DEF saved
    <3> QED BY <2>1, <2>2, <1>1, BlockAssumption DEF Larger, Blocks
  <2>3. ASSUME h > saved + FastGap PROVE saved + 1 \in Blocks
    <3> HIDE DEF saved
    <3> QED BY <2>1, <2>3, <1>1, BlockAssumption DEF Blocks
  <2>4. \/ /\ h > saved + CatchUpMaxGap
           /\ lastProcessedBlock' = start
           /\ SaveLastProcessedBlock(start)
           /\ abandoned' = abandoned \cup EventsIn(Tokens, saved + 1, start)
           /\ tasks' = [tasks EXCEPT ![t] = Call("startJump", start, h)]
           /\ pollTimer' = pollTimer
        \/ /\ h > saved + FastGap
           /\ lastProcessedBlock' = saved
           /\ tasks' = [tasks EXCEPT ![t] = Call("startCatchUp", saved + 1, h)]
           /\ UNCHANGED <<pollTimer, redisBlock, abandoned>>
        \/ /\ lastProcessedBlock' = saved
           /\ pollTimer' = TRUE
           /\ tasks' = [tasks EXCEPT ![t] = Idle]
           /\ UNCHANGED <<redisBlock, abandoned>>
    BY <1>2 DEF StartFrom
  <2>5. lastProcessedBlock' \in Blocks
    BY <2>1, <2>2, <2>4
  <2>6. tasks' \in [Tasks -> Task]
    BY <2>2, <2>3, <2>4, CallTyped DEF TypeOK, PC
  <2>7. redisBlock' \in {0} \cup Blocks /\ abandoned' \subseteq Events
    BY <2>2, <2>4, SaveBlockTyped DEF TypeOK, EventsIn
  <2>8. pollTimer' \in BOOLEAN
    BY <2>4 DEF TypeOK
  <2> HIDE DEF saved, start
  <2> QED BY <1>2, <2>5, <2>6, <2>7, <2>8 DEF StartFrom, TypeOK, PollStart
<1>3. ASSUME PollFrom(t, h) PROVE TypeOK' /\ PollStart'
  <2> DEFINE next == lastProcessedBlock + 1
             last == lastProcessedBlock + Smaller(h - lastProcessedBlock, MaxBlocksPerPoll)
  <2>1. lastProcessedBlock \in Blocks
    BY <1>3 DEF PollFrom, PollStart
  <2>2. ASSUME ~(h =< lastProcessedBlock) PROVE next \in Blocks /\ last \in Blocks
    BY <2>1, <2>2, <1>1, BlockAssumption DEF Smaller, Blocks
  <2>3. tasks' = [tasks EXCEPT ![t] =
           IF h =< lastProcessedBlock THEN Idle
           ELSE IF h > lastProcessedBlock + FastGap THEN Call("pollCatchUp", next, h)
           ELSE Call("pollBlock", next, last)]
    BY <1>3 DEF PollFrom, PollCall
  <2> HIDE DEF next, last
  <2>4. tasks' \in [Tasks -> Task]
    BY <2>2, <2>3, CallTyped DEF TypeOK, PC
  <2> QED BY <1>3, <2>1, <2>4 DEF PollFrom, TypeOK, PollStart
<1> QED BY <1>2, <1>3

\* A start that jumped begins its catch-up inside the chain.
LEMMA TypeJump ==
  ASSUME TypeOK, PollStart, NEW t \in Tasks, CatchUpFromLast(t)
  PROVE  TypeOK' /\ PollStart'
<1> USE DEF pipeline, db, timers, redisVars, history
<1> DEFINE to == tasks[t].to
<1>1. lastProcessedBlock \in Blocks /\ to \in Blocks
  BY DEF CatchUpFromLast, PollStart, TypeOK, Task
<1>2. tasks' = [tasks EXCEPT ![t] =
                  IF lastProcessedBlock < to THEN Call("startCatchUp", lastProcessedBlock + 1, to)
                                             ELSE Call("settle", MinBlock, MinBlock)]
  BY DEF CatchUpFromLast
<1> HIDE DEF to
<1>3. lastProcessedBlock < to => lastProcessedBlock + 1 \in Blocks
  BY <1>1, BlockAssumption DEF Blocks
<1>4. tasks' \in [Tasks -> Task]
  BY <1>1, <1>2, <1>3, CallTyped, BlockBounds DEF TypeOK, PC
<1> QED BY <1>1, <1>4 DEF CatchUpFromLast, TypeOK, PollStart

\* fastCatchUp's loop moves on to a block of its range or ends.
LEMMA NextBatchTyped ==
  ASSUME TypeOK, PollStart, NEW t \in Tasks, CatchingUp(t), NextCatchUpBatch(t)
  PROVE  tasks' \in [Tasks -> Task]
<1>1. tasks[t] \in Task
  BY DEF TypeOK
<1>2. BatchEnd(t) < tasks[t].to => [tasks[t] EXCEPT !.from = BatchEnd(t) + 1] \in Task
  BY <1>1, BatchEndTyped DEF Task
<1>3. Call("settle", MinBlock, MinBlock) \in Task /\ Idle \in Task
  BY CallTyped, BlockBounds DEF PC
<1> QED BY <1>2, <1>3 DEF NextCatchUpBatch, TypeOK

\* fastCatchUp.
LEMMA TypeCatchUp ==
  ASSUME TypeOK, PollStart, NEW t \in Tasks
  PROVE  /\ CatchUpBatch(t) => TypeOK' /\ PollStart'
         /\ CatchUpBatchFails(t) => TypeOK' /\ PollStart'
<1> USE DEF pipeline, db, timers, redisVars, history
<1>1. ASSUME CatchUpBatch(t) PROVE TypeOK' /\ PollStart'
  <2>1. tasks[t].from \in Blocks /\ BatchEnd(t) \in Blocks
    BY BatchEndTyped DEF TypeOK, Task
  <2>2. queue' \in Seq(Events)
    BY <1>1, <2>1, PushTyped DEF CatchUpBatch
  <2>3. redisBlock' \in {0} \cup Blocks
    BY <1>1, <2>1, SaveBlockTyped DEF CatchUpBatch
  <2>4. tasks' \in [Tasks -> Task]
    BY <1>1, NextBatchTyped DEF CatchUpBatch
  <2> QED BY <1>1, <2>1, <2>2, <2>3, <2>4 DEF CatchUpBatch, TypeOK, PollStart
<1>2. ASSUME CatchUpBatchFails(t) PROVE TypeOK' /\ PollStart'
  <2>1. lastProcessedBlock \in Blocks
    BY <1>2 DEF CatchUpBatchFails, CatchingUp, PollStart
  <2>2. tasks' \in [Tasks -> Task]
    BY <1>2, NextBatchTyped DEF CatchUpBatchFails
  <2>3. abandoned' \subseteq Events
    BY <1>2 DEF CatchUpBatchFails, TypeOK, EventsIn
  <2>4. spent' \in [{"rpc", "db", "restarts", "connections"} -> Nat]
    BY <1>2, SpendTyped DEF CatchUpBatchFails, RpcMayFail
  <2> QED BY <1>2, <2>1, <2>2, <2>3, <2>4 DEF CatchUpBatchFails, TypeOK, PollStart
<1> QED BY <1>1, <1>2

\* pollForNewBlocks' loop moves on to a block of its range or ends.
LEMMA NextBlockTyped ==
  ASSUME TypeOK, PollStart, NEW t \in Tasks, lastProcessedBlock \in Blocks, NextBlock(t)
  PROVE  /\ tasks' \in [Tasks -> Task]
         /\ lastProcessedBlock' \in Blocks
         /\ redisBlock' \in {0} \cup Blocks
<1>1. tasks[t].from \in Blocks /\ tasks[t].to \in Blocks
  BY DEF TypeOK, Task
<1>2. CASE tasks[t].from < tasks[t].to /\ UNCHANGED <<lastProcessedBlock, redisBlock>>
           /\ tasks' = [tasks EXCEPT ![t] = Call("pollBlock", tasks[t].from + 1, tasks[t].to)]
  <2>1. tasks[t].from + 1 \in Blocks
    BY <1>1, <1>2, BlockAssumption DEF Blocks
  <2> QED BY <1>1, <1>2, <2>1, CallTyped DEF TypeOK, PC
<1>3. CASE /\ lastProcessedBlock' = tasks[t].to
           /\ SaveLastProcessedBlock(tasks[t].to) \/ UNCHANGED redisBlock
           /\ tasks' = [tasks EXCEPT ![t] = Idle]
  BY <1>1, <1>3, CallTyped, SaveBlockTyped DEF TypeOK
<1> QED BY <1>2, <1>3 DEF NextBlock

\* processBlock and its fallback.
LEMMA TypeBlocks ==
  ASSUME TypeOK, PollStart, NEW t \in Tasks
  PROVE  /\ ProcessBlock(t) => TypeOK' /\ PollStart'
         /\ ProcessBlockFails(t) => TypeOK' /\ PollStart'
         /\ FetchToken(t) => TypeOK' /\ PollStart'
         /\ FetchTokenFails(t) => TypeOK' /\ PollStart'
         /\ FallbackEnds(t) => TypeOK' /\ PollStart'
<1> USE DEF pipeline, db, timers, redisVars, history
<1>1. /\ tasks[t].from \in Blocks /\ tasks[t].tok \in 1..(Len(TokenOrder) + 1)
      /\ Len(TokenOrder) \in Nat
  BY EventAssumption, LenProperties DEF TypeOK, Task
<1>2. tasks[t].pc \in {"pollBlock", "pollToken"} => lastProcessedBlock \in Blocks
  BY DEF PollStart
<1>3. tasks[t].tok =< Len(TokenOrder) => TokenOrder[tasks[t].tok] \in Tokens
  <2>1. tasks[t].tok =< Len(TokenOrder) => tasks[t].tok \in 1..Len(TokenOrder)
    BY <1>1
  <2> QED BY <2>1, EventAssumption, ElementOfSeq
<1>4. ASSUME ProcessBlock(t) PROVE TypeOK' /\ PollStart'
  <2>1. queue' \in Seq(Events)
    BY <1>1, <1>4, PushTyped DEF ProcessBlock
  <2> QED BY <1>2, <1>4, <2>1, NextBlockTyped DEF ProcessBlock, TypeOK, PollStart
<1>5. ASSUME ProcessBlockFails(t) PROVE TypeOK' /\ PollStart'
  <2>1. spent' \in [{"rpc", "db", "restarts", "connections"} -> Nat]
    BY <1>5, SpendTyped DEF ProcessBlockFails, RpcMayFail
  <2>2. CASE /\ tasks' = [tasks EXCEPT ![t] = Call("pollToken", @.from, @.to)]
             /\ viaFallback' = viaFallback \cup EventsIn(Tokens, tasks[t].from, tasks[t].from)
             /\ UNCHANGED <<lastProcessedBlock, redisBlock, abandoned>>
    <3>1. Call("pollToken", tasks[t].from, tasks[t].to) \in Task
      BY CallTyped DEF TypeOK, Task, PC
    <3>2. tasks' \in [Tasks -> Task] /\ viaFallback' \subseteq Events
      BY <2>2, <3>1 DEF TypeOK, EventsIn
    <3>3. \A u \in Tasks : u # t => tasks'[u] = tasks[u]
      BY <2>2 DEF TypeOK
    <3>4. PollStart'
      BY <1>2, <1>5, <2>2, <3>3 DEF ProcessBlockFails, PollStart
    <3> QED BY <1>5, <2>1, <2>2, <3>2, <3>4 DEF ProcessBlockFails, TypeOK
  <2>3. CASE /\ abandoned' = abandoned \cup EventsIn(Tokens, tasks[t].from, tasks[t].from)
             /\ NextBlock(t) /\ UNCHANGED viaFallback
    <3>1. abandoned' \subseteq Events
      BY <2>3 DEF TypeOK, EventsIn
    <3> QED BY <1>2, <1>5, <2>1, <2>3, <3>1, NextBlockTyped DEF ProcessBlockFails, TypeOK, PollStart
  <2> QED BY <1>5, <2>2, <2>3 DEF ProcessBlockFails
<1>6. ASSUME NextToken(t), tasks[t].tok =< Len(TokenOrder)
      PROVE  tasks' \in [Tasks -> Task] /\ \A s \in Tasks : tasks'[s].pc = tasks[s].pc
  <2>1. tasks[t].tok + 1 \in 1..(Len(TokenOrder) + 1)
    BY <1>1, <1>6
  <2> QED BY <1>6, <2>1 DEF NextToken, TypeOK, Task
<1>7. ASSUME FetchToken(t) PROVE TypeOK' /\ PollStart'
  <2>1. queue' \in Seq(Events)
    BY <1>1, <1>3, <1>7, PushTyped DEF FetchToken
  <2> QED BY <1>6, <1>7, <2>1 DEF FetchToken, TypeOK, PollStart
<1>8. ASSUME FetchTokenFails(t) PROVE TypeOK' /\ PollStart'
  <2>1. abandoned' \subseteq Events
    BY <1>8 DEF FetchTokenFails, TypeOK, EventsIn
  <2> QED BY <1>6, <1>8, <2>1, SpendTyped DEF FetchTokenFails, RpcMayFail, TypeOK, PollStart
<1>9. ASSUME FallbackEnds(t) PROVE TypeOK' /\ PollStart'
  BY <1>2, <1>9, NextBlockTyped DEF FallbackEnds, TypeOK, PollStart
<1> QED BY <1>4, <1>5, <1>7, <1>8, <1>9

\* Taking a batch, or leaving the pipeline alone.
LEMMA PipelineTyped ==
  ASSUME TypeOK, OneBatch, NEW by \in Tasks \cup {"timer"},
         \/ CanProcess /\ TakeBatch(by)
         \/ UNCHANGED pipeline
  PROVE  /\ queue' \in Seq(Events) /\ inflight' \in Seq(Batch)
         /\ isProcessing' \in BOOLEAN /\ OneBatch'
<1>1. CASE CanProcess /\ TakeBatch(by)
  <2>1. /\ queue' \in Seq(Events) /\ inflight' \in Seq(Batch)
        /\ isProcessing' = TRUE /\ Len(inflight') = 1
    BY <1>1, TakeBatchSplits DEF TypeOK
  <2> QED BY <2>1 DEF OneBatch
<1>2. CASE UNCHANGED pipeline
  BY <1>2 DEF pipeline, TypeOK, OneBatch
<1> QED BY <1>1, <1>2

\* saveTransactionBatch writes events of the chain.
LEMMA RowsTyped ==
  ASSUME TypeOK, NEW ev \in Seq(Events), SaveTransactionBatch(ev)
  PROVE  rows' \subseteq Events /\ counted' \subseteq Events /\ recounted' \subseteq Events
<1>1. \A j \in 1..Len(ev) : ev[j] \in Events
  BY ElementOfSeq
<1>2. Elements(ev) \subseteq Events /\ FreshRows(ev) \subseteq Events
  BY <1>1 DEF Elements, FreshRows
<1> QED BY <1>2 DEF SaveTransactionBatch, Valid, Repeated, TypeOK

\* The steps of the processing queue.
LEMMA TypeBatches ==
  ASSUME Typed
  PROVE  /\ ProcessingTimer => Typed'
         /\ \A i \in 1..Len(inflight) : BatchStep(i) => Typed'
<1> USE DEF pipeline, db, timers, redisVars, history, Typed
<1>1. ProcessingTimer => Typed'
  <2> SUFFICES ASSUME ProcessingTimer PROVE Typed'
    OBVIOUS
  <2>1. /\ queue' \in Seq(Events) /\ inflight' \in Seq(Batch)
        /\ isProcessing' \in BOOLEAN /\ OneBatch'
    BY PipelineTyped DEF ProcessingTimer
  <2> QED BY <2>1 DEF ProcessingTimer, TypeOK, PollStart
<1>2. ASSUME NEW i \in 1..Len(inflight) PROVE BatchStep(i) => Typed'
  <2>1. inflight[i] \in Batch
    BY ElementOfSeq DEF TypeOK
  <2>2. ASSUME Commit(i) PROVE Typed'
    <3>1. rows' \subseteq Events /\ counted' \subseteq Events /\ recounted' \subseteq Events
      BY <2>1, <2>2, RowsTyped DEF Commit, Batch
    <3>2. inflight' \in Seq(Batch) /\ Len(inflight') = Len(inflight)
      <4>1. [inflight[i] EXCEPT !.saved = TRUE] \in Batch
        BY <2>1 DEF Batch
      <4>2. inflight' = [inflight EXCEPT ![i] = [inflight[i] EXCEPT !.saved = TRUE]]
        BY <2>2 DEF Commit
      <4> QED BY <4>1, <4>2, ExceptSeq DEF TypeOK
    <3>3. OneBatch'
      BY <2>2, <3>2 DEF Commit, OneBatch
    <3> QED BY <2>2, <3>1, <3>2, <3>3 DEF Commit, TypeOK, PollStart
  <2>3. ASSUME EndOfBatch(i)
        PROVE  /\ queue' = queue /\ inflight' \in Seq(Batch)
               /\ isProcessing' \in BOOLEAN /\ OneBatch'
    <3>1. inflight' = <<>> /\ isProcessing' = FALSE /\ queue' = queue
      BY <2>3, EndOfBatchEmpties DEF TypeOK
    <3>2. Len(inflight') = 0
      BY <3>1, EmptySeq
    <3>3. OneBatch'
      BY <3>2 DEF OneBatch
    <3> QED BY <3>1, <3>3, EmptySeq
  <2>4. Valid(Elements(inflight[i].events)) \subseteq Events
    <3>1. \A j \in 1..Len(inflight[i].events) : inflight[i].events[j] \in Events
      BY <2>1, ElementOfSeq DEF Batch
    <3> QED BY <3>1 DEF Valid, Elements
  <2>5. SaveFails(i) => Typed'
    BY <2>3, <2>4, SpendTyped DEF SaveFails, DbMayFail, TypeOK, PollStart
  <2>6. SaveAnswerLost(i) => Typed'
    BY <2>3, SpendTyped DEF SaveAnswerLost, DbMayFail, TypeOK, PollStart
  <2>7. EmitProcessed(i) => Typed'
    BY <2>3, <2>4 DEF EmitProcessed, TypeOK, PollStart
  <2> QED BY <2>2, <2>5, <2>6, <2>7 DEF BatchStep
<1> QED BY <1>1, <1>2

\* stopMonitoring, the end of the process and its environment.
LEMMA TypeStops ==
  ASSUME Typed
  PROVE  /\ \A t \in Tasks : \/ SigTerm(t) \/ StartFails(t) \/ StopTail(t)
                          \/ ShutdownTail(t) \/ SecondStopRejects(t) \/ Exit(t) => Typed'
         /\ \A t, s \in Tasks : Disconnection(t, s) => Typed'
         /\ Crash \/ Boot \/ NewBlock => Typed'
<1> USE DEF pipeline, db, timers, redisVars, history, Typed
<1>1. ASSUME NEW t \in Tasks, StopTimersAndProcess(t)
      PROVE  /\ queue' \in Seq(Events) /\ inflight' \in Seq(Batch)
             /\ isProcessing' \in BOOLEAN /\ OneBatch'
             /\ pollTimer' = FALSE /\ procTimer' = FALSE
  BY <1>1, PipelineTyped DEF StopTimersAndProcess
<1>2. ASSUME NEW t \in Tasks, NEW pc \in {"stop", "shutdown", "disconnect", "leave"}, StopMonitoring(t, pc)
      PROVE  /\ StopTimersAndProcess(t)
             /\ tasks' \in [Tasks -> Task]
             /\ tasks'[t].pc = pc /\ \A s \in Tasks \ {t} : tasks'[s] = tasks[s]
  BY <1>2, CallTyped, BlockBounds DEF StopMonitoring, TypeOK, PC, Call
<1>3. ASSUME NEW t \in Tasks, SigTerm(t) \/ StartFails(t) PROVE Typed'
  <2>1. StopMonitoring(t, "shutdown")
    BY <1>3 DEF SigTerm, StartFails
  <2>2. spent' \in [{"rpc", "db", "restarts", "connections"} -> Nat]
    BY <1>3, SpendTyped DEF SigTerm, StartFails
  <2>3. PollStart'
    BY <1>1, <1>2, <1>3, <2>1 DEF SigTerm, StartFails, PollStart
  <2> QED BY <1>1, <1>2, <1>3, <2>1, <2>2, <2>3 DEF SigTerm, StartFails, TypeOK
<1>4. ASSUME NEW t \in Tasks, StopTail(t) \/ ShutdownTail(t) \/ SecondStopRejects(t)
      PROVE  Typed'
  <2>1. redisBlock' \in {0} \cup Blocks /\ redis' \in {"open", "closed", "none"}
    BY <1>4, SaveBlockTyped DEF StopTail, ShutdownTail, SecondStopRejects, SaveAndQuit, TypeOK
  <2>2. CASE \E pc \in {"shutdown", "disconnect", "leave"} : StopMonitoring(t, pc)
    <3>1. PollStart'
      BY <1>1, <1>2, <1>4, <2>2 DEF StopTail, ShutdownTail, SecondStopRejects, PollStart
    <3> QED BY <1>1, <1>2, <1>4, <2>1, <2>2, <3>1
            DEF StopTail, ShutdownTail, SecondStopRejects, TypeOK
  <2>3. CASE /\ tasks' = [tasks EXCEPT ![t] = Idle]
                \/ tasks' = [tasks EXCEPT ![t] = Call("leave", MinBlock, MinBlock)]
             /\ UNCHANGED <<timers, pipeline>>
    <3>1. tasks' \in [Tasks -> Task] /\ tasks'[t].pc \in {"idle", "leave"}
          /\ \A s \in Tasks \ {t} : tasks'[s] = tasks[s]
      BY <2>3, CallTyped, BlockBounds DEF TypeOK, PC, Call, Idle
    <3>2. PollStart'
      BY <1>4, <2>3, <3>1 DEF StopTail, ShutdownTail, SecondStopRejects, PollStart
    <3> QED BY <1>4, <2>1, <2>3, <3>1, <3>2, PipelineTyped
            DEF StopTail, ShutdownTail, SecondStopRejects, TypeOK
  <2> QED BY <1>4, <2>2, <2>3 DEF StopTail, ShutdownTail, SecondStopRejects
<1>5. ASSUME ProcessEnds, redisBlock' \in {0} \cup Blocks,
             spent' \in [{"rpc", "db", "restarts", "connections"} -> Nat]
      PROVE  Typed'
  <2>1. tasks' \in [Tasks -> Task] /\ \A t \in Tasks : tasks'[t] = Idle
    BY <1>5, CallTyped DEF ProcessEnds
  <2>2. Len(inflight') = 0 /\ inflight' \in Seq(Batch) /\ queue' \in Seq(Events)
    BY <1>5, EmptySeq DEF ProcessEnds
  <2>3. lost' \subseteq Events
    BY <1>5 DEF ProcessEnds, TypeOK, Valid
  <2>4. OneBatch'
    BY <2>2 DEF OneBatch
  <2>5. PollStart'
    BY <1>5, <2>1 DEF ProcessEnds, PollStart, Idle
  <2> QED BY <1>5, <2>1, <2>2, <2>3, <2>4, <2>5 DEF ProcessEnds, TypeOK
<1>6. ASSUME NEW t \in Tasks, Exit(t) PROVE Typed'
  <2>1. redisBlock' \in {0} \cup Blocks
    BY <1>6 DEF Exit, TypeOK
  <2> QED BY <1>5, <1>6, <2>1 DEF Exit, TypeOK
<1>7. ASSUME Crash PROVE Typed'
  BY <1>5, <1>7, SpendTyped DEF Crash, TypeOK
<1>8. ASSUME NEW t \in Tasks, NEW s \in Tasks, Disconnection(t, s) PROVE Typed'
  <2> DEFINE c == CASE tasks[s].pc = "pollHead"  -> Idle
                    [] tasks[s].pc = "startHead" -> Call("shutdown", MinBlock, MinBlock)
                    [] tasks[s].pc = "pollToken" -> [tasks[s] EXCEPT !.tok = @ + 1]
                    [] OTHER                     -> tasks[s]
  <2>1. t # s
    BY <1>8 DEF Disconnection
  <2>2. tasks' = [tasks EXCEPT ![t] = Call("stop", MinBlock, MinBlock), ![s] = c]
    BY <1>8, <2>1 DEF Disconnection, TypeOK
  <2>3. c \in Task /\ c.pc \in {"idle", "shutdown", tasks[s].pc}
    <3>1. tasks[s] \in Task /\ tasks[s].tok \in 1..(Len(TokenOrder) + 1) /\ Len(TokenOrder) \in Nat
      BY EventAssumption, LenProperties DEF TypeOK, Task
    <3>2. tasks[s].pc = "pollToken" => tasks[s].tok + 1 \in 1..(Len(TokenOrder) + 1)
      BY <1>8, <3>1 DEF Disconnection
    <3>3. tasks[s].pc = "pollToken" =>
            [tasks[s] EXCEPT !.tok = @ + 1] \in Task
            /\ [tasks[s] EXCEPT !.tok = @ + 1].pc = tasks[s].pc
      BY <3>1, <3>2 DEF Task
    <3> QED BY <3>1, <3>3, CallTyped, BlockBounds DEF PC, Call, Idle
  <2>4. Call("stop", MinBlock, MinBlock) \in Task
    BY CallTyped, BlockBounds DEF PC
  <2> HIDE DEF c
  <2>5. tasks' \in [Tasks -> Task]
    BY <2>2, <2>3, <2>4 DEF TypeOK
  <2>6. \A u \in Tasks : tasks'[u].pc \in {"idle", "shutdown", "stop", tasks[u].pc}
    BY <2>1, <2>2, <2>3 DEF TypeOK, Call
  <2>7. spent' \in [{"rpc", "db", "restarts", "connections"} -> Nat]
    BY <1>8, SpendTyped DEF Disconnection
  <2>8. StopTimersAndProcess(t) /\ abandoned' \subseteq Events
    BY <1>8 DEF Disconnection, EventsIn, TypeOK
  <2>9. PollStart'
    BY <1>1, <1>8, <2>6, <2>8 DEF Disconnection, PollStart
  <2> QED BY <1>1, <1>8, <2>5, <2>7, <2>8, <2>9 DEF Disconnection, TypeOK
<1>9. Boot => Typed'
  BY DEF Boot, TypeOK, PollStart, OneBatch
<1>10. NewBlock => Typed'
  <2>1. ASSUME NewBlock PROVE head' \in Blocks
    BY <2>1, BlockAssumption DEF NewBlock, TypeOK, Blocks
  <2> QED BY <2>1 DEF NewBlock, TypeOK, PollStart, OneBatch
<1> QED BY <1>3, <1>4, <1>6, <1>7, <1>8, <1>9, <1>10

\* Every step keeps every variable in its type.
LEMMA TypeStep ==
  ASSUME Typed, [Next]_vars
  PROVE  Typed'
<1> USE DEF pipeline, db, timers, redisVars, history
<1>1. CASE UNCHANGED vars
  BY <1>1 DEF vars, Typed, TypeOK, PollStart, OneBatch
<1>2. ASSUME NEW t \in Tasks,
             Connection(t) \/ PollTimer(t) \/ TaskStep(t),
             ~(StopTail(t) \/ ShutdownTail(t) \/ SecondStopRejects(t) \/ Exit(t))
      PROVE  Typed'
  <2>1. TypeOK' /\ PollStart'
    BY <1>2, TypeCalls, TypeRanges, TypeJump, TypeCatchUp, TypeBlocks DEF TaskStep, HeadAnswers, Typed
  <2>2. UNCHANGED <<isProcessing, inflight>>
    BY <1>2 DEF TaskStep, Connection, PollTimer, LoadSavedBlock, LoadSavedBlockFails, StartFrom,
       CatchUpFromLast, PollFrom, StartBlockPolling, CatchUpBatch, CatchUpBatchFails, PollFails, ProcessBlock,
       ProcessBlockFails, FetchToken, FetchTokenFails, FallbackEnds
  <2> QED BY <2>1, <2>2 DEF Typed, OneBatch
<1>3. ASSUME NEW t \in Tasks, \/ StopTail(t) \/ ShutdownTail(t) \/ SecondStopRejects(t)
                              \/ Exit(t) \/ SigTerm(t) \/ StartFails(t)
      PROVE  Typed'
  BY <1>3, TypeStops
<1>4. ASSUME NEW t \in Tasks, NEW s \in Tasks, Disconnection(t, s) PROVE Typed'
  BY <1>4, TypeStops
<1>5. CASE NewBlock \/ Boot \/ Crash
  BY <1>5, TypeStops
<1>6. CASE ProcessingTimer \/ \E i \in 1..Len(inflight) : BatchStep(i)
  BY <1>6, TypeBatches
<1>7. CASE Next
  BY <1>2, <1>3, <1>4, <1>5, <1>6, <1>7 DEF Next
<1> QED BY <1>1, <1>7

\* The types hold in the initial states.
LEMMA TypeInit == Init => Typed
<1> SUFFICES ASSUME Init PROVE Typed
  OBVIOUS
<1>1. tasks \in [Tasks -> Task] /\ \A t \in Tasks : tasks[t] = Idle
  BY CallTyped DEF Init
<1>2. Len(inflight) = 0 /\ inflight \in Seq(Batch) /\ queue \in Seq(Events)
  BY EmptySeq DEF Init
<1>3. OneBatch
  BY <1>2 DEF OneBatch
<1>4. PollStart
  BY <1>1 DEF PollStart, Idle, Init
<1>5. spent \in [{"rpc", "db", "restarts", "connections"} -> Nat]
  BY DEF Init
<1>6. TypeOK
  BY <1>1, <1>2, <1>5 DEF Init, TypeOK
<1> QED BY <1>3, <1>4, <1>6 DEF Typed

\* Type correctness: every variable of the pipeline keeps its type, whatever
\* starts, polls, stops, crashes and failures are interleaved.
THEOREM TypeCorrect == Spec => []TypeOK
<1>1. Init => Typed
  BY TypeInit
<1>2. Typed /\ [Next]_vars => Typed'
  BY TypeStep
<1>3. Typed => TypeOK
  BY DEF Typed
<1> QED BY <1>1, <1>2, <1>3, PTL DEF Spec
-----------------------------------------------------------------------------
(* Safety: IInv is inductive.                                              *)

HistoryGrows == /\ abandoned \subseteq abandoned' /\ lost \subseteq lost'
                /\ viaFallback \subseteq viaFallback' /\ rows \subseteq rows'

\* What is settled stays settled.
LEMMA SettledGrows ==
  ASSUME HistoryGrows, NEW e
  PROVE  (Stored(e) => Stored(e)') /\ (Settled(e) => Settled(e)') /\ (Exempt(e) => Exempt(e)')
BY DEF HistoryGrows, Stored, Settled, Exempt

\* A step that leaves the pipeline and the tables alone.
LEMMA SamePipeline ==
  ASSUME UNCHANGED <<pipeline, db>>, HistoryGrows
  PROVE  /\ Order => Order'
         /\ EmittedIsStored /\ UNCHANGED emitted => EmittedIsStored'
         /\ StatsMatchRows => StatsMatchRows'
         /\ \A e : InMemory(e)' <=> InMemory(e)
<1> USE DEF pipeline, db
<1>1. \A e : (Exempt(e) => Exempt(e)') /\ (Stored(e)' <=> Stored(e))
  BY SettledGrows DEF Stored
<1>2. \A e : (InMemory(e)' <=> InMemory(e)) /\ (e \in InFlight' <=> e \in InFlight)
  BY DEF InMemory, InFlight
<1>3. Order => Order'
  <2> SUFFICES ASSUME Order PROVE Order'
    OBVIOUS
  <2>1. OneBatch'
    BY DEF Order, OneBatch
  <2>2. SavedIsStored'
    BY <1>1 DEF Order, SavedIsStored
  <2>3. QueueOrder'
    BY <1>1, <1>2 DEF Order, QueueOrder
  <2>4. InFlightOrder'
    BY <1>1, <1>2 DEF Order, InFlightOrder
  <2>5. NoLossBelowResume'
    BY <1>1 DEF Order, NoLossBelowResume, Exempt
  <2> QED BY <2>1, <2>2, <2>3, <2>4, <2>5 DEF Order
<1>4. EmittedIsStored /\ UNCHANGED emitted => EmittedIsStored'
  BY <1>1 DEF EmittedIsStored
<1>5. StatsMatchRows => StatsMatchRows'
  BY <1>1 DEF StatsMatchRows
<1> QED BY <1>2, <1>3, <1>4, <1>5

-----------------------------------------------------------------------------
(* The order: the steps of the queue.                                      *)

\* What the assumptions say of one event.
LEMMA EventFacts ==
  ASSUME NEW e \in Events
  PROVE  /\ e.token \in Tokens /\ e.block \in Blocks /\ e.block \in Int /\ e.block > MinBlock
         /\ e.block \in e.block..e.block
<1>1. e.token \in Tokens /\ e.block \in Blocks /\ e.block > MinBlock
  BY EventAssumption
<1>2. e.block \in Int
  BY <1>1, BlockAssumption DEF Blocks
<1>3. e.block \in e.block..e.block
  BY <1>2
<1> QED BY <1>1, <1>2, <1>3

\* Positions of a sequence and of the one appended to it.
LEMMA TailIndex ==
  ASSUME NEW p \in Nat, NEW q \in Nat, NEW i \in 1..(p + q), i \notin 1..p
  PROVE  /\ i - p \in 1..q /\ p + (i - p) = i
         /\ 1..p \subseteq 1..(i - 1)
         /\ \A k \in 1..q : k < i - p => p + k \in 1..(i - 1)
OBVIOUS

\* Block numbers are integers.
LEMMA BlocksAreInt == \A b \in Blocks : b \in Int
BY BlockAssumption DEF Blocks

\* Positions before one of a sequence.
LEMMA FrontIndex ==
  ASSUME NEW p \in Nat, NEW i \in 1..p
  PROVE  \A j \in 1..(i - 1) : j \in 1..p
OBVIOUS

\* A block that is not before a range, but before a block of the range.
LEMMA InRange ==
  ASSUME NEW x \in Int, NEW y \in Int, NEW a \in Int, NEW b \in Int,
         y \in a..b, x < y, ~(x < a)
  PROVE  x \in a..b /\ a # b
OBVIOUS

\* Of two logs of one answer, the one of the earlier block comes first.
LEMMA SortedAhead ==
  ASSUME NEW logs \in Seq(Events), NEW k \in 1..Len(logs), NEW m \in 1..Len(logs),
         \A i, j \in 1..Len(logs) : i < j => logs[i].block =< logs[j].block,
         logs[k].block < logs[m].block
  PROVE  k < m
<1>1. logs[k] \in Events /\ logs[m] \in Events
  BY ElementOfSeq
<1>2. logs[k].block \in Int /\ logs[m].block \in Int
  BY <1>1, EventFacts
<1>3. ~(m < k)
  <2>1. m < k => logs[m].block =< logs[k].block
    OBVIOUS
  <2> QED BY <1>2, <2>1
<1>4. k # m
  BY <1>2
<1>5. k \in Int /\ m \in Int
  OBVIOUS
<1> QED BY <1>3, <1>4, <1>5

\* An event a fallback has yet to fetch is one the fallback covers.
LEMMA PendingIsFallback ==
  ASSUME TasksCovered, NEW e \in Valid(Events), Pending(e)
  PROVE  e \in viaFallback
<1>1. PICK t \in Tasks : tasks[t].pc = "pollToken" /\ tasks[t].from = e.block
  BY DEF Pending
<1>2. EventsIn(Tokens, tasks[t].from, tasks[t].from) \subseteq viaFallback
  BY <1>1 DEF TasksCovered, TaskCovered
<1>3. e \in Events /\ e.token \in Tokens /\ e.block \in e.block..e.block
  BY EventFacts DEF Valid
<1> QED BY <1>1, <1>2, <1>3 DEF EventsIn

\* A fetch pushes the logs of its range after everything already in memory.
LEMMA PushKeepsOrder ==
  ASSUME TypeOK, Order, TasksCovered,
         NEW S, S = Tokens \/ \E k \in Tokens : S = {k},
         NEW a \in Blocks, NEW b \in Blocks, S = Tokens \/ a = b,
         QueueEvents(GetLogs[S, a, b]), UNCHANGED <<isProcessing, inflight, db, history>>,
         \A e \in Valid(Events) : e.block < a => Accounted(e)
  PROVE  /\ Order'
         /\ \A e : InMemory(e)' <=> InMemory(e) \/ e \in EventsIn(S, a, b)
<1> DEFINE logs == GetLogs[S, a, b]
<1> USE DEF db, history
<1>1. /\ logs \in Seq(Events) /\ Elements(logs) = EventsIn(S, a, b)
      /\ \A i, j \in 1..Len(logs) : i < j => logs[i].block =< logs[j].block
  BY LogsTyped
<1>2. queue' = queue \o logs /\ queue \in Seq(Events)
  BY DEF QueueEvents, TypeOK
<1> HIDE DEF logs
<1>3. /\ Len(queue') = Len(queue) + Len(logs)
      /\ \A i \in 1..Len(queue) : queue'[i] = queue[i]
      /\ \A i \in 1..Len(logs) : queue'[Len(queue) + i] = logs[i]
      /\ Elements(queue') = Elements(queue) \cup Elements(logs)
  BY <1>1, <1>2, ConcatElements
<1>4. Len(queue) \in Nat /\ Len(logs) \in Nat
  BY <1>1, <1>2, LenProperties
<1>5. InFlight' = InFlight
  BY DEF InFlight
<1>6. \A e : (Settled(e)' <=> Settled(e)) /\ (Exempt(e)' <=> Exempt(e))
  BY DEF Settled, Stored, Exempt
<1>7. \A e \in Valid(Events) : e.block < a =>
        Exempt(e) \/ e \in InFlight \/ \E j \in 1..Len(queue) : queue[j] = e
  BY PendingIsFallback DEF Accounted, InMemory, Elements, Exempt
<1>8. ASSUME NEW i \in 1..Len(queue'), NEW e \in Valid(Events), e.block < queue'[i].block
      PROVE  Exempt(e) \/ e \in InFlight \/ \E j \in 1..(i - 1) : queue'[j] = e
  <2>1. CASE i \in 1..Len(queue)
    <3>1. e.block < queue[i].block
      BY <1>3, <1>8, <2>1
    <3>2. Exempt(e) \/ e \in InFlight \/ \E j \in 1..(i - 1) : queue[j] = e
      BY <2>1, <3>1 DEF Order, QueueOrder
    <3>3. \A j \in 1..(i - 1) : j \in 1..Len(queue)
      BY <1>4, <2>1, FrontIndex
    <3> QED BY <1>3, <3>2, <3>3
  <2>2. CASE i \notin 1..Len(queue)
    <3>1. i \in 1..(Len(queue) + Len(logs))
      BY <1>3
    <3>2. /\ i - Len(queue) \in 1..Len(logs) /\ Len(queue) + (i - Len(queue)) = i
          /\ 1..Len(queue) \subseteq 1..(i - 1)
          /\ \A k \in 1..Len(logs) : k < i - Len(queue) => Len(queue) + k \in 1..(i - 1)
      BY <1>4, <2>2, <3>1, TailIndex
    <3>3. PICK m \in 1..Len(logs) : /\ queue'[i] = logs[m]
                                    /\ \A k \in 1..Len(logs) : k < m => Len(queue) + k \in 1..(i - 1)
      BY <1>3, <3>2
    <3>4. CASE e.block < a
      BY <1>3, <1>7, <3>2, <3>4
    <3>5. CASE ~(e.block < a)
      <4>1. logs[m] \in EventsIn(S, a, b)
        BY <1>1 DEF Elements
      <4>2. e \in Events /\ e.token \in Tokens /\ e.block \in Int
        BY EventFacts DEF Valid
      <4>3. /\ a \in Int /\ b \in Int /\ logs[m].block \in Int
            /\ logs[m].block \in a..b /\ e.block < logs[m].block
        <5>1. a \in Int /\ b \in Int
          BY BlocksAreInt
        <5>2. logs[m] \in Events /\ logs[m].block \in a..b
          BY <4>1 DEF EventsIn
        <5> QED BY <1>8, <3>3, <5>1, <5>2, EventFacts
      <4>4. e.block \in a..b /\ a # b
        BY <3>5, <4>2, <4>3, InRange
      <4>5. e \in EventsIn(S, a, b)
        BY <4>2, <4>4 DEF EventsIn
      <4>6. PICK k \in 1..Len(logs) : logs[k] = e
        BY <1>1, <4>5 DEF Elements
      <4>7. k < m
        BY <1>1, <1>8, <3>3, <4>6, SortedAhead
      <4> QED BY <1>3, <3>3, <4>6, <4>7
    <3> QED BY <3>4, <3>5
  <2> QED BY <2>1, <2>2
<1>9. QueueOrder'
  BY <1>5, <1>6, <1>8 DEF QueueOrder
<1>10. /\ OneBatch' /\ SavedIsStored' /\ InFlightOrder' /\ NoLossBelowResume'
  BY <1>5, <1>6 DEF Order, OneBatch, SavedIsStored, InFlightOrder, NoLossBelowResume, Stored
<1>11. \A e : InMemory(e)' <=> InMemory(e) \/ e \in EventsIn(S, a, b)
  BY <1>1, <1>3, <1>5 DEF InMemory
<1> QED BY <1>9, <1>10, <1>11 DEF Order

\* Positions of a sequence whose first n elements are taken.
LEMMA ShiftIndex ==
  ASSUME NEW q \in Nat, NEW n \in 1..q
  PROVE  /\ \A i \in 1..(q - n) : n + i \in 1..q
         /\ \A i \in 1..q : i \notin 1..n => i - n \in 1..(q - n) /\ n + (i - n) = i
         /\ \A i \in 1..(q - n) : \A j \in 1..(n + i - 1) :
              j \notin 1..n => /\ j - n \in 1..(i - 1) /\ j - n \in 1..(q - n)
                               /\ n + (j - n) = j
         /\ \A i \in 1..n : i \in 1..q /\ 1..(i - 1) \subseteq 1..n
OBVIOUS

\* Taking a batch moves the front of the queue, and keeps memory as it is.
LEMMA TakeKeepsOrder ==
  ASSUME TypeOK, Order, NEW by \in Tasks \cup {"timer"}, CanProcess, TakeBatch(by),
         rows' = rows, counted' = counted,
         abandoned \subseteq abandoned', UNCHANGED <<lost, viaFallback>>
  PROVE  Order' /\ \A e : InMemory(e)' <=> InMemory(e)
<1>1. /\ InFlight = {} /\ isProcessing' = TRUE
      /\ inflight' \in Seq(Batch) /\ Len(inflight') = 1 /\ inflight'[1].saved = FALSE
  BY TakeBatchSplits DEF TypeOK, Order
<1>2. PICK n \in 1..Len(queue) :
        /\ Len(queue') = Len(queue) - n
        /\ \A i \in 1..Len(queue') : queue'[i] = queue[n + i]
        /\ InFlight' = {queue[i] : i \in 1..n}
  BY TakeBatchSplits DEF TypeOK, Order
<1>3. Len(queue) \in Nat
  BY LenProperties DEF TypeOK
<1>4. /\ \A i \in 1..Len(queue') : n + i \in 1..Len(queue)
      /\ \A i \in 1..Len(queue) : i \notin 1..n => i - n \in 1..Len(queue') /\ n + (i - n) = i
      /\ \A i \in 1..Len(queue') : \A j \in 1..(n + i - 1) :
           j \notin 1..n => /\ j - n \in 1..(i - 1) /\ j - n \in 1..Len(queue')
                            /\ n + (j - n) = j
      /\ \A i \in 1..n : i \in 1..Len(queue) /\ 1..(i - 1) \subseteq 1..n
  BY <1>2, <1>3, ShiftIndex
<1>5. \A e : Exempt(e) => Exempt(e)'
  BY DEF Settled, Stored, Exempt
<1>6. \A e : InMemory(e)' <=> InMemory(e)
  <2>1. ASSUME NEW i \in 1..Len(queue) PROVE queue[i] \in Elements(queue') \cup InFlight'
    <3>1. CASE i \in 1..n
      BY <1>2, <3>1
    <3>2. CASE i \notin 1..n
      <4>1. i - n \in 1..Len(queue') /\ queue'[i - n] = queue[i]
        BY <1>2, <1>4, <3>2
      <4> QED BY <4>1 DEF Elements
    <3> QED BY <3>1, <3>2
  <2>2. Elements(queue) \subseteq Elements(queue') \cup InFlight'
    BY <2>1 DEF Elements
  <2>3. Elements(queue') \cup InFlight' \subseteq Elements(queue)
    BY <1>2, <1>4 DEF Elements
  <2> QED BY <1>1, <2>2, <2>3 DEF InMemory
<1>7. \A i \in 1..Len(queue), e \in Valid(Events) : e.block < queue[i].block =>
        Exempt(e) \/ \E j \in 1..(i - 1) : queue[j] = e
  BY <1>1 DEF Order, QueueOrder
<1>8. QueueOrder'
  <2> SUFFICES ASSUME NEW i \in 1..Len(queue'), NEW e \in Valid(Events), e.block < queue'[i].block,
                      ~Exempt(e)
               PROVE  e \in InFlight' \/ \E j \in 1..(i - 1) : queue'[j] = e
    BY <1>5 DEF QueueOrder
  <2>1. n + i \in 1..Len(queue) /\ queue'[i] = queue[n + i]
    BY <1>2, <1>4
  <2>2. PICK j \in 1..(n + i - 1) : queue[j] = e
    BY <1>7, <2>1
  <2>3. CASE j \in 1..n
    BY <1>2, <2>2, <2>3
  <2>4. CASE j \notin 1..n
    <3>1. j - n \in 1..(i - 1) /\ queue'[j - n] = queue[j]
      BY <1>2, <1>4, <2>4
    <3> QED BY <2>2, <3>1
  <2> QED BY <2>3, <2>4
<1>9. InFlightOrder'
  <2> SUFFICES ASSUME NEW f \in InFlight', NEW e \in Valid(Events), e.block < f.block, ~Exempt(e)
               PROVE  e \in InFlight'
    BY <1>5 DEF InFlightOrder
  <2>1. PICK i \in 1..n : f = queue[i]
    BY <1>2
  <2>2. PICK j \in 1..(i - 1) : queue[j] = e
    BY <1>4, <1>7, <2>1
  <2> QED BY <1>2, <1>4, <2>2
<1>10. OneBatch'
  BY <1>1 DEF OneBatch
<1>11. SavedIsStored'
  <2>1. 1..Len(inflight') = {1}
    BY <1>1
  <2> QED BY <1>1, <2>1 DEF SavedIsStored
<1>12. NoLossBelowResume'
  BY DEF Order, NoLossBelowResume, Settled, Stored
<1> QED BY <1>6, <1>8, <1>9, <1>10, <1>11, <1>12 DEF Order

\* A set of positions has a first one.
LEMMA FirstPosition ==
  ASSUME NEW T, T \subseteq Nat, T # {}
  PROVE  \E m \in T : \A k \in T : ~(k < m)
<1>1. PICK m \in T : \A k \in T : <<k, m>> \notin OpToRel(<, Nat)
  BY WFMin, NatLessThanWellFounded, Zenon
<1>2. \A k \in T : <<k, m>> \in Nat \X Nat
  OBVIOUS
<1> QED BY <1>1, <1>2, Zenon DEF OpToRel

\* One transaction: every transfer of the batch is stored and counted, and only
\* those are new.
LEMMA CommitStores ==
  ASSUME NEW ev \in Seq(Events), SaveTransactionBatch(ev)
  PROVE  /\ rows \subseteq rows' /\ rows' \subseteq rows \cup Valid(Elements(ev))
         /\ counted' = counted \cup Valid(Elements(ev))
         /\ \A e \in Valid(Elements(ev)) : Stored(e)'
         /\ StatsMatchRows => StatsMatchRows'
<1>1. /\ rows' = rows \cup FreshRows(ev)
      /\ counted' = counted \cup Valid(Elements(ev))
  BY DEF SaveTransactionBatch
<1>2. FreshRows(ev) \subseteq Valid(Elements(ev))
  BY DEF FreshRows, Valid, Elements
<1>3. Len(ev) \in Nat
  BY LenProperties
<1>4. ASSUME NEW e \in Valid(Elements(ev)) PROVE Stored(e)'
  <2>1. CASE Stored(e)
    BY <1>1, <2>1 DEF Stored
  <2>2. CASE ~Stored(e)
    <3> DEFINE T == {j \in 1..Len(ev) : ev[j].valid /\ ev[j].hash = e.hash}
    <3>1. T \subseteq Nat /\ T # {}
      BY <1>3 DEF Valid, Elements
    <3>2. PICK m \in T : \A k \in T : ~(k < m)
      BY <3>1, FirstPosition
    <3>3. \A k \in 1..(m - 1) : k \in 1..Len(ev) /\ k < m
      BY <1>3
    <3>4. \A k \in 1..(m - 1) : ev[k].valid => ev[k].hash # ev[m].hash
      BY <3>2, <3>3
    <3>5. ~Stored(ev[m])
      BY <2>2 DEF Stored
    <3>6. ev[m] \in FreshRows(ev)
      BY <3>4, <3>5 DEF FreshRows
    <3> QED BY <1>1, <3>6 DEF Stored
  <2> QED BY <2>1, <2>2
<1>5. ASSUME StatsMatchRows PROVE StatsMatchRows'
  <2>1. ASSUME NEW r \in rows', NEW q \in rows', r.hash = q.hash PROVE r = q
    <3>1. CASE r \in rows /\ q \in rows
      BY <1>5, <2>1, <3>1 DEF StatsMatchRows
    <3>2. \A f \in FreshRows(ev), o \in rows : f.hash # o.hash
      BY DEF FreshRows, Stored
    <3>3. CASE r \in FreshRows(ev) /\ q \in FreshRows(ev)
      <4>1. PICK j \in 1..Len(ev) : /\ r = ev[j] /\ ev[j].valid
                                    /\ \A k \in 1..(j - 1) : ev[k].valid => ev[k].hash # ev[j].hash
        BY <3>3 DEF FreshRows
      <4>2. PICK k \in 1..Len(ev) : /\ q = ev[k] /\ ev[k].valid
                                    /\ \A l \in 1..(k - 1) : ev[l].valid => ev[l].hash # ev[k].hash
        BY <3>3 DEF FreshRows
      <4>3. j \notin 1..(k - 1) /\ k \notin 1..(j - 1)
        BY <2>1, <4>1, <4>2
      <4>4. j = k
        BY <1>3, <4>3
      <4> QED BY <4>1, <4>2, <4>4
    <3> QED BY <1>1, <2>1, <3>1, <3>2, <3>3
  <2>2. rows' \subseteq counted'
    BY <1>1, <1>2, <1>5 DEF StatsMatchRows
  <2>3. \A e \in counted' : Stored(e)'
    BY <1>1, <1>4, <1>5 DEF StatsMatchRows, Stored
  <2> QED BY <2>1, <2>2, <2>3 DEF StatsMatchRows
<1> QED BY <1>1, <1>2, <1>4, <1>5

\* The transaction commits: memory stays as it is, the batch is stored, and what
\* is of an earlier block than its rows was settled before or is of the batch.
LEMMA CommitKeepsOrder ==
  ASSUME TypeOK, Order, NEW i \in 1..Len(inflight), Commit(i)
  PROVE  /\ Order' /\ HistoryGrows /\ rows' \subseteq rows \cup InFlight
         /\ \A e : InMemory(e)' <=> InMemory(e)
         /\ EmittedIsStored => EmittedIsStored'
         /\ StatsMatchRows => StatsMatchRows'
<1> DEFINE ev == inflight[1].events
<1>1. i = 1 /\ Len(inflight) = 1 /\ 1..Len(inflight) = {1}
  <2>1. Len(inflight) \in Nat
    BY LenProperties DEF TypeOK
  <2>2. Len(inflight) =< 1
    BY DEF Order, OneBatch
  <2>3. i = 1 /\ Len(inflight) = 1
    BY <2>1, <2>2, AtMostOne
  <2> QED BY <2>3
<1>2. inflight[1] \in Batch /\ ev \in Seq(Events)
  <2>1. inflight[1] \in Batch
    BY <1>1, ElementOfSeq DEF TypeOK
  <2> QED BY <2>1 DEF Batch
<1>3. /\ Len(inflight') = 1 /\ inflight'[1].saved = TRUE /\ inflight'[1].events = ev
      /\ 1..Len(inflight') = {1}
  <2>1. [inflight[1] EXCEPT !.saved = TRUE] \in Batch
    BY <1>2 DEF Batch
  <2>2. inflight' = [inflight EXCEPT ![1] = [inflight[1] EXCEPT !.saved = TRUE]]
    BY <1>1 DEF Commit
  <2>3. Len(inflight') = 1 /\ inflight'[1] = [inflight[1] EXCEPT !.saved = TRUE]
    BY <1>1, <2>1, <2>2, ExceptSeq DEF TypeOK
  <2>4. inflight'[1].saved = TRUE /\ inflight'[1].events = ev
    BY <1>2, <2>3 DEF Batch
  <2> QED BY <2>3, <2>4
<1>4. InFlight = Elements(ev) /\ InFlight' = Elements(ev)
  <2> HIDE DEF ev
  <2>1. InFlight = Elements(inflight[1].events)
    BY <1>1 DEF InFlight
  <2>2. InFlight' = Elements(inflight'[1].events)
    <3>1. InFlight' = UNION {Elements(inflight'[k].events) : k \in 1..Len(inflight')}
      BY DEF InFlight
    <3> QED BY <1>3, <3>1
  <2> QED BY <1>3, <2>1, <2>2 DEF ev
<1>5. SaveTransactionBatch(ev) /\ UNCHANGED <<queue, isProcessing, emitted, history>>
  BY <1>1 DEF Commit
<1> HIDE DEF ev
<1>6. /\ rows \subseteq rows' /\ rows' \subseteq rows \cup Valid(Elements(ev))
      /\ counted' = counted \cup Valid(Elements(ev))
      /\ \A e \in Valid(Elements(ev)) : Stored(e)'
      /\ StatsMatchRows => StatsMatchRows'
  BY <1>2, <1>5, CommitStores
<1>7. HistoryGrows
  BY <1>5, <1>6 DEF HistoryGrows, history
<1>8. \A e : (Stored(e) => Stored(e)') /\ (Settled(e) => Settled(e)') /\ (Exempt(e) => Exempt(e)')
  BY <1>7, SettledGrows
<1>9. OneBatch'
  BY <1>1, <1>3, <1>5 DEF Order, OneBatch
<1>10. SavedIsStored'
  BY <1>3, <1>6 DEF SavedIsStored
<1>11. QueueOrder' /\ InFlightOrder'
  BY <1>4, <1>5, <1>8 DEF Order, QueueOrder, InFlightOrder
<1>12. NoLossBelowResume'
  <2> SUFFICES ASSUME NEW e \in Valid(Events), NEW r \in rows', e.block < r.block
               PROVE  Settled(e)' \/ e \in viaFallback'
    BY DEF NoLossBelowResume
  <2>1. CASE r \in rows
    BY <1>7, <1>8, <2>1 DEF Order, NoLossBelowResume, HistoryGrows
  <2>2. CASE r \in InFlight
    <3>1. Exempt(e) \/ e \in InFlight
      BY <2>2 DEF Order, InFlightOrder
    <3>2. e \in InFlight => Stored(e)'
      BY <1>4, <1>6 DEF Valid
    <3> QED BY <1>8, <3>1, <3>2 DEF Exempt, Settled
  <2> QED BY <1>4, <1>6, <2>1, <2>2 DEF Valid
<1>13. EmittedIsStored => EmittedIsStored'
  BY <1>5, <1>6, <1>8 DEF EmittedIsStored
<1>14. \A e : InMemory(e)' <=> InMemory(e)
  BY <1>4, <1>5 DEF InMemory
<1>15. rows' \subseteq rows \cup InFlight
  BY <1>4, <1>6 DEF Valid
<1> QED BY <1>6, <1>7, <1>9, <1>10, <1>11, <1>12, <1>13, <1>14, <1>15 DEF Order

\* The call of processQueuedEvents ends: its batch leaves memory, and each of its
\* transfers is stored or lost.
LEMMA EndKeepsOrder ==
  ASSUME TypeOK, Order, NEW i \in 1..Len(inflight),
         SaveFails(i) \/ SaveAnswerLost(i) \/ EmitProcessed(i)
  PROVE  /\ Order' /\ HistoryGrows /\ rows' = rows
         /\ \A e : InMemory(e)' => InMemory(e)
         /\ \A e \in Valid(Events) : InMemory(e) => InMemory(e)' \/ Settled(e)'
         /\ EmittedIsStored => EmittedIsStored'
         /\ StatsMatchRows => StatsMatchRows'
<1> DEFINE ev == inflight[1].events
<1>1. EndOfBatch(i) /\ UNCHANGED <<db, abandoned, viaFallback>>
  BY DEF SaveFails, SaveAnswerLost, EmitProcessed, history
<1>2. /\ inflight' = <<>> /\ InFlight' = {} /\ isProcessing' = FALSE /\ queue' = queue
      /\ InFlight = Elements(ev) /\ i = 1 /\ 1..Len(inflight) = {1}
  <2>1. /\ inflight' = <<>> /\ InFlight' = {} /\ isProcessing' = FALSE /\ queue' = queue
        /\ InFlight = Elements(ev) /\ i = 1 /\ Len(inflight) = 1
    BY <1>1, EndOfBatchEmpties DEF TypeOK, Order
  <2> QED BY <2>1
<1>3. Len(inflight') = 0
  BY <1>2, EmptySeq
<1>4. \/ lost' = lost \cup Valid(Elements(ev)) /\ UNCHANGED emitted
      \/ inflight[1].saved /\ lost' = lost /\ emitted' \subseteq emitted \cup Valid(Elements(ev))
  BY <1>2 DEF SaveFails, SaveAnswerLost, EmitProcessed, history
<1>5. inflight[1].saved => \A e \in Valid(Elements(ev)) : Stored(e) /\ e \in counted
  BY <1>2 DEF Order, SavedIsStored
<1> HIDE DEF ev
<1>6. HistoryGrows /\ rows' = rows /\ counted' = counted
  BY <1>1, <1>4 DEF HistoryGrows, db
<1>7. \A e : (Stored(e) => Stored(e)') /\ (Settled(e) => Settled(e)') /\ (Exempt(e) => Exempt(e)')
  BY <1>6, SettledGrows
<1>8. \A e \in Valid(Events) : e \in InFlight => Settled(e)'
  BY <1>2, <1>4, <1>5, <1>7 DEF Valid, Settled
<1>9. OneBatch' /\ SavedIsStored'
  <2>1. 1..Len(inflight') = {}
    BY <1>3
  <2> QED BY <1>3, <2>1 DEF OneBatch, SavedIsStored
<1>10. QueueOrder' /\ InFlightOrder'
  BY <1>2, <1>7, <1>8 DEF Order, QueueOrder, InFlightOrder, Exempt
<1>11. NoLossBelowResume'
  BY <1>6, <1>7 DEF Order, NoLossBelowResume, HistoryGrows
<1>12. EmittedIsStored => EmittedIsStored'
  BY <1>4, <1>5, <1>6, <1>7 DEF EmittedIsStored
<1>13. StatsMatchRows => StatsMatchRows'
  BY <1>6 DEF StatsMatchRows, Stored
<1>14. /\ \A e : InMemory(e)' => InMemory(e)
       /\ \A e \in Valid(Events) : InMemory(e) => InMemory(e)' \/ Settled(e)'
  BY <1>2, <1>8 DEF InMemory
<1> QED BY <1>6, <1>9, <1>10, <1>11, <1>12, <1>13, <1>14 DEF Order

-----------------------------------------------------------------------------
(* The account: which steps keep it.                                       *)

\* Accounted for before the step or after it.
Held(e) == Accounted(e) \/ Accounted(e)'

\* What a call relies on when it becomes c.
CallHeld(c) ==
  /\ \A e \in Valid(Events) :
       /\ c.pc \in Fetching /\ e.block < c.from => Held(e)
       /\ c.pc \in {"startHead", "pollToken"} /\ e.block =< c.from => Held(e)
  /\ c.pc = "pollToken" => EventsIn(Tokens, c.from, c.from) \subseteq viaFallback'

\* Memory and fallbacks lose nothing that is not settled.
NothingDropped ==
  \A e \in Valid(Events) : /\ InMemory(e) => InMemory(e)' \/ Settled(e)'
                           /\ Pending(e) => Accounted(e)'

\* One step of the account: nothing drops out of it, and what is new in rows or
\* memory, in a call or in lastProcessedBlock is covered.
LEMMA AccountStep ==
  ASSUME Account, HistoryGrows, NothingDropped,
         \A f \in Events : f \in rows' \/ InMemory(f)' =>
             \/ f \in rows \/ InMemory(f)
             \/ \A e \in Valid(Events) : e.block =< f.block => Held(e),
         \A t \in Tasks : tasks'[t] = tasks[t] \/ CallHeld(tasks'[t]),
         \/ lastProcessedBlock' = lastProcessedBlock
         \/ \A e \in Valid(Events) : e.block =< lastProcessedBlock' => Held(e)
  PROVE  Account'
<1>1. \A e \in Valid(Events) : Held(e) => Accounted(e)'
  <2> SUFFICES ASSUME NEW e \in Valid(Events), Accounted(e) PROVE Accounted(e)'
    BY DEF Held
  <2>1. CASE Settled(e)
    BY <2>1, SettledGrows DEF Accounted
  <2>2. CASE InMemory(e) \/ Pending(e)
    BY <2>2 DEF NothingDropped, Accounted
  <2> QED BY <2>1, <2>2 DEF Accounted
<1>2. \A e \in Valid(Events) : Accounted(e) => Accounted(e)'
  BY <1>1 DEF Held
<1>3. KnownAccounted'
  BY <1>1, <1>2 DEF Account, KnownAccounted
<1>4. TasksCovered'
  <2> SUFFICES ASSUME NEW t \in Tasks PROVE TaskCovered(t)'
    BY DEF TasksCovered
  <2>1. CASE tasks'[t] = tasks[t]
    <3>1. TaskCovered(t)
      BY DEF Account, TasksCovered
    <3> QED BY <1>2, <2>1, <3>1 DEF TaskCovered, HistoryGrows
  <2>2. CASE CallHeld(tasks'[t])
    BY <1>1, <2>2 DEF CallHeld, TaskCovered
  <2> QED BY <2>1, <2>2
<1>5. NoSilentGap'
  BY <1>1, <1>2 DEF Account, NoSilentGap
<1> QED BY <1>3, <1>4, <1>5 DEF Account

\* Calls that fetch nothing rely on nothing.
LEMMA PassiveCall ==
  \A c : c.pc \notin {"startHead", "startCatchUp", "pollCatchUp", "pollBlock", "pollToken"}
           => CallHeld(c)
BY DEF CallHeld, Fetching

\* A fallback goes on if its call does.
LEMMA PendingStays ==
  ASSUME \A t \in Tasks : tasks[t].pc # "pollToken" \/ tasks'[t] = tasks[t]
  PROVE  \A e : Pending(e) => Accounted(e)'
BY DEF Pending, Accounted

\* Positions after the one a fallback has reached.
LEMMA NextPosition ==
  ASSUME NEW n \in Nat, NEW m \in Nat, NEW k \in m..n
  PROVE  k = m \/ k \in (m + 1)..n
OBVIOUS

\* A fallback moves on to its next token: the logs of the token it leaves are in
\* memory or given up.
LEMMA NextTokenStays ==
  ASSUME TypeOK, NEW t \in Tasks, tasks[t].pc = "pollToken", tasks[t].tok =< Len(TokenOrder),
         tasks'[t] = [tasks[t] EXCEPT !.tok = @ + 1],
         \A u \in Tasks \ {t} : tasks[u].pc # "pollToken" \/ tasks'[u] = tasks[u],
         \A e \in EventsIn({TokenOrder[tasks[t].tok]}, tasks[t].from, tasks[t].from) :
            InMemory(e)' \/ Settled(e)'
  PROVE  \A e \in Valid(Events) : Pending(e) => Accounted(e)'
<1> SUFFICES ASSUME NEW e \in Valid(Events), NEW u \in Tasks,
                    tasks[u].pc = "pollToken", tasks[u].from = e.block,
                    NEW k \in tasks[u].tok..Len(TokenOrder), TokenOrder[k] = e.token
             PROVE  Accounted(e)'
  BY DEF Pending
<1>1. CASE u # t
  <2>1. tasks'[u] = tasks[u]
    BY <1>1
  <2> QED BY <2>1 DEF Pending, Accounted
<1>2. CASE u = t
  <2>1. tasks[t] \in Task /\ tasks[t].tok \in Nat /\ Len(TokenOrder) \in Nat
    BY EventAssumption, LenProperties DEF TypeOK, Task
  <2>2. k = tasks[t].tok \/ k \in (tasks[t].tok + 1)..Len(TokenOrder)
    BY <1>2, <2>1, NextPosition
  <2>3. CASE k = tasks[t].tok
    <3>1. e \in Events /\ e.block \in e.block..e.block
      BY EventFacts DEF Valid
    <3>2. e \in EventsIn({TokenOrder[tasks[t].tok]}, tasks[t].from, tasks[t].from)
      BY <1>2, <2>3, <3>1 DEF EventsIn
    <3> QED BY <3>2 DEF Accounted
  <2>4. CASE k \in (tasks[t].tok + 1)..Len(TokenOrder)
    <3>1. /\ tasks'[t].pc = "pollToken" /\ tasks'[t].from = e.block
          /\ tasks'[t].tok = tasks[t].tok + 1
      BY <1>2, <2>1 DEF Task
    <3>2. Pending(e)'
      BY <2>4, <3>1 DEF Pending
    <3> QED BY <3>2 DEF Accounted
  <2> QED BY <2>2, <2>3, <2>4
<1> QED BY <1>1, <1>2

-----------------------------------------------------------------------------
(* The steps of starts, catch-ups and polls.                               *)

Safe == Order /\ Account /\ EmittedIsStored /\ StatsMatchRows

\* A step of one call that leaves the pipeline and the tables alone.
LEMMA CallStep ==
  ASSUME IInv, UNCHANGED <<pipeline, db, emitted>>, HistoryGrows,
         NEW t \in Tasks, NEW c, tasks' = [tasks EXCEPT ![t] = c], CallHeld(c),
         \A e \in Valid(Events) : Pending(e) => Accounted(e)',
         \/ lastProcessedBlock' = lastProcessedBlock
         \/ \A e \in Valid(Events) : e.block =< lastProcessedBlock' => Held(e)
  PROVE  Safe'
<1>1. /\ Order' /\ EmittedIsStored' /\ StatsMatchRows'
      /\ \A e : InMemory(e)' <=> InMemory(e)
  BY SamePipeline DEF IInv
<1>2. \A u \in Tasks : tasks'[u] = tasks[u] \/ CallHeld(tasks'[u])
  BY DEF IInv, TypeOK
<1>3. NothingDropped
  BY <1>1 DEF NothingDropped
<1>4. rows' = rows
  BY DEF db
<1>5. Account'
  BY <1>1, <1>2, <1>3, <1>4, AccountStep DEF IInv
<1> QED BY <1>1, <1>5 DEF Safe

\* A call that is no fallback changes: every fallback goes on.
LEMMA OthersStay ==
  ASSUME TypeOK, NEW t \in Tasks, tasks[t].pc # "pollToken",
         NEW c, tasks' = [tasks EXCEPT ![t] = c]
  PROVE  \A e \in Valid(Events) : Pending(e) => Accounted(e)'
<1>1. \A u \in Tasks : tasks[u].pc # "pollToken" \/ tasks'[u] = tasks[u]
  BY DEF TypeOK
<1> QED BY <1>1, PendingStays

\* One more block, and the blocks before it.
LEMMA BlockArithmetic ==
  ASSUME NEW x \in Int, NEW a \in Int, NEW b \in Int
  PROVE  /\ x < a + 1 => x =< a
         /\ x =< a => x < a \/ x = a
         /\ ~(x < a) /\ x =< b => x \in a..b
         /\ ~(x =< a) /\ x =< b => x \in (a + 1)..b
OBVIOUS

\* What is not after a block of a range is not after its end.
LEMMA AtMostEnd ==
  ASSUME NEW x \in Int, NEW y \in Int, NEW a \in Int, NEW b \in Int, y \in a..b, x =< y
  PROVE  x =< b
OBVIOUS

\* The blocks before a range, and the range: what a fetch of it accounts for.
LEMMA RangeHeld ==
  ASSUME NEW a \in Blocks, NEW b \in Blocks,
         \A e \in Valid(Events) : e.block < a => Held(e),
         \A e \in EventsIn(Tokens, a, b) : Held(e)
  PROVE  \A e \in Valid(Events) : e.block =< b => Held(e)
<1> SUFFICES ASSUME NEW e \in Valid(Events), e.block =< b, ~(e.block < a) PROVE Held(e)
  OBVIOUS
<1>1. e \in Events /\ e.token \in Tokens /\ e.block \in Int
  BY EventFacts DEF Valid
<1>2. e.block \in a..b
  BY <1>1, BlocksAreInt, BlockArithmetic
<1> QED BY <1>1, <1>2 DEF EventsIn

\* The calls that only wait, or only end.
LEMMA WaitingSteps ==
  ASSUME IInv, NEW t \in Tasks,
         \/ Connection(t) \/ StartBlockPolling(t) \/ PollTimer(t) \/ PollFails(t)
         \/ LoadSavedBlockFails(t) \/ \E b \in Blocks : LoadSavedBlock(t, b)
  PROVE  Safe'
<1>1. /\ UNCHANGED <<pipeline, db, emitted>> /\ lastProcessedBlock' = lastProcessedBlock
      /\ HistoryGrows /\ tasks[t].pc # "pollToken"
  BY DEF Connection, StartBlockPolling, PollTimer, PollFails, LoadSavedBlockFails, LoadSavedBlock,
         HistoryGrows, history, db
<1>2. \A e \in Valid(Events) : e.block =< MinBlock => FALSE
  <2>1. \A e \in Valid(Events) : e.block \in Int /\ e.block > MinBlock
    BY EventFacts DEF Valid
  <2>2. \A x \in Int : x > MinBlock => ~(x =< MinBlock)
    BY BlockBounds
  <2> QED BY <2>1, <2>2
<1>3. \E c : tasks' = [tasks EXCEPT ![t] = c] /\ CallHeld(c)
  <2>1. CASE Connection(t) \/ StartBlockPolling(t) \/ PollTimer(t) \/ PollFails(t)
    <3>1. PICK c \in {Call("loadSaved", MinBlock, MinBlock), Idle, Call("pollHead", MinBlock, MinBlock)} :
             tasks' = [tasks EXCEPT ![t] = c]
      BY <2>1 DEF Connection, StartBlockPolling, PollTimer, PollFails
    <3>2. c.pc \in {"loadSaved", "idle", "pollHead"}
      BY <3>1 DEF Call, Idle
    <3> QED BY <3>1, <3>2, PassiveCall
  <2>2. ASSUME NEW b \in Blocks, tasks' = [tasks EXCEPT ![t] = Call("startHead", b, b)],
               \A e \in Valid(Events) : e.block =< b => Accounted(e)
        PROVE  \E c : tasks' = [tasks EXCEPT ![t] = c] /\ CallHeld(c)
    <3>1. Call("startHead", b, b).pc = "startHead" /\ Call("startHead", b, b).from = b
      BY DEF Call
    <3>2. CallHeld(Call("startHead", b, b))
      BY <2>2, <3>1 DEF CallHeld, Held, Fetching
    <3> QED BY <2>2, <3>2
  <2>3. CASE LoadSavedBlockFails(t)
    BY <1>2, <2>2, <2>3, BlockBounds DEF LoadSavedBlockFails
  <2>4. ASSUME NEW b \in Blocks, LoadSavedBlock(t, b)
        PROVE  \E c : tasks' = [tasks EXCEPT ![t] = c] /\ CallHeld(c)
    <3>1. tasks' = [tasks EXCEPT ![t] = Call("startHead", b, b)]
      BY <2>4 DEF LoadSavedBlock
    <3>2. CASE rows = {} /\ b = MinBlock
      BY <1>2, <2>2, <3>1, <3>2
    <3>3. CASE \E a \in Blocks : ResumeBlock(a) /\ b = Larger(a, MinBlock)
      <4>1. PICK a \in Blocks : ResumeBlock(a) /\ b = Larger(a, MinBlock)
        BY <3>3
      <4>2. a = b
        BY <4>1, BlockBounds DEF Larger
      <4>3. PICK r \in rows : r.block = b
        BY <4>1, <4>2 DEF ResumeBlock
      <4>4. r \in Events
        BY DEF IInv, TypeOK
      <4>5. \A e \in Valid(Events) : e.block =< b => Accounted(e)
        BY <4>3, <4>4 DEF IInv, Account, KnownAccounted
      <4> QED BY <2>2, <3>1, <4>5
    <3> QED BY <2>4, <3>2, <3>3 DEF LoadSavedBlock
  <2> QED BY <2>1, <2>3, <2>4
<1>4. PICK c : tasks' = [tasks EXCEPT ![t] = c] /\ CallHeld(c)
  BY <1>3
<1>5. \A e \in Valid(Events) : Pending(e) => Accounted(e)'
  BY <1>1, <1>4, OthersStay DEF IInv
<1> QED BY <1>1, <1>4, <1>5, CallStep

\* A start decides where to begin: the saved block covers what is before it,
\* and the blocks it jumps over are given up.
LEMMA StartStep ==
  ASSUME IInv, NEW t \in Tasks, NEW h \in Blocks, StartFrom(t, h)
  PROVE  Safe'
<1> DEFINE saved == tasks[t].from
           start == Larger(h - CatchUpMaxBlocks, MinBlock)
<1>1. /\ UNCHANGED <<pipeline, db, emitted>> /\ tasks[t].pc = "startHead"
      /\ abandoned \subseteq abandoned' /\ UNCHANGED <<lost, viaFallback>>
  BY DEF StartFrom
<1>2. HistoryGrows
  BY <1>1 DEF HistoryGrows, db
<1>3. \A e \in Valid(Events) : e.block =< saved => Accounted(e)
  BY <1>1 DEF IInv, Account, TasksCovered, TaskCovered
<1>4. saved \in Int /\ start \in Int
  <2>1. saved \in Blocks
    BY DEF IInv, TypeOK, Task
  <2>2. h \in Int /\ MinBlock \in Int /\ CatchUpMaxBlocks \in Int
    BY BlocksAreInt, BlockBounds, ConfigAssumption
  <2>3. h - CatchUpMaxBlocks \in Int
    BY <2>2
  <2> QED BY <2>1, <2>2, <2>3, BlocksAreInt DEF Larger
<1>5. \/ /\ lastProcessedBlock' = start
         /\ abandoned' = abandoned \cup EventsIn(Tokens, saved + 1, start)
         /\ tasks' = [tasks EXCEPT ![t] = Call("startJump", start, h)]
      \/ /\ lastProcessedBlock' = saved
         /\ \/ tasks' = [tasks EXCEPT ![t] = Call("startCatchUp", saved + 1, h)]
            \/ tasks' = [tasks EXCEPT ![t] = Idle]
  BY DEF StartFrom
<1> HIDE DEF saved, start
<1>6. \A e \in Valid(Events) : e.block \in Int /\ e \in Events /\ e.token \in Tokens
  BY EventFacts DEF Valid
<1>7. \A e \in Valid(Events) : e.block =< lastProcessedBlock' => Held(e)
  <2>1. CASE lastProcessedBlock' = saved
    BY <1>3, <2>1 DEF Held
  <2>2. CASE /\ lastProcessedBlock' = start
             /\ abandoned' = abandoned \cup EventsIn(Tokens, saved + 1, start)
    <3> SUFFICES ASSUME NEW e \in Valid(Events), e.block =< start, ~(e.block =< saved) PROVE Held(e)
      BY <1>3, <2>2 DEF Held
    <3>1. e.block \in (saved + 1)..start
      BY <1>4, <1>6, BlockArithmetic
    <3>2. e \in abandoned'
      BY <1>6, <2>2, <3>1 DEF EventsIn
    <3> QED BY <3>2 DEF Held, Accounted, Settled
  <2> QED BY <1>5, <2>1, <2>2
<1>8. \E c : tasks' = [tasks EXCEPT ![t] = c] /\ CallHeld(c)
  <2>1. CASE tasks' = [tasks EXCEPT ![t] = Idle]
    <3>1. CallHeld(Idle)
      BY PassiveCall DEF Idle
    <3> QED BY <2>1, <3>1
  <2>2. ASSUME NEW b \in Int, lastProcessedBlock' = b
        PROVE  CallHeld(Call("startCatchUp", b + 1, h))
    <3>1. /\ Call("startCatchUp", b + 1, h).pc = "startCatchUp"
          /\ Call("startCatchUp", b + 1, h).from = b + 1
      BY DEF Call
    <3>2. \A e \in Valid(Events) : e.block < b + 1 => Held(e)
      BY <1>6, <1>7, <2>2, BlockArithmetic
    <3> QED BY <3>1, <3>2 DEF CallHeld
  <2>3. CallHeld(Call("startJump", start, h))
    <3>1. Call("startJump", start, h).pc = "startJump"
      BY DEF Call
    <3> QED BY <3>1, PassiveCall
  <2> QED BY <1>4, <1>5, <2>1, <2>2, <2>3
<1>9. PICK c : tasks' = [tasks EXCEPT ![t] = c] /\ CallHeld(c)
  BY <1>8
<1>10. \A e \in Valid(Events) : Pending(e) => Accounted(e)'
  BY <1>1, <1>9, OthersStay DEF IInv
<1> QED BY <1>1, <1>2, <1>7, <1>9, <1>10, CallStep

\* A start that jumped begins its catch-up after lastProcessedBlock.
LEMMA JumpStep ==
  ASSUME IInv, NEW t \in Tasks, CatchUpFromLast(t)
  PROVE  Safe'
<1>1. /\ UNCHANGED <<pipeline, db, emitted>> /\ tasks[t].pc # "pollToken"
      /\ lastProcessedBlock' = lastProcessedBlock /\ HistoryGrows
  BY DEF CatchUpFromLast, HistoryGrows, history, db
<1>2. lastProcessedBlock \in Int
  BY BlocksAreInt DEF CatchUpFromLast, IInv, PollStart
<1>3. PICK c : /\ tasks' = [tasks EXCEPT ![t] = c]
               /\ c.pc = "settle" \/ (c.pc = "startCatchUp" /\ c.from = lastProcessedBlock + 1)
  <2>1. PICK c \in {Call("settle", MinBlock, MinBlock),
                    Call("startCatchUp", lastProcessedBlock + 1, tasks[t].to)} :
          tasks' = [tasks EXCEPT ![t] = c]
    BY DEF CatchUpFromLast
  <2>2. c.pc = "settle" \/ (c.pc = "startCatchUp" /\ c.from = lastProcessedBlock + 1)
    BY <2>1 DEF Call
  <2> QED BY <2>1, <2>2
<1>4. \A e \in Valid(Events) : e.block < lastProcessedBlock + 1 => Held(e)
  <2>1. \A e \in Valid(Events) : e.block =< lastProcessedBlock => Held(e)
    BY DEF IInv, Account, NoSilentGap, Held
  <2>2. \A e \in Valid(Events) : e.block \in Int
    BY EventFacts DEF Valid
  <2> QED BY <1>2, <2>1, <2>2, BlockArithmetic
<1>5. CallHeld(c)
  BY <1>3, <1>4 DEF CallHeld, Fetching
<1>6. \A e \in Valid(Events) : Pending(e) => Accounted(e)'
  BY <1>1, <1>3, OthersStay DEF IInv
<1> QED BY <1>1, <1>3, <1>5, <1>6, CallStep

\* A poll decides its range: it begins after lastProcessedBlock.
LEMMA PollStep ==
  ASSUME IInv, NEW t \in Tasks, NEW h \in Blocks, PollFrom(t, h)
  PROVE  Safe'
<1>1. /\ UNCHANGED <<pipeline, db, emitted>> /\ tasks[t].pc # "pollToken"
      /\ lastProcessedBlock' = lastProcessedBlock /\ HistoryGrows
  BY DEF PollFrom, HistoryGrows, history, db
<1>2. lastProcessedBlock \in Int
  BY BlocksAreInt DEF PollFrom, IInv, PollStart
<1>3. PICK c : /\ tasks' = [tasks EXCEPT ![t] = c]
               /\ c.pc \in {"idle", "pollCatchUp", "pollBlock"}
               /\ c.pc = "idle" \/ c.from = lastProcessedBlock + 1
  <2>1. tasks' = [tasks EXCEPT ![t] = PollCall(h)]
    BY DEF PollFrom
  <2>2. /\ PollCall(h).pc \in {"idle", "pollCatchUp", "pollBlock"}
        /\ PollCall(h).pc = "idle" \/ PollCall(h).from = lastProcessedBlock + 1
    BY DEF PollCall, Call, Idle
  <2> QED BY <2>1, <2>2
<1>4. \A e \in Valid(Events) : e.block < lastProcessedBlock + 1 => Held(e)
  <2>1. \A e \in Valid(Events) : e.block =< lastProcessedBlock => Held(e)
    BY DEF IInv, Account, NoSilentGap, Held
  <2>2. \A e \in Valid(Events) : e.block \in Int
    BY EventFacts DEF Valid
  <2> QED BY <1>2, <2>1, <2>2, BlockArithmetic
<1>5. CallHeld(c)
  BY <1>3, <1>4 DEF CallHeld, Fetching
<1>6. \A e \in Valid(Events) : Pending(e) => Accounted(e)'
  BY <1>1, <1>3, OthersStay DEF IInv
<1> QED BY <1>1, <1>3, <1>5, <1>6, CallStep

\* fastCatchUp moves on: the batch is accounted for, so its next one is covered.
LEMMA NextBatchHeld ==
  ASSUME TypeOK, NEW t \in Tasks, CatchingUp(t), NextCatchUpBatch(t),
         \A e \in Valid(Events) : e.block =< BatchEnd(t) => Held(e)
  PROVE  \E c : tasks' = [tasks EXCEPT ![t] = c] /\ CallHeld(c)
<1> DEFINE c == IF BatchEnd(t) < tasks[t].to
                THEN [tasks[t] EXCEPT !.from = BatchEnd(t) + 1]
                ELSE IF tasks[t].pc = "startCatchUp" THEN Call("settle", MinBlock, MinBlock) ELSE Idle
<1>1. tasks' = [tasks EXCEPT ![t] = c]
  BY DEF NextCatchUpBatch
<1>2. BatchEnd(t) \in Int
  BY BatchEndTyped, BlocksAreInt
<1>3. \A e \in Valid(Events) : e.block < BatchEnd(t) + 1 => Held(e)
  <2>1. \A e \in Valid(Events) : e.block \in Int
    BY EventFacts DEF Valid
  <2> QED BY <1>2, <2>1, BlockArithmetic
<1>4. CASE BatchEnd(t) < tasks[t].to
  <2>1. tasks[t] \in Task
    BY DEF TypeOK
  <2>2. c.pc \in {"startCatchUp", "pollCatchUp"} /\ c.from = BatchEnd(t) + 1
    BY <1>4, <2>1 DEF CatchingUp, Task
  <2> HIDE DEF c
  <2>3. CallHeld(c)
    BY <1>3, <2>2 DEF CallHeld
  <2> QED BY <1>1, <2>3
<1>5. CASE ~(BatchEnd(t) < tasks[t].to)
  <2>1. c.pc \in {"settle", "idle"}
    BY <1>5 DEF Call, Idle
  <2> HIDE DEF c
  <2>2. CallHeld(c)
    BY <2>1, PassiveCall
  <2> QED BY <1>1, <2>2
<1> QED BY <1>4, <1>5

\* A catch-up batch that could not be fetched is given up.
LEMMA CatchUpFailsStep ==
  ASSUME IInv, NEW t \in Tasks, CatchUpBatchFails(t)
  PROVE  Safe'
<1>1. /\ UNCHANGED <<pipeline, db, emitted, lost, viaFallback>> /\ CatchingUp(t)
      /\ lastProcessedBlock' = lastProcessedBlock
      /\ abandoned' = abandoned \cup EventsIn(Tokens, tasks[t].from, BatchEnd(t))
  BY DEF CatchUpBatchFails
<1>2. HistoryGrows /\ tasks[t].pc # "pollToken"
  BY <1>1 DEF HistoryGrows, db, CatchingUp
<1>3. \A e \in Valid(Events) : e.block < tasks[t].from => Held(e)
  BY <1>1 DEF IInv, Account, TasksCovered, TaskCovered, CatchingUp, Fetching, Held
<1>4. \A e \in EventsIn(Tokens, tasks[t].from, BatchEnd(t)) : Held(e)
  BY <1>1 DEF Held, Accounted, Settled
<1>5. tasks[t].from \in Blocks /\ BatchEnd(t) \in Blocks
  BY BatchEndTyped DEF IInv, TypeOK, Task
<1>6. \A e \in Valid(Events) : e.block =< BatchEnd(t) => Held(e)
  BY <1>3, <1>4, <1>5, RangeHeld
<1>7. PICK c : tasks' = [tasks EXCEPT ![t] = c] /\ CallHeld(c)
  BY <1>1, <1>6, NextBatchHeld DEF IInv, CatchUpBatchFails
<1>8. \A e \in Valid(Events) : Pending(e) => Accounted(e)'
  BY <1>2, <1>7, OthersStay DEF IInv
<1> QED BY <1>1, <1>2, <1>7, <1>8, CallStep

\* pollForNewBlocks moves on: the block is accounted for, and so is what is
\* before the next one, or up to the block it ends with.
LEMMA NextBlockHeld ==
  ASSUME TypeOK, NEW t \in Tasks, NextBlock(t),
         \A e \in Valid(Events) : e.block =< tasks[t].from => Held(e)
  PROVE  /\ \E c : tasks' = [tasks EXCEPT ![t] = c] /\ CallHeld(c)
         /\ \/ lastProcessedBlock' = lastProcessedBlock
            \/ \A e \in Valid(Events) : e.block =< lastProcessedBlock' => Held(e)
<1> DEFINE c == Call("pollBlock", tasks[t].from + 1, tasks[t].to)
<1>1. tasks[t].from \in Int
  BY BlocksAreInt DEF TypeOK, Task
<1>2. \A e \in Valid(Events) : e.block < tasks[t].from + 1 => Held(e)
  <2>1. \A e \in Valid(Events) : e.block \in Int
    BY EventFacts DEF Valid
  <2> QED BY <1>1, <2>1, BlockArithmetic
<1>3. CASE tasks' = [tasks EXCEPT ![t] = c] /\ lastProcessedBlock' = lastProcessedBlock
  <2>1. c.pc = "pollBlock" /\ c.from = tasks[t].from + 1
    BY DEF Call
  <2> HIDE DEF c
  <2>2. CallHeld(c)
    BY <1>2, <2>1 DEF CallHeld
  <2> QED BY <1>3, <2>2
<1>4. CASE /\ tasks' = [tasks EXCEPT ![t] = Idle]
           /\ lastProcessedBlock' = tasks[t].from
  <2>1. CallHeld(Idle)
    BY PassiveCall DEF Idle
  <2> QED BY <1>4, <2>1
<1>5. \/ tasks' = [tasks EXCEPT ![t] = c] /\ lastProcessedBlock' = lastProcessedBlock
      \/ tasks' = [tasks EXCEPT ![t] = Idle] /\ lastProcessedBlock' = tasks[t].from
  BY DEF NextBlock
<1> QED BY <1>3, <1>4, <1>5

\* What a poll has accounted for of the block it is at.
LEMMA BlockCovered ==
  ASSUME IInv, NEW t \in Tasks
  PROVE  /\ tasks[t].from \in Blocks
         /\ tasks[t].pc = "pollBlock" =>
              \A e \in Valid(Events) : e.block < tasks[t].from => Accounted(e)
         /\ tasks[t].pc = "pollToken" =>
              \A e \in Valid(Events) : e.block =< tasks[t].from => Accounted(e)
<1>1. tasks[t].from \in Blocks
  BY DEF IInv, TypeOK, Task
<1>2. TaskCovered(t)
  BY DEF IInv, Account, TasksCovered
<1> QED BY <1>1, <1>2 DEF TaskCovered, Fetching

\* A block of which the request for all tokens failed: the fallback has all its
\* tokens to fetch, or the block is given up.
LEMMA BlockFailsStep ==
  ASSUME IInv, NEW t \in Tasks, ProcessBlockFails(t)
  PROVE  Safe'
<1> DEFINE b == tasks[t].from
<1>1. /\ UNCHANGED <<pipeline, db, emitted, lost>> /\ tasks[t].pc = "pollBlock"
      /\ abandoned \subseteq abandoned' /\ viaFallback \subseteq viaFallback'
  BY DEF ProcessBlockFails
<1>2. HistoryGrows /\ tasks[t].pc # "pollToken"
  BY <1>1 DEF HistoryGrows, db
<1>3. b \in Blocks /\ \A e \in Valid(Events) : e.block < b => Held(e)
  BY <1>1, BlockCovered DEF Held
<1>4. CASE /\ abandoned' = abandoned \cup EventsIn(Tokens, b, b)
           /\ NextBlock(t)
  <2>1. \A e \in EventsIn(Tokens, b, b) : Held(e)
    BY <1>4 DEF Held, Accounted, Settled
  <2> HIDE DEF b
  <2>2. \A e \in Valid(Events) : e.block =< b => Held(e)
    BY <1>3, <2>1, RangeHeld
  <2>3. PICK c : tasks' = [tasks EXCEPT ![t] = c] /\ CallHeld(c)
    BY <1>4, <2>2, NextBlockHeld DEF IInv, b
  <2>4. \/ lastProcessedBlock' = lastProcessedBlock
        \/ \A e \in Valid(Events) : e.block =< lastProcessedBlock' => Held(e)
    BY <1>4, <2>2, NextBlockHeld DEF IInv, b
  <2>5. \A e \in Valid(Events) : Pending(e) => Accounted(e)'
    BY <1>2, <2>3, OthersStay DEF IInv
  <2> QED BY <1>1, <1>2, <2>3, <2>4, <2>5, CallStep
<1>5. CASE /\ tasks' = [tasks EXCEPT ![t] = Call("pollToken", b, tasks[t].to)]
           /\ viaFallback' = viaFallback \cup EventsIn(Tokens, b, b)
           /\ lastProcessedBlock' = lastProcessedBlock
  <2> DEFINE c == Call("pollToken", b, tasks[t].to)
  <2>1. c.pc = "pollToken" /\ c.from = b /\ c.tok = 1
    BY DEF Call
  <2>2. tasks' = [tasks EXCEPT ![t] = c] /\ tasks'[t] = c
    BY <1>5 DEF IInv, TypeOK
  <2> HIDE DEF b, c
  <2>3. ASSUME NEW e \in EventsIn(Tokens, b, b) PROVE Held(e)
    <3>1. e.token \in Tokens /\ e.block \in Int /\ e.block \in b..b /\ b \in Int
      BY <1>3, <2>3, EventFacts, BlocksAreInt DEF EventsIn
    <3>2. e.block = b
      BY <3>1
    <3>3. \E k \in 1..Len(TokenOrder) : TokenOrder[k] = e.token
      BY <3>1, EventAssumption
    <3>4. Pending(e)'
      BY <2>1, <2>2, <3>2, <3>3 DEF Pending
    <3> QED BY <3>4 DEF Held, Accounted
  <2>4. \A e \in Valid(Events) : e.block =< b => Held(e)
    BY <1>3, <2>3, RangeHeld
  <2>5. CallHeld(c)
    BY <1>5, <2>1, <2>4 DEF CallHeld, Fetching
  <2>6. \A e \in Valid(Events) : Pending(e) => Accounted(e)'
    BY <1>2, <2>2, OthersStay DEF IInv
  <2> QED BY <1>1, <1>2, <1>5, <2>2, <2>5, <2>6, CallStep
<1> QED BY <1>4, <1>5 DEF ProcessBlockFails

\* The fallback is done with the block.
LEMMA FallbackEndsStep ==
  ASSUME IInv, NEW t \in Tasks, FallbackEnds(t)
  PROVE  Safe'
<1>1. /\ UNCHANGED <<pipeline, db, emitted>> /\ tasks[t].pc = "pollToken"
      /\ tasks[t].tok > Len(TokenOrder) /\ NextBlock(t) /\ HistoryGrows
  BY DEF FallbackEnds, HistoryGrows, history, db
<1>2. \A e \in Valid(Events) : e.block =< tasks[t].from => Held(e)
  BY <1>1, BlockCovered DEF Held
<1>3. PICK c : tasks' = [tasks EXCEPT ![t] = c] /\ CallHeld(c)
  BY <1>1, <1>2, NextBlockHeld DEF IInv
<1>4. \/ lastProcessedBlock' = lastProcessedBlock
      \/ \A e \in Valid(Events) : e.block =< lastProcessedBlock' => Held(e)
  BY <1>1, <1>2, NextBlockHeld DEF IInv
<1>5. ASSUME NEW e \in Valid(Events), Pending(e) PROVE Accounted(e)'
  <2>1. PICK u \in Tasks : /\ tasks[u].pc = "pollToken" /\ tasks[u].from = e.block
                           /\ \E k \in tasks[u].tok..Len(TokenOrder) : TokenOrder[k] = e.token
    BY <1>5 DEF Pending
  <2>2. u # t
    <3>1. tasks[t].tok \in Nat /\ Len(TokenOrder) \in Nat
      BY EventAssumption, LenProperties DEF IInv, TypeOK, Task
    <3>2. tasks[t].tok..Len(TokenOrder) = {}
      BY <1>1, <3>1
    <3> QED BY <2>1, <3>2
  <2>3. tasks'[u] = tasks[u]
    BY <1>3, <2>2 DEF IInv, TypeOK
  <2> QED BY <2>1, <2>3 DEF Pending, Accounted
<1> QED BY <1>1, <1>3, <1>4, <1>5, CallStep

\* The step of the fallback: the token, the range of its request and the call.
LEMMA TokenCall ==
  ASSUME IInv, viaFallback \subseteq viaFallback',
         NEW t \in Tasks, tasks[t].pc = "pollToken", tasks[t].tok =< Len(TokenOrder)
  PROVE  /\ tasks[t].from \in Blocks /\ TokenOrder[tasks[t].tok] \in Tokens
         /\ CallHeld([tasks[t] EXCEPT !.tok = @ + 1])
<1>1. tasks[t] \in Task
  BY DEF IInv, TypeOK
<1>2. TokenOrder[tasks[t].tok] \in Tokens
  <2>1. tasks[t].tok \in 1..Len(TokenOrder)
    BY <1>1, EventAssumption, LenProperties DEF Task
  <2> QED BY <2>1, EventAssumption, ElementOfSeq
<1>3. \A e \in Valid(Events) : e.block =< tasks[t].from => Held(e)
  BY BlockCovered DEF Held
<1>4. EventsIn(Tokens, tasks[t].from, tasks[t].from) \subseteq viaFallback
  BY DEF IInv, Account, TasksCovered, TaskCovered
<1>5. /\ [tasks[t] EXCEPT !.tok = @ + 1].pc = "pollToken"
      /\ [tasks[t] EXCEPT !.tok = @ + 1].from = tasks[t].from
  BY <1>1 DEF Task
<1>6. CallHeld([tasks[t] EXCEPT !.tok = @ + 1])
  <2> DEFINE c == [tasks[t] EXCEPT !.tok = @ + 1]
  <2>1. c.pc = "pollToken" /\ c.from = tasks[t].from
    BY <1>5
  <2> HIDE DEF c
  <2> QED BY <1>3, <1>4, <2>1 DEF CallHeld, Fetching, c
<1> QED BY <1>1, <1>2, <1>6 DEF Task

\* A token the fallback could not fetch is given up.
LEMMA TokenFailsStep ==
  ASSUME IInv, NEW t \in Tasks, FetchTokenFails(t)
  PROVE  Safe'
<1> DEFINE c == [tasks[t] EXCEPT !.tok = @ + 1]
<1>1. /\ UNCHANGED <<pipeline, db, emitted, lost, viaFallback>> /\ tasks[t].pc = "pollToken"
      /\ tasks[t].tok =< Len(TokenOrder) /\ lastProcessedBlock' = lastProcessedBlock
      /\ abandoned' = abandoned \cup
           EventsIn({TokenOrder[tasks[t].tok]}, tasks[t].from, tasks[t].from)
      /\ tasks' = [tasks EXCEPT ![t] = c]
  BY DEF FetchTokenFails, NextToken
<1>2. HistoryGrows
  BY <1>1 DEF HistoryGrows, db
<1>3. CallHeld(c)
  BY <1>1, TokenCall
<1> HIDE DEF c
<1>4. tasks'[t] = c /\ \A u \in Tasks \ {t} : tasks'[u] = tasks[u]
  BY <1>1 DEF IInv, TypeOK
<1>5. \A e \in EventsIn({TokenOrder[tasks[t].tok]}, tasks[t].from, tasks[t].from) : Settled(e)'
  BY <1>1 DEF Settled
<1>6. \A e \in Valid(Events) : Pending(e) => Accounted(e)'
  BY <1>1, <1>4, <1>5, NextTokenStays DEF IInv, c
<1> QED BY <1>1, <1>2, <1>3, <1>6, CallStep

\* A request answers: its logs are in memory.
LEMMA FetchHeld ==
  ASSUME IInv, UNCHANGED <<isProcessing, inflight, db, emitted, history>>,
         NEW S, S = Tokens \/ \E k \in Tokens : S = {k},
         NEW a \in Blocks, NEW b \in Blocks, S = Tokens \/ a = b,
         QueueEvents(GetLogs[S, a, b]),
         \A e \in Valid(Events) : e.block < a => Accounted(e)
  PROVE  /\ Order' /\ EmittedIsStored' /\ StatsMatchRows' /\ HistoryGrows
         /\ \A e : InMemory(e)' <=> InMemory(e) \/ e \in EventsIn(S, a, b)
         /\ S = Tokens => \A e \in Valid(Events) : e.block =< b => Held(e)
<1>1. Order' /\ \A e : InMemory(e)' <=> InMemory(e) \/ e \in EventsIn(S, a, b)
  BY PushKeepsOrder DEF IInv, Account
<1>2. rows' = rows /\ counted' = counted /\ HistoryGrows
  BY DEF db, history, HistoryGrows
<1>3. EmittedIsStored' /\ StatsMatchRows'
  BY <1>2 DEF IInv, EmittedIsStored, StatsMatchRows, Stored
<1>4. ASSUME S = Tokens PROVE \A e \in Valid(Events) : e.block =< b => Held(e)
  <2>1. \A e \in EventsIn(Tokens, a, b) : Held(e)
    BY <1>1, <1>4 DEF Held, Accounted
  <2>2. \A e \in Valid(Events) : e.block < a => Held(e)
    BY DEF Held
  <2> QED BY <2>1, <2>2, RangeHeld
<1> QED BY <1>1, <1>2, <1>3, <1>4

\* The step of a call that fetches.
LEMMA FetchStep ==
  ASSUME IInv, UNCHANGED <<isProcessing, inflight, db, emitted, history>>,
         NEW S, S = Tokens \/ \E k \in Tokens : S = {k},
         NEW a \in Blocks, NEW b \in Blocks, S = Tokens \/ a = b,
         QueueEvents(GetLogs[S, a, b]),
         \A e \in Valid(Events) : e.block < a => Accounted(e),
         \A e \in Valid(Events) : e.block =< b => Held(e),
         NEW t \in Tasks, NEW c, tasks' = [tasks EXCEPT ![t] = c], CallHeld(c),
         \A e \in Valid(Events) : Pending(e) => Accounted(e)',
         \/ lastProcessedBlock' = lastProcessedBlock
         \/ \A e \in Valid(Events) : e.block =< lastProcessedBlock' => Held(e)
  PROVE  Safe'
<1>1. /\ Order' /\ EmittedIsStored' /\ StatsMatchRows' /\ HistoryGrows
      /\ \A e : InMemory(e)' <=> InMemory(e) \/ e \in EventsIn(S, a, b)
  BY FetchHeld
<1>2. \A u \in Tasks : tasks'[u] = tasks[u] \/ CallHeld(tasks'[u])
  BY DEF IInv, TypeOK
<1>3. NothingDropped
  BY <1>1 DEF NothingDropped
<1>4. rows' = rows
  BY DEF db
<1>5. ASSUME NEW f \in EventsIn(S, a, b), NEW e \in Valid(Events), e.block =< f.block
      PROVE  Held(e)
  <2>1. f \in Events /\ f.block \in a..b
    BY DEF EventsIn
  <2>2. e.block \in Int /\ f.block \in Int /\ b \in Int /\ a \in Int
    BY <2>1, EventFacts, BlocksAreInt DEF Valid
  <2>3. e.block =< b
    BY <1>5, <2>1, <2>2, AtMostEnd
  <2> QED BY <2>3
<1>6. Account'
  BY <1>1, <1>2, <1>3, <1>4, <1>5, AccountStep DEF IInv
<1> QED BY <1>1, <1>6 DEF Safe

\* The three calls that fetch.
LEMMA FetchSteps ==
  ASSUME IInv, NEW t \in Tasks, CatchUpBatch(t) \/ ProcessBlock(t) \/ FetchToken(t)
  PROVE  Safe'
<1>1. UNCHANGED <<isProcessing, inflight, db, emitted, history>>
  BY DEF CatchUpBatch, ProcessBlock, FetchToken
<1>2. tasks[t].from \in Blocks /\ TypeOK
  BY BlockCovered DEF IInv
<1>3. CASE CatchUpBatch(t)
  <2>1. CatchingUp(t) /\ tasks[t].pc # "pollToken" /\ BatchEnd(t) \in Blocks
    BY <1>2, <1>3, BatchEndTyped DEF CatchUpBatch, CatchingUp
  <2>2. \A e \in Valid(Events) : e.block < tasks[t].from => Accounted(e)
    BY <2>1 DEF IInv, Account, TasksCovered, TaskCovered, CatchingUp, Fetching
  <2>3. QueueEvents(GetLogs[Tokens, tasks[t].from, BatchEnd(t)]) /\ NextCatchUpBatch(t)
        /\ lastProcessedBlock' = BatchEnd(t)
    BY <1>3 DEF CatchUpBatch
  <2>4. \A e \in Valid(Events) : e.block =< BatchEnd(t) => Held(e)
    BY <1>1, <1>2, <2>1, <2>2, <2>3, FetchHeld
  <2>5. PICK c : tasks' = [tasks EXCEPT ![t] = c] /\ CallHeld(c)
    BY <1>2, <2>1, <2>3, <2>4, NextBatchHeld
  <2>6. \A e \in Valid(Events) : Pending(e) => Accounted(e)'
    BY <1>2, <2>1, <2>5, OthersStay
  <2>7. \A e \in Valid(Events) : e.block =< lastProcessedBlock' => Held(e)
    BY <2>3, <2>4
  <2> QED BY <1>1, <1>2, <2>1, <2>2, <2>3, <2>4, <2>5, <2>6, <2>7, FetchStep
<1>4. CASE ProcessBlock(t)
  <2>1. tasks[t].pc = "pollBlock" /\ NextBlock(t)
        /\ QueueEvents(GetLogs[Tokens, tasks[t].from, tasks[t].from])
    BY <1>4 DEF ProcessBlock
  <2>2. \A e \in Valid(Events) : e.block < tasks[t].from => Accounted(e)
    BY <2>1, BlockCovered
  <2>3. \A e \in Valid(Events) : e.block =< tasks[t].from => Held(e)
    BY <1>1, <1>2, <2>1, <2>2, FetchHeld
  <2>4. PICK c : tasks' = [tasks EXCEPT ![t] = c] /\ CallHeld(c)
    BY <1>2, <2>1, <2>3, NextBlockHeld
  <2>5. \/ lastProcessedBlock' = lastProcessedBlock
        \/ \A e \in Valid(Events) : e.block =< lastProcessedBlock' => Held(e)
    BY <1>2, <2>1, <2>3, NextBlockHeld
  <2>6. \A e \in Valid(Events) : Pending(e) => Accounted(e)'
    BY <1>2, <2>1, <2>4, OthersStay
  <2> QED BY <1>1, <1>2, <2>1, <2>2, <2>3, <2>4, <2>5, <2>6, FetchStep
<1>5. CASE FetchToken(t)
  <2> DEFINE c == [tasks[t] EXCEPT !.tok = @ + 1]
             S == {TokenOrder[tasks[t].tok]}
  <2>1. /\ tasks[t].pc = "pollToken" /\ tasks[t].tok =< Len(TokenOrder)
        /\ tasks' = [tasks EXCEPT ![t] = c] /\ lastProcessedBlock' = lastProcessedBlock
        /\ QueueEvents(GetLogs[S, tasks[t].from, tasks[t].from])
    BY <1>5 DEF FetchToken, NextToken
  <2>2. /\ \E k \in Tokens : S = {k}
        /\ CallHeld(c)
    <3>1. viaFallback \subseteq viaFallback'
      BY <1>1 DEF history
    <3> QED BY <2>1, <3>1, TokenCall
  <2> HIDE DEF c, S
  <2>3. \A e \in Valid(Events) : e.block =< tasks[t].from => Accounted(e)
    BY <2>1, BlockCovered
  <2>4. \A e \in Valid(Events) : e.block < tasks[t].from => Accounted(e)
    <3>1. \A e \in Valid(Events) : e.block \in Int
      BY EventFacts DEF Valid
    <3>2. tasks[t].from \in Int
      BY <1>2, BlocksAreInt
    <3>3. \A x, y \in Int : x < y => x =< y
      OBVIOUS
    <3> QED BY <2>3, <3>1, <3>2, <3>3
  <2>5. \A e \in EventsIn(S, tasks[t].from, tasks[t].from) : InMemory(e)'
    BY <1>1, <1>2, <2>1, <2>2, <2>4, FetchHeld
  <2>6. tasks'[t] = c /\ \A u \in Tasks \ {t} : tasks'[u] = tasks[u]
    BY <1>2, <2>1 DEF TypeOK
  <2>7. \A e \in Valid(Events) : Pending(e) => Accounted(e)'
    BY <1>2, <2>1, <2>5, <2>6, NextTokenStays DEF c, S
  <2>8. \A e \in Valid(Events) : e.block =< tasks[t].from => Held(e)
    BY <2>3 DEF Held
  <2> QED BY <1>1, <1>2, <2>1, <2>2, <2>4, <2>7, <2>8, FetchStep
<1> QED BY <1>3, <1>4, <1>5

-----------------------------------------------------------------------------
(* The steps of the queue, of stops and of the process.                    *)

\* A step that takes a batch, or leaves the pipeline alone, and fetches nothing.
LEMMA TakeStep ==
  ASSUME IInv, NEW by \in Tasks \cup {"timer"},
         (CanProcess /\ TakeBatch(by)) \/ UNCHANGED pipeline,
         UNCHANGED <<db, emitted, lost, viaFallback, lastProcessedBlock>>,
         abandoned \subseteq abandoned',
         \A t \in Tasks : tasks'[t] = tasks[t] \/ CallHeld(tasks'[t]),
         \A e \in Valid(Events) : Pending(e) => Accounted(e)'
  PROVE  Safe'
<1>1. rows' = rows /\ counted' = counted /\ HistoryGrows
  BY DEF db, HistoryGrows
<1>2. Order' /\ \A e : InMemory(e)' <=> InMemory(e)
  <2>1. CASE CanProcess /\ TakeBatch(by)
    BY <1>1, <2>1, TakeKeepsOrder DEF IInv
  <2>2. CASE UNCHANGED pipeline
    BY <1>1, <2>2, SamePipeline DEF IInv
  <2> QED BY <2>1, <2>2
<1>3. EmittedIsStored' /\ StatsMatchRows'
  BY <1>1 DEF IInv, EmittedIsStored, StatsMatchRows, Stored
<1>4. NothingDropped
  BY <1>2 DEF NothingDropped
<1>5. Account'
  BY <1>1, <1>2, <1>4, AccountStep DEF IInv
<1> QED BY <1>2, <1>3, <1>5 DEF Safe

\* The processing timer, a restarted process, a new block.
LEMMA TimerSteps ==
  ASSUME IInv, ProcessingTimer \/ Boot \/ NewBlock
  PROVE  Safe'
<1>1. /\ UNCHANGED <<db, emitted, lost, viaFallback, lastProcessedBlock>>
      /\ abandoned \subseteq abandoned' /\ tasks' = tasks
      /\ (CanProcess /\ TakeBatch("timer")) \/ UNCHANGED pipeline
  BY DEF ProcessingTimer, Boot, NewBlock, history
<1>2. \A e \in Valid(Events) : Pending(e) => Accounted(e)'
  BY <1>1, PendingStays
<1> QED BY <1>1, <1>2, TakeStep

\* A call stops the monitor, or leaves.
LEMMA StopSteps ==
  ASSUME IInv, NEW t \in Tasks,
         \/ SigTerm(t) \/ StartFails(t) \/ StopTail(t) \/ ShutdownTail(t) \/ SecondStopRejects(t)
  PROVE  Safe'
<1>1. UNCHANGED <<db, emitted, history, lastProcessedBlock>> /\ tasks[t].pc # "pollToken"
  BY DEF SigTerm, StartFails, StopTail, ShutdownTail, SecondStopRejects
<1>2. (CanProcess /\ TakeBatch(t)) \/ UNCHANGED pipeline
  BY DEF SigTerm, StartFails, StopTail, ShutdownTail, SecondStopRejects, StopMonitoring,
         StopTimersAndProcess
<1>3. PICK c : /\ tasks' = [tasks EXCEPT ![t] = c]
               /\ c.pc \in {"idle", "shutdown", "disconnect", "leave"}
  <2>1. PICK c \in {Idle} \cup {Call(pc, MinBlock, MinBlock) : pc \in {"shutdown", "disconnect", "leave"}} :
           tasks' = [tasks EXCEPT ![t] = c]
    BY DEF SigTerm, StartFails, StopTail, ShutdownTail, SecondStopRejects, StopMonitoring
  <2>2. c.pc \in {"idle", "shutdown", "disconnect", "leave"}
    BY <2>1 DEF Idle, Call
  <2> QED BY <2>1, <2>2
<1>4. CallHeld(c)
  BY <1>3, PassiveCall
<1>5. \A u \in Tasks : tasks'[u] = tasks[u] \/ CallHeld(tasks'[u])
  BY <1>3, <1>4 DEF IInv, TypeOK
<1>6. \A e \in Valid(Events) : Pending(e) => Accounted(e)'
  BY <1>1, <1>3, OthersStay DEF IInv
<1>7. abandoned \subseteq abandoned' /\ UNCHANGED <<lost, viaFallback>>
  BY <1>1 DEF history
<1> QED BY <1>1, <1>2, <1>5, <1>6, <1>7, TakeStep

\* A disconnection stops the monitor, and ends the request a call waited for.
LEMMA DisconnectionStep ==
  ASSUME IInv, NEW t \in Tasks, NEW s \in Tasks, Disconnection(t, s)
  PROVE  Safe'
<1> DEFINE next == [tasks[s] EXCEPT !.tok = @ + 1]
<1>1. /\ UNCHANGED <<db, emitted, lost, viaFallback, lastProcessedBlock>>
      /\ abandoned \subseteq abandoned' /\ t # s /\ tasks[t].pc = "idle"
      /\ (CanProcess /\ TakeBatch(t)) \/ UNCHANGED pipeline
  BY DEF Disconnection, StopTimersAndProcess
<1>2. /\ tasks'[t] = Call("stop", MinBlock, MinBlock)
      /\ \A u \in Tasks \ {t, s} : tasks'[u] = tasks[u]
      /\ tasks'[s] = CASE tasks[s].pc = "pollHead"  -> Idle
                       [] tasks[s].pc = "startHead" -> Call("shutdown", MinBlock, MinBlock)
                       [] tasks[s].pc = "pollToken" -> next
                       [] OTHER                     -> tasks[s]
  <2> DEFINE c == CASE tasks[s].pc = "pollHead"  -> Idle
                    [] tasks[s].pc = "startHead" -> Call("shutdown", MinBlock, MinBlock)
                    [] tasks[s].pc = "pollToken" -> next
                    [] OTHER                     -> tasks[s]
  <2>1. tasks' = [tasks EXCEPT ![t] = Call("stop", MinBlock, MinBlock), ![s] = c]
    BY <1>1 DEF Disconnection, IInv, TypeOK
  <2> HIDE DEF c
  <2>2. /\ tasks'[t] = Call("stop", MinBlock, MinBlock) /\ tasks'[s] = c
        /\ \A u \in Tasks \ {t, s} : tasks'[u] = tasks[u]
    BY <1>1, <2>1 DEF IInv, TypeOK
  <2> QED BY <2>2 DEF c
<1> HIDE DEF next
<1>3. CallHeld(tasks'[t])
  BY <1>2, PassiveCall DEF Call
<1>4. CASE tasks[s].pc # "pollToken"
  <2>1. tasks'[s] = tasks[s] \/ CallHeld(tasks'[s])
    <3>1. tasks'[s] \in {Idle, Call("shutdown", MinBlock, MinBlock), tasks[s]}
      BY <1>2, <1>4
    <3> QED BY <3>1, PassiveCall DEF Idle, Call
  <2>2. \A u \in Tasks : tasks'[u] = tasks[u] \/ CallHeld(tasks'[u])
    BY <1>2, <1>3, <2>1
  <2>3. \A e \in Valid(Events) : Pending(e) => Accounted(e)'
    <3>1. \A u \in Tasks : tasks[u].pc # "pollToken" \/ tasks'[u] = tasks[u]
      BY <1>1, <1>2, <1>4
    <3> QED BY <3>1, PendingStays
  <2> QED BY <1>1, <2>2, <2>3, TakeStep
<1>5. CASE tasks[s].pc = "pollToken"
  <2>1. tasks[s].tok =< Len(TokenOrder) /\ tasks'[s] = next
        /\ abandoned' = abandoned \cup
             EventsIn({TokenOrder[tasks[s].tok]}, tasks[s].from, tasks[s].from)
    BY <1>2, <1>5 DEF Disconnection
  <2>2. CallHeld(tasks'[s])
    BY <1>1, <1>5, <2>1, TokenCall DEF next
  <2>3. \A u \in Tasks : tasks'[u] = tasks[u] \/ CallHeld(tasks'[u])
    BY <1>2, <1>3, <2>2
  <2>4. \A u \in Tasks \ {s} : tasks[u].pc # "pollToken" \/ tasks'[u] = tasks[u]
    BY <1>1, <1>2
  <2>5. \A e \in EventsIn({TokenOrder[tasks[s].tok]}, tasks[s].from, tasks[s].from) : Settled(e)'
    BY <2>1 DEF Settled
  <2>6. \A e \in Valid(Events) : Pending(e) => Accounted(e)'
    BY <1>5, <2>1, <2>4, <2>5, NextTokenStays DEF IInv, next
  <2> QED BY <1>1, <2>3, <2>6, TakeStep
<1> QED BY <1>4, <1>5

\* The database's answer: the batch is stored, then told of, or lost.
LEMMA BatchSteps ==
  ASSUME IInv, NEW i \in 1..Len(inflight), BatchStep(i)
  PROVE  Safe'
<1>1. tasks' = tasks /\ lastProcessedBlock' = lastProcessedBlock
  BY DEF BatchStep, Commit, SaveFails, SaveAnswerLost, EmitProcessed
<1>2. /\ Order' /\ HistoryGrows /\ EmittedIsStored' /\ StatsMatchRows'
      /\ \A e \in Valid(Events) : InMemory(e) => InMemory(e)' \/ Settled(e)'
      /\ \A f : f \in rows' \/ InMemory(f)' => f \in rows \/ InMemory(f)
  <2>1. CASE Commit(i)
    BY <2>1, CommitKeepsOrder DEF IInv, InMemory
  <2>2. CASE SaveFails(i) \/ SaveAnswerLost(i) \/ EmitProcessed(i)
    BY <2>2, EndKeepsOrder DEF IInv
  <2> QED BY <2>1, <2>2 DEF BatchStep
<1>3. \A e \in Valid(Events) : Pending(e) => Accounted(e)'
  BY <1>1, PendingStays
<1>4. NothingDropped
  BY <1>2, <1>3 DEF NothingDropped
<1>5. Account'
  BY <1>1, <1>2, <1>4, AccountStep DEF IInv
<1> QED BY <1>2, <1>5 DEF Safe

\* The process ends: what it still had in memory of the block its successor
\* resumes after is lost, and of an earlier block it had nothing left.
LEMMA ProcessEndsStep ==
  ASSUME IInv, ProcessEnds
  PROVE  Safe'
<1>1. /\ Len(inflight') = 0 /\ Len(queue') = 0 /\ rows' = rows /\ counted' = counted
      /\ emitted' = emitted /\ HistoryGrows
      /\ \A t \in Tasks : tasks'[t].pc = "idle"
      /\ 1..Len(inflight') = {} /\ 1..Len(queue') = {}
  <2>1. /\ queue' = <<>> /\ inflight' = <<>> /\ UNCHANGED <<db, emitted, abandoned, viaFallback>>
        /\ lost \subseteq lost' /\ tasks' = [t \in Tasks |-> Idle]
    BY DEF ProcessEnds
  <2>2. Len(inflight') = 0 /\ Len(queue') = 0
    BY <2>1, EmptySeq
  <2> QED BY <2>1, <2>2 DEF db, HistoryGrows, Idle
<1>2. InFlight' = {} /\ \A e : ~InMemory(e)'
  BY <1>1 DEF InFlight, InMemory, Elements
<1>3. Order'
  <2>1. OneBatch' /\ SavedIsStored' /\ QueueOrder' /\ InFlightOrder'
    BY <1>1, <1>2 DEF OneBatch, SavedIsStored, QueueOrder, InFlightOrder
  <2>2. NoLossBelowResume'
    BY <1>1, SettledGrows DEF IInv, Order, NoLossBelowResume, HistoryGrows
  <2> QED BY <2>1, <2>2 DEF Order
<1>4. EmittedIsStored' /\ StatsMatchRows'
  BY <1>1 DEF IInv, EmittedIsStored, StatsMatchRows, Stored
<1>5. KnownAccounted'
  <2> SUFFICES ASSUME NEW f \in Events, NEW e \in Valid(Events), f \in rows, e.block =< f.block
               PROVE  Settled(e)'
    BY <1>1, <1>2 DEF KnownAccounted, Accounted
  <2>1. e.block < f.block \/ e.block = f.block
    BY EventFacts, BlockArithmetic DEF Valid
  <2>2. CASE Settled(e)
    BY <1>1, <2>2, SettledGrows
  <2>3. CASE ~Settled(e)
    <3>1. e.block = f.block \/ (e.block < f.block /\ e \in viaFallback)
      BY <2>1, <2>3 DEF IInv, Order, NoLossBelowResume
    <3>2. e \in lost'
      BY <2>3, <3>1 DEF ProcessEnds
    <3> QED BY <3>2 DEF Settled
  <2> QED BY <2>2, <2>3
<1>6. TasksCovered'
  BY <1>1 DEF TasksCovered, TaskCovered, Fetching
<1>7. NoSilentGap'
  <2>1. \A e \in Valid(Events) : e.block \in Int /\ e.block > MinBlock
    BY EventFacts DEF Valid
  <2>2. \A x \in Int : x > MinBlock => ~(x =< 0)
    BY BlockBounds
  <2>3. lastProcessedBlock' = 0
    BY DEF ProcessEnds
  <2> QED BY <2>1, <2>2, <2>3 DEF NoSilentGap
<1> QED BY <1>3, <1>4, <1>5, <1>6, <1>7 DEF Safe, Account

-----------------------------------------------------------------------------
(* The invariant.                                                          *)

\* Nothing is stored, queued or emitted in the initial states.
LEMMA SafetyInit == Init => IInv
<1> SUFFICES ASSUME Init PROVE IInv
  OBVIOUS
<1>1. TypeOK /\ PollStart /\ OneBatch
  BY TypeInit DEF Typed
<1>2. /\ rows = {} /\ emitted = {} /\ counted = {} /\ lastProcessedBlock = 0
      /\ 1..Len(inflight) = {} /\ 1..Len(queue) = {} /\ \A t \in Tasks : tasks[t].pc = "idle"
  <2>1. Len(inflight) = 0 /\ Len(queue) = 0
    BY EmptySeq DEF Init
  <2> QED BY <2>1 DEF Init, Idle
<1>3. InFlight = {} /\ \A e : ~InMemory(e)
  BY <1>2 DEF InFlight, InMemory, Elements
<1>4. Order
  BY <1>1, <1>2, <1>3 DEF Order, SavedIsStored, QueueOrder, InFlightOrder, NoLossBelowResume
<1>5. NoSilentGap
  <2>1. \A e \in Valid(Events) : e.block \in Int /\ e.block > MinBlock
    BY EventFacts DEF Valid
  <2>2. \A x \in Int : x > MinBlock => ~(x =< 0)
    BY BlockBounds
  <2> QED BY <1>2, <2>1, <2>2 DEF NoSilentGap
<1>6. Account
  BY <1>2, <1>3, <1>5 DEF Account, KnownAccounted, TasksCovered, TaskCovered, Fetching
<1>7. EmittedIsStored /\ StatsMatchRows
  BY <1>2 DEF EmittedIsStored, StatsMatchRows
<1> QED BY <1>1, <1>4, <1>6, <1>7 DEF IInv

\* Every step preserves the invariant.
LEMMA SafetyStep ==
  ASSUME IInv, [Next]_vars
  PROVE  IInv'
<1>1. TypeOK' /\ PollStart'
  <2>1. Typed
    BY DEF Typed, IInv, Order
  <2>2. Typed'
    BY <2>1, TypeStep
  <2> QED BY <2>2 DEF Typed
<1> SUFFICES Safe'
  BY <1>1 DEF IInv, Safe
<1>2. CASE UNCHANGED vars
  <2>1. tasks' = tasks /\ UNCHANGED <<db, emitted, lost, viaFallback, lastProcessedBlock, pipeline>>
        /\ abandoned \subseteq abandoned'
    BY <1>2 DEF vars, history
  <2>2. \A e \in Valid(Events) : Pending(e) => Accounted(e)'
    BY <2>1, PendingStays
  <2> QED BY <2>1, <2>2, TakeStep
<1>3. ASSUME NEW t \in Tasks, TaskStep(t) PROVE Safe'
  <2>1. CASE \/ \E b \in Blocks : LoadSavedBlock(t, b)
             \/ LoadSavedBlockFails(t) \/ StartBlockPolling(t) \/ PollFails(t) \/ CatchUpFromLast(t)
    BY <2>1, WaitingSteps, JumpStep
  <2>2. CASE \E h \in HeadAnswers : StartFrom(t, h) \/ PollFrom(t, h)
    BY <2>2, StartStep, PollStep DEF HeadAnswers
  <2>3. CASE CatchUpBatch(t) \/ ProcessBlock(t) \/ FetchToken(t)
    BY <2>3, FetchSteps
  <2>4. CASE CatchUpBatchFails(t) \/ ProcessBlockFails(t) \/ FetchTokenFails(t) \/ FallbackEnds(t)
    BY <2>4, CatchUpFailsStep, BlockFailsStep, TokenFailsStep, FallbackEndsStep
  <2>5. CASE StopTail(t) \/ ShutdownTail(t) \/ SecondStopRejects(t)
    BY <2>5, StopSteps
  <2>6. CASE Exit(t)
    BY <2>6, ProcessEndsStep DEF Exit
  <2> QED BY <1>3, <2>1, <2>2, <2>3, <2>4, <2>5, <2>6 DEF TaskStep
<1>4. CASE NewBlock \/ Boot \/ ProcessingTimer
  BY <1>4, TimerSteps
<1>5. CASE Crash
  BY <1>5, ProcessEndsStep DEF Crash
<1>6. ASSUME NEW t \in Tasks, Connection(t) \/ PollTimer(t) PROVE Safe'
  BY <1>6, WaitingSteps
<1>7. ASSUME NEW t \in Tasks, SigTerm(t) \/ StartFails(t) PROVE Safe'
  BY <1>7, StopSteps
<1>8. ASSUME NEW t \in Tasks, NEW s \in Tasks, Disconnection(t, s) PROVE Safe'
  BY <1>8, DisconnectionStep
<1>9. ASSUME NEW i \in 1..Len(inflight), BatchStep(i) PROVE Safe'
  BY <1>9, BatchSteps
<1>10. CASE Next
  BY <1>3, <1>4, <1>5, <1>6, <1>7, <1>8, <1>9, <1>10 DEF Next
<1> QED BY <1>2, <1>10

\* The invariant of ingestion: IInv holds in every state.
THEOREM IngestionInvariant == Spec => []IInv
BY SafetyInit, SafetyStep, PTL DEF Spec

\* lastProcessedBlock never runs ahead of what was fetched, whatever starts,
\* polls, catch-ups, fallbacks, stops and failures overlap.
THEOREM NothingSkippedSilently == Spec => []NoSilentGap
<1>1. IInv => NoSilentGap
  BY DEF IInv, Account
<1> QED BY <1>1, IngestionInvariant, PTL

\* A crash or a stop costs no transfer of a block below the one the next process
\* resumes after, except of a block that went through the token fallback.
THEOREM RestartLosesNothingBelow == Spec => []NoLossBelowResume
<1>1. IInv => NoLossBelowResume
  BY DEF IInv, Order
<1> QED BY <1>1, IngestionInvariant, PTL

\* NEW_TRANSACTION is emitted for stored and counted transfers only.
THEOREM EmissionFollowsCommit == Spec => []EmittedIsStored
<1>1. IInv => EmittedIsStored
  BY DEF IInv
<1> QED BY <1>1, IngestionInvariant, PTL

\* Rows and statistics agree, and a hash has one row.
THEOREM StatisticsFollowRows == Spec => []StatsMatchRows
<1>1. IInv => StatsMatchRows
  BY DEF IInv
<1> QED BY <1>1, IngestionInvariant, PTL
-----------------------------------------------------------------------------
(* Refinement: the initial states are initial states of the ledger, and by *)
(* IInv each step is a step of the ledger or leaves it alone.              *)

LedgerVars == <<InMemoryTransfers, rows, counted, emitted>>
LedgerStep == Ledger!Next \/ UNCHANGED LedgerVars

\* Memory holds transfers of the chain.
LEMMA MemoryTyped ==
  ASSUME TypeOK
  PROVE  InMemoryTransfers \subseteq Valid(Events)
<1>1. \A i \in 1..Len(queue) : queue[i] \in Events
  BY ElementOfSeq DEF TypeOK
<1>2. \A i \in 1..Len(inflight) :
        /\ inflight[i].events \in Seq(Events)
        /\ \A j \in 1..Len(inflight[i].events) : inflight[i].events[j] \in Events
  <2> SUFFICES ASSUME NEW i \in 1..Len(inflight)
               PROVE  /\ inflight[i].events \in Seq(Events)
                      /\ \A j \in 1..Len(inflight[i].events) : inflight[i].events[j] \in Events
    OBVIOUS
  <2>1. inflight[i] \in Batch
    BY ElementOfSeq DEF TypeOK
  <2>2. inflight[i].events \in Seq(Events)
    BY <2>1 DEF Batch
  <2> QED BY <2>2, ElementOfSeq
<1>3. Elements(queue) \subseteq Events
  BY <1>1 DEF Elements
<1>4. InFlight \subseteq Events
  BY <1>2 DEF InFlight, Elements
<1> QED BY <1>3, <1>4 DEF InMemoryTransfers, Valid

\* A step that keeps memory and the tables is a stutter of the ledger.
LEMMA MemoryKept ==
  ASSUME \A e : InMemory(e)' <=> InMemory(e), UNCHANGED <<db, emitted>>
  PROVE  LedgerStep
<1>1. InMemoryTransfers' = InMemoryTransfers
  BY DEF InMemoryTransfers, InMemory, Valid
<1> QED BY <1>1 DEF LedgerStep, LedgerVars, db

\* A step that takes a batch or leaves the pipeline alone.
LEMMA TakeIsStutter ==
  ASSUME IInv, NEW by \in Tasks \cup {"timer"},
         (CanProcess /\ TakeBatch(by)) \/ UNCHANGED pipeline,
         UNCHANGED <<db, emitted, lost, viaFallback>>, abandoned \subseteq abandoned'
  PROVE  LedgerStep
<1>1. rows' = rows /\ counted' = counted /\ HistoryGrows
  BY DEF db, HistoryGrows
<1>2. CASE CanProcess /\ TakeBatch(by)
  BY <1>1, <1>2, TakeKeepsOrder, MemoryKept DEF IInv
<1>3. CASE UNCHANGED pipeline
  BY <1>1, <1>3, SamePipeline, MemoryKept DEF IInv
<1> QED BY <1>2, <1>3

\* A call that waits, decides its range, gives up a fetch or stops the monitor,
\* a timer, a restart and a new block.
LEMMA CallIsStutter ==
  ASSUME IInv, NEW t \in Tasks,
         \/ Connection(t) \/ PollTimer(t) \/ StartBlockPolling(t) \/ PollFails(t)
         \/ LoadSavedBlockFails(t) \/ \E b \in Blocks : LoadSavedBlock(t, b)
         \/ \E h \in HeadAnswers : StartFrom(t, h) \/ PollFrom(t, h)
         \/ CatchUpFromLast(t) \/ CatchUpBatchFails(t) \/ FetchTokenFails(t) \/ FallbackEnds(t)
  PROVE  LedgerStep
<1>1. /\ UNCHANGED <<pipeline, db, emitted, lost, viaFallback>>
      /\ abandoned \subseteq abandoned'
  BY DEF Connection, PollTimer, StartBlockPolling, PollFails, LoadSavedBlockFails, LoadSavedBlock,
         StartFrom, CatchUpFromLast, PollFrom, CatchUpBatchFails, FetchTokenFails, FallbackEnds,
         history
<1> QED BY <1>1, TakeIsStutter

\* The request for all tokens fails: the pipeline and the tables stay.
LEMMA BlockFailsIsStutter ==
  ASSUME NEW t \in Tasks, ProcessBlockFails(t)
  PROVE  LedgerStep
<1>1. UNCHANGED <<pipeline, db, emitted>>
  BY DEF ProcessBlockFails
<1>2. \A e : InMemory(e)' <=> InMemory(e)
  BY <1>1 DEF InMemory, InFlight, pipeline
<1> QED BY <1>1, <1>2, MemoryKept

\* Whatever stops the monitor takes one batch at most.
LEMMA StopIsStutter ==
  ASSUME IInv, NEW t \in Tasks, NEW s \in Tasks,
         \/ SigTerm(t) \/ StartFails(t) \/ StopTail(t) \/ ShutdownTail(t) \/ SecondStopRejects(t)
         \/ Disconnection(t, s)
  PROVE  LedgerStep
<1>1. /\ UNCHANGED <<db, emitted, lost, viaFallback>>
      /\ abandoned \subseteq abandoned'
  BY DEF SigTerm, StartFails, StopTail, ShutdownTail, SecondStopRejects, Disconnection, history
<1>2. (CanProcess /\ TakeBatch(t)) \/ UNCHANGED pipeline
  BY DEF SigTerm, StartFails, StopTail, ShutdownTail, SecondStopRejects, Disconnection,
         StopMonitoring, StopTimersAndProcess
<1> QED BY <1>1, <1>2, TakeIsStutter

\* The timers and the environment.
LEMMA TimerIsStutter ==
  ASSUME IInv, ProcessingTimer \/ Boot \/ NewBlock
  PROVE  LedgerStep
<1>1. /\ UNCHANGED <<db, emitted, lost, viaFallback>>
      /\ abandoned \subseteq abandoned'
      /\ (CanProcess /\ TakeBatch("timer")) \/ UNCHANGED pipeline
  BY DEF ProcessingTimer, Boot, NewBlock, history
<1> QED BY <1>1, TakeIsStutter

\* queueEvent appends: what is in memory stays there.
LEMMA PushKeepsMemory ==
  ASSUME TypeOK, NEW S, S = Tokens \/ \E k \in Tokens : S = {k},
         NEW a \in Blocks, NEW b \in Blocks, QueueEvents(GetLogs[S, a, b])
  PROVE  Elements(queue) \subseteq Elements(queue')
<1>1. GetLogs[S, a, b] \in Seq(Events) /\ queue \in Seq(Events)
  BY LogsTyped DEF TypeOK
<1>2. Elements(queue \o GetLogs[S, a, b]) = Elements(queue) \cup Elements(GetLogs[S, a, b])
  BY <1>1, ConcatElements
<1> QED BY <1>2 DEF QueueEvents

\* The token a fallback is at.
LEMMA TokenAt ==
  ASSUME NEW i \in 1..(Len(TokenOrder) + 1), i =< Len(TokenOrder)
  PROVE  TokenOrder[i] \in Tokens
<1>1. Len(TokenOrder) \in Nat
  BY EventAssumption, LenProperties
<1>2. i \in 1..Len(TokenOrder)
  BY <1>1
<1> QED BY <1>2, EventAssumption, ElementOfSeq

\* An answer of eth_getLogs is queued: the ledger fetches.
LEMMA FetchIsFetch ==
  ASSUME IInv, TypeOK', NEW t \in Tasks, CatchUpBatch(t) \/ ProcessBlock(t) \/ FetchToken(t)
  PROVE  LedgerStep
<1>1. UNCHANGED <<isProcessing, inflight, db, emitted>>
  BY DEF CatchUpBatch, ProcessBlock, FetchToken
<1>2. tasks[t].from \in Blocks /\ tasks[t].tok \in 1..(Len(TokenOrder) + 1) /\ TypeOK
  BY DEF IInv, TypeOK, Task
<1>3. Elements(queue) \subseteq Elements(queue')
  <2>1. CASE CatchUpBatch(t)
    <3>1. BatchEnd(t) \in Blocks /\ QueueEvents(GetLogs[Tokens, tasks[t].from, BatchEnd(t)])
      BY <1>2, <2>1, BatchEndTyped DEF CatchUpBatch
    <3> QED BY <1>2, <3>1, PushKeepsMemory
  <2>2. CASE ProcessBlock(t)
    <3>1. QueueEvents(GetLogs[Tokens, tasks[t].from, tasks[t].from])
      BY <2>2 DEF ProcessBlock
    <3> QED BY <1>2, <3>1, PushKeepsMemory
  <2>3. CASE FetchToken(t)
    <3>1. /\ tasks[t].tok =< Len(TokenOrder)
          /\ QueueEvents(GetLogs[{TokenOrder[tasks[t].tok]}, tasks[t].from, tasks[t].from])
      BY <2>3 DEF FetchToken
    <3>2. TokenOrder[tasks[t].tok] \in Tokens
      BY <1>2, <3>1, TokenAt
    <3> QED BY <1>2, <3>1, <3>2, PushKeepsMemory
  <2> QED BY <2>1, <2>2, <2>3
<1>4. InFlight' = InFlight
  BY <1>1 DEF InFlight
<1>5. InMemoryTransfers \subseteq InMemoryTransfers'
  BY <1>3, <1>4 DEF InMemoryTransfers, Valid, Elements
<1>6. InMemoryTransfers' \subseteq Valid(Events)
  <2>1. (TypeOK => InMemoryTransfers \subseteq Valid(Events))'
    BY MemoryTyped, PTL
  <2> QED BY <2>1 DEF Valid
<1>7. Ledger!Fetch
  BY <1>1, <1>5, <1>6 DEF Ledger!Fetch, Ledger!ledger, db
<1> QED BY <1>7 DEF LedgerStep, Ledger!Next

\* The transaction commits: the ledger records the batch.
LEMMA CommitIsRecord ==
  ASSUME IInv, NEW i \in 1..Len(inflight), Commit(i)
  PROVE  LedgerStep
<1> DEFINE ev == inflight[i].events
           B == Valid(Elements(ev))
           new == rows' \ rows
<1>1. SaveTransactionBatch(ev) /\ emitted' = emitted
  BY DEF Commit
<1>2. ev \in Seq(Events)
  <2>1. inflight[i] \in Batch
    BY ElementOfSeq DEF IInv, TypeOK
  <2> QED BY <2>1 DEF Batch
<1>3. B \subseteq InMemoryTransfers
  BY DEF InMemoryTransfers, InFlight, Valid
<1>4. InMemoryTransfers' = InMemoryTransfers
  <2>1. \A e : InMemory(e)' <=> InMemory(e)
    BY CommitKeepsOrder DEF IInv
  <2> QED BY <2>1 DEF InMemoryTransfers, InMemory, Valid
<1> HIDE DEF ev
<1>5. /\ rows \subseteq rows' /\ rows' \subseteq rows \cup B
      /\ counted' = counted \cup B
      /\ \A e \in B : Stored(e)'
      /\ StatsMatchRows'
  BY <1>1, <1>2, CommitStores DEF IInv
<1>6. new \subseteq B /\ rows' = rows \cup new
  BY <1>5
<1>7. \A e \in new : \A r \in rows' : r.hash = e.hash => r = e
  BY <1>5 DEF StatsMatchRows
<1>8. \A e \in B : \E r \in rows' : r.hash = e.hash
  BY <1>5 DEF Stored
<1>9. Ledger!Record
  <2> HIDE DEF B, new
  <2>1. \E N \in SUBSET B : /\ rows' = rows \cup N
                            /\ \A e \in N : \A r \in rows' : r.hash = e.hash => r = e
                            /\ \A e \in B : \E r \in rows' : r.hash = e.hash
    BY <1>6, <1>7, <1>8
  <2> QED BY <1>1, <1>3, <1>4, <1>5, <2>1 DEF Ledger!Record
<1> QED BY <1>9 DEF LedgerStep, Ledger!Next

\* A batch is told of, fails or loses its answer: the ledger announces or forgets.
LEMMA EndIsAnnounce ==
  ASSUME IInv, NEW i \in 1..Len(inflight),
         SaveFails(i) \/ SaveAnswerLost(i) \/ EmitProcessed(i)
  PROVE  LedgerStep
<1>1. UNCHANGED db
  BY DEF SaveFails, SaveAnswerLost, EmitProcessed
<1>2. InMemoryTransfers' \subseteq InMemoryTransfers
  <2>1. \A e : InMemory(e)' => InMemory(e)
    BY EndKeepsOrder DEF IInv
  <2> QED BY <2>1 DEF InMemoryTransfers, InMemory, Valid
<1>3. CASE SaveFails(i) \/ SaveAnswerLost(i)
  <2>1. UNCHANGED emitted
    BY <1>3 DEF SaveFails, SaveAnswerLost
  <2>2. Ledger!Forget
    BY <1>1, <1>2, <2>1 DEF Ledger!Forget, Ledger!ledger, db
  <2> QED BY <2>2 DEF LedgerStep, Ledger!Next
<1>4. CASE EmitProcessed(i)
  <2> DEFINE B == Valid(Elements(inflight[i].events))
  <2>1. inflight[i].saved /\ emitted' = emitted \cup B
    BY <1>4 DEF EmitProcessed
  <2>2. B \subseteq counted
    BY <2>1 DEF IInv, Order, SavedIsStored
  <2>3. B \subseteq InMemoryTransfers
    BY DEF InMemoryTransfers, InFlight, Valid
  <2> HIDE DEF B
  <2>4. Ledger!Announce
    BY <1>1, <1>2, <2>1, <2>2, <2>3 DEF Ledger!Announce, db
  <2> QED BY <2>4 DEF LedgerStep, Ledger!Next
<1> QED BY <1>3, <1>4

\* The process ends: the ledger forgets what memory held.
LEMMA EndsIsForget ==
  ASSUME ProcessEnds
  PROVE  LedgerStep
<1>1. queue' = <<>> /\ inflight' = <<>> /\ UNCHANGED <<db, emitted>>
  BY DEF ProcessEnds
<1>2. 1..Len(queue') = {} /\ 1..Len(inflight') = {}
  <2>1. Len(queue') = 0 /\ Len(inflight') = 0
    BY <1>1, EmptySeq
  <2> QED BY <2>1
<1>3. InMemoryTransfers' = {}
  BY <1>2 DEF InMemoryTransfers, InFlight, Elements, Valid
<1>4. Ledger!Forget
  BY <1>1, <1>3 DEF Ledger!Forget, Ledger!ledger, db
<1> QED BY <1>4 DEF LedgerStep, Ledger!Next

\* Every step of the scanner is a step of the ledger, or none.
LEMMA LedgerSteps ==
  ASSUME IInv, [Next]_vars
  PROVE  LedgerStep
<1>1. TypeOK'
  BY SafetyStep DEF IInv
<1>2. CASE UNCHANGED vars
  BY <1>2 DEF vars, pipeline, db, LedgerStep, LedgerVars, InMemoryTransfers, InFlight, Valid
<1>3. ASSUME NEW t \in Tasks, TaskStep(t) PROVE LedgerStep
  <2>1. CASE CatchUpBatch(t) \/ ProcessBlock(t) \/ FetchToken(t)
    BY <1>1, <2>1, FetchIsFetch
  <2>2. CASE StopTail(t) \/ ShutdownTail(t) \/ SecondStopRejects(t)
    BY <2>2, StopIsStutter
  <2>3. CASE Exit(t)
    BY <2>3, EndsIsForget DEF Exit
  <2>4. CASE ProcessBlockFails(t)
    BY <2>4, BlockFailsIsStutter
  <2> QED BY <1>3, <2>1, <2>2, <2>3, <2>4, CallIsStutter DEF TaskStep
<1>4. CASE NewBlock \/ Boot \/ ProcessingTimer
  BY <1>4, TimerIsStutter
<1>5. CASE Crash
  BY <1>5, EndsIsForget DEF Crash
<1>6. ASSUME NEW t \in Tasks, Connection(t) \/ PollTimer(t) PROVE LedgerStep
  BY <1>6, CallIsStutter
<1>7. ASSUME NEW t \in Tasks, SigTerm(t) \/ StartFails(t) PROVE LedgerStep
  BY <1>7, StopIsStutter
<1>8. ASSUME NEW t \in Tasks, NEW s \in Tasks, Disconnection(t, s) PROVE LedgerStep
  BY <1>8, StopIsStutter
<1>9. ASSUME NEW i \in 1..Len(inflight), BatchStep(i) PROVE LedgerStep
  BY <1>9, CommitIsRecord, EndIsAnnounce DEF BatchStep
<1>10. CASE Next
  BY <1>3, <1>4, <1>5, <1>6, <1>7, <1>8, <1>9, <1>10 DEF Next
<1> QED BY <1>2, <1>10

\* The initial states of the scanner are initial states of the ledger.
LEMMA LedgerInit == Init => Ledger!Init
<1> SUFFICES ASSUME Init PROVE Ledger!Init
  OBVIOUS
<1>1. Len(queue) = 0 /\ Len(inflight) = 0
  BY EmptySeq DEF Init
<1>2. InMemoryTransfers = {}
  BY <1>1 DEF InMemoryTransfers, InFlight, Elements, Valid
<1> QED BY <1>2 DEF Init, Ledger!Init

\* The ingestion pipeline, with every overlap, failure, stop and crash, implements
\* the ledger that only grows (the promise of saveTransactionBatch and of
\* NEW_TRANSACTION to their readers).
THEOREM LedgerImplemented == Spec => ImplementsLedger
<1>1. IInv /\ [Next]_vars => [Ledger!Next]_<<InMemoryTransfers, Ledger!ledger>>
  BY LedgerSteps DEF LedgerStep, LedgerVars, Ledger!ledger
<1> QED BY <1>1, LedgerInit, IngestionInvariant, PTL DEF Spec, ImplementsLedger, Ledger!Spec
-----------------------------------------------------------------------------
(* One call at a time.  The invariant: what was fetched is behind the call  *)
(* in progress, or behind lastProcessedBlock, so nothing is fetched again.  *)

\* No other call is in progress.
OneCaller == \A t, u \in Tasks : t = u

\* A start that is too far behind does not jump back (config: 50000 and 100000).
JumpsForward == CatchUpMaxBlocks =< CatchUpMaxGap + 1

Distinct(s) == \A i, j \in 1..Len(s) : s[i] = s[j] => i = j

Memory  == Elements(queue) \cup InFlight
Behind  == counted \ reread
Fetched == Memory \cup Behind

\* Every event in memory is there once and not counted, but for a batch already saved
\* and for what a start fetches again.
MemoryOnce ==
  /\ Distinct(queue) /\ \A e \in Elements(queue) : e \notin InFlight /\ e \notin Behind
  /\ \A i \in 1..Len(inflight) :
       /\ Distinct(inflight[i].events)
       /\ ~inflight[i].saved => \A e \in Elements(inflight[i].events) : e \notin Behind

CatchUps == {"startCatchUp", "pollCatchUp"}
Starting == {"loadSaved", "startHead"}
Stopping == {"shutdown", "disconnect", "leave"}
Running  == {"startJump", "settle", "pollHead", "pollBlock", "pollToken"} \cup CatchUps

\* The call c does not fetch e any more.
Passed(c, e) ==
  /\ c.pc = "startHead" => e.block =< c.from
  /\ c.pc \in {"startJump", "pollHead", "settle"} \cup CatchUps => e.block =< lastProcessedBlock
  /\ c.pc = "idle" /\ pollTimer => e.block =< lastProcessedBlock
  /\ c.pc \in Fetching => e.block < c.from
  /\ c.pc = "pollToken" => \/ e.block < c.from
                           \/ e.block = c.from /\ \E k \in 1..(c.tok - 1) : TokenOrder[k] = e.token

CallsAhead == \A t \in Tasks, e \in Fetched : Passed(tasks[t], e)

RangesGoUp == \A t \in Tasks : tasks[t].pc \in CatchUps => tasks[t].from =< tasks[t].to

\* The monitor has started when its processing timer is set: before that nothing
\* is in memory, and a call that stops it ends the process.
StartedOnce(c) ==
  /\ c.pc \in {"idle"} \cup Starting \cup Running \cup Stopping
  /\ c.pc \in Starting \cup Stopping => ~procTimer
  /\ c.pc \in Running => procTimer
  /\ pollTimer => procTimer
  /\ ~procTimer /\ c.pc \notin Stopping => Memory = {}

OneStart == \A t \in Tasks : StartedOnce(tasks[t])

CountInv == CountedOnce /\ MemoryOnce /\ CallsAhead /\ RangesGoUp /\ OneStart

-----------------------------------------------------------------------------
(* The memory.                                                             *)

\* A step that leaves the memory and the tables alone.
LEMMA SameMemory ==
  ASSUME UNCHANGED <<pipeline, db>>, reread \subseteq reread'
  PROVE  /\ Memory' = Memory /\ Behind' \subseteq Behind
         /\ reread' = reread => Fetched' = Fetched
         /\ (MemoryOnce => MemoryOnce') /\ (CountedOnce => CountedOnce')
<1>1. queue' = queue /\ inflight' = inflight /\ counted' = counted /\ recounted' = recounted
  BY DEF pipeline, db
<1>2. InFlight' = InFlight /\ Memory' = Memory /\ Behind' \subseteq Behind
  BY <1>1 DEF InFlight, Memory, Behind
<1>3. reread' = reread => Fetched' = Fetched
  BY <1>1, <1>2 DEF Fetched, Behind
<1>4. MemoryOnce => MemoryOnce'
  BY <1>1, <1>2 DEF MemoryOnce
<1>5. CountedOnce => CountedOnce'
  BY <1>1 DEF CountedOnce
<1> QED BY <1>2, <1>3, <1>4, <1>5

\* Two positions at the same distance of a third.
LEMMA SameShift ==
  \A n, m \in Nat : \A i, j \in 1..m : i - n = j - n => i = j
OBVIOUS

\* The logs of blocks nothing was fetched of come into the memory once.
LEMMA PushOnce ==
  ASSUME TypeOK, MemoryOnce, CountedOnce, NEW S, S = Tokens \/ \E k \in Tokens : S = {k},
         NEW a \in Blocks, NEW b \in Blocks, QueueEvents(GetLogs[S, a, b]),
         UNCHANGED <<inflight, db, reread>>, \A e \in EventsIn(S, a, b) : e \notin Fetched
  PROVE  MemoryOnce' /\ CountedOnce' /\ Fetched' = Fetched \cup EventsIn(S, a, b)
<1> DEFINE logs == GetLogs[S, a, b]
<1>1. /\ logs \in Seq(Events) /\ Elements(logs) = EventsIn(S, a, b)
      /\ \A i, j \in 1..Len(logs) : logs[i] = logs[j] => i = j
  <2>1. S \in {Tokens} \cup {{k} : k \in Tokens}
    OBVIOUS
  <2> QED BY <2>1, LogsTyped, LogsAssumption
<1>2. queue \in Seq(Events) /\ queue' = queue \o logs
  BY DEF TypeOK, QueueEvents
<1> HIDE DEF logs
<1>3. /\ Len(queue') = Len(queue) + Len(logs)
      /\ Len(queue) \in Nat /\ Len(logs) \in Nat /\ Len(queue') \in Nat
      /\ \A i \in 1..Len(queue) : queue'[i] = queue[i]
      /\ \A i \in 1..Len(logs) : queue'[Len(queue) + i] = logs[i]
      /\ Elements(queue') = Elements(queue) \cup EventsIn(S, a, b)
  <2>1. /\ Len(queue \o logs) = Len(queue) + Len(logs) /\ Len(queue) \in Nat /\ Len(logs) \in Nat
        /\ \A i \in 1..Len(queue) : (queue \o logs)[i] = queue[i]
        /\ \A i \in 1..Len(logs) : (queue \o logs)[Len(queue) + i] = logs[i]
        /\ Elements(queue \o logs) = Elements(queue) \cup Elements(logs)
    BY <1>1, <1>2, ConcatElements, LenProperties
  <2>2. Len(queue \o logs) \in Nat
    BY <1>1, <1>2, ConcatElements, LenProperties
  <2> QED BY <1>1, <1>2, <2>1, <2>2
<1>4. InFlight' = InFlight /\ Behind' = Behind /\ CountedOnce'
  BY DEF InFlight, Behind, CountedOnce, db
<1>5. Fetched' = Fetched \cup EventsIn(S, a, b)
  BY <1>3, <1>4 DEF Fetched, Memory
<1>6. ASSUME NEW i \in 1..Len(queue')
      PROVE  \/ i \in 1..Len(queue) /\ queue'[i] = queue[i] /\ queue'[i] \in Elements(queue)
             \/ /\ i - Len(queue) \in 1..Len(logs) /\ queue'[i] = logs[i - Len(queue)]
                /\ queue'[i] \in EventsIn(S, a, b) /\ i \notin 1..Len(queue)
  <2>1. CASE i \in 1..Len(queue)
    BY <1>3, <2>1 DEF Elements
  <2>2. CASE i \notin 1..Len(queue)
    <3>1. i - Len(queue) \in 1..Len(logs) /\ Len(queue) + (i - Len(queue)) = i
      <4>1. Len(queue) \in Nat /\ Len(logs) \in Nat /\ i \in 1..(Len(queue) + Len(logs))
        BY <1>3
      <4> QED BY <2>2, <4>1, TailIndex
    <3>2. queue'[i] = logs[i - Len(queue)]
      BY <1>3, <3>1
    <3>3. queue'[i] \in EventsIn(S, a, b)
      BY <1>1, <3>1, <3>2 DEF Elements
    <3> QED BY <2>2, <3>1, <3>2, <3>3
  <2> QED BY <2>1, <2>2
<1>7. Distinct(queue')
  <2> SUFFICES ASSUME NEW i \in 1..Len(queue'), NEW j \in 1..Len(queue'), queue'[i] = queue'[j]
               PROVE  i = j
    BY DEF Distinct
  <2>1. \A e \in Elements(queue) : e \notin EventsIn(S, a, b)
    BY DEF Fetched, Memory
  <2>2. CASE i \in 1..Len(queue) /\ j \in 1..Len(queue)
    BY <1>3, <2>2 DEF MemoryOnce, Distinct
  <2>3. CASE i \notin 1..Len(queue) /\ j \notin 1..Len(queue)
    <3> DEFINE x == i - Len(queue)
               y == j - Len(queue)
    <3>2. /\ x \in 1..Len(logs) /\ queue'[i] = logs[x]
          /\ y \in 1..Len(logs) /\ queue'[j] = logs[y]
      BY <1>6, <2>3
    <3> HIDE DEF x, y
    <3>3. x = y
      BY <1>1, <3>2
    <3>1. i - Len(queue) = j - Len(queue)
      BY <3>3 DEF x, y
    <3>4. Len(queue) \in Nat /\ Len(queue') \in Nat
      BY <1>3
    <3> QED BY <3>1, <3>4, SameShift
  <2> QED BY <1>6, <2>1, <2>2, <2>3
<1>8. \A e \in Elements(queue') : e \notin InFlight' /\ e \notin Behind'
  BY <1>3, <1>4 DEF MemoryOnce, Fetched, Memory
<1>9. \A i \in 1..Len(inflight') :
        /\ Distinct(inflight'[i].events)
        /\ ~inflight'[i].saved => \A e \in Elements(inflight'[i].events) : e \notin Behind'
  BY <1>4 DEF MemoryOnce
<1> QED BY <1>4, <1>5, <1>7, <1>8, <1>9 DEF MemoryOnce

\* A batch takes its events out of the queue.
LEMMA TakeOnce ==
  ASSUME TypeOK, OneBatch, MemoryOnce, CountedOnce, NEW by \in Tasks \cup {"timer"},
         (CanProcess /\ TakeBatch(by)) \/ UNCHANGED pipeline, UNCHANGED <<db, reread>>
  PROVE  MemoryOnce' /\ CountedOnce' /\ Fetched' = Fetched /\ Memory' = Memory
<1>1. CASE UNCHANGED pipeline
  BY <1>1, SameMemory
<1>2. CASE CanProcess /\ TakeBatch(by)
  <2>1. PICK n \in 1..Len(queue) :
          /\ InFlight = {} /\ Len(inflight') = 1 /\ inflight'[1].saved = FALSE
          /\ Len(queue') = Len(queue) - n
          /\ \A i \in 1..Len(queue') : queue'[i] = queue[n + i]
          /\ InFlight' = {queue[i] : i \in 1..n}
          /\ Len(inflight'[1].events) = n
          /\ \A i \in 1..n : inflight'[1].events[i] = queue[i]
    BY <1>2, TakeBatchSplits DEF TypeOK
  <2>2. /\ Len(queue) \in Nat /\ n \in Nat
        /\ \A i \in 1..n : i \in 1..Len(queue)
        /\ \A i \in 1..Len(queue') : n + i \in 1..Len(queue) /\ n + i \notin 1..n
        /\ \A i \in 1..Len(queue) : i \in 1..n \/ (i - n \in 1..Len(queue') /\ n + (i - n) = i)
    <3>1. Len(queue) \in Nat
      BY LenProperties DEF TypeOK
    <3> QED BY <2>1, <3>1
  <2>3. /\ Behind' = Behind /\ CountedOnce'
        /\ \A i, j \in 1..Len(queue) : queue[i] = queue[j] => i = j
        /\ \A i \in 1..Len(queue) : queue[i] \notin Behind
    BY DEF db, MemoryOnce, Distinct, Elements, Behind, CountedOnce
  <2>4. Elements(queue') \cup InFlight' = Elements(queue)
    <3>1. ASSUME NEW i \in 1..Len(queue') PROVE queue'[i] \in Elements(queue)
      BY <2>1, <2>2 DEF Elements
    <3>2. ASSUME NEW i \in 1..n PROVE queue[i] \in Elements(queue)
      BY <2>2 DEF Elements
    <3>3. ASSUME NEW i \in 1..Len(queue) PROVE queue[i] \in Elements(queue') \cup InFlight'
      <4>1. CASE i \in 1..n
        BY <2>1, <4>1
      <4>2. CASE i - n \in 1..Len(queue') /\ n + (i - n) = i
        <5>1. queue[i] = queue'[i - n]
          BY <2>1, <4>2
        <5> QED BY <4>2, <5>1 DEF Elements
      <4> QED BY <2>2, <4>1, <4>2
    <3> QED BY <2>1, <3>1, <3>2, <3>3 DEF Elements
  <2>5. Fetched' = Fetched /\ Memory' = Memory
    BY <2>1, <2>3, <2>4 DEF Fetched, Memory
  <2>6. Distinct(queue')
    <3> SUFFICES ASSUME NEW i \in 1..Len(queue'), NEW j \in 1..Len(queue'), queue'[i] = queue'[j]
                 PROVE  i = j
      BY DEF Distinct
    <3>1. n + i = n + j
      BY <2>1, <2>2, <2>3
    <3> QED BY <2>2, <3>1
  <2>7. \A e \in Elements(queue') : e \notin InFlight' /\ e \notin Behind'
    <3> SUFFICES ASSUME NEW i \in 1..Len(queue') PROVE queue'[i] \notin InFlight' /\ queue'[i] \notin Behind
      BY <2>3 DEF Elements
    <3>1. \A j \in 1..n : queue[j] # queue[n + i]
      BY <2>2, <2>3
    <3> QED BY <2>1, <2>2, <2>3, <3>1
  <2>8. \A k \in 1..Len(inflight') : k = 1
    BY <2>1
  <2>9. Distinct(inflight'[1].events)
    BY <2>1, <2>2, <2>3 DEF Distinct
  <2>10. \A e \in Elements(inflight'[1].events) : e \notin Behind'
    BY <2>1, <2>2, <2>3 DEF Elements
  <2>11. MemoryOnce'
    BY <2>6, <2>7, <2>8, <2>9, <2>10 DEF MemoryOnce
  <2> QED BY <2>3, <2>5, <2>11
<1> QED BY <1>1, <1>2

\* A batch is counted once, and then is in memory no more.
LEMMA BatchOnce ==
  ASSUME TypeOK, OneBatch, MemoryOnce, CountedOnce, NEW i \in 1..Len(inflight), BatchStep(i)
  PROVE  MemoryOnce' /\ CountedOnce' /\ Fetched' \subseteq Fetched /\ Memory' \subseteq Memory
<1>1. CASE Commit(i)
  <2> DEFINE ev == inflight[i].events
  <2>1. /\ ~inflight[i].saved /\ queue' = queue
        /\ counted' = counted \cup Valid(Elements(ev))
        /\ recounted' = recounted \cup (counted \cap Valid(Elements(ev))) \cup Repeated(ev)
        /\ inflight' = [inflight EXCEPT ![i] = [inflight[i] EXCEPT !.saved = TRUE]]
        /\ reread' = reread
    BY <1>1 DEF Commit, SaveTransactionBatch, history
  <2>2. i = 1 /\ Len(inflight) = 1 /\ inflight[1] \in Batch
    <3>1. Len(inflight) \in Nat
      BY LenProperties DEF TypeOK
    <3> QED BY <3>1, AtMostOne, ElementOfSeq DEF TypeOK, OneBatch
  <2>3. [inflight[i] EXCEPT !.saved = TRUE] \in Batch
    BY <2>2 DEF Batch
  <2>4. Len(inflight') = 1 /\ inflight'[1] = [inflight[1] EXCEPT !.saved = TRUE]
    BY <2>1, <2>2, <2>3, ExceptSeq DEF TypeOK
  <2>5. inflight'[1].events = ev /\ inflight'[1].saved
    BY <2>2, <2>4 DEF Batch
  <2> HIDE DEF ev
  <2>6. Distinct(ev) /\ \A e \in Elements(ev) : e \notin Behind
    BY <2>1 DEF MemoryOnce, ev
  <2>7. Repeated(ev) = {} /\ counted \cap Valid(Elements(ev)) \subseteq reread
    BY <2>6 DEF Repeated, Distinct, Valid, Behind
  <2>8. InFlight = Elements(ev) /\ InFlight' = Elements(ev)
    <3>1. 1..Len(inflight) = {1} /\ 1..Len(inflight') = {1}
      BY <2>2, <2>4
    <3> QED BY <2>2, <2>5, <3>1 DEF InFlight, ev
  <2>9. \A k \in 1..Len(inflight') : k = 1
    BY <2>4
  <2>10. \A e \in Elements(queue) : e \notin Behind'
    BY <2>1, <2>8 DEF MemoryOnce, Valid, Behind
  <2>11. MemoryOnce'
    BY <2>1, <2>5, <2>6, <2>8, <2>9, <2>10 DEF MemoryOnce
  <2>12. Fetched' \subseteq Fetched /\ Memory' \subseteq Memory
    BY <2>1, <2>8 DEF Fetched, Memory, Behind, Valid
  <2>13. CountedOnce'
    BY <2>1, <2>7 DEF CountedOnce
  <2> QED BY <2>11, <2>12, <2>13
<1>2. CASE SaveFails(i) \/ SaveAnswerLost(i) \/ EmitProcessed(i)
  <2>1. EndOfBatch(i) /\ UNCHANGED <<db, reread>>
    BY <1>2 DEF SaveFails, SaveAnswerLost, EmitProcessed, history
  <2>2. inflight' = <<>> /\ InFlight' = {} /\ queue' = queue
    BY <2>1, EndOfBatchEmpties DEF TypeOK
  <2>3. 1..Len(inflight') = {}
    BY <2>2, EmptySeq
  <2>4. Behind' = Behind /\ CountedOnce'
    BY <2>1 DEF db, Behind, CountedOnce
  <2> QED BY <2>2, <2>3, <2>4 DEF MemoryOnce, Fetched, Memory
<1> QED BY <1>1, <1>2 DEF BatchStep

-----------------------------------------------------------------------------
(* The call in progress.                                                   *)

\* What the invariant asks of the only call, when it becomes c.
CallCounts(c) ==
  /\ \A e \in Fetched' : Passed(c, e)'
  /\ c.pc \in CatchUps => c.from =< c.to
  /\ StartedOnce(c)'

\* The only call changes.
LEMMA OneCall ==
  ASSUME TypeOK, OneCaller, NEW t \in Tasks, NEW c, tasks' = [tasks EXCEPT ![t] = c],
         CallCounts(c)
  PROVE  CallsAhead' /\ RangesGoUp' /\ OneStart'
<1>1. \A u \in Tasks : tasks'[u] = c
  BY DEF OneCaller, TypeOK
<1>2. CallsAhead'
  BY <1>1 DEF CallsAhead, CallCounts, Passed
<1>3. RangesGoUp'
  BY <1>1 DEF RangesGoUp, CallCounts
<1>4. OneStart'
  BY <1>1 DEF OneStart, StartedOnce, CallCounts
<1> QED BY <1>2, <1>3, <1>4

\* No call changes, and nothing new is fetched.
LEMMA NoCall ==
  ASSUME CountInv, UNCHANGED <<tasks, lastProcessedBlock, pollTimer, procTimer>>,
         Fetched' \subseteq Fetched, Memory' \subseteq Memory
  PROVE  CallsAhead' /\ RangesGoUp' /\ OneStart'
<1>1. CallsAhead'
  BY DEF CountInv, CallsAhead, Passed
<1>2. RangesGoUp'
  BY DEF CountInv, RangesGoUp
<1>3. OneStart'
  BY DEF CountInv, OneStart, StartedOnce
<1> QED BY <1>1, <1>2, <1>3

\* A catch-up or a poll is in progress only after the start.
LEMMA Started ==
  ASSUME CountInv, NEW t \in Tasks, tasks[t].pc \in Running \/ pollTimer
  PROVE  procTimer
BY DEF CountInv, OneStart, StartedOnce

\* The step of a call after the start.
LEMMA ActiveCall ==
  ASSUME TypeOK, OneCaller, MemoryOnce', CountedOnce', NEW t \in Tasks, procTimer',
         NEW c, tasks' = [tasks EXCEPT ![t] = c], c.pc \in {"idle"} \cup Running,
         c.pc \in CatchUps => c.from =< c.to, \A e \in Fetched' : Passed(c, e)'
  PROVE  CountInv'
<1>1. c.pc \notin Starting \cup Stopping
  BY DEF Running, CatchUps, Starting, Stopping
<1>2. CallCounts(c)
  BY <1>1 DEF CallCounts, StartedOnce
<1> QED BY <1>2, OneCall DEF CountInv

\* The step of a call that stops.
LEMMA StoppingCall ==
  ASSUME TypeOK, OneCaller, MemoryOnce', CountedOnce', NEW t \in Tasks,
         ~procTimer', ~pollTimer', NEW c, tasks' = [tasks EXCEPT ![t] = c], c.pc \in Stopping
  PROVE  CountInv'
<1>1. \A e : Passed(c, e)'
  BY DEF Passed, Stopping, CatchUps, Fetching
<1>2. c.pc \notin CatchUps /\ c.pc \notin Running
  BY DEF Stopping, CatchUps, Running
<1>3. CallCounts(c)
  BY <1>1, <1>2 DEF CallCounts, StartedOnce
<1> QED BY <1>3, OneCall DEF CountInv

\* What was fetched are logs of the chain.
LEMMA FetchedTyped ==
  ASSUME TypeOK, NEW e \in Fetched
  PROVE  e \in Events /\ e.block \in Int
<1>1. e \in Events
  <2>1. CASE e \in Elements(queue)
    BY <2>1, ElementOfSeq DEF TypeOK, Elements
  <2>2. CASE e \in InFlight
    <3>1. PICK i \in 1..Len(inflight) : e \in Elements(inflight[i].events)
      BY <2>2 DEF InFlight
    <3>2. inflight[i] \in Batch
      BY ElementOfSeq DEF TypeOK
    <3>3. inflight[i].events \in Seq(Events)
      BY <3>2 DEF Batch
    <3> QED BY <3>1, <3>3, ElementOfSeq DEF Elements
  <2>3. CASE e \in Behind
    BY <2>3 DEF TypeOK, Behind
  <2> QED BY <2>1, <2>2, <2>3 DEF Fetched, Memory
<1> QED BY <1>1, EventFacts

\* The highest stored block is not before what was counted: all of it is stored.
LEMMA CountedBelowRows ==
  ASSUME IInv, NEW b \in Blocks, NEW r \in rows, \A q \in rows : q.block =< b,
         NEW e \in counted
  PROVE  e.block =< b
<1>1. PICK q \in rows : q.hash = e.hash
  BY DEF IInv, StatsMatchRows, Stored
<1>2. q \in Events /\ e \in Events
  BY DEF IInv, TypeOK
<1>3. q.block = e.block
  BY <1>1, <1>2, EventAssumption
<1> QED BY <1>1, <1>3

\* A start begins with an empty memory, and with nothing set, or may read all again.
LEMMA BeforeStart ==
  ASSUME CountInv, NEW t \in Tasks, reread' # Events,
         \/ Connection(t) \/ LoadSavedBlockFails(t) \/ \E b \in Blocks : LoadSavedBlock(t, b)
         \/ \E h \in Blocks : StartFrom(t, h)
  PROVE  ~procTimer /\ ~pollTimer /\ Memory = {}
<1>1. StartedOnce(tasks[t])
  BY DEF CountInv, OneStart
<1>2. ~procTimer /\ tasks[t].pc \in {"idle", "loadSaved", "startHead"}
  <2>1. CASE Connection(t)
    BY <2>1 DEF Connection, MayReread
  <2>2. CASE ~Connection(t)
    BY <1>1, <2>2 DEF LoadSavedBlockFails, LoadSavedBlock, StartFrom, StartedOnce, Starting
  <2> QED BY <2>1, <2>2
<1>3. tasks[t].pc \notin Stopping
  BY <1>2 DEF Stopping
<1> QED BY <1>1, <1>2, <1>3 DEF StartedOnce

\* The start: what was counted is not after the saved block, or is read again.
LEMMA LoadCounts ==
  ASSUME IInv, CountInv, OneCaller, NEW t \in Tasks,
         Connection(t) \/ LoadSavedBlockFails(t) \/ \E b \in Blocks : LoadSavedBlock(t, b),
         reread' # Events
  PROVE  CountInv'
<1>1. /\ UNCHANGED <<pipeline, db, lastProcessedBlock, pollTimer, procTimer>>
      /\ reread \subseteq reread' /\ TypeOK
  BY DEF Connection, MayReread, LoadSavedBlockFails, LoadSavedBlock, timers, history, IInv
<1>2. Memory' = Memory /\ Behind' \subseteq Behind /\ MemoryOnce' /\ CountedOnce'
  BY <1>1, SameMemory DEF CountInv
<1>3. ~procTimer' /\ ~pollTimer' /\ Memory' = {}
  BY <1>1, <1>2, BeforeStart
<1>4. ASSUME NEW pc \in Starting, NEW b \in Blocks, tasks' = [tasks EXCEPT ![t] = Call(pc, b, b)],
             pc = "startHead" => \A e \in Behind' : e.block =< b
      PROVE  CountInv'
  <2>1. Call(pc, b, b).pc = pc /\ Call(pc, b, b).from = b
    BY DEF Call
  <2> DEFINE c == Call(pc, b, b)
  <2>2. c.pc = pc /\ c.from = b /\ tasks' = [tasks EXCEPT ![t] = c]
    BY <1>4, <2>1
  <2> HIDE DEF c
  <2>3. c.pc \notin CatchUps /\ c.pc \notin Running /\ c.pc \notin Stopping
    BY <1>4, <2>2 DEF CatchUps, Running, Stopping, Starting
  <2>4. \A e \in Fetched' : Passed(c, e)'
    BY <1>3, <1>4, <2>2 DEF Fetched, Passed, CatchUps, Fetching, Starting
  <2>5. StartedOnce(c)'
    BY <1>3, <1>4, <2>2, <2>3 DEF StartedOnce
  <2>6. CallCounts(c)
    BY <2>3, <2>4, <2>5 DEF CallCounts
  <2> QED BY <1>1, <1>2, <2>2, <2>6, OneCall DEF CountInv
<1>5. CASE Connection(t)
  BY <1>4, <1>5, BlockBounds DEF Connection, Starting
<1>6. CASE LoadSavedBlockFails(t)
  <2>1. Behind' = {} /\ tasks' = [tasks EXCEPT ![t] = Call("startHead", MinBlock, MinBlock)]
    BY <1>1, <1>6 DEF LoadSavedBlockFails, Behind, db
  <2> QED BY <1>4, <2>1, BlockBounds DEF Starting
<1>7. ASSUME NEW b \in Blocks, LoadSavedBlock(t, b) PROVE CountInv'
  <2>1. tasks' = [tasks EXCEPT ![t] = Call("startHead", b, b)] /\ b \in Int
    BY <1>7, BlocksAreInt DEF LoadSavedBlock
  <2>2. \A e \in counted : e.block =< b
    <3>1. CASE rows = {}
      BY <3>1 DEF IInv, StatsMatchRows, Stored
    <3>2. CASE rows # {}
      <4>1. PICK a \in Blocks : ResumeBlock(a) /\ b = Larger(a, MinBlock)
        BY <1>7, <3>2 DEF LoadSavedBlock
      <4>2. a = b
        BY <4>1, BlockBounds DEF Larger
      <4> QED BY <3>2, <4>1, <4>2, CountedBelowRows DEF ResumeBlock
    <3> QED BY <3>1, <3>2
  <2>3. \A e \in Behind' : e.block =< b
    BY <1>2, <2>2 DEF Behind
  <2> QED BY <1>4, <2>1, <2>3 DEF Starting
<1> QED BY <1>5, <1>6, <1>7

\* The start decides where to begin: not before the saved block.
LEMMA StartCounts ==
  ASSUME TypeOK, CountInv, OneCaller, JumpsForward, NEW t \in Tasks, NEW h \in Blocks,
         StartFrom(t, h)
  PROVE  CountInv'
<1> DEFINE saved == tasks[t].from
           start == Larger(h - CatchUpMaxBlocks, MinBlock)
<1>1. /\ UNCHANGED <<pipeline, db, reread>> /\ tasks[t].pc = "startHead" /\ procTimer'
  BY DEF StartFrom
<1>2. Fetched' = Fetched /\ MemoryOnce' /\ CountedOnce'
  BY <1>1, SameMemory DEF CountInv
<1>3. \A e \in Fetched : e.block =< saved
  BY <1>1 DEF CountInv, CallsAhead, Passed
<1>4. saved \in Int /\ h \in Int /\ MinBlock \in Int /\ saved >= MinBlock
  <2>1. saved \in Blocks
    BY DEF TypeOK, Task
  <2> HIDE DEF saved
  <2> QED BY <2>1, BlockBounds, BlocksAreInt
<1>5. /\ CatchUpMaxBlocks \in Nat \ {0} /\ CatchUpMaxGap \in Nat /\ FastGap \in Nat
  BY ConfigAssumption
<1>6. /\ h > saved + CatchUpMaxGap => start \in Int /\ saved =< start
      /\ h > saved + FastGap => saved + 1 =< h
  <2> HIDE DEF saved
  <2> QED BY <1>4, <1>5 DEF Larger, JumpsForward
<1>7. \/ /\ h > saved + CatchUpMaxGap /\ lastProcessedBlock' = start
         /\ tasks' = [tasks EXCEPT ![t] = Call("startJump", start, h)]
      \/ /\ h > saved + FastGap /\ lastProcessedBlock' = saved
         /\ tasks' = [tasks EXCEPT ![t] = Call("startCatchUp", saved + 1, h)]
      \/ lastProcessedBlock' = saved /\ tasks' = [tasks EXCEPT ![t] = Idle]
  BY DEF StartFrom
<1> HIDE DEF saved, start
<1>8. \A e \in Fetched : e.block \in Int
  BY FetchedTyped
<1>9. \A e \in Fetched' : e.block =< lastProcessedBlock' /\ e.block < saved + 1
  <2>1. lastProcessedBlock' \in Int /\ saved =< lastProcessedBlock'
    BY <1>4, <1>6, <1>7
  <2> QED BY <1>2, <1>3, <1>4, <1>8, <2>1
<1>10. PICK c : /\ tasks' = [tasks EXCEPT ![t] = c]
                /\ \/ c.pc \in {"startJump", "idle"}
                   \/ c.pc = "startCatchUp" /\ c.from = saved + 1 /\ c.from =< c.to
  <2>1. /\ Call("startJump", start, h).pc = "startJump"
        /\ Call("startCatchUp", saved + 1, h).pc = "startCatchUp"
        /\ Call("startCatchUp", saved + 1, h).from = saved + 1
        /\ Call("startCatchUp", saved + 1, h).to = h
        /\ Idle.pc = "idle"
    BY DEF Call, Idle
  <2> QED BY <1>6, <1>7, <2>1
<1>11. \A e \in Fetched' : Passed(c, e)'
  BY <1>9, <1>10 DEF Passed, CatchUps, Fetching
<1>12. c.pc \in {"idle"} \cup Running /\ (c.pc \in CatchUps => c.from =< c.to)
  BY <1>10 DEF Running, CatchUps
<1> QED BY <1>1, <1>2, <1>10, <1>11, <1>12, ActiveCall

\* A start that jumped begins its catch-up after lastProcessedBlock.
LEMMA JumpCounts ==
  ASSUME TypeOK, PollStart, CountInv, OneCaller, NEW t \in Tasks, CatchUpFromLast(t)
  PROVE  CountInv'
<1> DEFINE to == tasks[t].to
<1>1. /\ UNCHANGED <<pipeline, db, reread, lastProcessedBlock, procTimer>>
      /\ tasks[t].pc = "startJump"
  BY DEF CatchUpFromLast, history, timers
<1>2. Fetched' = Fetched /\ MemoryOnce' /\ CountedOnce'
  BY <1>1, SameMemory DEF CountInv
<1>3. procTimer'
  BY <1>1, Started DEF Running
<1>4. \A e \in Fetched : e.block =< lastProcessedBlock
  BY <1>1 DEF CountInv, CallsAhead, Passed
<1>5. lastProcessedBlock \in Int /\ to \in Int
  BY <1>1, BlocksAreInt DEF PollStart, TypeOK, Task
<1>6. \A e \in Fetched : e.block < lastProcessedBlock + 1
  BY <1>4, <1>5, FetchedTyped
<1>7. PICK c : /\ tasks' = [tasks EXCEPT ![t] = c]
               /\ \/ c.pc = "settle"
                  \/ c.pc = "startCatchUp" /\ c.from = lastProcessedBlock + 1 /\ c.from =< c.to
  <2>1. \/ /\ lastProcessedBlock < to
           /\ tasks' = [tasks EXCEPT ![t] = Call("startCatchUp", lastProcessedBlock + 1, to)]
        \/ tasks' = [tasks EXCEPT ![t] = Call("settle", MinBlock, MinBlock)]
    BY DEF CatchUpFromLast
  <2> HIDE DEF to
  <2>2. lastProcessedBlock < to => lastProcessedBlock + 1 =< to
    BY <1>5
  <2>3. /\ Call("startCatchUp", lastProcessedBlock + 1, to).pc = "startCatchUp"
        /\ Call("startCatchUp", lastProcessedBlock + 1, to).from = lastProcessedBlock + 1
        /\ Call("startCatchUp", lastProcessedBlock + 1, to).to = to
        /\ Call("settle", MinBlock, MinBlock).pc = "settle"
    BY DEF Call
  <2> QED BY <2>1, <2>2, <2>3
<1>8. \A e \in Fetched' : Passed(c, e)'
  BY <1>1, <1>2, <1>4, <1>6, <1>7 DEF Passed, CatchUps, Fetching
<1>9. c.pc \in {"idle"} \cup Running /\ (c.pc \in CatchUps => c.from =< c.to)
  BY <1>7 DEF Running, CatchUps
<1> QED BY <1>2, <1>3, <1>7, <1>8, <1>9, ActiveCall

\* With one call at a time no other is busy.
LEMMA NoneBusy ==
  ASSUME OneCaller, NEW t \in Tasks
  PROVE  ~Busy(t)
BY DEF OneCaller, Busy

\* Polls that decide what to do, fail or begin; the pause after a catch-up.
LEMMA PollCounts ==
  ASSUME TypeOK, PollStart, CountInv, OneCaller, NEW t \in Tasks,
         \/ StartBlockPolling(t) \/ PollTimer(t) \/ PollFails(t)
         \/ \E h \in Blocks : PollFrom(t, h)
  PROVE  CountInv'
<1>1. UNCHANGED <<pipeline, db, reread, lastProcessedBlock, procTimer>>
  BY NoneBusy DEF StartBlockPolling, PollTimer, MayReread, PollFails, PollFrom, history, timers
<1>2. Fetched' = Fetched /\ MemoryOnce' /\ CountedOnce'
  BY <1>1, SameMemory DEF CountInv
<1>3. \A e \in Fetched : e.block =< lastProcessedBlock
  <2>1. tasks[t].pc \in {"pollHead", "settle"} \/ (tasks[t].pc = "idle" /\ pollTimer)
    BY DEF StartBlockPolling, PollTimer, PollFails, PollFrom
  <2> QED BY <2>1 DEF CountInv, CallsAhead, Passed
<1>4. procTimer'
  <2>1. tasks[t].pc \in Running \/ pollTimer
    BY DEF StartBlockPolling, PollTimer, PollFails, PollFrom, Running
  <2> QED BY <1>1, <2>1, Started
<1>5. ASSUME NEW c, tasks' = [tasks EXCEPT ![t] = c], c.pc \in {"idle", "pollHead"} PROVE CountInv'
  <2>1. \A e \in Fetched' : Passed(c, e)'
    BY <1>1, <1>2, <1>3, <1>5 DEF Passed, CatchUps, Fetching
  <2>2. c.pc \in {"idle"} \cup Running /\ c.pc \notin CatchUps
    BY <1>5 DEF Running, CatchUps
  <2> QED BY <1>2, <1>4, <1>5, <2>1, <2>2, ActiveCall
<1>6. CASE StartBlockPolling(t) \/ PollTimer(t) \/ PollFails(t)
  <2>1. PICK c \in {Idle, Call("pollHead", MinBlock, MinBlock)} : tasks' = [tasks EXCEPT ![t] = c]
    BY <1>6 DEF StartBlockPolling, PollTimer, PollFails
  <2>2. c.pc \in {"idle", "pollHead"}
    BY <2>1 DEF Idle, Call
  <2> QED BY <1>5, <2>1, <2>2
<1>7. ASSUME NEW h \in Blocks, PollFrom(t, h) PROVE CountInv'
  <2>1. lastProcessedBlock \in Int /\ h \in Int /\ FastGap \in Nat
    BY <1>7, BlocksAreInt, ConfigAssumption DEF PollFrom, PollStart
  <2>2. PICK c : /\ tasks' = [tasks EXCEPT ![t] = c]
                 /\ c.pc \in {"idle", "pollCatchUp", "pollBlock"}
                 /\ c.pc = "idle" \/ c.from = lastProcessedBlock + 1
                 /\ c.pc = "pollCatchUp" => c.from =< c.to
    <3>1. tasks' = [tasks EXCEPT ![t] = PollCall(h)]
      BY <1>7 DEF PollFrom
    <3>2. h > lastProcessedBlock + FastGap => lastProcessedBlock + 1 =< h
      BY <2>1
    <3>3. /\ PollCall(h).pc \in {"idle", "pollCatchUp", "pollBlock"}
          /\ PollCall(h).pc = "idle" \/ PollCall(h).from = lastProcessedBlock + 1
          /\ PollCall(h).pc = "pollCatchUp" => PollCall(h).from =< PollCall(h).to
      BY <3>2 DEF PollCall, Call, Idle
    <3> QED BY <3>1, <3>3
  <2>3. \A e \in Fetched : e.block < lastProcessedBlock + 1
    BY <1>3, <2>1, FetchedTyped
  <2>4. \A e \in Fetched' : Passed(c, e)'
    BY <1>1, <1>2, <1>3, <2>2, <2>3 DEF Passed, CatchUps, Fetching
  <2>5. c.pc \in {"idle"} \cup Running /\ (c.pc \in CatchUps => c.from =< c.to)
    BY <2>2 DEF Running, CatchUps
  <2> QED BY <1>2, <1>4, <2>2, <2>4, <2>5, ActiveCall
<1> QED BY <1>6, <1>7

-----------------------------------------------------------------------------
(* The call fetches, or gives up.                                          *)

\* A fetch or a failed request is a step of a call after the start.
LEMMA FetchStarted ==
  ASSUME TypeOK, CountInv, NEW t \in Tasks,
         \/ CatchUpBatch(t) \/ CatchUpBatchFails(t) \/ ProcessBlock(t) \/ ProcessBlockFails(t)
         \/ FetchToken(t) \/ FetchTokenFails(t) \/ FallbackEnds(t)
  PROVE  /\ procTimer' /\ reread' = reread
         /\ tasks[t] \in Task /\ tasks[t].from \in Blocks /\ tasks[t].from \in Int
         /\ tasks[t].pc \in CatchUps \cup {"pollBlock", "pollToken"}
         /\ \A e \in Fetched : Passed(tasks[t], e)
<1>1. tasks[t].pc \in CatchUps \cup {"pollBlock", "pollToken"}
  BY DEF CatchUps, CatchingUp, CatchUpBatch, CatchUpBatchFails, ProcessBlock, ProcessBlockFails,
         FetchToken, FetchTokenFails, FallbackEnds
<1>2. procTimer
  BY <1>1, Started DEF Running
<1>3. procTimer' = procTimer /\ reread' = reread
  BY DEF CatchUpBatchFails, ProcessBlockFails, FetchTokenFails, CatchUpBatch, ProcessBlock,
         FetchToken, FallbackEnds, timers, history
<1>4. tasks[t] \in Task /\ tasks[t].from \in Blocks /\ tasks[t].from \in Int
  BY BlocksAreInt DEF TypeOK, Task
<1> QED BY <1>1, <1>2, <1>3, <1>4 DEF CountInv, CallsAhead

\* fastCatchUp moves on to its next batch, past all that was fetched.
LEMMA NextBatchCounts ==
  ASSUME TypeOK, OneCaller, MemoryOnce', CountedOnce', NEW t \in Tasks,
         procTimer', CatchingUp(t), NextCatchUpBatch(t),
         \A e \in Fetched' : e.block < BatchEnd(t) + 1 /\ e.block =< lastProcessedBlock'
  PROVE  CountInv'
<1> DEFINE next == IF BatchEnd(t) < tasks[t].to
                   THEN [tasks[t] EXCEPT !.from = BatchEnd(t) + 1]
                   ELSE IF tasks[t].pc = "startCatchUp" THEN Call("settle", MinBlock, MinBlock) ELSE Idle
<1>1. tasks' = [tasks EXCEPT ![t] = next]
  BY DEF NextCatchUpBatch
<1>2. tasks[t] \in Task /\ BatchEnd(t) \in Int /\ tasks[t].to \in Int
  BY BatchEndTyped, BlocksAreInt DEF TypeOK, Task
<1>3. \/ next.pc \in CatchUps /\ next.from = BatchEnd(t) + 1 /\ next.from =< next.to
      \/ next.pc \in {"settle", "idle"}
  <2>1. CASE BatchEnd(t) < tasks[t].to
    <3>1. next.pc \in CatchUps /\ next.from = BatchEnd(t) + 1 /\ next.to = tasks[t].to
      BY <1>2, <2>1 DEF CatchingUp, Task, CatchUps
    <3>2. BatchEnd(t) + 1 =< tasks[t].to
      BY <1>2, <2>1
    <3> HIDE DEF next
    <3> QED BY <3>1, <3>2
  <2>2. CASE ~(BatchEnd(t) < tasks[t].to)
    BY <2>2 DEF Call, Idle
  <2> QED BY <2>1, <2>2
<1> HIDE DEF next
<1>4. PICK c : /\ tasks' = [tasks EXCEPT ![t] = c]
               /\ \/ c.pc \in CatchUps /\ c.from = BatchEnd(t) + 1 /\ c.from =< c.to
                  \/ c.pc \in {"settle", "idle"}
  BY <1>1, <1>3
<1>5. \A e \in Fetched' : Passed(c, e)'
  BY <1>4 DEF Passed, CatchUps, Fetching
<1>6. c.pc \in {"idle"} \cup Running /\ (c.pc \in CatchUps => c.from =< c.to)
  BY <1>4 DEF CatchUps, Running
<1> QED BY <1>4, <1>5, <1>6, ActiveCall

\* fastCatchUp.
LEMMA CatchUpCounts ==
  ASSUME TypeOK, PollStart, CountInv, OneCaller, NEW t \in Tasks,
         CatchUpBatch(t) \/ CatchUpBatchFails(t)
  PROVE  CountInv'
<1>1. /\ CatchingUp(t) /\ NextCatchUpBatch(t) /\ tasks[t].pc \in CatchUps
      /\ procTimer' /\ reread' = reread
      /\ tasks[t].from \in Blocks /\ tasks[t].from \in Int
  BY FetchStarted DEF CatchUpBatch, CatchUpBatchFails, CatchingUp, CatchUps
<1>2. /\ BatchEnd(t) \in Blocks /\ BatchEnd(t) \in Int /\ tasks[t].from =< BatchEnd(t)
  BY <1>1, BatchEndTyped, BlocksAreInt DEF CountInv, RangesGoUp
<1>3. \A e \in Fetched : /\ e.block \in Int /\ e.block < tasks[t].from
                         /\ e.block =< lastProcessedBlock
  BY <1>1, FetchedTyped DEF CountInv, CallsAhead, Passed, CatchUps, Fetching
<1>4. \A e \in Fetched : e.block < BatchEnd(t) + 1 /\ e.block =< BatchEnd(t)
  BY <1>1, <1>2, <1>3
<1>5. CASE CatchUpBatchFails(t)
  <2>1. UNCHANGED <<pipeline, db, reread, lastProcessedBlock>>
    BY <1>1, <1>5 DEF CatchUpBatchFails
  <2>2. Fetched' = Fetched /\ MemoryOnce' /\ CountedOnce'
    BY <2>1, SameMemory DEF CountInv
  <2>3. \A e \in Fetched' : e.block < BatchEnd(t) + 1 /\ e.block =< lastProcessedBlock'
    BY <1>3, <1>4, <2>1, <2>2
  <2> QED BY <1>1, <2>2, <2>3, NextBatchCounts
<1>6. CASE CatchUpBatch(t)
  <2> DEFINE b == BatchEnd(t)
  <2>1. /\ UNCHANGED <<inflight, db, reread>> /\ lastProcessedBlock' = b
        /\ QueueEvents(GetLogs[Tokens, tasks[t].from, b])
    BY <1>1, <1>6 DEF CatchUpBatch
  <2>2. b \in Blocks /\ b \in Int
    BY <1>2
  <2> HIDE DEF b
  <2>3. ASSUME NEW e \in EventsIn(Tokens, tasks[t].from, b)
        PROVE  e \notin Fetched /\ e.block < b + 1 /\ e.block =< b
    <3>1. e.block \in tasks[t].from..b
      BY DEF EventsIn
    <3>2. ~(e.block < tasks[t].from) /\ e.block < b + 1 /\ e.block =< b
      BY <1>1, <2>2, <3>1
    <3> QED BY <1>3, <3>2
  <2>4. MemoryOnce' /\ CountedOnce' /\ Fetched' = Fetched \cup EventsIn(Tokens, tasks[t].from, b)
    <3>1. \A e \in EventsIn(Tokens, tasks[t].from, b) : e \notin Fetched
      BY <2>3
    <3> QED BY <1>1, <2>1, <2>2, <3>1, PushOnce DEF CountInv
  <2>5. \A e \in Fetched' : e.block < b + 1 /\ e.block =< b
    BY <1>4, <2>3, <2>4 DEF b
  <2> QED BY <1>1, <2>1, <2>4, <2>5, NextBatchCounts DEF b
<1> QED BY <1>5, <1>6

\* pollForNewBlocks moves on to its next block, past all that was fetched.
LEMMA NextBlockCounts ==
  ASSUME TypeOK, OneCaller, MemoryOnce', CountedOnce', NEW t \in Tasks,
         procTimer', NextBlock(t),
         \A e \in Fetched' : e.block \in Int /\ e.block =< tasks[t].from
  PROVE  CountInv'
<1>1. \A e \in Fetched' : e.block < tasks[t].from + 1
  BY BlocksAreInt DEF TypeOK, Task
<1>2. PICK c : /\ tasks' = [tasks EXCEPT ![t] = c]
               /\ \/ c.pc = "pollBlock" /\ c.from = tasks[t].from + 1
                  \/ c.pc = "idle" /\ lastProcessedBlock' = tasks[t].from
  <2>1. \/ tasks' = [tasks EXCEPT ![t] = Call("pollBlock", tasks[t].from + 1, tasks[t].to)]
        \/ tasks' = [tasks EXCEPT ![t] = Idle] /\ lastProcessedBlock' = tasks[t].from
    BY DEF NextBlock
  <2>2. /\ Call("pollBlock", tasks[t].from + 1, tasks[t].to).pc = "pollBlock"
        /\ Call("pollBlock", tasks[t].from + 1, tasks[t].to).from = tasks[t].from + 1
        /\ Idle.pc = "idle"
    BY DEF Call, Idle
  <2> QED BY <2>1, <2>2
<1>3. \A e \in Fetched' : Passed(c, e)'
  BY <1>1, <1>2 DEF Passed, CatchUps, Fetching
<1>4. c.pc \in {"idle"} \cup Running /\ c.pc \notin CatchUps
  BY <1>2 DEF CatchUps, Running
<1> QED BY <1>2, <1>3, <1>4, ActiveCall

\* A block fetched for all tokens, or given up, or fetched token by token.
LEMMA BlockCounts ==
  ASSUME TypeOK, CountInv, OneCaller, NEW t \in Tasks,
         ProcessBlock(t) \/ ProcessBlockFails(t) \/ FallbackEnds(t)
  PROVE  CountInv'
<1> DEFINE a == tasks[t].from
<1>1. /\ procTimer' /\ reread' = reread
      /\ a \in Blocks /\ a \in Int /\ tasks[t].pc \in {"pollBlock", "pollToken"}
      /\ \A e \in Fetched : Passed(tasks[t], e)
  BY FetchStarted DEF ProcessBlock, ProcessBlockFails, FallbackEnds
<1> HIDE DEF a
<1>2. \A e \in Fetched : e.block \in Int /\ (tasks[t].pc = "pollBlock" => e.block < a)
                         /\ (e.block < a \/ e.block = a)
  BY <1>1, FetchedTyped DEF Passed, Fetching, a
<1>3. \A e \in Fetched : e.block \in Int /\ e.block =< a
  BY <1>1, <1>2
<1>4. CASE ProcessBlock(t)
  <2>1. /\ UNCHANGED <<inflight, db, reread>> /\ NextBlock(t) /\ tasks[t].pc = "pollBlock"
        /\ QueueEvents(GetLogs[Tokens, a, a])
    BY <1>1, <1>4 DEF ProcessBlock, a
  <2>2. ASSUME NEW e \in EventsIn(Tokens, a, a) PROVE e \notin Fetched /\ e.block = a
    <3>1. e.block \in a..a
      BY DEF EventsIn
    <3>2. e.block = a /\ ~(e.block < a)
      BY <1>1, <3>1
    <3> QED BY <1>2, <2>1, <3>2
  <2>3. MemoryOnce' /\ CountedOnce' /\ Fetched' = Fetched \cup EventsIn(Tokens, a, a)
    <3>1. \A e \in EventsIn(Tokens, a, a) : e \notin Fetched
      BY <2>2
    <3> QED BY <1>1, <2>1, <3>1, PushOnce DEF CountInv
  <2>4. a =< a
    BY <1>1
  <2>5. \A e \in Fetched' : e.block \in Int /\ e.block =< tasks[t].from
    BY <1>1, <1>3, <2>2, <2>3, <2>4 DEF a
  <2> QED BY <1>1, <2>1, <2>3, <2>5, NextBlockCounts
<1>5. CASE ~ProcessBlock(t)
  <2>1. UNCHANGED <<pipeline, db, reread>>
    BY <1>1, <1>5 DEF ProcessBlockFails, FallbackEnds
  <2>2. Fetched' = Fetched /\ MemoryOnce' /\ CountedOnce'
    BY <2>1, SameMemory DEF CountInv
  <2>3. CASE NextBlock(t)
    BY <1>1, <1>3, <2>2, <2>3, NextBlockCounts DEF a
  <2>4. CASE tasks' = [tasks EXCEPT ![t] = Call("pollToken", a, tasks[t].to)] /\ ProcessBlockFails(t)
    <3>1. PICK c : tasks' = [tasks EXCEPT ![t] = c] /\ c.pc = "pollToken" /\ c.from = a
      <4>1. /\ Call("pollToken", a, tasks[t].to).pc = "pollToken"
            /\ Call("pollToken", a, tasks[t].to).from = a
        BY DEF Call
      <4> QED BY <2>4, <4>1
    <3>2. \A e \in Fetched' : e.block < a
      BY <1>2, <2>2, <2>4 DEF ProcessBlockFails
    <3>3. \A e \in Fetched' : Passed(c, e)'
      BY <3>1, <3>2 DEF Passed, CatchUps, Fetching
    <3>4. c.pc \in {"idle"} \cup Running /\ c.pc \notin CatchUps
      BY <3>1 DEF Running, CatchUps
    <3> QED BY <1>1, <2>2, <3>1, <3>3, <3>4, ActiveCall
  <2> QED BY <1>5, <2>3, <2>4 DEF ProcessBlockFails, FallbackEnds, a
<1> QED BY <1>4, <1>5

\* A token of a block: its logs come once, each token having a place of its own.
LEMMA TokenCounts ==
  ASSUME TypeOK, CountInv, OneCaller, NEW t \in Tasks, FetchToken(t) \/ FetchTokenFails(t)
  PROVE  CountInv'
<1> DEFINE a == tasks[t].from
           n == tasks[t].tok
           S == {TokenOrder[n]}
<1>1. /\ procTimer' /\ reread' = reread
      /\ a \in Blocks /\ a \in Int /\ tasks[t] \in Task /\ tasks[t].pc = "pollToken"
      /\ \A e \in Fetched : Passed(tasks[t], e)
  BY FetchStarted DEF FetchToken, FetchTokenFails
<1>2. n \in 1..(Len(TokenOrder) + 1) /\ n =< Len(TokenOrder) /\ Len(TokenOrder) \in Nat
  BY <1>1, EventAssumption, LenProperties DEF Task, FetchToken, FetchTokenFails
<1>3. PICK c : /\ tasks' = [tasks EXCEPT ![t] = c]
               /\ c.pc = "pollToken" /\ c.from = a /\ c.tok = n + 1
  <2>1. tasks' = [tasks EXCEPT ![t] = [tasks[t] EXCEPT !.tok = n + 1]]
    BY DEF FetchToken, FetchTokenFails, NextToken
  <2>2. /\ [tasks[t] EXCEPT !.tok = n + 1].pc = "pollToken"
        /\ [tasks[t] EXCEPT !.tok = n + 1].from = a
        /\ [tasks[t] EXCEPT !.tok = n + 1].tok = n + 1
    BY <1>1 DEF Task
  <2> QED BY <2>1, <2>2
<1>4. S = Tokens \/ \E k \in Tokens : S = {k}
  BY <1>2, TokenAt
<1> HIDE DEF a, n
<1>5. /\ n \in 1..Len(TokenOrder) /\ n \in 1..(c.tok - 1)
      /\ \A k \in 1..(n - 1) : k \in 1..(c.tok - 1) /\ k \in 1..Len(TokenOrder) /\ k # n
  BY <1>2, <1>3
<1>6. \A e \in Fetched : e.block < a \/ (e.block = a /\ \E k \in 1..(n - 1) : TokenOrder[k] = e.token)
  BY <1>1 DEF Passed, a, n
<1>7. ASSUME NEW e \in Fetched PROVE Passed(c, e)'
  BY <1>3, <1>5, <1>6 DEF Passed, CatchUps, Fetching
<1>8. c.pc \in {"idle"} \cup Running /\ c.pc \notin CatchUps
  BY <1>3 DEF Running, CatchUps
<1>9. CASE FetchTokenFails(t)
  <2>1. UNCHANGED <<pipeline, db, reread>>
    BY <1>1, <1>9 DEF FetchTokenFails
  <2>2. Fetched' = Fetched /\ MemoryOnce' /\ CountedOnce'
    BY <2>1, SameMemory DEF CountInv
  <2>3. \A e \in Fetched' : Passed(c, e)'
    BY <1>7, <2>2
  <2> QED BY <1>1, <1>3, <1>8, <2>2, <2>3, ActiveCall
<1>10. CASE FetchToken(t)
  <2>1. UNCHANGED <<inflight, db, reread>> /\ QueueEvents(GetLogs[S, a, a])
    BY <1>1, <1>10 DEF FetchToken, a, n
  <2>2. ASSUME NEW e \in EventsIn(S, a, a)
        PROVE  e \notin Fetched /\ e.block = a /\ e.token = TokenOrder[n]
    <3>1. e.block \in a..a /\ e.token = TokenOrder[n]
      BY DEF EventsIn
    <3>2. e.block = a /\ ~(e.block < a)
      BY <1>1, <3>1
    <3>3. ~ \E k \in 1..(n - 1) : TokenOrder[k] = e.token
      BY <1>5, <3>1, LogsAssumption
    <3> QED BY <1>6, <3>1, <3>2, <3>3
  <2> HIDE DEF S
  <2>3. MemoryOnce' /\ CountedOnce' /\ Fetched' = Fetched \cup EventsIn(S, a, a)
    <3>1. \A e \in EventsIn(S, a, a) : e \notin Fetched
      BY <2>2
    <3> QED BY <1>1, <1>4, <2>1, <3>1, PushOnce DEF CountInv
  <2>4. ASSUME NEW e \in EventsIn(S, a, a) PROVE Passed(c, e)'
    BY <1>3, <1>5, <2>2 DEF Passed, CatchUps, Fetching
  <2>5. \A e \in Fetched' : Passed(c, e)'
    BY <1>7, <2>3, <2>4
  <2> QED BY <1>1, <1>3, <1>8, <2>3, <2>5, ActiveCall
<1> QED BY <1>9, <1>10

-----------------------------------------------------------------------------
(* Stops, batches and the end of a process.                                *)

\* A call stops the monitor for good: no disconnection asked for a stop alone.
LEMMA StopCounts ==
  ASSUME TypeOK, OneBatch, CountInv, OneCaller, NEW t \in Tasks,
         \/ SigTerm(t) \/ StartFails(t) \/ StopTail(t) \/ ShutdownTail(t) \/ SecondStopRejects(t)
  PROVE  CountInv'
<1>1. UNCHANGED <<db, reread>> /\ ((CanProcess /\ TakeBatch(t)) \/ UNCHANGED pipeline)
  BY DEF SigTerm, StartFails, StopTail, ShutdownTail, SecondStopRejects, StopMonitoring,
         StopTimersAndProcess, history
<1>2. MemoryOnce' /\ CountedOnce'
  BY <1>1, TakeOnce DEF CountInv
<1>3. StartedOnce(tasks[t])
  BY DEF CountInv, OneStart
<1>4. ~StopTail(t)
  BY <1>3 DEF StartedOnce, Starting, Running, Stopping, CatchUps, StopTail
<1>5. ~pollTimer' /\ ~procTimer'
  <2>1. CASE ShutdownTail(t)
    <3>1. ~procTimer /\ ~pollTimer
      BY <1>3, <2>1 DEF StartedOnce, Stopping, ShutdownTail
    <3> QED BY <2>1, <3>1 DEF ShutdownTail, StopMonitoring, StopTimersAndProcess, timers
  <2>2. CASE SigTerm(t) \/ StartFails(t) \/ SecondStopRejects(t)
    BY <2>2 DEF SigTerm, StartFails, SecondStopRejects, StopMonitoring, StopTimersAndProcess
  <2> QED BY <1>4, <2>1, <2>2
<1>6. PICK c : tasks' = [tasks EXCEPT ![t] = c] /\ c.pc \in Stopping
  <2>1. PICK c \in {Call(pc, MinBlock, MinBlock) : pc \in Stopping} :
          tasks' = [tasks EXCEPT ![t] = c]
    BY <1>4 DEF SigTerm, StartFails, ShutdownTail, SecondStopRejects, StopMonitoring, Stopping
  <2>2. c.pc \in Stopping
    BY <2>1 DEF Call
  <2> QED BY <2>1, <2>2
<1> QED BY <1>2, <1>5, <1>6, StoppingCall

\* With one call at a time no other call can disconnect.
LEMMA NoDisconnection ==
  ASSUME OneCaller, NEW t \in Tasks, NEW s \in Tasks
  PROVE  ~Disconnection(t, s)
<1>1. t = s
  BY DEF OneCaller
<1> QED BY <1>1 DEF Disconnection

\* The steps of the queue and of the chain leave the call alone.
LEMMA OtherCounts ==
  ASSUME TypeOK, OneBatch, CountInv,
         \/ NewBlock \/ Boot \/ ProcessingTimer
         \/ \E i \in 1..Len(inflight) : BatchStep(i)
  PROVE  CountInv'
<1>1. CASE NewBlock \/ Boot \/ ProcessingTimer
  <2>1. /\ UNCHANGED <<tasks, lastProcessedBlock, pollTimer, procTimer, db, reread>>
        /\ (CanProcess /\ TakeBatch("timer")) \/ UNCHANGED pipeline
    BY <1>1 DEF NewBlock, Boot, ProcessingTimer, timers, history
  <2>2. MemoryOnce' /\ CountedOnce' /\ Fetched' = Fetched /\ Memory' = Memory
    BY <2>1, TakeOnce DEF CountInv
  <2> QED BY <2>1, <2>2, NoCall DEF CountInv
<1>2. ASSUME NEW i \in 1..Len(inflight), BatchStep(i) PROVE CountInv'
  <2>1. UNCHANGED <<tasks, lastProcessedBlock, pollTimer, procTimer>>
    BY <1>2 DEF BatchStep, Commit, SaveFails, SaveAnswerLost, EmitProcessed, timers
  <2>2. MemoryOnce' /\ CountedOnce' /\ Fetched' \subseteq Fetched /\ Memory' \subseteq Memory
    BY <1>2, BatchOnce DEF CountInv
  <2> QED BY <2>1, <2>2, NoCall DEF CountInv
<1> QED BY <1>1, <1>2

\* A process that ends leaves no call and no memory.
LEMMA EndCounts ==
  ASSUME TypeOK, CountInv, ProcessEnds
  PROVE  CountInv'
<1>1. /\ UNCHANGED <<db, reread>> /\ queue' = <<>> /\ inflight' = <<>>
      /\ pollTimer' = FALSE /\ procTimer' = FALSE /\ tasks' = [t \in Tasks |-> Idle]
  BY DEF ProcessEnds
<1>2. 1..Len(queue') = {} /\ 1..Len(inflight') = {}
  BY <1>1, EmptySeq
<1>3. Memory' = {}
  BY <1>1, <1>2 DEF Memory, Elements, InFlight
<1>4. \A t \in Tasks : tasks'[t].pc = "idle"
  BY <1>1 DEF Idle
<1>5. CallsAhead' /\ RangesGoUp'
  BY <1>1, <1>4 DEF CallsAhead, Passed, RangesGoUp, CatchUps, Fetching
<1>6. OneStart'
  BY <1>1, <1>3, <1>4 DEF OneStart, StartedOnce, Starting, Running, Stopping, CatchUps
<1>7. MemoryOnce'
  BY <1>2 DEF MemoryOnce, Distinct, Elements
<1>8. CountedOnce'
  BY <1>1 DEF CountInv, CountedOnce, db
<1> QED BY <1>5, <1>6, <1>7, <1>8 DEF CountInv

\* Nothing is fetched or counted in an initial state.
LEMMA CountInit == Init => CountInv
<1> SUFFICES ASSUME Init PROVE CountInv
  OBVIOUS
<1>1. 1..Len(queue) = {} /\ 1..Len(inflight) = {}
  BY EmptySeq DEF Init
<1>2. Memory = {} /\ Fetched = {}
  BY <1>1 DEF Init, Fetched, Memory, Behind, Elements, InFlight
<1>3. \A t \in Tasks : tasks[t].pc = "idle"
  BY DEF Init, Idle
<1>4. MemoryOnce
  BY <1>1 DEF MemoryOnce, Distinct, Elements
<1>5. OneStart
  BY <1>2, <1>3 DEF Init, OneStart, StartedOnce, Starting, Running, Stopping, CatchUps
<1> QED BY <1>2, <1>3, <1>4, <1>5 DEF Init, CountInv, CountedOnce, CallsAhead, RangesGoUp, CatchUps

\* Every step preserves the invariant, when calls do not overlap, unless it starts
\* the monitor anew over what is still in memory.
LEMMA CountStep ==
  ASSUME IInv, CountInv, OneCaller, JumpsForward, [Next]_vars, reread' # Events
  PROVE  CountInv'
<1>1. TypeOK /\ PollStart /\ OneBatch
  BY DEF IInv, Order
<1>2. CASE UNCHANGED vars
  <2>1. UNCHANGED <<tasks, lastProcessedBlock, pollTimer, procTimer, pipeline, db, reread>>
    BY <1>2 DEF vars, timers, history
  <2>2. Fetched' = Fetched /\ Memory' = Memory /\ MemoryOnce' /\ CountedOnce'
    BY <2>1, SameMemory DEF CountInv
  <2> QED BY <2>1, <2>2, NoCall DEF CountInv
<1>3. ASSUME NEW t \in Tasks, TaskStep(t) PROVE CountInv'
  <2>1. CASE LoadSavedBlockFails(t) \/ \E b \in Blocks : LoadSavedBlock(t, b)
    BY <2>1, LoadCounts
  <2>2. CASE \E h \in HeadAnswers : StartFrom(t, h) \/ PollFrom(t, h)
    BY <1>1, <2>2, StartCounts, PollCounts DEF HeadAnswers
  <2>3. CASE CatchUpFromLast(t) \/ StartBlockPolling(t) \/ PollFails(t)
    BY <1>1, <2>3, JumpCounts, PollCounts
  <2>4. CASE CatchUpBatch(t) \/ CatchUpBatchFails(t)
    BY <1>1, <2>4, CatchUpCounts
  <2>5. CASE ProcessBlock(t) \/ ProcessBlockFails(t) \/ FallbackEnds(t)
    BY <1>1, <2>5, BlockCounts
  <2>6. CASE FetchToken(t) \/ FetchTokenFails(t)
    BY <1>1, <2>6, TokenCounts
  <2>7. CASE StopTail(t) \/ ShutdownTail(t) \/ SecondStopRejects(t)
    BY <1>1, <2>7, StopCounts
  <2>8. CASE Exit(t)
    BY <1>1, <2>8, EndCounts DEF Exit
  <2> QED BY <1>3, <2>1, <2>2, <2>3, <2>4, <2>5, <2>6, <2>7, <2>8 DEF TaskStep
<1>4. CASE NewBlock \/ Boot \/ ProcessingTimer \/ \E i \in 1..Len(inflight) : BatchStep(i)
  BY <1>1, <1>4, OtherCounts
<1>5. CASE Crash
  BY <1>1, <1>5, EndCounts DEF Crash
<1>6. ASSUME NEW t \in Tasks, Connection(t) PROVE CountInv'
  BY <1>6, LoadCounts
<1>7. ASSUME NEW t \in Tasks, PollTimer(t) PROVE CountInv'
  BY <1>1, <1>7, PollCounts
<1>8. ASSUME NEW t \in Tasks, SigTerm(t) \/ StartFails(t) PROVE CountInv'
  BY <1>1, <1>8, StopCounts
<1>9. CASE Next
  BY <1>3, <1>4, <1>5, <1>6, <1>7, <1>8, <1>9, NoDisconnection DEF Next
<1> QED BY <1>2, <1>9

\* What may be read again stays so.
LEMMA RereadGrows ==
  ASSUME TypeOK, [Next]_vars, reread = Events
  PROVE  reread' = Events
<1>1. CASE UNCHANGED vars
  BY <1>1 DEF vars, history
<1>2. ASSUME NEW t \in Tasks, TaskStep(t) PROVE reread' = Events
  <2>1. CASE LoadSavedBlockFails(t) \/ \E b \in Blocks : LoadSavedBlock(t, b)
    BY <2>1 DEF LoadSavedBlockFails, LoadSavedBlock, history, TypeOK
  <2>2. CASE \E h \in HeadAnswers : StartFrom(t, h) \/ PollFrom(t, h)
    BY <2>2 DEF StartFrom, PollFrom, history
  <2>3. CASE CatchUpFromLast(t) \/ StartBlockPolling(t) \/ PollFails(t)
    BY <2>3 DEF CatchUpFromLast, StartBlockPolling, PollFails, history
  <2>4. CASE \/ CatchUpBatch(t) \/ CatchUpBatchFails(t) \/ ProcessBlock(t) \/ ProcessBlockFails(t)
             \/ FetchToken(t) \/ FetchTokenFails(t) \/ FallbackEnds(t)
    BY <2>4 DEF CatchUpBatch, CatchUpBatchFails, ProcessBlock, ProcessBlockFails, FetchToken,
                FetchTokenFails, FallbackEnds, history
  <2>5. CASE StopTail(t) \/ ShutdownTail(t) \/ SecondStopRejects(t) \/ Exit(t)
    BY <2>5 DEF StopTail, ShutdownTail, SecondStopRejects, Exit, ProcessEnds, history
  <2> QED BY <1>2, <2>1, <2>2, <2>3, <2>4, <2>5 DEF TaskStep
<1>3. CASE NewBlock \/ Boot \/ Crash \/ ProcessingTimer
  BY <1>3 DEF NewBlock, Boot, Crash, ProcessingTimer, ProcessEnds, history
<1>4. ASSUME NEW t \in Tasks, Connection(t) \/ SigTerm(t) \/ StartFails(t) \/ PollTimer(t)
      PROVE  reread' = Events
  BY <1>4 DEF Connection, SigTerm, StartFails, PollTimer, MayReread, history
<1>5. ASSUME NEW t \in Tasks, NEW s \in Tasks, Disconnection(t, s) PROVE reread' = Events
  BY <1>5 DEF Disconnection
<1>6. ASSUME NEW i \in 1..Len(inflight), BatchStep(i) PROVE reread' = Events
  BY <1>6 DEF BatchStep, Commit, SaveFails, SaveAnswerLost, EmitProcessed, history
<1>7. CASE Next
  BY <1>2, <1>3, <1>4, <1>5, <1>6, <1>7 DEF Next
<1> QED BY <1>1, <1>7

\* When calls do not overlap, pollForNewBlocks, fastCatchUp, the token fallback and
\* the starts of later processes fetch no log that updateAddressStatistics has
\* counted, whatever requests or saves fail and whenever processes end, unless
\* getLastProcessedBlock failed after it was counted or a start found logs in memory.
THEOREM EachCountedOnce ==
  ASSUME OneCaller, JumpsForward
  PROVE  Spec => []CountedOnce
<1>1. Init => CountInv
  BY CountInit
<1>2. IInv /\ (CountInv \/ reread = Events) /\ [Next]_vars => (CountInv \/ reread = Events)'
  BY CountStep, RereadGrows DEF IInv
<1>3. IInv /\ (CountInv \/ reread = Events) => CountedOnce
  BY DEF CountInv, CountedOnce, IInv, TypeOK
<1> QED BY <1>1, <1>2, <1>3, IngestionInvariant, PTL DEF Spec

=============================================================================
