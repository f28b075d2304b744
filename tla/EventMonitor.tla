---------------------------- MODULE EventMonitor ----------------------------
(***************************************************************************)
(* The ingestion pipeline of the chain scanner: EventMonitor               *)
(* (src/apps/chain-scanner/src/services/eventMonitor.ts) with the rows and *)
(* the statistics DatabaseService.saveTransactionBatch writes.             *)
(*                                                                         *)
(*   eth_getLogs --> processingQueue --> one batch --> database --> emit   *)
(*                                                                         *)
(* JavaScript runs to the next await, so an action is what one function    *)
(* does between two awaits.  Every call of startMonitoring, of             *)
(* pollForNewBlocks and of stopMonitoring is a task of its own: nothing in *)
(* the code keeps two of them from being in progress together.             *)
(***************************************************************************)
EXTENDS Integers, Sequences

CONSTANTS
  Tasks,              \* slots for asynchronous calls in progress (bounds the overlap)
  Events,             \* the Transfer logs of the chain: [block, token, hash, valid]
  Tokens,             \* TOKEN_ADDRESSES
  TokenOrder,         \* the order of Object.values(TOKEN_ADDRESSES)
  GetLogs,            \* GetLogs[S, a, b]: answer of eth_getLogs for tokens S, blocks a..b
  MinBlock,           \* MIN_DEPLOYMENT_BLOCK
  MaxBlock,           \* bound: the last block the chain reaches
  HeadLag,            \* bound: how many blocks an answer may be behind the chain
  BatchSize,          \* config.monitoring.batchSize
  CatchUpBatchSize,   \* config.monitoring.catchUpBatchSize
  CatchUpMaxGap,      \* config.monitoring.catchUpMaxGap
  CatchUpMaxBlocks,   \* config.monitoring.catchUpMaxBlocks
  MaxBlocksPerPoll,   \* config.monitoring.maxBlocksPerPoll
  FastGap,            \* the 10 of "gap > 10"
  DisableFallback,    \* config.monitoring.disableIndividualTokenFallback
  MaxRpcFailures, MaxDbFailures, MaxRestarts, MaxConnections   \* bounds on the environment

Blocks == MinBlock..MaxBlock

ASSUME BlockAssumption ==
  /\ MinBlock \in Nat \ {0} /\ MaxBlock \in Nat /\ MinBlock < MaxBlock
  /\ HeadLag \in Nat

ASSUME ConfigAssumption ==
  /\ {BatchSize, CatchUpBatchSize, CatchUpMaxBlocks, MaxBlocksPerPoll} \subseteq Nat \ {0}
  /\ {CatchUpMaxGap, FastGap} \subseteq Nat
  /\ DisableFallback \in BOOLEAN
  /\ {MaxRpcFailures, MaxDbFailures, MaxRestarts, MaxConnections} \subseteq Nat
  /\ "timer" \notin Tasks

ASSUME EventAssumption ==
  /\ \A e \in Events : /\ e.block \in Blocks /\ e.block > MinBlock
                       /\ e.token \in Tokens /\ e.valid \in BOOLEAN
  /\ \A e, f \in Events : e.hash = f.hash => e.block = f.block
  /\ TokenOrder \in Seq(Tokens) /\ TokenOrder # <<>>
  /\ \A k \in Tokens : \E i \in 1..Len(TokenOrder) : TokenOrder[i] = k

\* eth_getLogs answers with exactly the logs of the range, by ascending block.
EventsIn(S, a, b) == {e \in Events : e.token \in S /\ e.block \in a..b}

ASSUME GetLogsAssumption ==
  \A S \in {Tokens} \cup {{k} : k \in Tokens}, a \in Blocks, b \in Blocks :
    LET logs == GetLogs[S, a, b] IN
      /\ logs \in Seq(Events)
      /\ {logs[i] : i \in 1..Len(logs)} = EventsIn(S, a, b)
      /\ \A i, j \in 1..Len(logs) : i < j => logs[i].block =< logs[j].block

\* A log occurs once in an answer, and each token has an address of its own.
ASSUME LogsAssumption ==
  /\ \A S \in {Tokens} \cup {{k} : k \in Tokens}, a \in Blocks, b \in Blocks :
       LET logs == GetLogs[S, a, b]
       IN \A i, j \in 1..Len(logs) : logs[i] = logs[j] => i = j
  /\ \A i, j \in 1..Len(TokenOrder) : TokenOrder[i] = TokenOrder[j] => i = j

VARIABLES
  head,          \* the chain: number of its latest block
  up,            \* the process runs
  connected,     \* web3Service.isConnected()
  lastProcessedBlock,
  pollTimer,     \* blockPollingTimer is set
  procTimer,     \* processingTimer is set
  tasks,         \* the asynchronous calls in progress
  queue,         \* processingQueue
  isProcessing,
  inflight,      \* calls of processQueuedEvents past their splice
  rows,          \* table Transaction: the events stored, one for each hash
  counted,       \* events AddressStatistics includes
  recounted,     \* events AddressStatistics includes more than once
  emitted,       \* events NEW_TRANSACTION was emitted for
  redis,         \* the Redis client: "open", "closed" (after quit) or "none"
  redisBlock,    \* the value of REDIS_KEYS.LAST_PROCESSED_BLOCK
  abandoned,     \* history: events of fetches given up and of blocks jumped over
  lost,          \* history: events of a failed save, or in a process that ended
  viaFallback,   \* history: events of blocks that went through the token fallback
  reread,        \* history: events that overlapping calls, or a start that could not read
                 \* the rows, may fetch again
  spent          \* how much of each bound on the environment is used

pipeline == <<queue, isProcessing, inflight>>
db       == <<rows, counted, recounted>>
timers   == <<pollTimer, procTimer>>
redisVars == <<redis, redisBlock>>
history  == <<abandoned, lost, viaFallback, reread>>
vars == <<head, up, connected, lastProcessedBlock, timers, tasks, pipeline, db,
          emitted, redisVars, history, spent>>

(***************************************************************************)
(* A task: pc is the await the call is suspended at, from the next block   *)
(* to fetch (at "startHead": the saved block), to the last one, and tok    *)
(* the position of the per-token fallback, past the last token when done.  *)
(***************************************************************************)
PC == {"idle", "loadSaved", "startHead", "startJump", "startCatchUp", "settle",
       "pollHead", "pollCatchUp", "pollBlock", "pollToken",
       "stop", "shutdown", "disconnect", "leave"}
Idle == [pc |-> "idle", from |-> MinBlock, to |-> MinBlock, tok |-> 1]
Call(pc, from, to) == [pc |-> pc, from |-> from, to |-> to, tok |-> 1]
Task  == [pc : PC, from : Blocks, to : Blocks, tok : 1..(Len(TokenOrder) + 1)]
Batch == [events : Seq(Events), saved : BOOLEAN, by : Tasks \cup {"timer"}]

Smaller(a, b) == IF a < b THEN a ELSE b
Larger(a, b)  == IF a < b THEN b ELSE a
Elements(s)   == {s[i] : i \in 1..Len(s)}
Valid(S)      == {e \in S : e.valid}
InFlight      == UNION {Elements(inflight[i].events) : i \in 1..Len(inflight)}

\* Prisma's unique index on Transaction.hash.
Stored(e) == \E r \in rows : r.hash = e.hash
Settled(e) == Stored(e) \/ e \in abandoned \/ e \in lost

\* Mutant: the highest stored block is fetched again, lest part of it be missing.
ResumesBefore(b) == /\ \E r \in rows : r.block = b + 1
                    /\ \A r \in rows : r.block =< b + 1

\* The block a restarted process resumes after.
ResumeBlock(b) == /\ \E r \in rows : r.block = b
                  /\ \A r \in rows : r.block =< b

Init ==
  /\ head \in Blocks
  /\ up = FALSE /\ connected = FALSE
  /\ lastProcessedBlock = 0
  /\ pollTimer = FALSE /\ procTimer = FALSE
  /\ tasks = [t \in Tasks |-> Idle]
  /\ queue = <<>> /\ isProcessing = FALSE /\ inflight = <<>>
  /\ rows = {} /\ counted = {} /\ recounted = {}
  /\ emitted = {}
  /\ redis = "none" /\ redisBlock = 0
  /\ abandoned = {} /\ lost = {} /\ viaFallback = {} /\ reread = {}
  /\ spent = [rpc |-> 0, db |-> 0, restarts |-> 0, connections |-> 0]

-----------------------------------------------------------------------------
(* Redis and the queue: helpers every caller shares.                       *)

\* Mutant: stores the next block to fetch.
SavesNextBlock(b) == redisBlock' = IF redis = "open" THEN b + 1 ELSE redisBlock

SaveLastProcessedBlock(b) ==
  redisBlock' = IF redis = "open" THEN b ELSE redisBlock

QueueEvents(logs) == queue' = queue \o logs

\* The synchronous head of processQueuedEvents: the guard, then the splice.
\* Mutant: no isProcessing guard.
UnguardedProcess == queue # <<>>

CanProcess == ~isProcessing /\ queue # <<>>
TakeBatch(by) ==
  LET n == Smaller(BatchSize, Len(queue)) IN
    /\ isProcessing' = TRUE
    /\ queue' = SubSeq(queue, n + 1, Len(queue))
    /\ inflight' = Append(inflight, [events |-> SubSeq(queue, 1, n),
                                     saved |-> FALSE, by |-> by])

Spend(what) == spent' = [spent EXCEPT ![what] = @ + 1]
RpcMayFail == spent.rpc < MaxRpcFailures /\ Spend("rpc")
DbMayFail  == spent.db < MaxDbFailures /\ Spend("db")

\* Another call is in progress.
Busy(t) == \E u \in Tasks \ {t} : tasks[u].pc # "idle"

\* History: from calls that overlap on, nothing is known of what is fetched again.
MayReread(overlap) == reread' = IF overlap THEN Events ELSE reread

-----------------------------------------------------------------------------
(* startMonitoring, called by every 'connection' event of Web3Service.     *)

Connection(t) ==
  /\ up /\ tasks[t].pc = "idle"
  /\ spent.connections < MaxConnections /\ Spend("connections")
  /\ connected' = TRUE
  /\ tasks' = [tasks EXCEPT ![t] = Call("loadSaved", MinBlock, MinBlock)]
  /\ MayReread(procTimer \/ queue # <<>> \/ inflight # <<>> \/ Busy(t))
  /\ UNCHANGED <<head, up, lastProcessedBlock, timers, pipeline, db, emitted,
                 redisVars, abandoned, lost, viaFallback>>

\* getLastProcessedBlockNumber: the highest stored block, not below MinBlock.
LoadSavedBlock(t, saved) ==
  /\ tasks[t].pc = "loadSaved"
  /\ \/ \E b \in Blocks : ResumeBlock(b) /\ saved = Larger(b, MinBlock)
     \/ rows = {} /\ saved = MinBlock
  /\ SaveLastProcessedBlock(saved)
  /\ tasks' = [tasks EXCEPT ![t] = Call("startHead", saved, saved)]
  /\ UNCHANGED <<head, up, connected, lastProcessedBlock, timers, pipeline, db,
                 emitted, redis, history, spent>>

\* A database error is caught and read as "nothing saved".
LoadSavedBlockFails(t) ==
  /\ tasks[t].pc = "loadSaved"
  /\ DbMayFail
  /\ reread' = reread \cup counted
  /\ tasks' = [tasks EXCEPT ![t] = Call("startHead", MinBlock, MinBlock)]
  /\ UNCHANGED <<head, up, connected, lastProcessedBlock, timers, pipeline, db,
                 emitted, redisVars, abandoned, lost, viaFallback>>

\* eth_blockNumber answered h: start the queue, then catch up or poll.
StartFrom(t, h) ==
  LET saved == tasks[t].from
      start == Larger(h - CatchUpMaxBlocks, MinBlock)
      TooFarBehind == h > saved + CatchUpMaxGap
      Behind       == h > saved + FastGap
  IN
  /\ tasks[t].pc = "startHead"
  /\ procTimer' = TRUE
  /\ \/ /\ TooFarBehind
        /\ lastProcessedBlock' = start
        /\ SaveLastProcessedBlock(start)
        /\ abandoned' = abandoned \cup EventsIn(Tokens, saved + 1, start)
        /\ tasks' = [tasks EXCEPT ![t] = Call("startJump", start, h)]
        /\ UNCHANGED pollTimer
     \/ /\ ~TooFarBehind /\ Behind
        /\ lastProcessedBlock' = saved
        /\ tasks' = [tasks EXCEPT ![t] = Call("startCatchUp", saved + 1, h)]
        /\ UNCHANGED <<pollTimer, redisBlock, abandoned>>
     \/ /\ ~TooFarBehind /\ ~Behind
        /\ lastProcessedBlock' = saved
        /\ pollTimer' = TRUE
        /\ tasks' = [tasks EXCEPT ![t] = Idle]
        /\ UNCHANGED <<redisBlock, abandoned>>
  /\ UNCHANGED <<head, up, connected, pipeline, db, emitted, redis, lost, viaFallback,
                 reread, spent>>

\* Redis answered: the catch-up of a start that jumped begins after
\* lastProcessedBlock, which a poll or another start may have moved since.
CatchUpFromLast(t) ==
  /\ tasks[t].pc = "startJump"
  /\ tasks' = [tasks EXCEPT ![t] =
                 IF lastProcessedBlock < @.to THEN Call("startCatchUp", lastProcessedBlock + 1, @.to)
                                              ELSE Call("settle", MinBlock, MinBlock)]
  /\ UNCHANGED <<head, up, connected, lastProcessedBlock, timers, pipeline, db,
                 emitted, redisVars, history, spent>>

\* The pause after a catch-up ends: startBlockPolling.
StartBlockPolling(t) ==
  /\ tasks[t].pc = "settle"
  /\ pollTimer' = TRUE
  /\ tasks' = [tasks EXCEPT ![t] = Idle]
  /\ UNCHANGED <<head, up, connected, lastProcessedBlock, procTimer, pipeline, db,
                 emitted, redisVars, history, spent>>

-----------------------------------------------------------------------------
(* fastCatchUp, of a start or of a poll.                                   *)

CatchingUp(t) == tasks[t].pc \in {"startCatchUp", "pollCatchUp"}
BatchEnd(t) == Smaller(tasks[t].from + CatchUpBatchSize - 1, tasks[t].to)

\* The loop goes on, or the call returns to startMonitoring or to the poll.
NextCatchUpBatch(t) ==
  tasks' = [tasks EXCEPT ![t] =
              IF BatchEnd(t) < tasks[t].to
              THEN [@ EXCEPT !.from = BatchEnd(t) + 1]
              ELSE IF @.pc = "startCatchUp" THEN Call("settle", MinBlock, MinBlock)
                                            ELSE Idle]

CatchUpBatch(t) ==
  /\ CatchingUp(t)
  /\ QueueEvents(GetLogs[Tokens, tasks[t].from, BatchEnd(t)])
  /\ lastProcessedBlock' = BatchEnd(t)
  /\ SaveLastProcessedBlock(BatchEnd(t))
  /\ NextCatchUpBatch(t)
  /\ UNCHANGED <<head, up, connected, timers, isProcessing, inflight, db, emitted,
                 redis, history, spent>>

\* Every attempt failed: "Continue with next batch even if one fails".
CatchUpBatchFails(t) ==
  /\ CatchingUp(t)
  /\ RpcMayFail
  /\ abandoned' = abandoned \cup EventsIn(Tokens, tasks[t].from, BatchEnd(t))
  /\ NextCatchUpBatch(t)
  /\ UNCHANGED <<head, up, connected, lastProcessedBlock, timers, pipeline, db,
                 emitted, redisVars, lost, viaFallback, reread>>

-----------------------------------------------------------------------------
(* pollForNewBlocks.  The interval does not wait for the previous poll.    *)

PollTimer(t) ==
  /\ up /\ pollTimer /\ tasks[t].pc = "idle"
  /\ tasks' = [tasks EXCEPT ![t] = Call("pollHead", MinBlock, MinBlock)]
  /\ MayReread(Busy(t))
  /\ UNCHANGED <<head, up, connected, lastProcessedBlock, timers, pipeline, db,
                 emitted, redisVars, abandoned, lost, viaFallback, spent>>

\* Mutant: one block behind.
OneBlockBehind(h) ==
  IF h =< lastProcessedBlock + 1 THEN Idle ELSE Call("pollBlock", lastProcessedBlock + 1, h)

\* What a poll does next.  Its range is fixed here, from lastProcessedBlock as
\* it is when eth_blockNumber answers.
PollCall(h) ==
  LET next == lastProcessedBlock + 1
      last == lastProcessedBlock + Smaller(h - lastProcessedBlock, MaxBlocksPerPoll)
  IN IF h =< lastProcessedBlock THEN Idle
     ELSE IF h > lastProcessedBlock + FastGap THEN Call("pollCatchUp", next, h)
     ELSE Call("pollBlock", next, last)

PollFrom(t, h) ==
  /\ tasks[t].pc = "pollHead"
  /\ tasks' = [tasks EXCEPT ![t] = PollCall(h)]
  /\ UNCHANGED <<head, up, connected, lastProcessedBlock, timers, pipeline, db,
                 emitted, redisVars, history, spent>>

PollFails(t) ==
  /\ tasks[t].pc = "pollHead"
  /\ RpcMayFail
  /\ tasks' = [tasks EXCEPT ![t] = Idle]
  /\ UNCHANGED <<head, up, connected, lastProcessedBlock, timers, pipeline, db,
                 emitted, redisVars, history>>

\* processBlock returned: the next block, or the end of the poll.  The save of
\* every blockSaveInterval-th block may or may not be due.
NextBlock(t) ==
  LET last == tasks[t].to IN
    \/ /\ tasks[t].from < last
       /\ tasks' = [tasks EXCEPT ![t] = Call("pollBlock", @.from + 1, last)]
       /\ UNCHANGED <<lastProcessedBlock, redisBlock>>
    \/ /\ tasks[t].from = last
       /\ lastProcessedBlock' = last
       /\ SaveLastProcessedBlock(last) \/ UNCHANGED redisBlock
       /\ tasks' = [tasks EXCEPT ![t] = Idle]

ProcessBlock(t) ==
  /\ tasks[t].pc = "pollBlock"
  /\ QueueEvents(GetLogs[Tokens, tasks[t].from, tasks[t].from])
  /\ NextBlock(t)
  /\ UNCHANGED <<head, up, connected, timers, isProcessing, inflight, db, emitted,
                 redis, history, spent>>

\* The request for all tokens failed: token by token, or skip the block.
ProcessBlockFails(t) ==
  /\ tasks[t].pc = "pollBlock"
  /\ RpcMayFail
  /\ \/ /\ ~DisableFallback
        /\ tasks' = [tasks EXCEPT ![t] = Call("pollToken", @.from, @.to)]
        /\ viaFallback' = viaFallback \cup EventsIn(Tokens, tasks[t].from, tasks[t].from)
        /\ UNCHANGED <<lastProcessedBlock, redisBlock, abandoned>>
     \/ /\ DisableFallback
        /\ abandoned' = abandoned \cup EventsIn(Tokens, tasks[t].from, tasks[t].from)
        /\ NextBlock(t)
        /\ UNCHANGED viaFallback
  /\ UNCHANGED <<head, up, connected, timers, pipeline, db, emitted, redis, lost, reread>>

NextToken(t) == tasks' = [tasks EXCEPT ![t].tok = @ + 1]

FetchToken(t) ==
  /\ tasks[t].pc = "pollToken" /\ tasks[t].tok =< Len(TokenOrder)
  /\ QueueEvents(GetLogs[{TokenOrder[tasks[t].tok]}, tasks[t].from, tasks[t].from])
  /\ NextToken(t)
  /\ UNCHANGED <<head, up, connected, lastProcessedBlock, timers, isProcessing,
                 inflight, db, emitted, redisVars, history, spent>>

\* fetchTokenEvents swallows the error, so its retry loop never retries.
FetchTokenFails(t) ==
  /\ tasks[t].pc = "pollToken" /\ tasks[t].tok =< Len(TokenOrder)
  /\ RpcMayFail
  /\ abandoned' = abandoned \cup
       EventsIn({TokenOrder[tasks[t].tok]}, tasks[t].from, tasks[t].from)
  /\ NextToken(t)
  /\ UNCHANGED <<head, up, connected, lastProcessedBlock, timers, pipeline, db, emitted,
                 redisVars, lost, viaFallback, reread>>

\* Mutant: the last token is left out.
FallbackEndsEarly(t) ==
  /\ tasks[t].pc = "pollToken" /\ tasks[t].tok >= Len(TokenOrder)
  /\ NextBlock(t)
  /\ UNCHANGED <<head, up, connected, timers, pipeline, db, emitted, redis, history,
                 spent>>

\* The delay after the last token ends: processBlock returns.
FallbackEnds(t) ==
  /\ tasks[t].pc = "pollToken" /\ tasks[t].tok > Len(TokenOrder)
  /\ NextBlock(t)
  /\ UNCHANGED <<head, up, connected, timers, pipeline, db, emitted, redis, history,
                 spent>>

-----------------------------------------------------------------------------
(* processQueuedEvents: timer, database answer, emission.                  *)

ProcessingTimer ==
  /\ up /\ procTimer /\ CanProcess
  /\ TakeBatch("timer")
  /\ UNCHANGED <<head, up, connected, lastProcessedBlock, timers, tasks, db, emitted,
                 redisVars, history, spent>>

\* createMany with skipDuplicates: the first log of a hash wins.
FreshRows(ev) ==
  {ev[i] : i \in {j \in 1..Len(ev) :
     /\ ev[j].valid /\ ~Stored(ev[j])
     /\ \A k \in 1..(j - 1) : ev[k].valid => ev[k].hash # ev[j].hash}}

Repeated(ev) ==
  {e \in Valid(Elements(ev)) : \E i, j \in 1..Len(ev) : i # j /\ ev[i] = e /\ ev[j] = e}

\* updateAddressStatistics runs for every transfer of the batch.
SaveTransactionBatch(ev) ==
  /\ rows' = rows \cup FreshRows(ev)
  /\ counted' = counted \cup Valid(Elements(ev))
  /\ recounted' = recounted \cup (counted \cap Valid(Elements(ev))) \cup Repeated(ev)

Commit(i) ==
  /\ ~inflight[i].saved
  /\ SaveTransactionBatch(inflight[i].events)
  /\ inflight' = [inflight EXCEPT ![i].saved = TRUE]
  /\ UNCHANGED <<head, up, connected, lastProcessedBlock, timers, tasks, queue,
                 isProcessing, emitted, redisVars, history, spent>>

Without(s, i) == SubSeq(s, 1, i - 1) \o SubSeq(s, i + 1, Len(s))

\* Mutant: isProcessing is not reset after a failure.
KeepsProcessing(i) == /\ inflight' = Without(inflight, i)
                      /\ UNCHANGED <<isProcessing, queue>>

EndOfBatch(i) == /\ inflight' = Without(inflight, i)
                 /\ isProcessing' = FALSE
                 /\ UNCHANGED queue

\* The transaction failed: the batch left the queue and is not put back.
SaveFails(i) ==
  /\ ~inflight[i].saved
  /\ DbMayFail
  /\ lost' = lost \cup Valid(Elements(inflight[i].events))
  /\ EndOfBatch(i)
  /\ UNCHANGED <<head, up, connected, lastProcessedBlock, timers, tasks, db, emitted,
                 redisVars, abandoned, viaFallback, reread>>

\* It committed, but the answer did not arrive: no emission.
SaveAnswerLost(i) ==
  /\ inflight[i].saved
  /\ DbMayFail
  /\ EndOfBatch(i)
  /\ UNCHANGED <<head, up, connected, lastProcessedBlock, timers, tasks, db, emitted,
                 redisVars, history>>

\* Mutant: emits without waiting for the transaction.
EmitAtOnce(i) ==
  /\ emitted' = emitted \cup Valid(Elements(inflight[i].events))
  /\ EndOfBatch(i)
  /\ UNCHANGED <<head, up, connected, lastProcessedBlock, timers, tasks, db,
                 redisVars, history, spent>>

EmitProcessed(i) ==
  /\ inflight[i].saved
  /\ emitted' = emitted \cup Valid(Elements(inflight[i].events))
  /\ EndOfBatch(i)
  /\ UNCHANGED <<head, up, connected, lastProcessedBlock, timers, tasks, db,
                 redisVars, history, spent>>

-----------------------------------------------------------------------------
(* stopMonitoring, called by every 'disconnection' event and by a shutdown.*)

\* Up to its first await: the timers, then one batch unless one is running.
StopTimersAndProcess(t) ==
  /\ pollTimer' = FALSE /\ procTimer' = FALSE
  /\ IF CanProcess THEN TakeBatch(t) ELSE UNCHANGED pipeline

StopMonitoring(t, pc) ==
  /\ StopTimersAndProcess(t)
  /\ tasks' = [tasks EXCEPT ![t] = Call(pc, MinBlock, MinBlock)]

\* A non-JSON answer to the call s waits for: Web3Service disconnects and the
\* call throws.  eth_blockNumber is not retried: a poll ends, a start rejects.
\* eth_getLogs is retried, except by the token fallback, which moves on.
Disconnection(t, s) ==
  /\ up /\ tasks[t].pc = "idle"
  /\ \/ tasks[s].pc \in {"startHead", "startCatchUp", "pollHead", "pollCatchUp", "pollBlock"}
     \/ tasks[s].pc = "pollToken" /\ tasks[s].tok =< Len(TokenOrder)
  /\ spent.connections < MaxConnections /\ Spend("connections")
  /\ connected' = FALSE
  /\ StopTimersAndProcess(t)
  /\ tasks' = [tasks EXCEPT
        ![t] = Call("stop", MinBlock, MinBlock),
        ![s] = CASE @.pc = "pollHead"  -> Idle
                 [] @.pc = "startHead" -> Call("shutdown", MinBlock, MinBlock)
                 [] @.pc = "pollToken" -> [@ EXCEPT !.tok = @ + 1]
                 [] OTHER              -> @]
  /\ abandoned' = abandoned \cup
       IF tasks[s].pc = "pollToken"
       THEN EventsIn({TokenOrder[tasks[s].tok]}, tasks[s].from, tasks[s].from) ELSE {}
  /\ UNCHANGED <<head, up, lastProcessedBlock, db, emitted, redisVars, lost, viaFallback,
                 reread>>

SigTerm(t) ==
  /\ up /\ tasks[t].pc = "idle"
  /\ spent.restarts < MaxRestarts /\ Spend("restarts")
  /\ StopMonitoring(t, "shutdown")
  /\ UNCHANGED <<head, up, connected, lastProcessedBlock, db, emitted, redisVars,
                 history>>

\* startMonitoring rejects: unhandledRejection shuts the process down.
StartFails(t) ==
  /\ tasks[t].pc = "startHead"
  /\ spent.restarts < MaxRestarts /\ Spend("restarts")
  /\ StopMonitoring(t, "shutdown")
  /\ UNCHANGED <<head, up, connected, lastProcessedBlock, db, emitted, redisVars,
                 history>>

\* The tail of stopMonitoring: save, then quit the Redis client.
BatchDone(t) == \A i \in 1..Len(inflight) : inflight[i].by # t
SaveAndQuit ==
  /\ IF lastProcessedBlock > 0 THEN SaveLastProcessedBlock(lastProcessedBlock)
                               ELSE UNCHANGED redisBlock
  /\ redis' = IF redis = "open" THEN "closed" ELSE redis

\* quit() of a client that is closed already rejects, unhandled.
StopTail(t) ==
  /\ tasks[t].pc = "stop" /\ BatchDone(t)
  /\ SaveAndQuit
  /\ IF redis = "closed" THEN StopMonitoring(t, "shutdown")
     ELSE /\ tasks' = [tasks EXCEPT ![t] = Idle]
          /\ UNCHANGED <<timers, pipeline>>
  /\ UNCHANGED <<head, up, connected, lastProcessedBlock, db, emitted, history, spent>>

\* shutdown goes on with web3Service.disconnect, whose event stops the monitor
\* a second time, unless quit rejected: then it skips the rest.
ShutdownTail(t) ==
  /\ tasks[t].pc = "shutdown" /\ BatchDone(t)
  /\ SaveAndQuit
  /\ IF redis = "closed"
     THEN /\ tasks' = [tasks EXCEPT ![t] = Call("leave", MinBlock, MinBlock)]
          /\ UNCHANGED <<connected, timers, pipeline>>
     ELSE connected' = FALSE /\ StopMonitoring(t, "disconnect")
  /\ UNCHANGED <<head, up, lastProcessedBlock, db, emitted, history, spent>>

\* The second stop found the client closed: one more shutdown, one more stop.
SecondStopRejects(t) ==
  /\ tasks[t].pc = "disconnect" /\ BatchDone(t) /\ redis = "closed"
  /\ StopMonitoring(t, "leave")
  /\ UNCHANGED <<head, up, connected, lastProcessedBlock, db, emitted, redisVars,
                 history, spent>>

-----------------------------------------------------------------------------
(* The process and the chain.                                              *)

\* Memory goes.  What the next process will not fetch again is lost: what was
\* missing of the block it resumes after, and of an earlier one that went
\* through the token fallback.
ProcessEnds ==
  /\ up' = FALSE /\ connected' = FALSE
  /\ lastProcessedBlock' = 0
  /\ pollTimer' = FALSE /\ procTimer' = FALSE
  /\ tasks' = [t \in Tasks |-> Idle]
  /\ queue' = <<>> /\ isProcessing' = FALSE /\ inflight' = <<>>
  /\ redis' = "none"
  /\ lost' = lost \cup {e \in Valid(Events) :
                /\ ~Settled(e)
                /\ \E r \in rows : (e.block = r.block) \/ (e.block < r.block /\ e \in viaFallback)}
  /\ UNCHANGED <<head, db, emitted, abandoned, viaFallback, reread>>

\* process.exit waits for no stop but the first.
Exit(t) ==
  /\ tasks[t].pc \in {"disconnect", "leave"}
  /\ ProcessEnds /\ UNCHANGED <<redisBlock, spent>>

Crash ==
  /\ up
  /\ spent.restarts < MaxRestarts /\ Spend("restarts")
  /\ ProcessEnds /\ UNCHANGED redisBlock

\* main(): a new EventMonitor; its Redis client connects or is dropped.
Boot ==
  /\ ~up
  /\ up' = TRUE
  /\ redis' \in {"open", "none"}
  /\ UNCHANGED <<head, connected, lastProcessedBlock, timers, tasks, pipeline, db,
                 emitted, redisBlock, history, spent>>

NewBlock ==
  /\ head < MaxBlock
  /\ head' = head + 1
  /\ UNCHANGED <<up, connected, lastProcessedBlock, timers, tasks, pipeline, db,
                 emitted, redisVars, history, spent>>

\* What eth_blockNumber may answer.
HeadAnswers == {h \in Blocks : h =< head /\ head =< h + HeadLag}

TaskStep(t) ==
  \/ \E b \in Blocks : LoadSavedBlock(t, b)
  \/ LoadSavedBlockFails(t)
  \/ \E h \in HeadAnswers : StartFrom(t, h) \/ PollFrom(t, h)
  \/ CatchUpFromLast(t) \/ StartBlockPolling(t)
  \/ CatchUpBatch(t) \/ CatchUpBatchFails(t)
  \/ PollFails(t) \/ ProcessBlock(t) \/ ProcessBlockFails(t)
  \/ FetchToken(t) \/ FetchTokenFails(t) \/ FallbackEnds(t)
  \/ StopTail(t) \/ ShutdownTail(t) \/ SecondStopRejects(t) \/ Exit(t)

BatchStep(i) == Commit(i) \/ SaveFails(i) \/ SaveAnswerLost(i) \/ EmitProcessed(i)

Next ==
  \/ NewBlock \/ Boot \/ Crash \/ ProcessingTimer
  \/ \E t \in Tasks : \/ Connection(t) \/ SigTerm(t) \/ StartFails(t)
                      \/ PollTimer(t) \/ TaskStep(t)
  \/ \E t, s \in Tasks : Disconnection(t, s)
  \/ \E i \in 1..Len(inflight) : BatchStep(i)

Spec == Init /\ [][Next]_vars

\* Promises settle, intervals fire and docker restarts the process.
Fairness ==
  /\ WF_vars(Boot) /\ WF_vars(ProcessingTimer)
  /\ WF_vars(\E t \in Tasks : PollTimer(t))
  /\ \A t \in Tasks : WF_vars(TaskStep(t))
  /\ WF_vars(\E i \in 1..Len(inflight) : BatchStep(i))

FairSpec == Spec /\ Fairness
-----------------------------------------------------------------------------
(* Properties.                                                             *)

TypeOK ==
  /\ head \in Blocks
  /\ up \in BOOLEAN /\ connected \in BOOLEAN
  /\ pollTimer \in BOOLEAN /\ procTimer \in BOOLEAN /\ isProcessing \in BOOLEAN
  /\ lastProcessedBlock \in {0} \cup Blocks
  /\ tasks \in [Tasks -> Task]
  /\ queue \in Seq(Events)
  /\ inflight \in Seq(Batch)
  /\ rows \subseteq Events /\ counted \subseteq Events
  /\ recounted \subseteq Events /\ reread \subseteq Events
  /\ emitted \subseteq Events /\ abandoned \subseteq Events /\ lost \subseteq Events
  /\ viaFallback \subseteq Events
  /\ redis \in {"open", "closed", "none"}
  /\ redisBlock \in {0} \cup Blocks
  /\ spent \in [{"rpc", "db", "restarts", "connections"} -> Nat]

InMemory(e) == e \in Elements(queue) \/ e \in InFlight

\* The token fallback of a call in progress has yet to fetch e.
Pending(e) ==
  \E t \in Tasks : /\ tasks[t].pc = "pollToken" /\ tasks[t].from = e.block
                   /\ \E k \in tasks[t].tok..Len(TokenOrder) : TokenOrder[k] = e.token

Accounted(e) == Settled(e) \/ InMemory(e) \/ Pending(e)

\* Every transfer up to lastProcessedBlock is stored, on its way to the
\* database, about to be fetched by a fallback in progress, or belongs to a
\* fetch the code gave up or to a batch it lost: whatever starts, polls and
\* catch-ups overlap, the counter never runs ahead of what was fetched.
NoSilentGap ==
  \A e \in Valid(Events) : e.block =< lastProcessedBlock => Accounted(e)

\* A restart resumes after the highest stored block.  Below that block nothing
\* may still be only in memory: batches are stored in the order their blocks
\* were fetched (isProcessing, and the first-in first-out queue), so a crash
\* costs at most part of the block it resumes after.
NoLossBelowResume ==
  \A e \in Valid(Events), r \in rows :
    e.block < r.block => Settled(e) \/ e \in viaFallback

\* A client is told of a transfer only after the transaction that stores its
\* hash and counts it in the statistics has committed, through crashes, failed
\* saves and lost answers.
EmittedIsStored == \A e \in emitted : Stored(e) /\ e \in counted

\* Rows and statistics change together: one row for a hash, every row counted,
\* nothing counted whose hash has no row.
StatsMatchRows ==
  /\ \A r, q \in rows : r.hash = q.hash => r = q
  /\ rows \subseteq counted
  /\ \A e \in counted : Stored(e)

\* The statistics are incremental: a transfer counted twice stays wrong.  Each is
\* counted once, catch-ups, jumps, token fallbacks, failed requests and saves,
\* crashes and the starts after them included: a start resumes after all that was
\* counted.  Twice counts only what was counted before a start that could not read
\* the rows (databaseService.getLastProcessedBlock failed), or what is fetched once
\* two polls overlapped or a start found the monitor running or logs in memory.
CountedOnce == recounted \subseteq reread

\* While polling stays on, the scanner keeps reaching the head of the chain,
\* although overlapping polls may set lastProcessedBlock back.
PollingReachesHead ==
  <>[](up /\ pollTimer) => []<>(lastProcessedBlock >= head - HeadLag)

\* While the processing timer stays on, the queue keeps running empty, through
\* failed saves and lost answers.
QueueDrains == <>[](up /\ procTimer) => []<>(queue = <<>> /\ ~isProcessing)

-----------------------------------------------------------------------------
(* The pipeline implements the ledger its readers rely on.                 *)

InMemoryTransfers == Valid(Elements(queue) \cup InFlight)

Ledger == INSTANCE TransferLedger WITH
            Transfers <- Valid(Events), held <- InMemoryTransfers,
            recorded <- rows, announced <- emitted

\* Every step of the scanner, crashes, failed saves, lost answers and two stops
\* in one shutdown included, is a step of the ledger or none: rows, statistics
\* and announcements only grow, a row and its counting are one step from the
\* memory of this process, an announcement is a later one.
ImplementsLedger == Ledger!Spec

=============================================================================
