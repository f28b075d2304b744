----------------------------- MODULE SyncToken -----------------------------
(***************************************************************************)
(* The bulk import of a token's history (src/utils/sync-token/src), and    *)
(* its hand-over to the scanner, which resumes after the highest row of    *)
(* the table both of them write.                                           *)
(*                                                                         *)
(*   explorer --range--> fetched --1000 at a time--> rows <-- scanner      *)
(*                                                                         *)
(* A run imports one token or all of them, chunk by chunk of the block     *)
(* range, and may fail or be killed between any two requests.  The scanner *)
(* is EventMonitor's promise: whole blocks, one after the other.           *)
(***************************************************************************)
EXTENDS Integers, Sequences, FiniteSets

CONSTANTS
  Transfers,        \* the chain's transfers: [token, block, pos, hash, valid]
  Tokens,
  TokenOrder,       \* Object.values(TOKENS)
  Deployment,       \* deploymentBlock of each token
  MaxBlock,         \* bound: the last block of the chain
  ChunkSize,        \* blockRangeChunkSize
  MinRange,         \* minBlockRange
  PageLimit,        \* offset: the most transfers an answer has
  SaveSize,         \* batchSize of saveTransactionsBatch
  MaxRuns,          \* bound: runs of the program
  MaxTimeouts       \* bound: "Query Timeout" answers

Blocks == 1..MaxBlock

ASSUME ConfigAssumption ==
  /\ {MaxBlock, ChunkSize, MinRange, PageLimit, SaveSize} \subseteq Nat \ {0}
  /\ {MaxRuns, MaxTimeouts} \subseteq Nat
ASSUME TokenAssumption ==
  /\ TokenOrder \in Seq(Tokens) /\ TokenOrder # <<>>
  /\ \A t \in Tokens : \E i \in 1..Len(TokenOrder) : TokenOrder[i] = t
  /\ Deployment \in [Tokens -> Blocks]

\* pos is the order of the chain.
ASSUME TransferAssumption ==
  /\ IsFiniteSet(Transfers)
  /\ \A x \in Transfers : x.token \in Tokens /\ x.block \in Blocks /\ x.pos \in Nat
                          /\ x.valid \in BOOLEAN /\ x.block >= Deployment[x.token]
  /\ \A x, y \in Transfers : /\ x.pos = y.pos => x = y
                             /\ x.block < y.block => x.pos < y.pos

VARIABLES
  head,         \* the chain: number of its latest block
  pc,           \* the await the program is at; "idle": no program runs
  syncAll,      \* the run is for ALL tokens
  todo,         \* the tokens still to sync, the current one first
  endBlock,     \* syncEndBlock
  chunkStart,   \* currentChunkStart
  ranges,       \* the requests still to make for this chunk
  fetched,      \* the answers to the others
  toSave,       \* what the chunk still has to save
  rows,         \* table Transaction
  status,       \* BlockProcessingStatus.lastProcessedBlock; 0: no row
  scanned,      \* the scanner's lastProcessedBlock; 0: it has not been started
  handedOver,   \* history: where the scanner took over
  truncated,    \* history: transfers an answer left out for its page limit
  passedOver,   \* history: transfers a run resumed after
  runs, timeouts   \* counters of the bounds

work == <<syncAll, todo, endBlock, chunkStart, ranges, fetched, toSave>>
history == <<handedOver, truncated, passedOver>>
bounds == <<runs, timeouts>>
vars == <<head, pc, work, rows, status, scanned, history, bounds>>

Token == todo[1]
Of(t) == {x \in Transfers : x.token = t /\ x.valid}
In(t, a, b) == {x \in Transfers : x.token = t /\ x.block \in a..b}

\* The first n of a set of transfers.
First(n, S) == {x \in S : Cardinality({y \in S : y.pos < x.pos}) < n}

\* The unique index on Transaction.hash, and createMany with skipDuplicates.
Stored(x) == \E r \in rows : r.hash = x.hash
Insert(S) == {x \in S : /\ ~Stored(x)
                        /\ \A y \in S : y.hash = x.hash => x.pos =< y.pos}

IsLast(b, S) == (\E r \in S : r.block = b) /\ (\A r \in S : r.block =< b)

Init ==
  /\ head \in Blocks /\ pc = "idle"
  /\ syncAll = FALSE /\ todo = <<>> /\ endBlock = 1 /\ chunkStart = 1 /\ ranges = <<>>
  /\ fetched = {} /\ toSave = {}
  /\ rows = {} /\ status = 0 /\ scanned = 0
  /\ handedOver = 0 /\ truncated = {} /\ passedOver = {}
  /\ runs = 0 /\ timeouts = 0
-----------------------------------------------------------------------------
(* The program: main, syncToken and streamTokenTransfers.                  *)

\* main: one token or all, up to the current block.
Start(all, t) ==
  /\ pc = "idle" /\ runs < MaxRuns
  /\ runs' = runs + 1
  /\ pc' = "resume" /\ endBlock' = head
  /\ syncAll' = all /\ todo' = IF all THEN TokenOrder ELSE <<t>>
  /\ UNCHANGED <<head, chunkStart, ranges, fetched, toSave, rows, status, scanned, history,
                 timeouts>>

\* The last block of the chunk that begins at (start).
ChunkEnd(start) == IF start + ChunkSize - 1 < endBlock THEN start + ChunkSize - 1 ELSE endBlock

\* The loop of streamTokenTransfers: a chunk of blocks, or the next token, or the
\* end when every token is done.
GoTo(start) ==
  \/ /\ start =< endBlock
     /\ pc' = "fetch" /\ chunkStart' = start
     /\ ranges' = <<[from |-> start, to |-> ChunkEnd(start)]>>
     /\ UNCHANGED todo
  \/ /\ start > endBlock
     /\ pc' = IF Len(todo) > 1 THEN "resume" ELSE "done"
     /\ todo' = Tail(todo)
     /\ ranges' = <<>>
     /\ UNCHANGED chunkStart

OfToken == {r \in rows : r.token = Token}

\* Mutant: a block is skipped.
BlockSkipped(b) == b + 2

After(b) == b + 1

\* The start blocks syncToken may choose: after the last row of the token; its
\* deployment when there is none or the query failed.
StartBlocks ==
  {Deployment[Token]} \cup {After(b) : b \in {c \in Blocks : IsLast(c, OfToken)}}

\* syncToken begins.
Resume ==
  /\ pc = "resume"
  /\ \E start \in StartBlocks :
       /\ passedOver' = passedOver \cup {x \in Of(Token) : x.block < start /\ ~Stored(x)}
       /\ GoTo(start)
  /\ UNCHANGED <<head, syncAll, endBlock, fetched, toSave, rows, status, scanned, handedOver,
                 truncated, bounds>>

\* Mutant: the next chunk is the same again.
SameChunk == chunkStart

NextChunk == ChunkEnd(chunkStart) + 1

\* getTokenTransfers answers one request, at most a page; the last answer of a
\* chunk goes to onBatch, which leaves out zero values.
Answer ==
  LET all  == In(Token, ranges[1].from, ranges[1].to)
      got  == fetched \cup First(PageLimit, all)
      kept == {x \in got : x.valid}
  IN
  /\ pc = "fetch"
  /\ truncated' = truncated \cup (all \ First(PageLimit, all))
  /\ \/ /\ Len(ranges) > 1
        /\ ranges' = Tail(ranges) /\ fetched' = got
        /\ UNCHANGED <<pc, todo, chunkStart, toSave>>
     \/ /\ Len(ranges) = 1 /\ kept # {}
        /\ pc' = "save" /\ toSave' = kept
        /\ ranges' = <<>> /\ fetched' = {}
        /\ UNCHANGED <<todo, chunkStart>>
     \/ /\ Len(ranges) = 1 /\ kept = {}
        /\ GoTo(NextChunk)
        /\ fetched' = {} /\ UNCHANGED toSave
  /\ UNCHANGED <<head, syncAll, endBlock, rows, status, scanned, handedOver, passedOver, bounds>>

\* "Query Timeout": the range is split in two, requested one after the other.
Split ==
  LET r   == ranges[1]
      mid == (r.from + r.to) \div 2
  IN
  /\ pc = "fetch" /\ timeouts < MaxTimeouts
  /\ r.to - r.from + 1 > MinRange
  /\ timeouts' = timeouts + 1
  /\ ranges' = <<[from |-> r.from, to |-> mid], [from |-> After(mid), to |-> r.to]>>
               \o Tail(ranges)
  /\ UNCHANGED <<head, pc, syncAll, todo, endBlock, chunkStart, fetched, toSave, rows, status,
                 scanned, history, runs>>

\* Mutant: the newest transfers of the chunk first.
NewestFirst == {x \in toSave : Cardinality({y \in toSave : y.pos > x.pos}) < SaveSize}

Batch == First(SaveSize, toSave)

\* saveTransactionsBatch: one database transaction.
Save ==
  /\ pc = "save"
  /\ rows' = rows \cup Insert(Batch)
  /\ toSave' = toSave \ Batch
  /\ \/ toSave' # {} /\ UNCHANGED <<pc, todo, chunkStart, ranges>>
     \/ toSave' = {} /\ GoTo(NextChunk)
  /\ UNCHANGED <<head, syncAll, endBlock, fetched, status, scanned, history, bounds>>

\* Mutant: a run for one token writes the status row too.
AnyRun == TRUE

\* updateBlockProcessingStatus follows a run for ALL only.
WritesStatus == syncAll

Finish ==
  /\ pc = "done" /\ pc' = "idle"
  /\ status' = IF WritesStatus THEN endBlock ELSE status
  /\ UNCHANGED <<head, work, rows, scanned, history, bounds>>

\* A request, a save or the status row fails and main() exits, or the process is killed.
Exits ==
  /\ pc # "idle" /\ pc' = "idle"
  /\ ranges' = <<>> /\ fetched' = {} /\ toSave' = {}
  /\ UNCHANGED <<head, syncAll, todo, endBlock, chunkStart, rows, status, scanned, history,
                 bounds>>
-----------------------------------------------------------------------------
(* The chain and the scanner.                                              *)

NewBlock ==
  /\ head < MaxBlock /\ head' = head + 1
  /\ UNCHANGED <<pc, work, rows, status, scanned, history, bounds>>

\* getLastProcessedBlockNumber: the highest row of any token, or the first deployment.
ScannerStarts ==
  /\ scanned = 0
  /\ \/ \E b \in Blocks : IsLast(b, rows) /\ scanned' = b
     \/ rows = {} /\ \E t \in Tokens : /\ scanned' = Deployment[t]
                                       /\ \A u \in Tokens : Deployment[t] =< Deployment[u]
  /\ handedOver' = scanned'
  /\ UNCHANGED <<head, pc, work, rows, status, truncated, passedOver, bounds>>

ScannerStores ==
  /\ 0 < scanned /\ scanned < head
  /\ scanned' = scanned + 1
  /\ rows' = rows \cup Insert({x \in Transfers : x.valid /\ x.block = scanned'})
  /\ UNCHANGED <<head, pc, work, status, history, bounds>>

Program == Resume \/ Answer \/ Split \/ Save \/ Finish

Next ==
  \/ \E all \in BOOLEAN, t \in Tokens : Start(all, t)
  \/ Program \/ Exits \/ NewBlock \/ ScannerStarts \/ ScannerStores

Spec == Init /\ [][Next]_vars

\* Requests are answered or time out (30 s); nothing else is fair.
FairSpec == Spec /\ WF_vars(Program)
-----------------------------------------------------------------------------
(* Properties.                                                             *)

Settled(x) == Stored(x) \/ x \in truncated \/ x \in passedOver

Past(t) == IF pc = "idle" THEN status
           ELSE IF \E i \in 1..Len(todo) : todo[i] = t
                THEN IF t = Token /\ pc \in {"fetch", "save"} THEN chunkStart - 1 ELSE status
                ELSE IF syncAll THEN endBlock ELSE status

\* What the import has passed is stored, save what a page limit left out or a resume
\* passed over (streamTokenTransfers, getTokenTransfersWithRetry): of every token,
\* what the status row covers; of the current one, the chunks before this one.
ImportIsWhole ==
  \A t \in Tokens : \A x \in Of(t) : x.block =< Past(t) \/ x.block =< status => Settled(x)

\* A resume passes over nothing but the rest of a block that was saved in part
\* (syncToken's lastProcessedBlock + 1), unless the scanner writes to the table.
ResumeLosesOneBlock ==
  handedOver = 0 =>
    \A x \in passedOver : \/ Stored(x) \/ x \in truncated
                          \/ \E r \in rows : r.token = x.token /\ r.block = x.block

\* After an import of all tokens the scanner goes on without a gap
\* (updateBlockProcessingStatus; getLastProcessedBlockNumber of the scanner), unless
\* rows above the imported range made it start there.
HandOverWithoutGap ==
  0 < handedOver /\ handedOver =< status =>
    \A x \in Transfers : x.valid /\ x.block =< scanned => Settled(x)

\* A run of the program ends: every chunk and every half of a range is behind the next
\* one (streamTokenTransfers).
RunEnds == pc # "idle" ~> pc = "idle"
=============================================================================
