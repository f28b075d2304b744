---------------------------- MODULE AddressStats ----------------------------
(***************************************************************************)
(* The statistics of addresses for one token: AddressStatsCalculator, the  *)
(* Redis cache beside the table, and AddressRankingService                 *)
(* (src/apps/chain-scanner/src/services/addressStats*.ts, addressRanking). *)
(*                                                                         *)
(* A batch of transfers updates the rows of senders and receivers in one   *)
(* database transaction.  After each update the cache is filled with a     *)
(* read of its own connection, which sees committed rows only; readers     *)
(* (DatabaseService.getAddressStatistics, which the scanner offers but     *)
(* does not call itself) fill it too.                                      *)
(***************************************************************************)
EXTENDS Integers, Sequences, FiniteSets, FiniteSetsExt

CONSTANTS
  Addresses,
  Transfers,         \* [from, to, amount, day]
  Readers,           \* calls of getAddressStatistics in progress
  None,              \* no row
  Threshold,         \* WHALE_THRESHOLD; also where Decimal's toString turns to "1e+21"
  FullVelocity,      \* the 10 transactions a day of velocity 1
  BotTransactions,   \* the 50 of bot detection
  WhalePercentile,   \* 99
  Today,             \* the day rankings are made
  DormantDays,       \* 30
  MaxListed,         \* 100 whales, 50 risky addresses, 100 active traders
  MaxBatch, MaxSaves, MaxOutages   \* bounds: transfers in a batch and in all, Redis outages

\* A row of AddressStatistics.  An average is a fraction <<sum, count>>; scores are
\* in percent, the risk in hundredths of a percent.
Row == [sent : Int, received : Int, nSent : Int, nReceived : Int,
        avg : Int \X Int, avgSent : Int \X Int, avgReceived : Int \X Int,
        max : Int, maxSent : Int, maxReceived : Int, first : Int, last : Int,
        diversity : Int, risk : Int,
        whale : BOOLEAN, suspicious : BOOLEAN,
        flags : [bot : BOOLEAN, frequent : BOOLEAN, large : BOOLEAN, patterns : BOOLEAN]]

ASSUME NoneAssumption == None \notin Addresses /\ None \notin Row
ASSUME LimitAssumption == {Threshold, FullVelocity} \subseteq Nat \ {0}
ASSUME RankingAssumption ==
  IsFiniteSet(Addresses) /\ WhalePercentile \in 0..100 /\ {Today, BotTransactions, MaxListed} \subseteq Nat
ASSUME TransferAssumption == IsFiniteSet(Transfers) /\
  \A x \in Transfers : x.from \in Addresses /\ x.to \in Addresses /\ x.amount \in Nat /\ x.day \in Nat

VARIABLES
  table,      \* AddressStatistics, as committed: a row or None
  mine,       \* as the open transaction sees it
  batch,      \* the transfers of the open transaction
  updates,    \* its updates still to do: [x, dir]
  redis,      \* the cache: an entry or None
  ready,      \* cacheService.isReady()
  readers,    \* the calls in progress: [addr, row, late]
  times,      \* history: how often each transfer is in the committed rows
  committed,  \* history: every row an address ever had
  before,     \* history: its row before the last batch that changed it
  skipped,    \* history: addresses whose entry a refresh could not replace
  saves, outages   \* counters of the bounds

store == <<table, mine, batch, updates>>
history == <<times, committed, before, skipped>>
vars == <<store, redis, ready, readers, history, saves, outages>>

Larger(a, b)  == IF a > b THEN a ELSE b
Smaller(a, b) == IF a < b THEN a ELSE b
Idle == [addr |-> None, row |-> None, late |-> FALSE]

Init ==
  /\ table = [a \in Addresses |-> None] /\ mine = table
  /\ batch = <<>> /\ updates = <<>>
  /\ redis = [a \in Addresses |-> None] /\ ready = TRUE
  /\ readers = [r \in Readers |-> Idle]
  /\ times = [x \in Transfers |-> 0]
  /\ committed = [a \in Addresses |-> {}] /\ before = table /\ skipped = {}
  /\ saves = 0 /\ outages = 0
-----------------------------------------------------------------------------
(* The rows.                                                               *)

\* Mutant: the first transfer of a direction counts as the second.
AverageOfAll(avg, count, amount) ==
  <<avg[1] * (count + 1) + amount * avg[2], avg[2] * (count + 2)>>

NewAverage(avg, count, amount) ==
  IF count = 0 THEN <<amount, 1>>
               ELSE <<avg[1] * count + amount * avg[2], avg[2] * (count + 1)>>

\* transactions per day since the address was first seen, of FullVelocity
Velocity(row, x, count) ==
  Smaller(100, (100 * count) \div (FullVelocity * Larger(1, x.day - row.first)))

Diversity(row) == Smaller(100, row.nSent + row.nReceived)

InitialFlags(amount) ==
  [bot |-> FALSE, frequent |-> FALSE, large |-> amount >= Threshold, patterns |-> FALSE]

Flags(old, amount, velocity, count) ==
  [large    |-> old.large \/ amount >= Threshold,
   frequent |-> velocity > 80,
   bot      |-> velocity > 90 /\ count > BotTransactions,
   patterns |-> velocity > 95 /\ amount >= Threshold]

\* 0.3 of min(1, velocity * 1.5)
VelocityRisk(velocity) == Smaller(3000, 45 * velocity)

\* in hundredths of a percent: weights 0.3, 0.2, 0.3 and 0.2
Risk(velocity, diversity, whale, flags) ==
  LET anomaly == (IF flags.patterns THEN 40 ELSE 0) + (IF flags.bot THEN 30 ELSE 0)
                 + (IF flags.frequent THEN 30 ELSE 0)
  IN VelocityRisk(velocity) + 20 * (100 - diversity)
     + (IF whale THEN 3000 ELSE 0) + 20 * Smaller(100, anomaly)

\* The create branch of the upsert.
Created(x, dir) ==
  LET sent == IF dir = "sent" THEN x.amount ELSE 0
      received == IF dir = "received" THEN x.amount ELSE 0
  IN [sent |-> sent, received |-> received,
      nSent |-> IF dir = "sent" THEN 1 ELSE 0, nReceived |-> IF dir = "sent" THEN 0 ELSE 1,
      avg |-> <<x.amount, 1>>, avgSent |-> <<sent, 1>>, avgReceived |-> <<received, 1>>,
      max |-> x.amount, maxSent |-> sent, maxReceived |-> received,
      first |-> x.day, last |-> x.day,
      diversity |-> 10, risk |-> 1000, whale |-> x.amount >= Threshold, suspicious |-> FALSE,
      flags |-> InitialFlags(x.amount)]

\* Mutant: the maximum of all is taken of the transfers of this direction.
MaxOfDirection(row, x, dir) ==
  IF dir = "sent" THEN Larger(row.maxSent, x.amount) ELSE Larger(row.maxReceived, x.amount)

NewMax(row, x, dir) == Larger(row.max, x.amount)

\* calculateIncrementalStats, the update branch.
Updated(row, x, dir) ==
  LET count    == row.nSent + row.nReceived + 1
      volume   == row.sent + row.received + x.amount
      velocity == Velocity(row, x, count)
      whale    == volume >= Threshold
      flags    == Flags(row.flags, x.amount, velocity, count)
      risk     == Risk(velocity, Diversity(row), whale, flags)
      common == [row EXCEPT
        !.avg = <<volume, count>>, !.max = NewMax(row, x, dir), !.last = x.day,
        !.whale = whale, !.flags = flags, !.diversity = Diversity(row), !.risk = risk, !.suspicious = risk > 7000]
  IN IF dir = "sent"
     THEN [common EXCEPT
             !.sent = @ + x.amount, !.nSent = @ + 1,
             !.avgSent = NewAverage(@, row.nSent, x.amount),
             !.maxSent = Larger(@, x.amount)]
     ELSE [common EXCEPT
             !.received = @ + x.amount, !.nReceived = @ + 1,
             !.avgReceived = NewAverage(@, row.nReceived, x.amount),
             !.maxReceived = Larger(@, x.amount)]

Upserted(row, x, dir) == IF row = None THEN Created(x, dir) ELSE Updated(row, x, dir)
-----------------------------------------------------------------------------
(* A batch.                                                                *)

\* updateAddressStatistics: the sender, then the receiver.
UpdatesOf(s) == [i \in 1..(2 * Len(s)) |->
                   [x |-> s[(i + 1) \div 2], dir |-> IF i % 2 = 1 THEN "sent" ELSE "received"]]

\* saveTransactionBatch opens its transaction.
Begin(s) ==
  /\ batch = <<>> /\ saves + Len(s) =< MaxSaves
  /\ saves' = saves + Len(s)
  /\ batch' = s /\ updates' = UpdatesOf(s) /\ mine' = table
  /\ UNCHANGED <<table, redis, ready, readers, history, outages>>

\* Mutant: the cache is refreshed with what the transaction sees.
SeenByTransaction == mine

\* The other connection sees what is committed.
SeenOutside == table

\* setAddressStats, when Redis can be reached.
SetEntry(a, row) ==
  /\ redis' = IF ready THEN [redis EXCEPT ![a] = row] ELSE redis
  /\ skipped' = IF ready THEN skipped \ {a} ELSE skipped \cup {a}

\* updateSingleAddressStats: upsert, then updateCacheAfterStatsUpdate (a new address
\* has no committed row to cache).
Update ==
  LET u == updates[1]
      a == IF u.dir = "sent" THEN u.x.from ELSE u.x.to
  IN
  /\ updates # <<>>
  /\ UNCHANGED <<table, batch, ready, readers, times, committed, before, saves, outages>>
  /\ mine' = [mine EXCEPT ![a] = Upserted(@, u.x, u.dir)]
  /\ updates' = Tail(updates)
  /\ IF SeenOutside'[a] = None THEN UNCHANGED <<redis, skipped>>
                               ELSE SetEntry(a, SeenOutside'[a])

Commit ==
  LET changed == {a \in Addresses : mine[a] # table[a]} IN
  /\ batch # <<>> /\ updates = <<>>
  /\ table' = mine /\ batch' = <<>>
  /\ times' = [x \in Transfers |-> times[x] + Cardinality({i \in 1..Len(batch) : batch[i] = x})]
  /\ committed' = [a \in Addresses |-> committed[a] \cup ({mine[a]} \ {None})]
  /\ before' = [a \in Addresses |-> IF a \in changed THEN table[a] ELSE before[a]]
  /\ readers' = [r \in Readers |-> [readers[r] EXCEPT !.late = @ \/ readers[r].addr \in changed]]
  /\ UNCHANGED <<mine, updates, redis, ready, skipped, saves, outages>>

\* A statement fails or the transaction times out: the rows are as before, the cache is not.
Rollback ==
  /\ batch # <<>> /\ batch' = <<>> /\ updates' = <<>>
  /\ UNCHANGED <<table, mine, redis, ready, readers, history, saves, outages>>
-----------------------------------------------------------------------------
(* The cache.                                                              *)

\* convertCachedStatsToDbFormat: BigInt() rejects "1e+21".
Readable(e) == e # None /\ \A v \in {e.sent, e.received, e.max} : v < Threshold

\* getAddressStatistics finds no entry it can read and asks the database, which answers
\* later.  A hit ends here and changes nothing.
Read(r, a) ==
  /\ readers[r] = Idle
  /\ ~(ready /\ Readable(redis[a]))
  /\ table[a] # None
  /\ readers' = [readers EXCEPT ![r] = [addr |-> a, row |-> table[a], late |-> FALSE]]
  /\ UNCHANGED <<store, redis, ready, history, saves, outages>>

\* The answer goes to the cache, whatever is there by now.
Fill(r) ==
  LET c == readers[r] IN
  /\ c # Idle
  /\ redis' = IF ready THEN [redis EXCEPT ![c.addr] = c.row] ELSE redis
  /\ skipped' = IF ~ready THEN skipped
                ELSE IF c.late THEN skipped \cup {c.addr} ELSE skipped \ {c.addr}
  /\ readers' = [readers EXCEPT ![r] = Idle]
  /\ UNCHANGED <<store, ready, times, committed, before, saves, outages>>

\* The time to live of an entry ends.
Expire(a) ==
  /\ redis[a] # None
  /\ redis' = [redis EXCEPT ![a] = None] /\ skipped' = skipped \ {a}
  /\ UNCHANGED <<store, ready, readers, times, committed, before, saves, outages>>

\* The 'ready', 'error' and 'end' events of the client.
ConnectionChanges ==
  /\ ready => outages < MaxOutages
  /\ outages' = IF ready THEN outages + 1 ELSE outages
  /\ ready' = ~ready
  /\ UNCHANGED <<store, redis, readers, history, saves>>

Batches == UNION {[1..n -> Transfers] : n \in 1..MaxBatch}

Next ==
  \/ \E s \in Batches : Begin(s)
  \/ Update \/ Commit \/ Rollback
  \/ \E r \in Readers : Fill(r) \/ \E a \in Addresses : Read(r, a)
  \/ \E a \in Addresses : Expire(a)
  \/ ConnectionChanges

Spec == Init /\ [][Next]_vars
-----------------------------------------------------------------------------
(* AddressRankingService: functions of the rows.                           *)

Ranked == {a \in Addresses : table[a] # None}
Volume(a) == table[a].sent + table[a].received
Count(a)  == table[a].nSent + table[a].nReceived
Volumes == [a \in Ranked |-> Volume(a)]
Counts  == [a \in Ranked |-> Count(a)]

\* Mutant: an address counts among those below itself.
BelowOrEqual(a, value) == Cardinality({b \in Ranked : value[b] =< value[a]})

\* The index of the first value that is not smaller, in ascending order: of the addresses,
\* the share this index is, in percent, is the percentile score.
Index(a, value) == Cardinality({b \in Ranked : value[b] < value[a]})

Recency(a) == Larger(0, 100 - (Today - table[a].last))

\* generateTokenRankings: weights 0.4, 0.3, 0.2 and 0.1 of four scores in percent, in
\* units of 1/100n.
Composite(a) ==
  4000 * Index(a, Volumes) + 3000 * Index(a, Counts)
  + Cardinality(Ranked) * (20 * Recency(a) + 10 * table[a].diversity)

\* The rows come by totals, and the sort by score is stable.
Outranks(a, b) ==
  \/ Composite(a) > Composite(b)
  \/ Composite(a) = Composite(b) /\ table[a].sent > table[b].sent
  \/ /\ Composite(a) = Composite(b) /\ table[a].sent = table[b].sent
     /\ table[a].received > table[b].received

\* The ranks an answer may give: one each; the database orders equal rows as it likes.
Rankings ==
  {rank \in [Ranked -> 1..Cardinality(Ranked)] :
     \A a, b \in Ranked : a # b => rank[a] # rank[b] /\ (Outranks(a, b) => rank[a] < rank[b])}

\* categorizeBehavior
ActiveTraders == {a \in Ranked : Count(a) >= BotTransactions}
Risky == {a \in Ranked : table[a].risk >= 7000}   \* those of 8000 are suspicious too
Dormant == {a \in Ranked : Today - table[a].last >= DormantDays}
Whales == {a \in Ranked : 100 * Index(a, Volumes) >= WhalePercentile * Cardinality(Ranked)}

\* generateAddressLabel: the first that fits
Label(a) ==
  CASE a \in Whales -> "whale"
    [] a \notin Whales /\ table[a].risk >= 8000 -> "suspicious"
    [] a \notin Whales /\ a \in Risky /\ table[a].risk < 8000 -> "risky"
    [] a \notin Whales \cup Risky /\ a \in ActiveTraders -> "active"
    [] a \notin Whales \cup Risky \cup ActiveTraders /\ a \in Dormant -> "dormant"
    [] OTHER -> "regular"

\* cacheRankings: the first of each category, by rank
Leading(S, most, rank) == {a \in S : Cardinality({b \in S : rank[b] < rank[a]}) < most}
CachedRankings(rank) ==
  [whales |-> Leading(Whales, MaxListed, rank), risky |-> Leading(Risky, MaxListed, rank),
   active |-> Leading(ActiveTraders, MaxListed, rank)]
-----------------------------------------------------------------------------
(* Properties.                                                             *)

One == [x \in Transfers |-> 1]
Amount == [x \in Transfers |-> x.amount]
Weighted(S, weight) == SumFunctionOnSet([x \in Transfers |-> times[x] * weight[x]], S)
Amounts(S) == {x.amount : x \in {y \in S : times[y] > 0}}
Largest(S) == IF S = {} THEN 0 ELSE Max(S)

\* Incremental updates add up (calculateIncrementalStats, the create branch of the upsert,
\* calculateNewAverage): totals, counts, averages and maxima of a row are those of the
\* transfers committed for it, a transfer to oneself on both sides.
RowsMatchTransfers ==
  \A a \in Addresses :
    LET S == {x \in Transfers : x.from = a}
        R == {x \in Transfers : x.to = a}
        row == table[a]
        Average(avg, total, n) == n > 0 => avg[1] * n = total * avg[2]
    IN IF Weighted(S \cup R, One) = 0 THEN row = None
       ELSE /\ row.nSent = Weighted(S, One) /\ row.nReceived = Weighted(R, One)
            /\ row.sent = Weighted(S, Amount) /\ row.received = Weighted(R, Amount)
            /\ row.maxSent = Largest(Amounts(S)) /\ row.maxReceived = Largest(Amounts(R))
            /\ row.max = Largest(Amounts(S \cup R))
            /\ row.whale <=> Volume(a) >= Threshold
            /\ row.flags.large <=> row.max >= Threshold
            /\ Average(row.avgSent, row.sent, row.nSent)
            /\ Average(row.avgReceived, row.received, row.nReceived)
            /\ Average(row.avg, Volume(a), row.nSent + row.nReceived)

\* The cache never shows what was not committed (updateCacheAfterStatsUpdate reads
\* outside the transaction, which may still fail).
CacheWasCommitted == \A a \in Addresses : redis[a] # None => redis[a] \in committed[a]

\* The cache is at most one batch behind (updateCacheAfterStatsUpdate), unless Redis
\* could not be reached or a reader was overtaken by a commit.
CacheLagsOneBatch ==
  \A a \in Addresses \ skipped : redis[a] \in {None, table[a], before[a]}

\* The score for diversity falls from 10 to 1 with the second transaction of an address
\* and is back at 10 with the eleventh; among more than 33 addresses that weighs more than
\* one place by count.
Favoured(b, a) == Cardinality(Ranked) > 33 /\ Count(b) = 1 /\ Count(a) \in 2..10

\* At most one percent of the addresses are whales, those with the largest volumes; an
\* address ahead in volume or count and behind in nothing is ranked first and not left out
\* of the list of whales for another, whatever order equal rows came in, unless the score
\* for diversity favours the other; labels agree with the lists (calculatePercentileScore,
\* categorizeBehavior, generateTokenRankings, generateAddressLabel, cacheRankings).
RankingIsSound ==
  LET label == [a \in Ranked |-> Label(a)]
      Ahead(a, b) ==
        /\ Volume(a) >= Volume(b) /\ Count(a) >= Count(b) /\ table[a].last >= table[b].last
        /\ Volume(a) > Volume(b) \/ Count(a) > Count(b)
  IN /\ 100 * Cardinality(Whales) =< (100 - WhalePercentile) * Cardinality(Ranked)
     /\ \A a, b \in Ranked : a \in Whales /\ Volume(b) >= Volume(a) => b \in Whales
     /\ \A a \in Ranked :
          /\ label[a] = "whale" <=> a \in Whales
          /\ label[a] \in {"suspicious", "risky"} => a \in Risky
     /\ \A rank \in Rankings :
          LET kept == CachedRankings(rank) IN
          /\ \A a, b \in Ranked : Ahead(a, b) /\ ~Favoured(b, a) =>
               /\ rank[a] < rank[b]
               /\ a \in Whales /\ b \in kept.whales => a \in kept.whales
          /\ \A a \in kept.whales \cup kept.risky \cup kept.active : label[a] # "regular"
=============================================================================
