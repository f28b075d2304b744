-------------------------- MODULE Statistics_proofs --------------------------
(***************************************************************************)
(* Proofs about the statistics of transfers: the scanner's rows per        *)
(* address with their cache and rankings (AddressStats, for any finite     *)
(* sets of transfers, addresses and readers) and the series over time that *)
(* the charts show (TimeSeries, for any tokens, limits, width of a unit    *)
(* and table).                                                             *)
(***************************************************************************)
EXTENDS AddressStats, TimeSeries, SumTheorems, SequenceTheorems, TLAPS

-----------------------------------------------------------------------------
(* The rows per address.  The cache: every entry was committed once, and an *)
(* entry a refresh could reach is at most one batch behind.  The rows:     *)
(* totals, counts, averages and maxima are those of the transfers          *)
(* committed.  The rankings: sound for any rows.                           *)

\* The functions and records the steps update.
Shapes ==
  /\ table \in [Addresses -> Row \cup {None}] /\ mine \in [Addresses -> Row \cup {None}]
  /\ updates \in Seq([x : Transfers, dir : {"sent", "received"}])
  /\ \A a \in Addresses : mine[a] = None => table[a] = None
  /\ redis = [a \in Addresses |-> redis[a]]
  /\ readers = [r \in Readers |-> readers[r]]
  /\ \A r \in Readers :
       /\ readers[r] = [addr |-> readers[r].addr, row |-> readers[r].row, late |-> readers[r].late]
       /\ readers[r].addr \in Addresses \cup {None} /\ readers[r].late \in BOOLEAN
       /\ readers[r].addr = None => readers[r] = Idle

\* A row is in the history of its address; so is what a reader brings.
TableCommitted == \A a \in Addresses : table[a] # None => table[a] \in committed[a]

ReadersCommitted ==
  \A r \in Readers : readers[r].addr # None =>
    /\ readers[r].row # None /\ readers[r].row \in committed[readers[r].addr]
    /\ readers[r].late \/ readers[r].row = table[readers[r].addr]

\* Nothing of an address without a row is anywhere.
Unseen == \A a \in Addresses : table[a] = None =>
  /\ before[a] = None /\ redis[a] = None
  /\ \A r \in Readers : readers[r].addr # a

\* While a batch is open: an address it has changed was refreshed since, from the
\* table as it is committed.
Refreshed == batch # <<>> =>
  \A a \in Addresses \ skipped : mine[a] = table[a] \/ redis[a] \in {None, table[a]}

CInv == /\ Shapes /\ TableCommitted /\ ReadersCommitted /\ Unseen /\ Refreshed
        /\ CacheWasCommitted /\ CacheLagsOneBatch

-----------------------------------------------------------------------------
(* Rows.                                                                   *)

\* The smaller and the larger of two numbers.
LEMMA OfTwo ==
  ASSUME NEW a \in Int, NEW b \in Int
  PROVE  Larger(a, b) \in Int /\ Smaller(a, b) \in Int
BY DEF Larger, Smaller

\* Days since the first transfer are counted from one.
LEMMA ProductPositive ==
  ASSUME NEW a \in Nat, a # 0, NEW b \in Int, b >= 1
  PROVE  a * b \in Int /\ a * b > 0
OBVIOUS

LEMMA QuotientTyped ==
  ASSUME NEW a \in Int, NEW b \in Int, b > 0
  PROVE  a \div b \in Int
OBVIOUS

\* An average is a fraction of integers.
LEMMA AverageTyped ==
  ASSUME NEW avg \in Int \X Int, NEW n \in Int, NEW amount \in Int
  PROVE  NewAverage(avg, n, amount) \in Int \X Int
<1>1. avg[1] \in Int /\ avg[2] \in Int
  OBVIOUS
<1>2. /\ avg[1] * n + amount * avg[2] \in Int /\ avg[2] * (n + 1) \in Int
  BY <1>1
<1> QED BY <1>1, <1>2 DEF NewAverage

\* The create branch makes a row.
LEMMA CreatedTyped ==
  ASSUME NEW x \in Transfers, NEW dir
  PROVE  Created(x, dir) \in Row
<1>1. x.amount \in Int /\ x.day \in Int
  BY TransferAssumption
<1> QED BY <1>1 DEF Created, Row, InitialFlags

\* So does the update branch; what it keeps is kept on the side of the transfer only.
LEMMA UpdatedRow ==
  ASSUME NEW x \in Transfers, NEW dir, NEW row \in Row
  PROVE  LET new == Updated(row, x, dir)
             volume == row.sent + row.received + x.amount
         IN /\ new \in Row
            /\ new.avg = <<volume, row.nSent + row.nReceived + 1>> /\ new.max = NewMax(row, x, dir)
            /\ new.diversity = Diversity(row)
            /\ new.whale <=> volume >= Threshold
            /\ new.flags.large <=> row.flags.large \/ x.amount >= Threshold
            /\ dir = "sent" =>
                 /\ new.sent = row.sent + x.amount /\ new.nSent = row.nSent + 1
                 /\ new.avgSent = NewAverage(row.avgSent, row.nSent, x.amount)
                 /\ new.maxSent = Larger(row.maxSent, x.amount)
                 /\ new.received = row.received /\ new.nReceived = row.nReceived
                 /\ new.avgReceived = row.avgReceived /\ new.maxReceived = row.maxReceived
            /\ dir # "sent" =>
                 /\ new.received = row.received + x.amount /\ new.nReceived = row.nReceived + 1
                 /\ new.avgReceived = NewAverage(row.avgReceived, row.nReceived, x.amount)
                 /\ new.maxReceived = Larger(row.maxReceived, x.amount)
                 /\ new.sent = row.sent /\ new.nSent = row.nSent
                 /\ new.avgSent = row.avgSent /\ new.maxSent = row.maxSent
<1> DEFINE count    == row.nSent + row.nReceived + 1
           volume   == row.sent + row.received + x.amount
           velocity == Velocity(row, x, count)
           whale    == volume >= Threshold
           flags    == Flags(row.flags, x.amount, velocity, count)
           risk     == Risk(velocity, Diversity(row), whale, flags)
           common == [row EXCEPT
             !.avg = <<volume, count>>, !.max = NewMax(row, x, dir), !.last = x.day,
             !.whale = whale, !.flags = flags, !.diversity = Diversity(row), !.risk = risk,
             !.suspicious = risk > 7000]
           sent == [common EXCEPT
             !.sent = @ + x.amount, !.nSent = @ + 1,
             !.avgSent = NewAverage(@, row.nSent, x.amount),
             !.maxSent = Larger(@, x.amount)]
           received == [common EXCEPT
             !.received = @ + x.amount, !.nReceived = @ + 1,
             !.avgReceived = NewAverage(@, row.nReceived, x.amount),
             !.maxReceived = Larger(@, x.amount)]
<1>1. x.amount \in Int /\ x.day \in Int
  BY TransferAssumption
<1>2. count \in Int /\ volume \in Int /\ whale \in BOOLEAN
  BY <1>1 DEF Row
<1>3. NewMax(row, x, dir) \in Int
  BY <1>1, OfTwo DEF NewMax, Row
<1>4. flags \in [bot : BOOLEAN, frequent : BOOLEAN, large : BOOLEAN, patterns : BOOLEAN]
  <2>1. row.flags.large \in BOOLEAN
    BY DEF Row
  <2> HIDE DEF velocity, count
  <2> QED BY <2>1 DEF Flags
<1>5. velocity \in Int
  <2>1. Larger(1, x.day - row.first) \in Int /\ Larger(1, x.day - row.first) >= 1
    BY <1>1 DEF Larger, Row
  <2>2. FullVelocity * Larger(1, x.day - row.first) \in Int
        /\ FullVelocity * Larger(1, x.day - row.first) > 0
    BY <2>1, LimitAssumption, ProductPositive
  <2>3. (100 * count) \div (FullVelocity * Larger(1, x.day - row.first)) \in Int
    BY <1>2, <2>2, QuotientTyped
  <2> QED BY <2>3, OfTwo DEF Velocity
<1>6. Diversity(row) \in Int
  BY OfTwo DEF Diversity, Row
<1> HIDE DEF velocity, flags, whale, volume, count
<1>7. risk \in Int
  <2>1. VelocityRisk(velocity) \in Int
    BY <1>5, OfTwo DEF VelocityRisk
  <2> DEFINE anomaly == (IF flags.patterns THEN 40 ELSE 0) + (IF flags.bot THEN 30 ELSE 0)
                        + (IF flags.frequent THEN 30 ELSE 0)
  <2>2. anomaly \in Int
    OBVIOUS
  <2>3. Smaller(100, anomaly) \in Int
    BY <2>2, OfTwo
  <2>4. risk = VelocityRisk(velocity) + 20 * (100 - Diversity(row))
               + (IF whale THEN 3000 ELSE 0) + 20 * Smaller(100, anomaly)
    BY DEF Risk
  <2> HIDE DEF anomaly, risk
  <2> QED BY <1>6, <2>1, <2>3, <2>4
<1> HIDE DEF risk
<1> DEFINE avg == <<volume, count>>
           diversity == Diversity(row)
           suspicious == risk > 7000
           max == NewMax(row, x, dir)
           day == x.day
<1>8. /\ avg \in Int \X Int /\ suspicious \in BOOLEAN /\ max \in Int /\ day \in Int
      /\ diversity \in Int
      /\ common = [row EXCEPT !.avg = avg, !.max = max, !.last = day, !.whale = whale,
                              !.flags = flags, !.diversity = diversity, !.risk = risk,
                              !.suspicious = suspicious]
  BY <1>1, <1>2, <1>3, <1>6
<1>9. flags.large <=> row.flags.large \/ x.amount >= Threshold
  <2>1. CASE row.flags.large \/ x.amount >= Threshold
    <3>1. (row.flags.large \/ x.amount >= Threshold) = TRUE
      BY <2>1
    <3> QED BY <2>1, <3>1 DEF flags, Flags
  <2>2. CASE ~(row.flags.large \/ x.amount >= Threshold)
    <3>1. (row.flags.large \/ x.amount >= Threshold) = FALSE
      BY <2>2
    <3> QED BY <2>2, <3>1 DEF flags, Flags
  <2> QED BY <2>1, <2>2
<1> HIDE DEF avg, diversity, suspicious, max, day, common
<1>10. common \in Row
  <2> DEFINE averaged == [row EXCEPT !.avg = avg, !.max = max, !.last = day]
             marked == [averaged EXCEPT !.whale = whale, !.flags = flags]
  <2>1. averaged \in Row
    BY <1>2, <1>8 DEF Row
  <2> HIDE DEF averaged
  <2>2. marked \in Row
    BY <1>2, <1>4, <2>1 DEF Row
  <2> HIDE DEF marked
  <2>3. [marked EXCEPT !.diversity = diversity, !.risk = risk, !.suspicious = suspicious] \in Row
    BY <1>7, <1>8, <2>2 DEF Row
  <2>4. common = [marked EXCEPT !.diversity = diversity, !.risk = risk, !.suspicious = suspicious]
    BY <1>2, <1>8 DEF Row, averaged, marked
  <2> QED BY <2>3, <2>4
<1>11. /\ common.sent = row.sent /\ common.received = row.received
       /\ common.nSent = row.nSent /\ common.nReceived = row.nReceived
       /\ common.avgSent = row.avgSent /\ common.avgReceived = row.avgReceived
       /\ common.maxSent = row.maxSent /\ common.maxReceived = row.maxReceived
       /\ common.avg = avg /\ common.max = max /\ common.whale = whale /\ common.flags = flags
       /\ common.diversity = diversity
  BY <1>8 DEF Row
<1>12. NewAverage(row.avgSent, row.nSent, x.amount) \in Int \X Int
       /\ NewAverage(row.avgReceived, row.nReceived, x.amount) \in Int \X Int
  BY <1>1, AverageTyped DEF Row
<1>13. /\ row.sent + x.amount \in Int /\ row.received + x.amount \in Int
       /\ row.nSent + 1 \in Int /\ row.nReceived + 1 \in Int
       /\ Larger(row.maxSent, x.amount) \in Int /\ Larger(row.maxReceived, x.amount) \in Int
  <2>1. /\ row.sent \in Int /\ row.received \in Int /\ row.nSent \in Int
        /\ row.nReceived \in Int /\ row.maxSent \in Int /\ row.maxReceived \in Int
    BY DEF Row
  <2>2. \A a, b \in Int : a + b \in Int /\ a + 1 \in Int
    OBVIOUS
  <2>3. Larger(row.maxSent, x.amount) \in Int /\ Larger(row.maxReceived, x.amount) \in Int
    BY <1>1, <2>1, OfTwo
  <2> QED BY <1>1, <2>1, <2>2, <2>3
<1>14. sent \in Row
  BY <1>10, <1>11, <1>12, <1>13 DEF Row
<1>15. received \in Row
  BY <1>10, <1>11, <1>12, <1>13 DEF Row
<1>16. Updated(row, x, dir) = IF dir = "sent" THEN sent ELSE received
  BY DEF Updated, common, risk, velocity, flags, whale, volume, count
<1>17. /\ sent.avg = avg /\ sent.max = max /\ sent.whale = whale /\ sent.flags = flags
       /\ sent.diversity = diversity
       /\ sent.sent = row.sent + x.amount /\ sent.nSent = row.nSent + 1
       /\ sent.avgSent = NewAverage(row.avgSent, row.nSent, x.amount)
       /\ sent.maxSent = Larger(row.maxSent, x.amount)
       /\ sent.received = row.received /\ sent.nReceived = row.nReceived
       /\ sent.avgReceived = row.avgReceived /\ sent.maxReceived = row.maxReceived
  BY <1>10, <1>11 DEF Row
<1>18. /\ received.avg = avg /\ received.max = max /\ received.whale = whale /\ received.flags = flags
       /\ received.diversity = diversity
       /\ received.received = row.received + x.amount /\ received.nReceived = row.nReceived + 1
       /\ received.avgReceived = NewAverage(row.avgReceived, row.nReceived, x.amount)
       /\ received.maxReceived = Larger(row.maxReceived, x.amount)
       /\ received.sent = row.sent /\ received.nSent = row.nSent
       /\ received.avgSent = row.avgSent /\ received.maxSent = row.maxSent
  BY <1>10, <1>11 DEF Row
<1> DEFINE new == Updated(row, x, dir)
<1>19. new = IF dir = "sent" THEN sent ELSE received
  BY <1>16
<1> HIDE DEF sent, received, new
<1>20. /\ new \in Row /\ new.avg = avg /\ new.max = max /\ new.whale = whale
       /\ new.flags = flags /\ new.diversity = diversity
  BY <1>14, <1>15, <1>17, <1>18, <1>19
<1>21. new.avg = <<row.sent + row.received + x.amount, row.nSent + row.nReceived + 1>>
       /\ new.max = NewMax(row, x, dir) /\ new.diversity = Diversity(row)
  BY <1>20 DEF avg, max, diversity, volume, count
<1>22. new.whale <=> row.sent + row.received + x.amount >= Threshold
  BY <1>20 DEF whale, volume
<1>23. new.flags.large <=> row.flags.large \/ x.amount >= Threshold
  BY <1>9, <1>20
<1>24. ASSUME dir = "sent"
       PROVE  /\ new.sent = row.sent + x.amount /\ new.nSent = row.nSent + 1
              /\ new.avgSent = NewAverage(row.avgSent, row.nSent, x.amount)
              /\ new.maxSent = Larger(row.maxSent, x.amount)
              /\ new.received = row.received /\ new.nReceived = row.nReceived
              /\ new.avgReceived = row.avgReceived /\ new.maxReceived = row.maxReceived
  BY <1>17, <1>19, <1>24
<1>25. ASSUME dir # "sent"
       PROVE  /\ new.received = row.received + x.amount /\ new.nReceived = row.nReceived + 1
              /\ new.avgReceived = NewAverage(row.avgReceived, row.nReceived, x.amount)
              /\ new.maxReceived = Larger(row.maxReceived, x.amount)
              /\ new.sent = row.sent /\ new.nSent = row.nSent
              /\ new.avgSent = row.avgSent /\ new.maxSent = row.maxSent
  BY <1>18, <1>19, <1>25
<1> QED BY <1>20, <1>21, <1>22, <1>23, <1>24, <1>25 DEF new

\* What an upsert leaves is a row.
LEMMA UpsertedTyped ==
  ASSUME NEW x \in Transfers, NEW dir, NEW row \in Row \cup {None}
  PROVE  Upserted(row, x, dir) \in Row /\ Upserted(row, x, dir) # None
BY CreatedTyped, UpdatedRow, NoneAssumption DEF Upserted

\* The updates of a batch.
LEMMA UpdatesTyped ==
  ASSUME NEW s \in Batches
  PROVE  UpdatesOf(s) \in Seq([x : Transfers, dir : {"sent", "received"}])
<1>1. PICK n \in 1..MaxBatch : s \in [1..n -> Transfers]
  BY DEF Batches
<1>2. Len(s) = n /\ n \in Nat
  BY <1>1
<1>3. ASSUME NEW i \in 1..(2 * n)
      PROVE  [x |-> s[(i + 1) \div 2], dir |-> IF i % 2 = 1 THEN "sent" ELSE "received"]
               \in [x : Transfers, dir : {"sent", "received"}]
  <2>1. (i + 1) \div 2 \in 1..n
    BY <1>2
  <2> QED BY <1>1, <2>1
<1>4. UpdatesOf(s) \in [1..(2 * n) -> [x : Transfers, dir : {"sent", "received"}]]
  BY <1>2, <1>3 DEF UpdatesOf
<1>5. 2 * n \in Nat
  BY <1>2
<1> DEFINE U == [x : Transfers, dir : {"sent", "received"}]
           k == 2 * n
           f == UpdatesOf(s)
<1>6. f \in [1..k -> U] /\ k \in Nat
  BY <1>4, <1>5
<1> HIDE DEF U, k, f
<1>7. f \in Seq(U)
  BY <1>6, SeqDef
<1> QED BY <1>7 DEF U, f
-----------------------------------------------------------------------------
(* The cache.                                                              *)

\* Before the first batch nothing is stored, cached or read.
LEMMA CacheInit == Init => CInv
<1> SUFFICES ASSUME Init PROVE CInv
  OBVIOUS
<1>1. /\ \A a \in Addresses : table[a] = None /\ redis[a] = None /\ before[a] = None
      /\ \A r \in Readers : readers[r] = Idle
      /\ batch = <<>>
  BY DEF Init
<1>2. Idle.addr = None /\ Idle.row = None /\ Idle.late = FALSE
      /\ Idle = [addr |-> Idle.addr, row |-> Idle.row, late |-> Idle.late]
  BY DEF Idle
<1>3. Shapes
  <2>1. /\ table \in [Addresses -> Row \cup {None}] /\ mine \in [Addresses -> Row \cup {None}]
        /\ updates \in Seq([x : Transfers, dir : {"sent", "received"}])
        /\ redis = [a \in Addresses |-> redis[a]]
        /\ readers = [r \in Readers |-> readers[r]]
    BY DEF Init
  <2> QED BY <1>1, <1>2, <2>1 DEF Shapes
<1>4. TableCommitted /\ Unseen /\ Refreshed /\ CacheWasCommitted /\ CacheLagsOneBatch
  BY <1>1, <1>2, NoneAssumption
  DEF TableCommitted, Unseen, Refreshed, CacheWasCommitted, CacheLagsOneBatch
<1>5. ReadersCommitted
  BY <1>1, <1>2 DEF ReadersCommitted
<1> QED BY <1>3, <1>4, <1>5 DEF CInv

\* The batch opens with the committed rows.
LEMMA BeginKeepsCache ==
  ASSUME CInv, NEW s \in Batches, Begin(s)
  PROVE  CInv'
<1>1. /\ mine' = table /\ updates' = UpdatesOf(s)
      /\ UNCHANGED <<table, redis, readers, committed, before, skipped>>
  BY DEF Begin, history
<1>2. updates' \in Seq([x : Transfers, dir : {"sent", "received"}])
  BY <1>1, UpdatesTyped
<1>3. Shapes'
  BY <1>1, <1>2 DEF CInv, Shapes
<1>4. TableCommitted' /\ ReadersCommitted' /\ CacheWasCommitted' /\ CacheLagsOneBatch'
  BY <1>1 DEF CInv, TableCommitted, ReadersCommitted, CacheWasCommitted, CacheLagsOneBatch
<1>5. Unseen' /\ Refreshed'
  BY <1>1 DEF CInv, Unseen, Refreshed
<1> QED BY <1>3, <1>4, <1>5 DEF CInv

\* Whatever changes neither rows, nor entries, nor readers.
LEMMA RestKeepsCache ==
  ASSUME CInv, Rollback \/ ConnectionChanges \/ UNCHANGED vars
  PROVE  CInv'
<1>1. /\ UNCHANGED <<table, mine, redis, readers, committed, before, skipped>>
      /\ updates' = <<>> \/ updates' = updates
      /\ batch' = <<>> \/ batch' = batch
  BY DEF Rollback, ConnectionChanges, store, history, vars
<1>2. updates' \in Seq([x : Transfers, dir : {"sent", "received"}])
  <2> DEFINE U == [x : Transfers, dir : {"sent", "received"}]
  <2>1. updates \in Seq(U)
    BY DEF CInv, Shapes
  <2> HIDE DEF U
  <2>2. updates' \in Seq(U)
    BY <1>1, <2>1, EmptySeq
  <2> QED BY <2>2 DEF U
<1>3. Shapes'
  BY <1>1, <1>2 DEF CInv, Shapes
<1>4. TableCommitted' /\ ReadersCommitted' /\ CacheWasCommitted' /\ CacheLagsOneBatch'
  BY <1>1 DEF CInv, TableCommitted, ReadersCommitted, CacheWasCommitted, CacheLagsOneBatch
<1>5. Unseen' /\ Refreshed'
  BY <1>1 DEF CInv, Unseen, Refreshed
<1> QED BY <1>3, <1>4, <1>5 DEF CInv

\* An update of the batch: the row as the transaction sees it, and the entry as
\* the other connection does.
LEMMA UpdateKeepsCache ==
  ASSUME CInv, Update
  PROVE  CInv'
<1> DEFINE u == updates[1]
           a == IF u.dir = "sent" THEN u.x.from ELSE u.x.to
           new == Upserted(mine[a], u.x, u.dir)
<1>1. /\ UNCHANGED <<table, batch, readers, committed, before>>
      /\ mine' = [mine EXCEPT ![a] = Upserted(@, u.x, u.dir)]
      /\ updates # <<>> /\ updates' = Tail(updates)
      /\ \/ table[a] = None /\ UNCHANGED <<redis, skipped>>
         \/ /\ table[a] # None
            /\ redis' = IF ready THEN [redis EXCEPT ![a] = table[a]] ELSE redis
            /\ skipped' = IF ready THEN skipped \ {a} ELSE skipped \cup {a}
  BY DEF Update, SeenOutside, SetEntry
<1>2. u \in [x : Transfers, dir : {"sent", "received"}]
      /\ updates' \in Seq([x : Transfers, dir : {"sent", "received"}])
  <2> DEFINE U == [x : Transfers, dir : {"sent", "received"}]
  <2>1. updates \in Seq(U) /\ updates # <<>>
    BY <1>1 DEF CInv, Shapes
  <2> HIDE DEF U
  <2>2. Len(updates) \in Nat /\ Len(updates) >= 1
    BY <2>1, EmptySeq, LenProperties
  <2>3. updates[1] \in U
    BY <2>1, <2>2, ElementOfSeq
  <2>4. Tail(updates) \in Seq(U)
    BY <2>1, HeadTailProperties
  <2> QED BY <1>1, <2>3, <2>4 DEF U, u
<1>3. a \in Addresses
  BY <1>2, TransferAssumption
<1>4. mine[a] \in Row \cup {None}
  BY <1>3 DEF CInv, Shapes
<1>5. new \in Row /\ new # None
  BY <1>2, <1>4, UpsertedTyped
<1>6. mine' = [mine EXCEPT ![a] = new]
  BY <1>1, <1>3 DEF CInv, Shapes
<1> HIDE DEF u, a, new
<1>7. mine' \in [Addresses -> Row \cup {None}] /\ \A b \in Addresses : mine'[b] = None => mine[b] = None
  BY <1>3, <1>5, <1>6 DEF CInv, Shapes
<1>8. \A b \in Addresses \ {a} : mine'[b] = mine[b]
  BY <1>6 DEF CInv, Shapes
<1>9. /\ redis' = [b \in Addresses |-> redis'[b]]
      /\ \A b \in Addresses : redis'[b] = redis[b] \/ (b = a /\ redis'[b] = table[a] /\ table[a] # None)
      /\ \A b \in Addresses \ {a} : b \in skipped' <=> b \in skipped
      /\ a \in Addresses \ skipped' => redis'[a] = table[a] \/ table[a] = None
  BY <1>1, <1>3 DEF CInv, Shapes
<1>10. Shapes'
  BY <1>1, <1>2, <1>7, <1>9 DEF CInv, Shapes
<1>11. TableCommitted' /\ ReadersCommitted'
  BY <1>1 DEF CInv, TableCommitted, ReadersCommitted
<1>12. Unseen'
  BY <1>1, <1>9 DEF CInv, Unseen
<1>13. Refreshed'
  BY <1>1, <1>8, <1>9 DEF CInv, Refreshed, Unseen
<1>14. CacheWasCommitted'
  BY <1>1, <1>9 DEF CInv, CacheWasCommitted, TableCommitted
<1>15. CacheLagsOneBatch'
  BY <1>1, <1>9 DEF CInv, CacheLagsOneBatch, Unseen
<1> QED BY <1>10, <1>11, <1>12, <1>13, <1>14, <1>15 DEF CInv

\* The commit: what it changes was refreshed, and a reader it overtakes is late.
LEMMA CommitKeepsCache ==
  ASSUME CInv, Commit
  PROVE  CInv'
<1> DEFINE changed == {a \in Addresses : mine[a] # table[a]}
<1>1. /\ batch # <<>> /\ updates = <<>> /\ table' = mine /\ mine' = mine /\ batch' = <<>>
      /\ committed' = [a \in Addresses |-> committed[a] \cup ({mine[a]} \ {None})]
      /\ before' = [a \in Addresses |-> IF a \in changed THEN table[a] ELSE before[a]]
      /\ readers' = [r \in Readers |-> [readers[r] EXCEPT !.late = @ \/ readers[r].addr \in changed]]
      /\ UNCHANGED <<redis, skipped, updates>>
  BY DEF Commit
<1>2. \A a \in Addresses : a \notin changed => table'[a] = table[a] /\ before'[a] = before[a]
  BY <1>1
<1>3. \A a \in Addresses : a \in changed => before'[a] = table[a]
  BY <1>1
<1>4. \A a \in Addresses : committed[a] \subseteq committed'[a]
                           /\ (table'[a] # None => table'[a] \in committed'[a])
  BY <1>1
<1>5. \A a \in Addresses : table'[a] = None => table[a] = None /\ a \notin changed
  BY <1>1 DEF CInv, Shapes
<1>6. None \notin changed
  BY NoneAssumption
<1> HIDE DEF changed
<1>7. ASSUME NEW r \in Readers
      PROVE  /\ readers'[r].addr = readers[r].addr /\ readers'[r].row = readers[r].row
             /\ readers'[r].late <=> readers[r].late \/ readers[r].addr \in changed
             /\ readers'[r].late \in BOOLEAN
             /\ readers'[r] = [addr |-> readers'[r].addr, row |-> readers'[r].row,
                               late |-> readers'[r].late]
             /\ readers'[r].addr = None => readers'[r] = Idle
  <2>1. readers[r] = [addr |-> readers[r].addr, row |-> readers[r].row, late |-> readers[r].late]
        /\ readers[r].late \in BOOLEAN /\ (readers[r].addr = None => readers[r] = Idle)
    BY DEF CInv, Shapes
  <2> DEFINE late == readers[r].late \/ readers[r].addr \in changed
  <2>2. readers'[r] = [readers[r] EXCEPT !.late = late]
    BY <1>1
  <2>3. readers'[r] = [addr |-> readers[r].addr, row |-> readers[r].row, late |-> late]
    BY <2>1, <2>2
  <2>4. readers'[r].addr = readers[r].addr /\ readers'[r].row = readers[r].row
        /\ readers'[r].late = late
    BY <2>3
  <2>5. late \in BOOLEAN
    OBVIOUS
  <2>6. readers[r].addr = None => late = readers[r].late
    BY <1>6, <2>1
  <2>7. ASSUME readers'[r].addr = None PROVE readers'[r] = Idle
    <3>1. readers[r] = Idle /\ late = readers[r].late
      BY <2>1, <2>4, <2>6, <2>7
    <3> HIDE DEF late
    <3>2. readers'[r] = readers[r]
      BY <2>1, <2>3, <3>1
    <3> QED BY <3>1, <3>2
  <2>8. readers'[r].late <=> readers[r].late \/ readers[r].addr \in changed
    BY <2>4
  <2> HIDE DEF late
  <2> QED BY <2>3, <2>4, <2>5, <2>7, <2>8
<1>8. Shapes'
  <2>1. table' \in [Addresses -> Row \cup {None}] /\ mine' \in [Addresses -> Row \cup {None}]
        /\ updates' \in Seq([x : Transfers, dir : {"sent", "received"}])
        /\ redis' = [a \in Addresses |-> redis'[a]]
        /\ \A a \in Addresses : mine'[a] = None => table'[a] = None
    BY <1>1 DEF CInv, Shapes
  <2>2. readers' = [r \in Readers |-> readers'[r]]
    BY <1>1
  <2>3. \A r \in Readers : readers'[r].addr \in Addresses \cup {None}
    BY <1>7 DEF CInv, Shapes
  <2> QED BY <1>7, <2>1, <2>2, <2>3 DEF Shapes
<1>9. TableCommitted' /\ Refreshed'
  BY <1>1, <1>4 DEF TableCommitted, Refreshed
<1>10. ReadersCommitted'
  <2>1. ASSUME NEW r \in Readers, readers'[r].addr # None
        PROVE  /\ readers'[r].row # None /\ readers'[r].row \in committed'[readers'[r].addr]
               /\ readers'[r].late \/ readers'[r].row = table'[readers'[r].addr]
    <3>1. readers'[r].addr = readers[r].addr /\ readers'[r].row = readers[r].row
          /\ (readers'[r].late <=> readers[r].late \/ readers[r].addr \in changed)
      BY <1>7
    <3>2. readers[r].addr \in Addresses
      BY <2>1, <3>1 DEF CInv, Shapes
    <3>3. /\ readers[r].row # None /\ readers[r].row \in committed[readers[r].addr]
          /\ readers[r].late \/ readers[r].row = table[readers[r].addr]
      BY <2>1, <3>1 DEF CInv, ReadersCommitted
    <3>4. readers'[r].late \/ readers[r].row = table'[readers[r].addr]
      BY <1>2, <3>1, <3>2, <3>3
    <3>5. readers[r].row \in committed'[readers[r].addr]
      BY <1>4, <3>2, <3>3
    <3> QED BY <3>1, <3>3, <3>4, <3>5
  <2> QED BY <2>1 DEF ReadersCommitted
<1>11. Unseen'
  <2>1. ASSUME NEW a \in Addresses, table'[a] = None
        PROVE  before'[a] = None /\ redis'[a] = None /\ \A r \in Readers : readers'[r].addr # a
    <3>1. table[a] = None /\ before'[a] = before[a]
      BY <1>2, <1>5, <2>1
    <3>2. before[a] = None /\ redis[a] = None /\ \A r \in Readers : readers[r].addr # a
      BY <3>1 DEF CInv, Unseen
    <3>3. redis'[a] = None
      BY <1>1, <3>2
    <3>4. \A r \in Readers : readers'[r].addr # a
      BY <1>7, <3>2
    <3> QED BY <3>1, <3>2, <3>3, <3>4
  <2> QED BY <2>1 DEF Unseen
<1>12. CacheWasCommitted'
  BY <1>1, <1>4 DEF CInv, CacheWasCommitted
<1>13. CacheLagsOneBatch'
  <2>1. ASSUME NEW a \in Addresses \ skipped
        PROVE  redis[a] \in {None, table'[a], before'[a]}
    <3>1. CASE a \notin changed
      BY <1>2, <3>1 DEF CInv, CacheLagsOneBatch
    <3>2. CASE a \in changed
      <4>1. redis[a] \in {None, table[a]}
        BY <1>1, <3>2 DEF CInv, Refreshed, changed
      <4> QED BY <1>3, <3>2, <4>1
    <3> QED BY <3>1, <3>2
  <2> QED BY <1>1, <2>1 DEF CacheLagsOneBatch
<1> QED BY <1>8, <1>9, <1>10, <1>11, <1>12, <1>13 DEF CInv

\* A reader that finds no entry takes the committed row with it.
LEMMA ReadKeepsCache ==
  ASSUME CInv, NEW r \in Readers, NEW a \in Addresses, Read(r, a)
  PROVE  CInv'
<1> DEFINE c == [addr |-> a, row |-> table[a], late |-> FALSE]
<1>1. /\ UNCHANGED <<table, mine, batch, updates, redis, committed, before, skipped>>
      /\ table[a] # None /\ readers' = [readers EXCEPT ![r] = c]
  BY DEF Read, store, history
<1>2. /\ c.addr = a /\ c.row = table[a] /\ c.late = FALSE
      /\ c = [addr |-> c.addr, row |-> c.row, late |-> c.late] /\ a # None
  BY NoneAssumption
<1> HIDE DEF c
<1>3. /\ readers' = [s \in Readers |-> readers'[s]] /\ readers'[r] = c
      /\ \A s \in Readers \ {r} : readers'[s] = readers[s]
  BY <1>1 DEF CInv, Shapes
<1>4. Shapes'
  BY <1>1, <1>2, <1>3 DEF CInv, Shapes
<1>5. ReadersCommitted'
  BY <1>1, <1>2, <1>3 DEF CInv, ReadersCommitted, TableCommitted
<1>6. Unseen'
  BY <1>1, <1>2, <1>3 DEF CInv, Unseen
<1>7. TableCommitted' /\ Refreshed' /\ CacheWasCommitted' /\ CacheLagsOneBatch'
  BY <1>1 DEF CInv, TableCommitted, Refreshed, CacheWasCommitted, CacheLagsOneBatch
<1> QED BY <1>4, <1>5, <1>6, <1>7 DEF CInv

\* A reader fills the cache: with the committed row, unless a commit overtook it.
LEMMA FillKeepsCache ==
  ASSUME CInv, NEW r \in Readers, Fill(r)
  PROVE  CInv'
<1> DEFINE a == readers[r].addr
           row == readers[r].row
<1>1. /\ UNCHANGED <<table, mine, batch, updates, committed, before>>
      /\ readers[r] # Idle /\ readers' = [readers EXCEPT ![r] = Idle]
      /\ redis' = IF ready THEN [redis EXCEPT ![a] = row] ELSE redis
      /\ skipped' = IF ~ready THEN skipped
                    ELSE IF readers[r].late THEN skipped \cup {a} ELSE skipped \ {a}
  BY DEF Fill, store
<1>2. a \in Addresses
  BY <1>1 DEF CInv, Shapes
<1>3. row # None /\ row \in committed[a] /\ (readers[r].late \/ row = table[a]) /\ table[a] # None
  BY <1>2, NoneAssumption DEF CInv, ReadersCommitted, Unseen
<1> HIDE DEF a, row
<1>4. /\ readers' = [s \in Readers |-> readers'[s]] /\ readers'[r] = Idle
      /\ \A s \in Readers \ {r} : readers'[s] = readers[s]
  BY <1>1 DEF CInv, Shapes
<1>5. /\ redis' = [b \in Addresses |-> redis'[b]]
      /\ \A b \in Addresses : redis'[b] = redis[b] \/ (b = a /\ redis'[b] = row)
      /\ \A b \in Addresses \ {a} : b \in skipped' <=> b \in skipped
      /\ a \notin skipped' => redis'[a] = table[a] \/ (a \notin skipped /\ redis'[a] = redis[a])
  BY <1>1, <1>2, <1>3 DEF CInv, Shapes
<1>6. Idle.addr = None /\ Idle.row = None /\ Idle.late = FALSE
      /\ Idle = [addr |-> Idle.addr, row |-> Idle.row, late |-> Idle.late]
  BY DEF Idle
<1>7. Shapes'
  BY <1>1, <1>4, <1>5, <1>6 DEF CInv, Shapes
<1>8. ReadersCommitted'
  BY <1>1, <1>4, <1>6 DEF CInv, ReadersCommitted
<1>9. Unseen'
  BY <1>1, <1>3, <1>4, <1>5, <1>6, NoneAssumption DEF CInv, Unseen
<1>10. CacheWasCommitted'
  BY <1>1, <1>3, <1>5 DEF CInv, CacheWasCommitted
<1>11. CacheLagsOneBatch'
  BY <1>1, <1>5 DEF CInv, CacheLagsOneBatch
<1>12. Refreshed'
  BY <1>1, <1>5 DEF CInv, Refreshed
<1>13. TableCommitted'
  BY <1>1 DEF CInv, TableCommitted
<1> QED BY <1>7, <1>8, <1>9, <1>10, <1>11, <1>12, <1>13 DEF CInv

\* An entry leaves when its time to live ends.
LEMMA ExpireKeepsCache ==
  ASSUME CInv, NEW a \in Addresses, Expire(a)
  PROVE  CInv'
<1>1. /\ UNCHANGED <<table, mine, batch, updates, readers, committed, before>>
      /\ redis' = [redis EXCEPT ![a] = None] /\ skipped' = skipped \ {a}
  BY DEF Expire, store
<1>2. /\ redis' = [b \in Addresses |-> redis'[b]] /\ redis'[a] = None
      /\ \A b \in Addresses \ {a} : redis'[b] = redis[b] /\ (b \in skipped' <=> b \in skipped)
  BY <1>1 DEF CInv, Shapes
<1>3. Shapes' /\ TableCommitted' /\ ReadersCommitted'
  BY <1>1, <1>2 DEF CInv, Shapes, TableCommitted, ReadersCommitted
<1>4. Unseen'
  BY <1>1, <1>2 DEF CInv, Unseen
<1>5. Refreshed' /\ CacheWasCommitted' /\ CacheLagsOneBatch'
  BY <1>1, <1>2 DEF CInv, Refreshed, CacheWasCommitted, CacheLagsOneBatch
<1> QED BY <1>3, <1>4, <1>5 DEF CInv

\* Every step keeps the invariant.
LEMMA CacheStep == CInv /\ [Next]_vars => CInv'
<1> SUFFICES ASSUME CInv, [Next]_vars PROVE CInv'
  OBVIOUS
<1>1. CASE \E s \in Batches : Begin(s)
  BY <1>1, BeginKeepsCache
<1>2. CASE Update
  BY <1>2, UpdateKeepsCache
<1>3. CASE Commit
  BY <1>3, CommitKeepsCache
<1>4. CASE \E r \in Readers : Fill(r)
  BY <1>4, FillKeepsCache
<1>5. CASE \E r \in Readers : \E a \in Addresses : Read(r, a)
  BY <1>5, ReadKeepsCache
<1>6. CASE \E a \in Addresses : Expire(a)
  BY <1>6, ExpireKeepsCache
<1>7. CASE Rollback \/ ConnectionChanges \/ UNCHANGED vars
  BY <1>7, RestKeepsCache
<1> QED BY <1>1, <1>2, <1>3, <1>4, <1>5, <1>6, <1>7 DEF Next

\* Whatever fails, expires or comes late, an entry of the cache is a row that was
\* committed (updateCacheAfterStatsUpdate, getAddressStatistics).
THEOREM CacheHoldsCommittedRows == Spec => []CacheWasCommitted
<1>1. CInv => CacheWasCommitted
  BY DEF CInv
<1> QED BY <1>1, CacheInit, CacheStep, PTL DEF Spec

\* An entry that could be refreshed, and that no overtaken reader has replaced, is the
\* row of now or of before the last batch (updateCacheAfterStatsUpdate).
THEOREM CacheIsOneBatchBehind == Spec => []CacheLagsOneBatch
<1>1. CInv => CacheLagsOneBatch
  BY DEF CInv
<1> QED BY <1>1, CacheInit, CacheStep, PTL DEF Spec

-----------------------------------------------------------------------------
(* Totals.                                                                 *)

From(a) == {x \in Transfers : x.from = a}
To(a) == {x \in Transfers : x.to = a}

\* With how often each transfer counts: sums over a set, and the amounts it has.
Total(c, S, weight) == SumFunctionOnSet([x \in Transfers |-> c[x] * weight[x]], S)
Listed(c, S) == {x.amount : x \in {y \in S : c[y] > 0}}
OneMore(c, x) == [c EXCEPT ![x] = c[x] + 1]

IsLargest(m, A) ==
  /\ A = {} => m = 0
  /\ A # {} => m \in A
  /\ \A n \in A : m >= n

Averages(avg, total, n) == n > 0 => avg[1] * n = total * avg[2]

\* The fields of one direction, against the transfers counted in it.
SideFits(total, n, avg, max, c, S) ==
  /\ n = Total(c, S, One) /\ total = Total(c, S, Amount)
  /\ IsLargest(max, Listed(c, S)) /\ Averages(avg, total, n)

\* A row, against the transfers counted as sent and as received.
RowFits(row, s, r, a) ==
  IF Total(s, From(a), One) = 0 /\ Total(r, To(a), One) = 0 THEN row = None
  ELSE /\ row \in Row
       /\ SideFits(row.sent, row.nSent, row.avgSent, row.maxSent, s, From(a))
       /\ SideFits(row.received, row.nReceived, row.avgReceived, row.maxReceived, r, To(a))
       /\ IsLargest(row.max, Listed(s, From(a)) \cup Listed(r, To(a)))
       /\ row.whale <=> row.sent + row.received >= Threshold
       /\ row.flags.large <=> row.max >= Threshold
       /\ Averages(row.avg, row.sent + row.received, row.nSent + row.nReceived)

\* A transfer counts once more.
LEMMA TotalGrows ==
  ASSUME NEW c \in [Transfers -> Nat], NEW x \in Transfers, NEW S \in SUBSET Transfers,
         NEW w \in [Transfers -> Nat]
  PROVE  /\ Total(c, S, w) \in Nat
         /\ Total(OneMore(c, x), S, w) = Total(c, S, w) + IF x \in S THEN w[x] ELSE 0
<1> DEFINE f == [y \in Transfers |-> c[y] * w[y]]
           h == [y \in Transfers |-> OneMore(c, x)[y] * w[y]]
<1>1. IsFiniteSet(S)
  BY TransferAssumption, FS_Subset
<1>2. ASSUME NEW y \in Transfers
      PROVE  f[y] \in Nat /\ h[y] = IF y = x THEN f[y] + w[x] ELSE f[y]
  <2>1. c[y] \in Nat /\ w[y] \in Nat /\ OneMore(c, x)[y] = IF y = x THEN c[y] + 1 ELSE c[y]
    BY DEF OneMore
  <2>2. ASSUME NEW m \in Nat, NEW n \in Nat PROVE m * n \in Nat /\ (m + 1) * n = m * n + n
    OBVIOUS
  <2> QED BY <2>1, <2>2
<1>3. w[x] \in Nat /\ Total(c, S, w) = SumFunctionOnSet(f, S)
      /\ Total(OneMore(c, x), S, w) = SumFunctionOnSet(h, S)
  BY DEF Total
<1> DEFINE d == w[x]
<1> HIDE DEF f, h
<1>4. d \in Nat /\ (\A y \in S : f[y] \in Nat) /\ \A y \in S : h[y] = IF y = x THEN f[y] + d ELSE f[y]
  BY <1>2, <1>3
<1> HIDE DEF d
<1>5. SumFunctionOnSet(h, S) = SumFunctionOnSet(f, S) + IF x \in S THEN d ELSE 0
  BY <1>1, <1>4, SumGrows
<1>6. SumFunctionOnSet(f, S) \in Nat
  BY <1>1, <1>4, SumOfNaturals
<1> QED BY <1>3, <1>5, <1>6 DEF d

\* A total is zero when what it sums is.
LEMMA TotalZero ==
  ASSUME NEW c \in [Transfers -> Nat], NEW S \in SUBSET Transfers, NEW w \in [Transfers -> Nat]
  PROVE  Total(c, S, w) = 0 <=> \A y \in S : c[y] * w[y] = 0
<1> DEFINE f == [y \in Transfers |-> c[y] * w[y]]
<1>1. IsFiniteSet(S)
  BY TransferAssumption, FS_Subset
<1>2. \A y \in S : f[y] \in Nat /\ f[y] = c[y] * w[y]
  <2>1. \A m, n \in Nat : m * n \in Nat
    OBVIOUS
  <2>2. \A y \in S : c[y] \in Nat /\ w[y] \in Nat
    OBVIOUS
  <2> QED BY <2>1, <2>2
<1>3. Total(c, S, w) = SumFunctionOnSet(f, S)
  BY DEF Total
<1> HIDE DEF f
<1>4. SumFunctionOnSet(f, S) = 0 <=> \A y \in S : f[y] = 0
  BY <1>1, <1>2, SumOfNaturals
<1> QED BY <1>2, <1>3, <1>4

\* The two weights.
LEMMA WeightsTyped ==
  One \in [Transfers -> Nat] /\ Amount \in [Transfers -> Nat]
  /\ \A x \in Transfers : One[x] = 1 /\ Amount[x] = x.amount /\ x.amount \in Nat
BY TransferAssumption DEF One, Amount

\* Where nothing is counted there is nothing to sum and no amount.
LEMMA NothingCounted ==
  ASSUME NEW c \in [Transfers -> Nat], NEW S \in SUBSET Transfers
  PROVE  /\ Total(c, S, One) = 0 <=> \A y \in S : c[y] = 0
         /\ Total(c, S, One) = 0 => Total(c, S, Amount) = 0 /\ Listed(c, S) = {}
<1>1. ASSUME NEW y \in S
      PROVE  c[y] * One[y] = c[y] /\ (c[y] = 0 => c[y] * Amount[y] = 0) /\ c[y] \in Nat
  <2>1. c[y] \in Nat /\ One[y] = 1 /\ Amount[y] \in Nat
    BY WeightsTyped
  <2> QED BY <2>1
<1>2. /\ Total(c, S, One) = 0 <=> \A y \in S : c[y] * One[y] = 0
      /\ Total(c, S, Amount) = 0 <=> \A y \in S : c[y] * Amount[y] = 0
  BY WeightsTyped, TotalZero
<1>3. (\A y \in S : c[y] = 0) => Listed(c, S) = {}
  <2>1. ASSUME NEW y \in S, c[y] = 0 PROVE ~(c[y] > 0)
    BY <2>1
  <2> QED BY <2>1 DEF Listed
<1> QED BY <1>1, <1>2, <1>3

\* The amounts listed are naturals; a transfer more adds its own.
LEMMA ListedGrows ==
  ASSUME NEW c \in [Transfers -> Nat], NEW x \in Transfers, NEW S \in SUBSET Transfers
  PROVE  /\ Listed(c, S) \in SUBSET Nat
         /\ x \in S => Listed(OneMore(c, x), S) = Listed(c, S) \cup {x.amount}
         /\ x \notin S => Listed(OneMore(c, x), S) = Listed(c, S)
<1>1. Listed(c, S) \in SUBSET Nat
  BY TransferAssumption DEF Listed
<1>2. ASSUME NEW y \in S PROVE OneMore(c, x)[y] > 0 <=> c[y] > 0 \/ y = x
  <2>1. c[y] \in Nat /\ OneMore(c, x)[y] = IF y = x THEN c[y] + 1 ELSE c[y]
    BY DEF OneMore
  <2> QED BY <2>1
<1>3. {y \in S : OneMore(c, x)[y] > 0} = {y \in S : c[y] > 0 \/ y = x}
  BY <1>2
<1>4. Listed(OneMore(c, x), S) = {y.amount : y \in {z \in S : c[z] > 0 \/ z = x}}
  BY <1>3 DEF Listed
<1>5. ASSUME x \in S PROVE Listed(OneMore(c, x), S) = Listed(c, S) \cup {x.amount}
  BY <1>4, <1>5 DEF Listed
<1>6. ASSUME x \notin S PROVE Listed(OneMore(c, x), S) = Listed(c, S)
  <2>1. {z \in S : c[z] > 0 \/ z = x} = {z \in S : c[z] > 0}
    BY <1>6
  <2> QED BY <1>4, <2>1 DEF Listed
<1> QED BY <1>1, <1>5, <1>6

\* The larger of the largest and a new one is the largest.
LEMMA LargestGrows ==
  ASSUME NEW A \in SUBSET Nat, NEW m, IsLargest(m, A), NEW n \in Nat
  PROVE  m \in Nat /\ IsLargest(Larger(m, n), A \cup {n})
<1>1. m \in Nat /\ \A k \in A : k \in Nat /\ m >= k
  <2>1. CASE A = {}
    BY <2>1 DEF IsLargest
  <2>2. CASE A # {}
    BY <2>2 DEF IsLargest
  <2> QED BY <2>1, <2>2
<1>2. CASE m > n
  <2>1. Larger(m, n) = m
    BY <1>2 DEF Larger
  <2>2. m \in A
    BY <1>1, <1>2 DEF IsLargest
  <2> QED BY <1>1, <1>2, <2>1, <2>2 DEF IsLargest
<1>3. CASE ~(m > n)
  <2>1. Larger(m, n) = n
    BY <1>3 DEF Larger
  <2>2. \A k \in A \cup {n} : n >= k
    BY <1>1, <1>3
  <2> QED BY <1>1, <2>1, <2>2 DEF IsLargest
<1> QED BY <1>2, <1>3

\* An average takes one more amount.
LEMMA AverageGrows ==
  ASSUME NEW p \in Int, NEW q \in Int, NEW n \in Nat, NEW total \in Nat, NEW amount \in Nat,
         p * n = total * q
  PROVE  (p * n + amount * q) * (n + 1) = (total + amount) * (q * (n + 1))
<1>1. p * n + amount * q = (total + amount) * q
  OBVIOUS
<1>2. \A x, y, z \in Int : (x * y) * z = x * (y * z)
  OBVIOUS
<1>3. ((total + amount) * q) * (n + 1) = (total + amount) * (q * (n + 1))
  BY <1>2
<1> QED BY <1>1, <1>3

\* One side of a row takes one more transfer.
LEMMA SideGrows ==
  ASSUME NEW c \in [Transfers -> Nat], NEW S \in SUBSET Transfers, NEW x \in S,
         NEW total, NEW n, NEW avg \in Int \X Int, NEW max,
         SideFits(total, n, avg, max, c, S)
  PROVE  SideFits(total + x.amount, n + 1, NewAverage(avg, n, x.amount), Larger(max, x.amount),
                  OneMore(c, x), S)
<1>1. /\ n = Total(c, S, One) /\ total = Total(c, S, Amount)
      /\ IsLargest(max, Listed(c, S)) /\ Averages(avg, total, n)
  BY DEF SideFits
<1>2. n \in Nat /\ total \in Nat /\ x.amount \in Nat /\ x \in Transfers
  BY <1>1, WeightsTyped, TotalGrows
<1>3. n + 1 = Total(OneMore(c, x), S, One) /\ total + x.amount = Total(OneMore(c, x), S, Amount)
  BY <1>1, <1>2, WeightsTyped, TotalGrows
<1>4. IsLargest(Larger(max, x.amount), Listed(OneMore(c, x), S))
  BY <1>1, <1>2, ListedGrows, LargestGrows
<1>5. Averages(NewAverage(avg, n, x.amount), total + x.amount, n + 1)
  <2>1. CASE n = 0
    <3>1. total = 0
      BY <1>1, <2>1, NothingCounted
    <3>2. NewAverage(avg, n, x.amount)[1] = x.amount /\ NewAverage(avg, n, x.amount)[2] = 1
      BY <2>1 DEF NewAverage
    <3> QED BY <1>2, <2>1, <3>1, <3>2 DEF Averages
  <2>2. CASE n # 0
    <3> DEFINE p == avg[1]
               q == avg[2]
               amount == x.amount
    <3>1. p \in Int /\ q \in Int /\ amount \in Nat
      BY <1>2
    <3>2. /\ NewAverage(avg, n, x.amount)[1] = p * n + amount * q
          /\ NewAverage(avg, n, x.amount)[2] = q * (n + 1)
      BY <2>2 DEF NewAverage
    <3>3. p * n = total * q
      BY <1>1, <1>2, <2>2 DEF Averages
    <3> HIDE DEF p, q, amount
    <3>4. (p * n + amount * q) * (n + 1) = (total + amount) * (q * (n + 1))
      BY <1>2, <3>1, <3>3, AverageGrows
    <3> QED BY <3>2, <3>4 DEF Averages, amount
  <2> QED BY <2>1, <2>2
<1> QED BY <1>3, <1>4, <1>5 DEF SideFits

\* A side keeps fitting when a transfer of others counts.
LEMMA SideKept ==
  ASSUME NEW c \in [Transfers -> Nat], NEW S \in SUBSET Transfers, NEW x \in Transfers, x \notin S
  PROVE  /\ Total(OneMore(c, x), S, One) = Total(c, S, One)
         /\ Listed(OneMore(c, x), S) = Listed(c, S)
         /\ \A total, n, avg, max :
              SideFits(total, n, avg, max, c, S) => SideFits(total, n, avg, max, OneMore(c, x), S)
<1>1. ASSUME NEW w \in [Transfers -> Nat] PROVE Total(OneMore(c, x), S, w) = Total(c, S, w)
  <2>1. Total(c, S, w) \in Nat /\ Total(OneMore(c, x), S, w) = Total(c, S, w) + IF x \in S THEN w[x] ELSE 0
    BY TotalGrows
  <2> QED BY <2>1
<1>2. /\ Total(OneMore(c, x), S, One) = Total(c, S, One)
      /\ Total(OneMore(c, x), S, Amount) = Total(c, S, Amount)
  BY <1>1, WeightsTyped
<1>3. Listed(OneMore(c, x), S) = Listed(c, S)
  BY ListedGrows
<1> QED BY <1>2, <1>3 DEF SideFits

\* The first transfer of a side, and a side without one.
LEMMA SideStarts ==
  ASSUME NEW c \in [Transfers -> Nat], NEW S \in SUBSET Transfers, Total(c, S, One) = 0
  PROVE  /\ \A k \in Int : SideFits(0, 0, <<0, k>>, 0, c, S)
         /\ \A x \in S : SideFits(x.amount, 1, <<x.amount, 1>>, x.amount, OneMore(c, x), S)
<1>1. Total(c, S, Amount) = 0 /\ Listed(c, S) = {}
  BY NothingCounted
<1>2. ASSUME NEW k \in Int PROVE SideFits(0, 0, <<0, k>>, 0, c, S)
  <2>1. IsLargest(0, {}) /\ Averages(<<0, k>>, 0, 0)
    BY DEF IsLargest, Averages
  <2> QED BY <1>1, <2>1 DEF SideFits
<1>3. ASSUME NEW x \in S PROVE SideFits(x.amount, 1, <<x.amount, 1>>, x.amount, OneMore(c, x), S)
  <2>1. x.amount \in Nat /\ x \in Transfers
    BY TransferAssumption
  <2>2. Total(OneMore(c, x), S, One) = 0 + 1 /\ Total(OneMore(c, x), S, Amount) = 0 + x.amount
    <3>1. ASSUME NEW w \in [Transfers -> Nat]
          PROVE  Total(OneMore(c, x), S, w) = Total(c, S, w) + w[x]
      BY <2>1, TotalGrows
    <3>2. /\ Total(OneMore(c, x), S, One) = Total(c, S, One) + One[x]
          /\ Total(OneMore(c, x), S, Amount) = Total(c, S, Amount) + Amount[x]
      BY <3>1, WeightsTyped
    <3> QED BY <1>1, <2>1, <3>2, WeightsTyped
  <2>3. Listed(OneMore(c, x), S) = {x.amount}
    BY <1>1, <2>1, ListedGrows
  <2>4. IsLargest(x.amount, {x.amount})
    BY <2>1 DEF IsLargest
  <2>5. Averages(<<x.amount, 1>>, x.amount, 1)
    BY <2>1 DEF Averages
  <2> QED BY <2>1, <2>2, <2>3, <2>4, <2>5 DEF SideFits
<1> QED BY <1>2, <1>3

\* The row of the create branch.
LEMMA CreatedRow ==
  ASSUME NEW x \in Transfers, NEW dir \in {"sent", "received"}
  PROVE  LET new == Created(x, dir)
         IN /\ new \in Row /\ new.avg = <<x.amount, 1>> /\ new.max = x.amount
            /\ new.whale <=> x.amount >= Threshold
            /\ new.flags.large <=> x.amount >= Threshold
            /\ dir = "sent" =>
                 /\ new.sent = x.amount /\ new.nSent = 1
                 /\ new.avgSent = <<x.amount, 1>> /\ new.maxSent = x.amount
                 /\ new.received = 0 /\ new.nReceived = 0
                 /\ new.avgReceived = <<0, 1>> /\ new.maxReceived = 0
            /\ dir = "received" =>
                 /\ new.received = x.amount /\ new.nReceived = 1
                 /\ new.avgReceived = <<x.amount, 1>> /\ new.maxReceived = x.amount
                 /\ new.sent = 0 /\ new.nSent = 0
                 /\ new.avgSent = <<0, 1>> /\ new.maxSent = 0
<1>1. Created(x, dir) \in Row
  BY CreatedTyped
<1>2. /\ Created(x, dir).avg = <<x.amount, 1>> /\ Created(x, dir).max = x.amount
      /\ Created(x, dir).whale = (x.amount >= Threshold)
      /\ Created(x, dir).flags = InitialFlags(x.amount)
  BY DEF Created
<1>3. InitialFlags(x.amount).large = (x.amount >= Threshold)
  BY DEF InitialFlags
<1>4. dir = "sent" =>
        /\ Created(x, dir).sent = x.amount /\ Created(x, dir).nSent = 1
        /\ Created(x, dir).avgSent = <<x.amount, 1>> /\ Created(x, dir).maxSent = x.amount
        /\ Created(x, dir).received = 0 /\ Created(x, dir).nReceived = 0
        /\ Created(x, dir).avgReceived = <<0, 1>> /\ Created(x, dir).maxReceived = 0
  BY DEF Created
<1>5. dir = "received" =>
        /\ Created(x, dir).received = x.amount /\ Created(x, dir).nReceived = 1
        /\ Created(x, dir).avgReceived = <<x.amount, 1>> /\ Created(x, dir).maxReceived = x.amount
        /\ Created(x, dir).sent = 0 /\ Created(x, dir).nSent = 0
        /\ Created(x, dir).avgSent = <<0, 1>> /\ Created(x, dir).maxSent = 0
  BY DEF Created
<1> QED BY <1>1, <1>2, <1>3, <1>4, <1>5

\* The two sides of a row fit, and so do its figures of both.
WholeFits(row, s, r, a) ==
  /\ IsLargest(row.max, Listed(s, From(a)) \cup Listed(r, To(a)))
  /\ row.whale <=> row.sent + row.received >= Threshold
  /\ row.flags.large <=> row.max >= Threshold
  /\ Averages(row.avg, row.sent + row.received, row.nSent + row.nReceived)

\* The larger of two numbers passes the threshold when one of them does.
LEMMA ThresholdPassed ==
  ASSUME NEW m \in Nat, NEW n \in Nat
  PROVE  Larger(m, n) >= Threshold <=> m >= Threshold \/ n >= Threshold
BY LimitAssumption DEF Larger

\* The sender's row takes one more transfer.
LEMMA SenderGrows ==
  ASSUME NEW s \in [Transfers -> Nat], NEW r \in [Transfers -> Nat], NEW a, NEW x \in From(a),
         NEW row, RowFits(row, s, r, a)
  PROVE  RowFits(Upserted(row, x, "sent"), OneMore(s, x), r, a)
<1> DEFINE new == Upserted(row, x, "sent")
           S == From(a)
           R == To(a)
           t == OneMore(s, x)
<1>1. x \in Transfers /\ x.amount \in Nat /\ S \in SUBSET Transfers /\ R \in SUBSET Transfers /\ x \in S
  BY WeightsTyped DEF From, To
<1>2. Total(t, S, One) # 0
  <2>1. Total(s, S, One) \in Nat /\ Total(t, S, One) = Total(s, S, One) + One[x] /\ One[x] = 1
    BY <1>1, WeightsTyped, TotalGrows
  <2> QED BY <2>1
<1>3. Listed(s, S) \cup Listed(r, R) \in SUBSET Nat /\ Listed(t, S) = Listed(s, S) \cup {x.amount}
  BY <1>1, ListedGrows
<1>4. CASE Total(s, S, One) = 0 /\ Total(r, R, One) = 0
  <2>1. row = None /\ new = Created(x, "sent")
    BY <1>4 DEF RowFits, Upserted
  <2>2. /\ new \in Row /\ new.avg = <<x.amount, 1>> /\ new.max = x.amount
        /\ new.whale <=> x.amount >= Threshold
        /\ new.flags.large <=> x.amount >= Threshold
        /\ new.sent = x.amount /\ new.nSent = 1
        /\ new.avgSent = <<x.amount, 1>> /\ new.maxSent = x.amount
        /\ new.received = 0 /\ new.nReceived = 0
        /\ new.avgReceived = <<0, 1>> /\ new.maxReceived = 0
    BY <1>1, <2>1, CreatedRow
  <2> HIDE DEF new, t
  <2>3. SideFits(new.sent, new.nSent, new.avgSent, new.maxSent, t, S)
    BY <1>1, <1>4, <2>2, SideStarts DEF t
  <2>4. SideFits(new.received, new.nReceived, new.avgReceived, new.maxReceived, r, R)
    BY <1>1, <1>4, <2>2, SideStarts
  <2>5. Listed(t, S) \cup Listed(r, R) = {x.amount}
    BY <1>1, <1>3, <1>4, NothingCounted
  <2>6. IsLargest(new.max, {x.amount})
    BY <1>1, <2>2 DEF IsLargest
  <2>7. new.sent + new.received = x.amount /\ new.nSent + new.nReceived = 1
    BY <1>1, <2>2
  <2>8. Averages(new.avg, x.amount, 1)
    BY <1>1, <2>2 DEF Averages
  <2>9. WholeFits(new, t, r, a)
    BY <2>2, <2>5, <2>6, <2>7, <2>8 DEF WholeFits
  <2> QED BY <1>2, <2>2, <2>3, <2>4, <2>9 DEF RowFits, WholeFits, new, t
<1>5. CASE ~(Total(s, S, One) = 0 /\ Total(r, R, One) = 0)
  <2>1. /\ row \in Row /\ WholeFits(row, s, r, a)
        /\ SideFits(row.sent, row.nSent, row.avgSent, row.maxSent, s, S)
        /\ SideFits(row.received, row.nReceived, row.avgReceived, row.maxReceived, r, R)
    BY <1>5 DEF RowFits, WholeFits
  <2>2. new = Updated(row, x, "sent")
    BY <2>1, NoneAssumption DEF Upserted
  <2> DEFINE volume == row.sent + row.received + x.amount
             count == row.nSent + row.nReceived + 1
  <2>3. /\ new \in Row /\ new.avg = <<volume, count>> /\ new.max = Larger(row.max, x.amount)
        /\ new.whale <=> volume >= Threshold
        /\ new.flags.large <=> row.flags.large \/ x.amount >= Threshold
        /\ new.sent = row.sent + x.amount /\ new.nSent = row.nSent + 1
        /\ new.avgSent = NewAverage(row.avgSent, row.nSent, x.amount)
        /\ new.maxSent = Larger(row.maxSent, x.amount)
        /\ new.received = row.received /\ new.nReceived = row.nReceived
        /\ new.avgReceived = row.avgReceived /\ new.maxReceived = row.maxReceived
    BY <1>1, <2>1, <2>2, UpdatedRow DEF NewMax
  <2>4. row.avgSent \in Int \X Int
    BY <2>1 DEF Row
  <2>5. /\ row.sent \in Nat /\ row.nSent \in Nat /\ row.received \in Nat /\ row.nReceived \in Nat
    <3>1. /\ row.sent = Total(s, S, Amount) /\ row.nSent = Total(s, S, One)
          /\ row.received = Total(r, R, Amount) /\ row.nReceived = Total(r, R, One)
      BY <2>1 DEF SideFits
    <3>2. /\ Total(s, S, Amount) \in Nat /\ Total(s, S, One) \in Nat
          /\ Total(r, R, Amount) \in Nat /\ Total(r, R, One) \in Nat
      BY <1>1, WeightsTyped, TotalGrows
    <3> QED BY <3>1, <3>2
  <2>6. /\ volume \in Nat /\ count \in Nat
        /\ volume = (row.sent + x.amount) + row.received /\ count = (row.nSent + 1) + row.nReceived
    BY <1>1, <2>5
  <2> HIDE DEF new, t, volume, count
  <2>7. SideFits(new.sent, new.nSent, new.avgSent, new.maxSent, t, S)
    BY <1>1, <2>1, <2>3, <2>4, SideGrows DEF t
  <2>8. SideFits(new.received, new.nReceived, new.avgReceived, new.maxReceived, r, R)
    BY <2>1, <2>3
  <2>9. Listed(t, S) \cup Listed(r, R) = (Listed(s, S) \cup Listed(r, R)) \cup {x.amount}
    BY <1>3
  <2>10. /\ IsLargest(new.max, (Listed(s, S) \cup Listed(r, R)) \cup {x.amount})
         /\ new.flags.large <=> new.max >= Threshold
         /\ Averages(new.avg, volume, count)
    <3> DEFINE A == Listed(s, S) \cup Listed(r, R)
    <3>1. A \in SUBSET Nat /\ IsLargest(row.max, A) /\ (row.flags.large <=> row.max >= Threshold)
      BY <1>3, <2>1 DEF WholeFits
    <3> HIDE DEF A
    <3>2. row.max \in Nat /\ IsLargest(new.max, A \cup {x.amount})
      BY <1>1, <2>3, <3>1, LargestGrows
    <3>3. new.max >= Threshold <=> row.max >= Threshold \/ x.amount >= Threshold
      BY <1>1, <2>3, <3>2, ThresholdPassed
    <3>4. new.flags.large <=> new.max >= Threshold
      BY <2>3, <3>1, <3>3
    <3>5. Averages(new.avg, volume, count)
      BY <2>3, <2>6 DEF Averages
    <3> QED BY <3>2, <3>4, <3>5 DEF A
  <2>11. WholeFits(new, t, r, a)
    BY <2>3, <2>6, <2>9, <2>10 DEF WholeFits
  <2> QED BY <1>2, <2>3, <2>7, <2>8, <2>11 DEF RowFits, WholeFits, new, t
<1> QED BY <1>4, <1>5

\* So does the receiver's.
LEMMA ReceiverGrows ==
  ASSUME NEW s \in [Transfers -> Nat], NEW r \in [Transfers -> Nat], NEW a, NEW x \in To(a),
         NEW row, RowFits(row, s, r, a)
  PROVE  RowFits(Upserted(row, x, "received"), s, OneMore(r, x), a)
<1> DEFINE new == Upserted(row, x, "received")
           S == From(a)
           R == To(a)
           t == OneMore(r, x)
<1>1. x \in Transfers /\ x.amount \in Nat /\ S \in SUBSET Transfers /\ R \in SUBSET Transfers /\ x \in R
  BY WeightsTyped DEF From, To
<1>2. Total(t, R, One) # 0
  <2>1. Total(r, R, One) \in Nat /\ Total(t, R, One) = Total(r, R, One) + One[x] /\ One[x] = 1
    BY <1>1, WeightsTyped, TotalGrows
  <2> QED BY <2>1
<1>3. Listed(s, S) \cup Listed(r, R) \in SUBSET Nat /\ Listed(t, R) = Listed(r, R) \cup {x.amount}
  BY <1>1, ListedGrows
<1>4. CASE Total(s, S, One) = 0 /\ Total(r, R, One) = 0
  <2>1. row = None /\ new = Created(x, "received")
    BY <1>4 DEF RowFits, Upserted
  <2>2. /\ new \in Row /\ new.avg = <<x.amount, 1>> /\ new.max = x.amount
        /\ new.whale <=> x.amount >= Threshold
        /\ new.flags.large <=> x.amount >= Threshold
        /\ new.received = x.amount /\ new.nReceived = 1
        /\ new.avgReceived = <<x.amount, 1>> /\ new.maxReceived = x.amount
        /\ new.sent = 0 /\ new.nSent = 0
        /\ new.avgSent = <<0, 1>> /\ new.maxSent = 0
    BY <1>1, <2>1, CreatedRow
  <2> HIDE DEF new, t
  <2>3. SideFits(new.received, new.nReceived, new.avgReceived, new.maxReceived, t, R)
    BY <1>1, <1>4, <2>2, SideStarts DEF t
  <2>4. SideFits(new.sent, new.nSent, new.avgSent, new.maxSent, s, S)
    BY <1>1, <1>4, <2>2, SideStarts
  <2>5. Listed(s, S) \cup Listed(t, R) = {x.amount}
    BY <1>1, <1>3, <1>4, NothingCounted
  <2>6. IsLargest(new.max, {x.amount})
    BY <1>1, <2>2 DEF IsLargest
  <2>7. new.sent + new.received = x.amount /\ new.nSent + new.nReceived = 1
    BY <1>1, <2>2
  <2>8. Averages(new.avg, x.amount, 1)
    BY <1>1, <2>2 DEF Averages
  <2>9. WholeFits(new, s, t, a)
    BY <2>2, <2>5, <2>6, <2>7, <2>8 DEF WholeFits
  <2> QED BY <1>2, <2>2, <2>3, <2>4, <2>9 DEF RowFits, WholeFits, new, t
<1>5. CASE ~(Total(s, S, One) = 0 /\ Total(r, R, One) = 0)
  <2>1. /\ row \in Row /\ WholeFits(row, s, r, a)
        /\ SideFits(row.sent, row.nSent, row.avgSent, row.maxSent, s, S)
        /\ SideFits(row.received, row.nReceived, row.avgReceived, row.maxReceived, r, R)
    BY <1>5 DEF RowFits, WholeFits
  <2>2. new = Updated(row, x, "received")
    BY <2>1, NoneAssumption DEF Upserted
  <2> DEFINE volume == row.sent + row.received + x.amount
             count == row.nSent + row.nReceived + 1
  <2>3. /\ new \in Row /\ new.avg = <<volume, count>> /\ new.max = Larger(row.max, x.amount)
        /\ new.whale <=> volume >= Threshold
        /\ new.flags.large <=> row.flags.large \/ x.amount >= Threshold
        /\ new.received = row.received + x.amount /\ new.nReceived = row.nReceived + 1
        /\ new.avgReceived = NewAverage(row.avgReceived, row.nReceived, x.amount)
        /\ new.maxReceived = Larger(row.maxReceived, x.amount)
        /\ new.sent = row.sent /\ new.nSent = row.nSent
        /\ new.avgSent = row.avgSent /\ new.maxSent = row.maxSent
    BY <1>1, <2>1, <2>2, UpdatedRow DEF NewMax
  <2>4. row.avgReceived \in Int \X Int
    BY <2>1 DEF Row
  <2>5. /\ row.sent \in Nat /\ row.nSent \in Nat /\ row.received \in Nat /\ row.nReceived \in Nat
    <3>1. /\ row.sent = Total(s, S, Amount) /\ row.nSent = Total(s, S, One)
          /\ row.received = Total(r, R, Amount) /\ row.nReceived = Total(r, R, One)
      BY <2>1 DEF SideFits
    <3>2. /\ Total(s, S, Amount) \in Nat /\ Total(s, S, One) \in Nat
          /\ Total(r, R, Amount) \in Nat /\ Total(r, R, One) \in Nat
      BY <1>1, WeightsTyped, TotalGrows
    <3> QED BY <3>1, <3>2
  <2>6. /\ volume \in Nat /\ count \in Nat
        /\ volume = row.sent + (row.received + x.amount) /\ count = row.nSent + (row.nReceived + 1)
    BY <1>1, <2>5
  <2> HIDE DEF new, t, volume, count
  <2>7. SideFits(new.received, new.nReceived, new.avgReceived, new.maxReceived, t, R)
    BY <1>1, <2>1, <2>3, <2>4, SideGrows DEF t
  <2>8. SideFits(new.sent, new.nSent, new.avgSent, new.maxSent, s, S)
    BY <2>1, <2>3
  <2>9. Listed(s, S) \cup Listed(t, R) = (Listed(s, S) \cup Listed(r, R)) \cup {x.amount}
    BY <1>3
  <2>10. /\ IsLargest(new.max, (Listed(s, S) \cup Listed(r, R)) \cup {x.amount})
         /\ new.flags.large <=> new.max >= Threshold
         /\ Averages(new.avg, volume, count)
    <3> DEFINE A == Listed(s, S) \cup Listed(r, R)
    <3>1. A \in SUBSET Nat /\ IsLargest(row.max, A) /\ (row.flags.large <=> row.max >= Threshold)
      BY <1>3, <2>1 DEF WholeFits
    <3> HIDE DEF A
    <3>2. row.max \in Nat /\ IsLargest(new.max, A \cup {x.amount})
      BY <1>1, <2>3, <3>1, LargestGrows
    <3>3. new.max >= Threshold <=> row.max >= Threshold \/ x.amount >= Threshold
      BY <1>1, <2>3, <3>2, ThresholdPassed
    <3>4. new.flags.large <=> new.max >= Threshold
      BY <2>3, <3>1, <3>3
    <3>5. Averages(new.avg, volume, count)
      BY <2>3, <2>6 DEF Averages
    <3> QED BY <3>2, <3>4, <3>5 DEF A
  <2>11. WholeFits(new, s, t, a)
    BY <2>3, <2>6, <2>9, <2>10 DEF WholeFits
  <2> QED BY <1>2, <2>3, <2>7, <2>8, <2>11 DEF RowFits, WholeFits, new, t
<1> QED BY <1>4, <1>5

\* The rows of others keep fitting.
LEMMA RowKept ==
  ASSUME NEW s \in [Transfers -> Nat], NEW r \in [Transfers -> Nat], NEW a, NEW x \in Transfers,
         NEW row, RowFits(row, s, r, a)
  PROVE  /\ x.from # a => RowFits(row, OneMore(s, x), r, a)
         /\ x.to # a => RowFits(row, s, OneMore(r, x), a)
<1>1. From(a) \in SUBSET Transfers /\ To(a) \in SUBSET Transfers
  BY DEF From, To
<1>2. ASSUME x.from # a PROVE RowFits(row, OneMore(s, x), r, a)
  <2>1. x \notin From(a)
    BY <1>2 DEF From
  <2>2. /\ Total(OneMore(s, x), From(a), One) = Total(s, From(a), One)
        /\ Listed(OneMore(s, x), From(a)) = Listed(s, From(a))
        /\ \A total, n, avg, max : SideFits(total, n, avg, max, s, From(a)) =>
                                     SideFits(total, n, avg, max, OneMore(s, x), From(a))
    BY <1>1, <2>1, SideKept
  <2> QED BY <2>2 DEF RowFits
<1>3. ASSUME x.to # a PROVE RowFits(row, s, OneMore(r, x), a)
  <2>1. x \notin To(a)
    BY <1>3 DEF To
  <2>2. /\ Total(OneMore(r, x), To(a), One) = Total(r, To(a), One)
        /\ Listed(OneMore(r, x), To(a)) = Listed(r, To(a))
        /\ \A total, n, avg, max : SideFits(total, n, avg, max, r, To(a)) =>
                                     SideFits(total, n, avg, max, OneMore(r, x), To(a))
    BY <1>1, <2>1, SideKept
  <2> QED BY <2>2 DEF RowFits
<1> QED BY <1>2, <1>3

\* How often each transfer counts once the first k of a batch do.
Counted(q, k) == [x \in Transfers |-> times[x] + Cardinality({i \in 1..k : q[i] = x})]

\* While a batch is open and d of its updates are done, the rows of the transaction are
\* those of the transfers sent and received so far.
BatchFits == batch # <<>> =>
  \E d \in 0..(2 * Len(batch)) :
    /\ Len(updates) = 2 * Len(batch) - d
    /\ \A i \in 1..Len(updates) : updates[i] = UpdatesOf(batch)[d + i]
    /\ \A a \in Addresses :
         RowFits(mine[a], Counted(batch, (d + 1) \div 2), Counted(batch, d \div 2), a)

TotalsInv ==
  /\ times \in [Transfers -> Nat] /\ batch \in Batches \cup {<<>>}
  /\ \A a \in Addresses : RowFits(table[a], times, times, a)
  /\ BatchFits

\* A batch is a sequence of transfers.
LEMMA BatchTyped ==
  ASSUME NEW q \in Batches
  PROVE  Len(q) \in Nat /\ Len(q) > 0 /\ \A i \in 1..Len(q) : q[i] \in Transfers
<1>1. PICK n \in 1..MaxBatch : q \in [1..n -> Transfers]
  BY DEF Batches
<1>2. Len(q) = n /\ n \in Nat /\ n > 0
  BY <1>1
<1> QED BY <1>1, <1>2

\* Of a batch, none counts, then one more and one more.
LEMMA CountedGrows ==
  ASSUME times \in [Transfers -> Nat], NEW q \in Batches, NEW k \in Nat
  PROVE  /\ Counted(q, k) \in [Transfers -> Nat] /\ Counted(q, 0) = times
         /\ k + 1 =< Len(q) => q[k + 1] \in Transfers
                               /\ Counted(q, k + 1) = OneMore(Counted(q, k), q[k + 1])
<1> DEFINE At(j, x) == {i \in 1..j : q[i] = x}
<1>1. ASSUME NEW j \in Nat, NEW x
      PROVE  IsFiniteSet(At(j, x)) /\ Cardinality(At(j, x)) \in Nat
  <2>1. IsFiniteSet(1..j) /\ At(j, x) \in SUBSET (1..j)
    BY FS_Interval
  <2> HIDE DEF At
  <2> QED BY <2>1, FS_Subset, FS_CardinalityType
<1>2. ASSUME NEW j \in Nat, NEW x \in Transfers
      PROVE  times[x] + Cardinality(At(j, x)) \in Nat
  <2>1. times[x] \in Nat
    OBVIOUS
  <2> HIDE DEF At
  <2> QED BY <1>1, <2>1
<1>3. Counted(q, k) \in [Transfers -> Nat]
  BY <1>2 DEF Counted
<1>4. Counted(q, 0) = times
  <2>1. ASSUME NEW x \in Transfers PROVE times[x] + Cardinality(At(0, x)) = times[x]
    <3>1. At(0, x) = {}
      OBVIOUS
    <3>2. Cardinality(At(0, x)) = 0 /\ times[x] \in Nat
      BY <3>1, FS_EmptySet
    <3> HIDE DEF At
    <3> QED BY <3>2
  <2>2. Counted(q, 0) = [x \in Transfers |-> times[x] + Cardinality(At(0, x))]
    BY DEF Counted
  <2> HIDE DEF At
  <2> QED BY <2>1, <2>2
<1>5. ASSUME k + 1 =< Len(q)
      PROVE  q[k + 1] \in Transfers /\ Counted(q, k + 1) = OneMore(Counted(q, k), q[k + 1])
  <2>1. q[k + 1] \in Transfers
    BY <1>5, BatchTyped
  <2> DEFINE y == q[k + 1]
  <2>2. ASSUME NEW x \in Transfers
        PROVE  times[x] + Cardinality(At(k + 1, x))
                 = IF x = y THEN times[x] + Cardinality(At(k, x)) + 1
                            ELSE times[x] + Cardinality(At(k, x))
    <3>1. times[x] \in Nat /\ IsFiniteSet(At(k, x)) /\ Cardinality(At(k, x)) \in Nat
      <4>1. times[x] \in Nat
        OBVIOUS
      <4> HIDE DEF At
      <4> QED BY <1>1, <4>1
    <3>2. CASE x = y
      <4>1. At(k + 1, x) = At(k, x) \cup {k + 1} /\ k + 1 \notin At(k, x)
        BY <3>2
      <4> HIDE DEF At
      <4>2. Cardinality(At(k + 1, x)) = Cardinality(At(k, x)) + 1
        BY <3>1, <4>1, FS_AddElement
      <4> QED BY <3>1, <3>2, <4>2
    <3>3. CASE x # y
      <4>1. At(k + 1, x) = At(k, x)
        BY <3>3
      <4> HIDE DEF At
      <4> QED BY <3>3, <4>1
    <3> QED BY <3>2, <3>3
  <2>3. Counted(q, k + 1) = [x \in Transfers |-> times[x] + Cardinality(At(k + 1, x))]
        /\ Counted(q, k) = [x \in Transfers |-> times[x] + Cardinality(At(k, x))]
    BY DEF Counted
  <2> HIDE DEF At, y
  <2>4. OneMore(Counted(q, k), y)
          = [x \in Transfers |-> IF x = y THEN times[x] + Cardinality(At(k, x)) + 1
                                          ELSE times[x] + Cardinality(At(k, x))]
    BY <2>3 DEF OneMore
  <2>5. Counted(q, k + 1) = OneMore(Counted(q, k), y)
    BY <2>2, <2>3, <2>4
  <2> QED BY <2>1, <2>5 DEF y
<1> QED BY <1>3, <1>4, <1>5

\* Before the first batch there are no rows and nothing is counted.
LEMMA TotalsInit == Init => TotalsInv
<1> SUFFICES ASSUME Init PROVE TotalsInv
  OBVIOUS
<1>1. times = [x \in Transfers |-> 0] /\ batch = <<>> /\ \A a \in Addresses : table[a] = None
  BY DEF Init
<1>2. times \in [Transfers -> Nat]
  BY <1>1
<1>3. ASSUME NEW a \in Addresses PROVE RowFits(table[a], times, times, a)
  <2>1. From(a) \in SUBSET Transfers /\ To(a) \in SUBSET Transfers
    BY DEF From, To
  <2>2. Total(times, From(a), One) = 0 /\ Total(times, To(a), One) = 0
    <3>1. (\A y \in From(a) : times[y] = 0) /\ \A y \in To(a) : times[y] = 0
      BY <1>1, <2>1
    <3> QED BY <1>2, <2>1, <3>1, NothingCounted
  <2> QED BY <1>1, <2>2 DEF RowFits
<1> QED BY <1>1, <1>2, <1>3 DEF TotalsInv, BatchFits

\* A batch opens with the committed rows.
LEMMA BeginKeepsTotals ==
  ASSUME TotalsInv, NEW s \in Batches, Begin(s)
  PROVE  TotalsInv'
<1>1. /\ batch' = s /\ updates' = UpdatesOf(s) /\ mine' = table
      /\ table' = table /\ times' = times
  BY DEF Begin, history
<1>2. Len(s) \in Nat /\ Len(s) > 0 /\ s # <<>>
  BY BatchTyped
<1>3. /\ Counted(s, 0) = times
      /\ \A k : Counted(s, k)' = Counted(s, k)
  BY <1>1, CountedGrows DEF TotalsInv, Counted
<1>4. Len(UpdatesOf(s)) = 2 * Len(s)
  BY <1>2 DEF UpdatesOf
<1> DEFINE n == 2 * Len(s)
<1>5. n \in Nat /\ 0 \in 0..n /\ n = n - 0
  BY <1>2
<1>6. \A i \in 1..n : UpdatesOf(s)[i] = UpdatesOf(s)[0 + i]
  BY <1>5
<1>7. 1 \div 2 = 0 /\ 0 \div 2 = 0
  OBVIOUS
<1>8. \A a \in Addresses : RowFits(table[a], Counted(s, 0), Counted(s, 0), a)
  BY <1>3 DEF TotalsInv
<1>9. \A a \in Addresses :
        RowFits(mine[a], Counted(s, (0 + 1) \div 2), Counted(s, 0 \div 2), a)'
  BY <1>1, <1>3, <1>7, <1>8
<1>10. BatchFits'
  BY <1>1, <1>4, <1>5, <1>6, <1>9 DEF BatchFits
<1> QED BY <1>1, <1>10 DEF TotalsInv

\* The halves of a number and of the next.
LEMMA Halves ==
  ASSUME NEW d \in Nat
  PROVE  \/ /\ (d + 1) % 2 = 1 /\ d \div 2 \in Nat
            /\ (d + 1) \div 2 = d \div 2 /\ (d + 2) \div 2 = d \div 2 + 1
         \/ /\ (d + 1) % 2 # 1 /\ d \div 2 \in Nat
            /\ (d + 1) \div 2 = d \div 2 + 1 /\ (d + 2) \div 2 = d \div 2 + 1
OBVIOUS

\* An update: the row of the sender, or of the receiver, counts one more.
LEMMA UpdateKeepsTotals ==
  ASSUME Shapes, TotalsInv, Update
  PROVE  TotalsInv'
<1> DEFINE u == updates[1]
           c == IF u.dir = "sent" THEN u.x.from ELSE u.x.to
<1>1. /\ updates # <<>> /\ updates' = Tail(updates) /\ UNCHANGED <<table, batch, times>>
      /\ mine' = [mine EXCEPT ![c] = Upserted(@, u.x, u.dir)]
  BY DEF Update
<1>2. CASE batch = <<>>
  BY <1>1, <1>2 DEF TotalsInv, BatchFits
<1>3. CASE batch # <<>>
  <2>1. batch \in Batches /\ Len(batch) \in Nat
    BY <1>3, BatchTyped DEF TotalsInv
  <2>2. PICK d \in 0..(2 * Len(batch)) :
          /\ Len(updates) = 2 * Len(batch) - d
          /\ \A i \in 1..Len(updates) : updates[i] = UpdatesOf(batch)[d + i]
          /\ \A a \in Addresses :
               RowFits(mine[a], Counted(batch, (d + 1) \div 2), Counted(batch, d \div 2), a)
    BY <1>3 DEF TotalsInv, BatchFits
  <2>3. /\ Len(updates) \in Nat /\ Len(updates) > 0
        /\ Len(Tail(updates)) = Len(updates) - 1
        /\ \A i \in 1..(Len(updates) - 1) : Tail(updates)[i] = updates[i + 1]
    <3> DEFINE U == [x : Transfers, dir : {"sent", "received"}]
    <3>1. updates \in Seq(U)
      BY DEF Shapes
    <3> HIDE DEF U
    <3> QED BY <1>1, <3>1, EmptySeq, LenProperties, HeadTailProperties
  <2> DEFINE n == Len(batch)
             k == d \div 2
             Fits(row, e, a) == RowFits(row, Counted(batch, (e + 1) \div 2), Counted(batch, e \div 2), a)
  <2>4. d \in Nat /\ d + 1 \in 1..(2 * n) /\ d < 2 * n
    BY <2>1, <2>2, <2>3
  <2>5. u = UpdatesOf(batch)[d + 1]
    BY <2>2, <2>3
  <2>6. u = [x |-> batch[(d + 2) \div 2], dir |-> IF (d + 1) % 2 = 1 THEN "sent" ELSE "received"]
    <3>1. (d + 1) + 1 = d + 2
      BY <2>4
    <3> QED BY <2>4, <2>5, <3>1 DEF UpdatesOf
  <2>7. k \in Nat /\ k + 1 =< n
    BY <2>1, <2>4
  <2>8. (d + 2) \div 2 = k + 1
    BY <2>4, Halves
  <2>9. /\ times \in [Transfers -> Nat] /\ Counted(batch, k) \in [Transfers -> Nat]
        /\ Counted(batch, k + 1) \in [Transfers -> Nat] /\ batch[k + 1] \in Transfers
        /\ Counted(batch, k + 1) = OneMore(Counted(batch, k), batch[k + 1])
    <3>1. times \in [Transfers -> Nat] /\ k + 1 \in Nat
      BY <2>7 DEF TotalsInv
    <3> HIDE DEF k
    <3> QED BY <2>1, <2>7, <3>1, CountedGrows
  <2>10. ASSUME NEW a \in Addresses PROVE Fits(mine'[a], d + 1, a)
    <3> DEFINE x == batch[k + 1]
    <3>1. u.x = x /\ x \in Transfers /\ x.from \in Addresses /\ x.to \in Addresses
      BY <2>6, <2>8, <2>9, TransferAssumption
    <3>2. Fits(mine[a], d, a)
      BY <2>2
    <3>3. (d + 1) + 1 = d + 2
      BY <2>4
    <3>4. CASE (d + 1) % 2 = 1
      <4>1. (d + 1) \div 2 = k /\ ((d + 1) + 1) \div 2 = k + 1
        BY <2>4, <2>8, <3>3, <3>4, Halves
      <4>2. u.dir = "sent" /\ c = x.from
        BY <2>6, <3>1, <3>4
      <4>3. RowFits(mine[a], Counted(batch, k), Counted(batch, k), a)
        BY <3>2, <4>1
      <4>4. mine'[a] = IF a = x.from THEN Upserted(mine[a], x, "sent") ELSE mine[a]
        BY <1>1, <3>1, <4>2 DEF Shapes
      <4> HIDE DEF k, x, c, u
      <4>5. RowFits(mine'[a], OneMore(Counted(batch, k), x), Counted(batch, k), a)
        <5>1. CASE a = x.from
          <6>1. x \in From(a)
            BY <3>1, <5>1 DEF From
          <6> QED BY <2>9, <4>3, <4>4, <5>1, <6>1, SenderGrows
        <5>2. CASE a # x.from
          BY <2>9, <3>1, <4>3, <4>4, <5>2, RowKept
        <5> QED BY <5>1, <5>2
      <4> QED BY <2>9, <4>1, <4>5 DEF x
    <3>5. CASE (d + 1) % 2 # 1
      <4>1. (d + 1) \div 2 = k + 1 /\ ((d + 1) + 1) \div 2 = k + 1
        BY <2>4, <2>8, <3>3, <3>5, Halves
      <4>2. u.dir = "received" /\ c = x.to
        BY <2>6, <3>1, <3>5
      <4>3. RowFits(mine[a], Counted(batch, k + 1), Counted(batch, k), a)
        BY <3>2, <4>1
      <4>4. mine'[a] = IF a = x.to THEN Upserted(mine[a], x, "received") ELSE mine[a]
        BY <1>1, <3>1, <4>2 DEF Shapes
      <4> HIDE DEF k, x, c, u
      <4>5. RowFits(mine'[a], Counted(batch, k + 1), OneMore(Counted(batch, k), x), a)
        <5>1. CASE a = x.to
          <6>1. x \in To(a)
            BY <3>1, <5>1 DEF To
          <6> QED BY <2>9, <4>3, <4>4, <5>1, <6>1, ReceiverGrows
        <5>2. CASE a # x.to
          BY <2>9, <3>1, <4>3, <4>4, <5>2, RowKept
        <5> QED BY <5>1, <5>2
      <4> QED BY <2>9, <4>1, <4>5 DEF x
    <3> QED BY <3>4, <3>5
  <2>11. Len(updates') = 2 * n - (d + 1) /\ d + 1 \in 0..(2 * n)
    BY <1>1, <2>1, <2>2, <2>3, <2>4
  <2>12. ASSUME NEW i \in 1..Len(updates') PROVE updates'[i] = UpdatesOf(batch)[(d + 1) + i]
    <3>1. i \in 1..(Len(updates) - 1) /\ i + 1 \in 1..Len(updates) /\ d + (i + 1) = (d + 1) + i
      BY <1>1, <2>3, <2>4
    <3>2. updates'[i] = updates[i + 1]
      BY <1>1, <2>3, <3>1
    <3>3. updates[i + 1] = UpdatesOf(batch)[d + (i + 1)]
      BY <2>2, <3>1
    <3> QED BY <3>1, <3>2, <3>3
  <2>13. \A a \in Addresses : Fits(mine[a], d + 1, a)'
    <3>1. \A j : Counted(batch, j)' = Counted(batch, j)
      BY <1>1 DEF Counted
    <3> QED BY <1>1, <2>10, <3>1
  <2> HIDE DEF u, c
  <2>14. BatchFits'
    BY <1>1, <2>11, <2>12, <2>13 DEF BatchFits
  <2> QED BY <1>1, <2>14 DEF TotalsInv
<1> QED BY <1>2, <1>3

\* The commit counts the whole batch.
LEMMA CommitKeepsTotals ==
  ASSUME TotalsInv, Commit
  PROVE  TotalsInv'
<1>1. /\ batch # <<>> /\ updates = <<>> /\ table' = mine /\ batch' = <<>>
      /\ times' = Counted(batch, Len(batch))
  BY DEF Commit, Counted
<1>2. batch \in Batches /\ Len(batch) \in Nat
  BY <1>1, BatchTyped DEF TotalsInv
<1>3. PICK d \in 0..(2 * Len(batch)) :
        /\ Len(updates) = 2 * Len(batch) - d
        /\ \A a \in Addresses :
             RowFits(mine[a], Counted(batch, (d + 1) \div 2), Counted(batch, d \div 2), a)
  BY <1>1 DEF TotalsInv, BatchFits
<1>4. Len(updates) = 0
  BY <1>1
<1>5. (d + 1) \div 2 = Len(batch) /\ d \div 2 = Len(batch)
  BY <1>2, <1>3, <1>4
<1>6. \A a \in Addresses : RowFits(table'[a], times', times', a)
  BY <1>1, <1>3, <1>5
<1>7. times' \in [Transfers -> Nat]
  BY <1>1, <1>2, CountedGrows DEF TotalsInv
<1>8. \A a \in Addresses : RowFits(table[a], times, times, a)'
  BY <1>6 DEF RowFits, SideFits, Total, Listed, From, To
<1> QED BY <1>1, <1>7, <1>8 DEF TotalsInv, BatchFits

\* Nothing else changes a row, and a batch that is rolled back is gone.
LEMMA RestKeepsTotals ==
  ASSUME TotalsInv,
         \/ Rollback \/ ConnectionChanges \/ UNCHANGED vars
         \/ \E r \in Readers : Fill(r) \/ \E a \in Addresses : Read(r, a)
         \/ \E a \in Addresses : Expire(a)
  PROVE  TotalsInv'
<1>1. /\ UNCHANGED <<table, mine, times>>
      /\ UNCHANGED <<batch, updates>> \/ batch' = <<>>
  BY DEF Rollback, ConnectionChanges, Fill, Read, Expire, vars, store, history
<1>2. CASE batch' = <<>>
  BY <1>1, <1>2 DEF TotalsInv, BatchFits
<1>3. CASE UNCHANGED <<batch, updates>>
  <2>1. \A k : Counted(batch, k)' = Counted(batch, k)
    BY <1>1, <1>3 DEF Counted
  <2>2. BatchFits'
    BY <1>1, <1>3, <2>1 DEF TotalsInv, BatchFits
  <2> QED BY <1>1, <1>3, <2>2 DEF TotalsInv
<1> QED BY <1>1, <1>2, <1>3

\* Every step keeps the totals.
LEMMA TotalsStep == CInv /\ TotalsInv /\ [Next]_vars => TotalsInv'
<1> SUFFICES ASSUME CInv, TotalsInv, [Next]_vars PROVE TotalsInv'
  OBVIOUS
<1>1. CASE \E s \in Batches : Begin(s)
  BY <1>1, BeginKeepsTotals
<1>2. CASE Update
  BY <1>2, UpdateKeepsTotals DEF CInv
<1>3. CASE Commit
  BY <1>3, CommitKeepsTotals
<1>4. CASE \/ Rollback \/ ConnectionChanges \/ UNCHANGED vars
           \/ \E r \in Readers : Fill(r) \/ \E a \in Addresses : Read(r, a)
           \/ \E a \in Addresses : Expire(a)
  BY <1>4, RestKeepsTotals
<1> QED BY <1>1, <1>2, <1>3, <1>4 DEF Next

\* The largest is what Max chooses.
LEMMA LargestIsMax ==
  ASSUME NEW A \in SUBSET Nat, NEW m, IsLargest(m, A)
  PROVE  m = Largest(A)
<1>1. CASE A = {}
  BY <1>1 DEF IsLargest, Largest
<1>2. CASE A # {}
  <2>1. m \in A /\ \A n \in A : m >= n
    BY <1>2 DEF IsLargest
  <2>2. \A k \in A : (\A n \in A : k >= n) => k = m
    BY <2>1
  <2>3. Max(A) = m
    BY <2>1, <2>2 DEF Max
  <2> QED BY <1>2, <2>3 DEF Largest
<1> QED BY <1>1, <1>2

\* The rows add up, whatever batches commit or are rolled back, with a transfer to oneself
\* on both sides (calculateIncrementalStats, the create branch, calculateNewAverage).
THEOREM RowsAddUp == Spec => []RowsMatchTransfers
<1>1. ASSUME TotalsInv PROVE RowsMatchTransfers
  <2> SUFFICES ASSUME NEW a \in Addresses
               PROVE  LET S == {x \in Transfers : x.from = a}
                          R == {x \in Transfers : x.to = a}
                          row == table[a]
                          Average(avg, total, n) == n > 0 => avg[1] * n = total * avg[2]
                      IN IF Weighted(S \cup R, One) = 0 THEN row = None
                         ELSE /\ row.nSent = Weighted(S, One) /\ row.nReceived = Weighted(R, One)
                              /\ row.sent = Weighted(S, Amount) /\ row.received = Weighted(R, Amount)
                              /\ row.maxSent = Largest(Amounts(S)) /\ row.maxReceived = Largest(Amounts(R))
                              /\ row.max = Largest(Amounts(S \cup R))
                              /\ row.whale <=> Volume(a) >= Threshold
                              /\ row.flags.large <=> row.max >= Threshold
                              /\ Average(row.avgSent, row.sent, row.nSent)
                              /\ Average(row.avgReceived, row.received, row.nReceived)
                              /\ Average(row.avg, Volume(a), row.nSent + row.nReceived)
    BY DEF RowsMatchTransfers
  <2> DEFINE S == From(a)
             R == To(a)
             row == table[a]
  <2>1. times \in [Transfers -> Nat] /\ RowFits(row, times, times, a)
    BY <1>1 DEF TotalsInv
  <2>2. S \in SUBSET Transfers /\ R \in SUBSET Transfers /\ S \cup R \in SUBSET Transfers
    BY DEF From, To
  <2>3. \A T, w : Weighted(T, w) = Total(times, T, w)
    BY DEF Weighted, Total
  <2>4. \A T : Amounts(T) = Listed(times, T)
    BY DEF Amounts, Listed
  <2>5. Weighted(S \cup R, One) = 0 <=> Total(times, S, One) = 0 /\ Total(times, R, One) = 0
    <3>1. (\A y \in S \cup R : times[y] = 0) <=> (\A y \in S : times[y] = 0) /\ \A y \in R : times[y] = 0
      OBVIOUS
    <3> HIDE DEF S, R
    <3> QED BY <2>1, <2>2, <2>3, <3>1, NothingCounted
  <2>6. CASE Weighted(S \cup R, One) = 0
    <3>1. row = None
      BY <2>1, <2>5, <2>6 DEF RowFits
    <3> QED BY <2>6, <3>1 DEF From, To
  <2>7. CASE Weighted(S \cup R, One) # 0
    <3>1. /\ SideFits(row.sent, row.nSent, row.avgSent, row.maxSent, times, S)
          /\ SideFits(row.received, row.nReceived, row.avgReceived, row.maxReceived, times, R)
          /\ IsLargest(row.max, Listed(times, S) \cup Listed(times, R))
          /\ row.whale <=> row.sent + row.received >= Threshold
          /\ row.flags.large <=> row.max >= Threshold
          /\ Averages(row.avg, row.sent + row.received, row.nSent + row.nReceived)
      BY <2>1, <2>5, <2>7 DEF RowFits
    <3>2. Listed(times, S) \cup Listed(times, R) = Listed(times, S \cup R)
      BY DEF Listed
    <3>3. /\ Listed(times, S) \in SUBSET Nat /\ Listed(times, R) \in SUBSET Nat
          /\ Listed(times, S \cup R) \in SUBSET Nat
      BY <2>2, TransferAssumption DEF Listed
    <3> HIDE DEF S, R, row
    <3>4. /\ row.maxSent = Largest(Amounts(S)) /\ row.maxReceived = Largest(Amounts(R))
          /\ row.max = Largest(Amounts(S \cup R))
      BY <2>4, <3>1, <3>2, <3>3, LargestIsMax DEF SideFits
    <3>5. /\ row.nSent = Weighted(S, One) /\ row.nReceived = Weighted(R, One)
          /\ row.sent = Weighted(S, Amount) /\ row.received = Weighted(R, Amount)
      BY <2>3, <3>1 DEF SideFits
    <3>6. /\ row.nSent > 0 => row.avgSent[1] * row.nSent = row.sent * row.avgSent[2]
          /\ row.nReceived > 0 => row.avgReceived[1] * row.nReceived = row.received * row.avgReceived[2]
          /\ row.nSent + row.nReceived > 0 =>
               row.avg[1] * (row.nSent + row.nReceived) = (row.sent + row.received) * row.avg[2]
      BY <3>1 DEF SideFits, Averages
    <3>7. Volume(a) = row.sent + row.received
      BY DEF Volume, row
    <3> QED BY <2>7, <3>1, <3>4, <3>5, <3>6, <3>7 DEF S, R, row, From, To
  <2> QED BY <2>6, <2>7
<1>2. CInv /\ TotalsInv /\ [Next]_vars => (CInv /\ TotalsInv)'
  BY CacheStep, TotalsStep
<1>3. Init => CInv /\ TotalsInv
  BY CacheInit, TotalsInit
<1> QED BY <1>1, <1>2, <1>3, PTL DEF Spec

-----------------------------------------------------------------------------
(* The rankings.                                                           *)

\* The score for diversity of a row: 10 for one transaction, then one less than they are.
ScoreFits(row) ==
  row # None =>
    LET count == row.nSent + row.nReceived IN
    /\ row.nSent \in Nat /\ row.nReceived \in Nat /\ count >= 1
    /\ row.diversity = IF count = 1 THEN 10 ELSE Smaller(100, count - 1)

ScoresInv == \A a \in Addresses : ScoreFits(table[a]) /\ ScoreFits(mine[a])

\* An upsert keeps it.
LEMMA UpsertedFits ==
  ASSUME NEW x \in Transfers, NEW dir, NEW row \in Row \cup {None}, ScoreFits(row)
  PROVE  ScoreFits(Upserted(row, x, dir))
<1> DEFINE new == Upserted(row, x, dir)
<1>1. CASE row = None
  <2>1. new.nSent = (IF dir = "sent" THEN 1 ELSE 0) /\ new.diversity = 10
        /\ new.nReceived = (IF dir = "sent" THEN 0 ELSE 1)
    BY <1>1 DEF Upserted, Created
  <2> HIDE DEF new
  <2> QED BY <2>1 DEF ScoreFits, new
<1>2. CASE row # None
  <2>1. row \in Row /\ new = Updated(row, x, dir)
    BY <1>2 DEF Upserted
  <2>2. /\ new.diversity = Diversity(row)
        /\ dir = "sent" => new.nSent = row.nSent + 1 /\ new.nReceived = row.nReceived
        /\ dir # "sent" => new.nReceived = row.nReceived + 1 /\ new.nSent = row.nSent
    BY <2>1, UpdatedRow
  <2>3. row.nSent \in Nat /\ row.nReceived \in Nat /\ row.nSent + row.nReceived >= 1
    BY <1>2 DEF ScoreFits
  <2> HIDE DEF new
  <2>4. /\ new.nSent \in Nat /\ new.nReceived \in Nat
        /\ new.nSent + new.nReceived = row.nSent + row.nReceived + 1
    BY <2>2, <2>3
  <2>5. new.diversity = Smaller(100, new.nSent + new.nReceived - 1)
    BY <2>2, <2>3, <2>4 DEF Diversity
  <2> QED BY <2>3, <2>4, <2>5 DEF ScoreFits, new
<1> QED BY <1>1, <1>2

\* No row, no score.
LEMMA ScoresInit == Init => ScoresInv
BY DEF Init, ScoresInv, ScoreFits

\* Rows come from the table, from an upsert, or stay.
LEMMA ScoresStep == CInv /\ ScoresInv /\ [Next]_vars => ScoresInv'
<1> SUFFICES ASSUME CInv, ScoresInv, [Next]_vars PROVE ScoresInv'
  OBVIOUS
<1>1. Shapes /\ \A a \in Addresses : mine[a] \in Row \cup {None}
  BY DEF CInv, Shapes
<1>2. CASE \E s \in Batches : Begin(s)
  <2>1. mine' = table /\ table' = table
    BY <1>2 DEF Begin
  <2> QED BY <2>1 DEF ScoresInv
<1>3. CASE Update
  <2> DEFINE u == updates[1]
             c == IF u.dir = "sent" THEN u.x.from ELSE u.x.to
  <2>1. mine' = [mine EXCEPT ![c] = Upserted(@, u.x, u.dir)] /\ table' = table /\ updates # <<>>
    BY <1>3 DEF Update
  <2>2. u.x \in Transfers
    <3> DEFINE U == [x : Transfers, dir : {"sent", "received"}]
    <3>1. updates \in Seq(U)
      BY <1>1 DEF Shapes
    <3> HIDE DEF U
    <3>2. Len(updates) \in Nat /\ Len(updates) >= 1
      BY <2>1, <3>1, EmptySeq, LenProperties
    <3>3. updates[1] \in U
      BY <3>1, <3>2, ElementOfSeq
    <3> QED BY <3>3 DEF U
  <2>3. mine \in [Addresses -> Row \cup {None}]
    BY <1>1 DEF Shapes
  <2> HIDE DEF u, c
  <2>4. ASSUME NEW a \in Addresses PROVE ScoreFits(mine'[a])
    <3>1. CASE a = c
      <4>1. mine'[a] = Upserted(mine[a], u.x, u.dir)
        BY <2>1, <2>3, <3>1
      <4>2. ScoreFits(mine[a])
        BY DEF ScoresInv
      <4> QED BY <1>1, <2>2, <4>1, <4>2, UpsertedFits
    <3>2. CASE a # c
      <4>1. mine'[a] = mine[a]
        BY <2>1, <2>3, <3>2
      <4> QED BY <4>1 DEF ScoresInv
    <3> QED BY <3>1, <3>2
  <2> QED BY <2>1, <2>4 DEF ScoresInv
<1>4. CASE Commit
  <2>1. table' = mine /\ mine' = mine
    BY <1>4 DEF Commit
  <2> QED BY <2>1 DEF ScoresInv
<1>5. CASE \/ Rollback \/ ConnectionChanges \/ UNCHANGED vars
           \/ \E r \in Readers : Fill(r) \/ \E a \in Addresses : Read(r, a)
           \/ \E a \in Addresses : Expire(a)
  <2>1. table' = table /\ mine' = mine
    BY <1>5 DEF Rollback, ConnectionChanges, vars, Fill, Read, Expire, store
  <2> QED BY <2>1 DEF ScoresInv
<1> QED BY <1>2, <1>3, <1>4, <1>5 DEF Next

\* The rows that are ranked.
LEMMA RankedTyped ==
  ASSUME Shapes
  PROVE  /\ IsFiniteSet(Ranked) /\ Cardinality(Ranked) \in Nat
         /\ \A a \in Ranked : /\ Cardinality(Ranked) # 0
                              /\ Volume(a) \in Int /\ Count(a) \in Int
                              /\ table[a].last \in Int /\ table[a].risk \in Int
                              /\ table[a].diversity \in Int
         /\ Volumes \in [Ranked -> Int] /\ Counts \in [Ranked -> Int]
<1>1. IsFiniteSet(Ranked) /\ Cardinality(Ranked) \in Nat
  <2>1. Ranked \in SUBSET Addresses
    BY DEF Ranked
  <2> QED BY <2>1, FS_Subset, FS_CardinalityType, RankingAssumption
<1>2. ASSUME NEW a \in Ranked PROVE Cardinality(Ranked) # 0
  BY <1>1, <1>2, FS_EmptySet
<1>3. ASSUME NEW a \in Ranked
      PROVE  /\ Volume(a) \in Int /\ Count(a) \in Int /\ table[a].last \in Int
             /\ table[a].risk \in Int /\ table[a].diversity \in Int
  <2>1. table[a] \in Row
    BY <1>3 DEF Ranked, Shapes
  <2> QED BY <2>1 DEF Row, Volume, Count
<1> QED BY <1>1, <1>2, <1>3 DEF Volumes, Counts

\* Who is not below stands not lower, and who is above stands higher.
LEMMA IndexMonotone ==
  ASSUME Shapes, NEW value \in [Ranked -> Int], NEW a \in Ranked, NEW b \in Ranked,
         value[a] =< value[b]
  PROVE  /\ Index(a, value) \in Nat /\ Index(b, value) \in Nat
         /\ Index(a, value) =< Index(b, value)
         /\ value[a] < value[b] => Index(a, value) + 1 =< Index(b, value)
<1> DEFINE A == {c \in Ranked : value[c] < value[a]}
           B == {c \in Ranked : value[c] < value[b]}
<1>1. A \in SUBSET B /\ A \in SUBSET Ranked /\ B \in SUBSET Ranked
  OBVIOUS
<1>2. IsFiniteSet(A) /\ IsFiniteSet(B)
  BY <1>1, RankedTyped, FS_Subset
<1>3. Index(a, value) = Cardinality(A) /\ Index(b, value) = Cardinality(B)
  BY DEF Index
<1>4. Cardinality(A) \in Nat /\ Cardinality(B) \in Nat /\ Cardinality(A) =< Cardinality(B)
  <2> HIDE DEF A, B
  <2> QED BY <1>1, <1>2, FS_Subset, FS_CardinalityType
<1>5. ASSUME value[a] < value[b] PROVE Cardinality(A) + 1 =< Cardinality(B)
  <2>1. a \notin A /\ A \cup {a} \in SUBSET B
    BY <1>1, <1>5
  <2> HIDE DEF A, B
  <2>2. Cardinality(A \cup {a}) = Cardinality(A) + 1
    BY <1>2, <2>1, FS_AddElement
  <2>3. Cardinality(A \cup {a}) =< Cardinality(B)
    BY <1>2, <2>1, FS_Subset
  <2> QED BY <2>2, <2>3
<1> QED BY <1>3, <1>4, <1>5

\* The whales are those above a percentile, so they are few.
LEMMA WhalesAreFew ==
  ASSUME Shapes
  PROVE  100 * Cardinality(Whales) =< (100 - WhalePercentile) * Cardinality(Ranked)
<1> DEFINE n == Cardinality(Ranked)
           Below(a) == {b \in Ranked : Volume(b) < Volume(a)}
<1>1. IsFiniteSet(Ranked) /\ n \in Nat /\ Whales \in SUBSET Ranked
  BY RankedTyped DEF Whales
<1>2. WhalePercentile \in Int /\ 0 =< WhalePercentile /\ WhalePercentile =< 100
  BY RankingAssumption
<1>3. CASE Whales = {}
  <2>1. Cardinality(Whales) = 0
    BY <1>3, FS_EmptySet
  <2>2. ASSUME NEW w \in 0..100, NEW m \in Nat PROVE 100 * 0 =< (100 - w) * m
    <3>1. 100 - w \in Nat
      OBVIOUS
    <3> QED BY <3>1
  <2> QED BY <1>1, <1>2, <2>1, <2>2
<1>4. CASE Whales # {}
  <2> DEFINE F == {Below(a) : a \in Whales}
  <2>1. F \in SUBSET SUBSET Ranked /\ F # {}
    BY <1>4
  <2>2. PICK s \in F : \A y \in F : y \subseteq s => y = s
    <3> HIDE DEF F
    <3> QED BY <1>1, <2>1, SmallestSubset
  <2>3. PICK w \in Whales : s = Below(w)
    BY <2>2
  <2>4. w \in Ranked /\ Volume(w) \in Int
    BY <1>1, <2>3, RankedTyped
  <2>5. ASSUME NEW b \in Whales, Volume(b) < Volume(w) PROVE FALSE
    <3>1. b \in Ranked /\ Volume(b) \in Int /\ Below(b) \in F
      BY <1>1, RankedTyped
    <3>2. Below(b) \subseteq Below(w)
      <4>1. ASSUME NEW c \in Ranked, Volume(c) < Volume(b) PROVE Volume(c) < Volume(w)
        <5>1. Volume(c) \in Int
          BY RankedTyped
        <5> QED BY <2>4, <2>5, <3>1, <4>1, <5>1
      <4> QED BY <4>1
    <3>3. b \in Below(w) /\ b \notin Below(b)
      BY <2>5, <3>1
    <3> QED BY <2>2, <2>3, <3>1, <3>2, <3>3
  <2>6. Whales \cap Below(w) = {}
    BY <2>5
  <2> DEFINE k == Cardinality(Below(w))
             c == Cardinality(Whales)
  <2>7. IsFiniteSet(Whales) /\ IsFiniteSet(Below(w)) /\ k \in Nat /\ c \in Nat
    <3>1. Below(w) \in SUBSET Ranked
      OBVIOUS
    <3> QED BY <1>1, <3>1, FS_Subset, FS_CardinalityType
  <2>8. c + k =< n
    <3>1. Cardinality(Whales \cup Below(w)) = c + k - 0
      <4>1. Cardinality({}) = 0
        BY FS_EmptySet
      <4> QED BY <2>6, <2>7, <4>1, FS_Union
    <3>2. Whales \cup Below(w) \in SUBSET Ranked
      BY <1>1
    <3>3. Cardinality(Whales \cup Below(w)) =< n
      BY <1>1, <3>2, FS_Subset
    <3> QED BY <2>7, <3>1, <3>3
  <2>9. WhalePercentile * n =< 100 * k
    <3>1. Index(w, Volumes) = k
      <4>1. {b \in Ranked : Volumes[b] < Volumes[w]} = Below(w)
        BY <2>4 DEF Volumes
      <4> QED BY <4>1 DEF Index
    <3>2. 100 * Index(w, Volumes) >= WhalePercentile * n
      BY <2>3 DEF Whales
    <3> DEFINE left == WhalePercentile * n
               right == 100 * k
    <3>3. left \in Int /\ right \in Int
      BY <1>1, <1>2, <2>7
    <3> HIDE DEF k, left, right, n
    <3>4. right >= left
      BY <3>1, <3>2 DEF left, right
    <3> QED BY <3>3, <3>4 DEF left, right
  <2> HIDE DEF k, c, n, Below, F
  <2>13. ASSUME NEW p \in 0..100, p * n =< 100 * k PROVE 100 * c =< (100 - p) * n
    BY <1>1, <2>7, <2>8, <2>13
  <2> QED BY <1>2, <2>9, <2>13 DEF n, c
<1> QED BY <1>3, <1>4

\* Ahead in volume or in the number of transactions, and behind in nothing.
Ahead(a, b) ==
  /\ Volume(a) >= Volume(b) /\ Count(a) >= Count(b) /\ table[a].last >= table[b].last
  /\ Volume(a) > Volume(b) \/ Count(a) > Count(b)

\* The days since the last transfer keep the order.
LEMMA RecencyMonotone ==
  ASSUME NEW x \in Int, NEW y \in Int, x =< y, NEW d \in Int
  PROVE  /\ Larger(0, 100 - (d - x)) \in Int /\ Larger(0, 100 - (d - y)) \in Int
         /\ Larger(0, 100 - (d - x)) =< Larger(0, 100 - (d - y))
BY DEF Larger

\* So does the score for diversity, but for the ten points of the first transaction.
LEMMA DiversityKeepsOrder ==
  ASSUME Shapes, ScoresInv, NEW a \in Ranked, NEW b \in Ranked, Count(a) >= Count(b)
  PROVE  /\ table[b].diversity =< table[a].diversity + 9
         /\ ~(Count(b) = 1 /\ Count(a) \in 2..10) => table[b].diversity =< table[a].diversity
<1>1. ASSUME NEW c \in Ranked
      PROVE  /\ Count(c) \in Nat /\ Count(c) >= 1
             /\ table[c].diversity = IF Count(c) = 1 THEN 10 ELSE Smaller(100, Count(c) - 1)
  BY DEF Ranked, ScoresInv, ScoreFits, Count
<1> DEFINE m == Count(a)
           n == Count(b)
           v == table[a].diversity
           w == table[b].diversity
<1>2. /\ m \in Nat /\ n \in Nat /\ m >= 1 /\ n >= 1 /\ m >= n
      /\ v = (IF m = 1 THEN 10 ELSE Smaller(100, m - 1))
      /\ w = (IF n = 1 THEN 10 ELSE Smaller(100, n - 1))
  BY <1>1
<1> HIDE DEF m, n, v, w
<1>3. w =< v + 9 /\ (~(n = 1 /\ m \in 2..10) => w =< v)
  BY <1>2 DEF Smaller
<1> QED BY <1>3 DEF m, n, v, w

\* What is ahead scores more, unless the other is favoured.
LEMMA AheadScoresMore ==
  ASSUME Shapes, ScoresInv, NEW a \in Ranked, NEW b \in Ranked, Ahead(a, b), ~Favoured(b, a)
  PROVE  Composite(a) > Composite(b)
<1> DEFINE n  == Cardinality(Ranked)
           va == Index(a, Volumes)
           vb == Index(b, Volumes)
           ca == Index(a, Counts)
           cb == Index(b, Counts)
           ra == Recency(a)
           rb == Recency(b)
           da == table[a].diversity
           db == table[b].diversity
<1>1. /\ Volume(a) \in Int /\ Volume(b) \in Int /\ Count(a) \in Int /\ Count(b) \in Int
      /\ table[a].last \in Int /\ table[b].last \in Int /\ da \in Int /\ db \in Int
      /\ Volumes \in [Ranked -> Int] /\ Counts \in [Ranked -> Int] /\ Today \in Int
      /\ n \in Nat /\ n # 0
  BY RankedTyped, RankingAssumption
<1>2. va \in Nat /\ vb \in Nat /\ vb =< va /\ (Volume(a) > Volume(b) => vb + 1 =< va)
  <2>1. Volumes[b] =< Volumes[a] /\ (Volume(a) > Volume(b) => Volumes[b] < Volumes[a])
    BY <1>1 DEF Ahead, Volumes
  <2> QED BY <1>1, <2>1, IndexMonotone
<1>3. ca \in Nat /\ cb \in Nat /\ cb =< ca /\ (Count(a) > Count(b) => cb + 1 =< ca)
  <2>1. Counts[b] =< Counts[a] /\ (Count(a) > Count(b) => Counts[b] < Counts[a])
    BY <1>1 DEF Ahead, Counts
  <2> QED BY <1>1, <2>1, IndexMonotone
<1>4. ra \in Int /\ rb \in Int /\ rb =< ra
  <2>1. table[b].last =< table[a].last
    BY <1>1 DEF Ahead
  <2> QED BY <1>1, <2>1, RecencyMonotone DEF Recency
<1>5. db =< da + 9 /\ (~(Count(b) = 1 /\ Count(a) \in 2..10) => db =< da)
  BY DiversityKeepsOrder DEF Ahead
<1>6. /\ Composite(a) = 4000 * va + 3000 * ca + n * (20 * ra + 10 * da)
      /\ Composite(b) = 4000 * vb + 3000 * cb + n * (20 * rb + 10 * db)
  BY DEF Composite
<1>7. Count(a) > Count(b) \/ Volume(a) > Volume(b)
  BY DEF Ahead
<1>8. \/ db =< da
      \/ n =< 33 /\ Count(a) > Count(b)
  <2>1. CASE n =< 33
    <3>1. CASE Count(b) = 1 /\ Count(a) \in 2..10
      <4>1. Count(a) > Count(b)
        BY <3>1
      <4> QED BY <2>1, <4>1
    <3>2. CASE ~(Count(b) = 1 /\ Count(a) \in 2..10)
      BY <1>5, <3>2
    <3> QED BY <3>1, <3>2
  <2>2. CASE n > 33
    <3>1. ~(Count(b) = 1 /\ Count(a) \in 2..10)
      BY <2>2 DEF Favoured
    <3> QED BY <1>5, <3>1
  <2> QED BY <1>1, <2>1, <2>2
<1> HIDE DEF n, va, vb, ca, cb, ra, rb, da, db
<1>9. ASSUME NEW x \in Int, NEW y \in Int, y =< x PROVE n * y =< n * x
  BY <1>1, <1>9
<1> DEFINE x == 20 * ra + 10 * da
           y == 20 * rb + 10 * db
<1>10. CASE db =< da
  <2>1. x \in Int /\ y \in Int /\ y =< x
    BY <1>1, <1>4, <1>10
  <2>2. n * x \in Int /\ n * y \in Int /\ n * y =< n * x
    BY <1>1, <1>9, <2>1
  <2>3. 4000 * va + 3000 * ca > 4000 * vb + 3000 * cb
    BY <1>2, <1>3, <1>7
  <2> HIDE DEF x, y
  <2> DEFINE p == n * x
             q == n * y
  <2>4. p \in Int /\ q \in Int /\ q =< p
    BY <2>2
  <2>5. Composite(a) = 4000 * va + 3000 * ca + p /\ Composite(b) = 4000 * vb + 3000 * cb + q
    BY <1>6 DEF x, y
  <2> HIDE DEF p, q
  <2> QED BY <1>2, <1>3, <2>3, <2>4, <2>5
<1>11. CASE n =< 33 /\ Count(a) > Count(b)
  <2>1. x \in Int /\ y \in Int /\ y =< x + 90
    BY <1>1, <1>4, <1>5
  <2>2. n * x \in Int /\ n * y \in Int /\ n * y =< n * (x + 90) /\ n * (x + 90) = n * x + n * 90
    BY <1>1, <1>9, <2>1
  <2>3. n * 90 \in Int /\ n * 90 =< 2970
    BY <1>1, <1>11
  <2>4. 4000 * va + 3000 * ca >= 4000 * vb + 3000 * cb + 3000
    BY <1>2, <1>3, <1>11
  <2> HIDE DEF x, y
  <2> DEFINE p == n * x
             q == n * y
  <2>5. p \in Int /\ q \in Int /\ q =< p + 2970
    BY <2>2, <2>3
  <2>6. Composite(a) = 4000 * va + 3000 * ca + p /\ Composite(b) = 4000 * vb + 3000 * cb + q
    BY <1>6 DEF x, y
  <2> HIDE DEF p, q
  <2> QED BY <1>2, <1>3, <2>4, <2>5, <2>6
<1> QED BY <1>8, <1>10, <1>11

\* A list in the cache keeps the ones that rank first.
LEMMA LeadingByRank ==
  ASSUME Shapes, NEW S \in SUBSET Ranked, NEW most \in Nat, NEW rank \in [Ranked -> Int],
         NEW a \in S, NEW b \in Leading(S, most, rank), rank[a] < rank[b]
  PROVE  a \in Leading(S, most, rank)
<1> DEFINE A == {c \in S : rank[c] < rank[a]}
           B == {c \in S : rank[c] < rank[b]}
<1>1. \A c \in S : rank[c] \in Int
  OBVIOUS
<1>2. b \in S /\ Cardinality(B) < most
  BY DEF Leading
<1>3. A \in SUBSET B
  BY <1>1, <1>2
<1>4. IsFiniteSet(A) /\ IsFiniteSet(B)
  <2>1. A \in SUBSET Ranked /\ B \in SUBSET Ranked
    OBVIOUS
  <2> QED BY <2>1, RankedTyped, FS_Subset
<1> HIDE DEF A, B
<1>5. Cardinality(A) \in Nat /\ Cardinality(B) \in Nat /\ Cardinality(A) =< Cardinality(B)
  BY <1>3, <1>4, FS_Subset, FS_CardinalityType
<1>6. Cardinality(A) < most
  BY <1>2, <1>5
<1> QED BY <1>6 DEF Leading, A

\* The largest volumes are the whales'.
LEMMA WhalesAreLargest ==
  ASSUME Shapes, NEW a \in Whales, NEW b \in Ranked, Volume(b) >= Volume(a)
  PROVE  b \in Whales
<1>1. a \in Ranked /\ WhalePercentile \in Int
  BY RankingAssumption DEF Whales
<1>2. Volume(a) \in Int /\ Volume(b) \in Int /\ Volumes \in [Ranked -> Int]
  BY <1>1, RankedTyped
<1>3. Volumes[a] =< Volumes[b]
  BY <1>1, <1>2 DEF Volumes
<1>4. /\ Index(a, Volumes) \in Nat /\ Index(b, Volumes) \in Nat
      /\ Index(a, Volumes) =< Index(b, Volumes)
  BY <1>1, <1>2, <1>3, IndexMonotone
<1> DEFINE share == WhalePercentile * Cardinality(Ranked)
<1>5. share \in Int /\ 100 * Index(a, Volumes) >= share
  BY <1>1, RankedTyped DEF Whales
<1> HIDE DEF share
<1>6. 100 * Index(b, Volumes) >= share
  BY <1>4, <1>5
<1> QED BY <1>6 DEF Whales, share

\* Labels and lists agree.
LEMMA LabelsAgree ==
  ASSUME Shapes, NEW a \in Ranked
  PROVE  /\ Label(a) = "whale" <=> a \in Whales
         /\ Label(a) \in {"suspicious", "risky"} => a \in Risky
         /\ Label(a) = "regular" => a \notin Whales \cup Risky \cup ActiveTraders
<1> DEFINE l == Label(a)
<1>1. table[a].risk \in Int /\ (a \in Risky <=> table[a].risk >= 7000)
  BY RankedTyped DEF Risky
<1>2. ASSUME a \in Whales PROVE l = "whale"
  BY <1>2 DEF Label
<1>3. ASSUME a \notin Whales, a \in Risky PROVE l \in {"suspicious", "risky"}
  <2>1. CASE table[a].risk >= 8000
    <3>1. ~(table[a].risk < 8000)
      BY <1>1, <2>1
    <3> QED BY <1>3, <2>1, <3>1 DEF Label
  <2>2. CASE table[a].risk < 8000
    <3>1. ~(table[a].risk >= 8000)
      BY <1>1, <2>2
    <3> QED BY <1>3, <2>2, <3>1 DEF Label
  <2> QED BY <1>1, <2>1, <2>2
<1>4. ASSUME a \notin Whales, a \notin Risky
      PROVE  l \in {"active", "dormant", "regular"} /\ (a \in ActiveTraders => l = "active")
  <2>1. ~(table[a].risk >= 8000)
    BY <1>1, <1>4
  <2>2. CASE a \in ActiveTraders
    BY <1>4, <2>1, <2>2 DEF Label
  <2>3. CASE a \notin ActiveTraders /\ a \in Dormant
    BY <1>4, <2>1, <2>3 DEF Label
  <2>4. CASE a \notin ActiveTraders /\ a \notin Dormant
    BY <1>4, <2>1, <2>4 DEF Label
  <2> QED BY <2>2, <2>3, <2>4
<1> HIDE DEF l
<1>5. l = "whale" <=> a \in Whales
  BY <1>2, <1>3, <1>4
<1>6. l \in {"suspicious", "risky"} => a \in Risky
  BY <1>2, <1>4, <1>5
<1>7. l = "regular" => a \notin Whales \cup Risky \cup ActiveTraders
  BY <1>2, <1>3, <1>4
<1> QED BY <1>5, <1>6, <1>7 DEF l

\* The rankings of any rows are sound: few whales, an address ahead of another is ranked
\* before it and not left out for it, unless the score for diversity favours the other,
\* and labels in step with the lists (addressRankingService.ts).
THEOREM RankingAlwaysSound == Spec => []RankingIsSound
<1>1. ASSUME Shapes, ScoresInv PROVE RankingIsSound
  <2>1. Whales \in SUBSET Ranked /\ MaxListed \in Nat
    BY RankingAssumption DEF Whales
  <2>2. ASSUME NEW rank \in Rankings, NEW a \in Ranked, NEW b \in Ranked,
               Ahead(a, b), ~Favoured(b, a)
        PROVE  /\ rank[a] < rank[b]
               /\ a \in Whales /\ b \in CachedRankings(rank).whales
                    => a \in CachedRankings(rank).whales
    <3>1. rank \in [Ranked -> Int]
      BY RankedTyped DEF Rankings
    <3>2. Composite(a) > Composite(b)
      BY <1>1, <2>2, AheadScoresMore
    <3>3. a # b
      <4>1. Volume(a) \in Int /\ Count(a) \in Int
        BY <1>1, RankedTyped
      <4> QED BY <2>2, <4>1 DEF Ahead
    <3>4. rank[a] < rank[b]
      BY <3>2, <3>3 DEF Rankings, Outranks
    <3> QED BY <1>1, <2>1, <3>1, <3>4, LeadingByRank DEF CachedRankings
  <2>3. ASSUME NEW rank \in Rankings, NEW a \in CachedRankings(rank).whales
                 \cup CachedRankings(rank).risky \cup CachedRankings(rank).active
        PROVE  a \in Ranked /\ a \in Whales \cup Risky \cup ActiveTraders
    BY DEF CachedRankings, Leading, Whales, Risky, ActiveTraders
  <2>4. \A a, b \in Ranked : a \in Whales /\ Volume(b) >= Volume(a) => b \in Whales
    BY <1>1, WhalesAreLargest
  <2>5. \A a \in Ranked : /\ Label(a) = "whale" <=> a \in Whales
                          /\ Label(a) \in {"suspicious", "risky"} => a \in Risky
                          /\ Label(a) = "regular" => a \notin Whales \cup Risky \cup ActiveTraders
    BY <1>1, LabelsAgree
  <2>6. 100 * Cardinality(Whales) =< (100 - WhalePercentile) * Cardinality(Ranked)
    BY <1>1, WhalesAreFew
  <2> DEFINE label == [a \in Ranked |-> Label(a)]
  <2>7. \A a \in Ranked : /\ label[a] = "whale" <=> a \in Whales
                          /\ label[a] \in {"suspicious", "risky"} => a \in Risky
    BY <2>5
  <2>8. \A rank \in Rankings :
          \A a \in CachedRankings(rank).whales \cup CachedRankings(rank).risky
                     \cup CachedRankings(rank).active : label[a] # "regular"
    BY <2>3, <2>5
  <2> HIDE DEF label
  <2>9. \A rank \in Rankings : \A a, b \in Ranked :
          /\ /\ Volume(a) >= Volume(b) /\ Count(a) >= Count(b) /\ table[a].last >= table[b].last
             /\ Volume(a) > Volume(b) \/ Count(a) > Count(b)
          /\ ~Favoured(b, a)
          => /\ rank[a] < rank[b]
             /\ a \in Whales /\ b \in CachedRankings(rank).whales
                  => a \in CachedRankings(rank).whales
    BY <2>2 DEF Ahead
  <2> QED BY <2>4, <2>6, <2>7, <2>8, <2>9 DEF RankingIsSound, label
<1>2. CInv => Shapes
  BY DEF CInv
<1> QED BY <1>1, <1>2, CacheInit, CacheStep, ScoresInit, ScoresStep, PTL DEF Spec

-----------------------------------------------------------------------------
(* The inductive invariant: every answer is the one of the table at its     *)
(* statement, laid on slots of some later time.                             *)

Tables == [Times \X Tokens -> Nat]

\* The scanner stores no transaction of the future.
PastOnly(held, now) == \A c \in Times \X Tokens : c[1] > now => held[c] = 0

Reading(q, rank, held, at) ==
  [phase |-> "read", q |-> q, seen |-> held, at |-> at, rank |-> rank,
   found |-> Statement(q, at, held, rank)]

Points(q, rank, held, at, later) ==
  FilledData(q, rank, Statement(q, at, held, rank), Slots(q, later))

Answering(q, rank, held, at, later) ==
  [phase |-> "answered", q |-> q, seen |-> held, at |-> at,
   points |-> Points(q, rank, held, at, later)]

RequestIsTrue ==
  \/ request = NoRequest
  \/ \E q \in Requests, rank \in SetToSeqs(Tokens), held \in Tables, at \in 0 .. clock :
       /\ PastOnly(held, at)
       /\ \/ request = Reading(q, rank, held, at)
          \/ \E later \in at .. clock : request = Answering(q, rank, held, at, later)

IInv == /\ clock \in 0 .. Stop
        /\ rows \in Tables /\ PastOnly(rows, clock)
        /\ RequestIsTrue

\* Nothing is stored and nothing asked at first.
LEMMA InvInit == SeriesInit => IInv
BY TimeAssumption DEF SeriesInit, IInv, Tables, PastOnly, RequestIsTrue, Times

\* A step stores a transaction of the past, lets time pass, or answers.
LEMMA InvStep == IInv /\ [SeriesNext]_seriesVars => IInv'
<1> SUFFICES ASSUME IInv, [SeriesNext]_seriesVars PROVE IInv'
  OBVIOUS
<1>1. ASSUME clock' \in Nat, clock =< clock', request' = request PROVE RequestIsTrue'
  <2>1. CASE request = NoRequest
    BY <1>1, <2>1 DEF RequestIsTrue
  <2>2. ASSUME NEW q \in Requests, NEW rank \in SetToSeqs(Tokens), NEW held \in Tables,
               NEW at \in 0 .. clock, PastOnly(held, at),
               \/ request = Reading(q, rank, held, at)
               \/ \E later \in at .. clock : request = Answering(q, rank, held, at, later)
        PROVE RequestIsTrue'
    <3>1. at \in 0 .. clock' /\ at .. clock \subseteq at .. clock'
      BY <1>1 DEF IInv
    <3> QED BY <1>1, <2>2, <3>1 DEF RequestIsTrue
  <2> QED BY <2>1, <2>2 DEF IInv, RequestIsTrue
<1>2. ASSUME NEW t \in Times, NEW token \in Tokens, Save(t, token) PROVE IInv'
  <2>1. /\ rows' = [rows EXCEPT ![<<t, token>>] = @ + 1] /\ t =< clock
        /\ clock' = clock /\ request' = request
    BY <1>2 DEF Save
  <2>2. rows' \in Tables
    BY <2>1 DEF IInv, Tables
  <2>3. PastOnly(rows', clock')
    BY <2>1 DEF IInv, Tables, PastOnly, Times
  <2> QED BY <1>1, <2>1, <2>2, <2>3 DEF IInv
<1>3. CASE Tick
  <2>1. clock' = clock + 1 /\ clock < Stop /\ rows' = rows /\ request' = request
    BY <1>3 DEF Tick
  <2>2. clock' \in 0 .. Stop /\ clock =< clock'
    BY <2>1, TimeAssumption DEF IInv
  <2>3. PastOnly(rows', clock')
    BY <2>1 DEF IInv, PastOnly, Times
  <2> QED BY <1>1, <2>1, <2>2, <2>3 DEF IInv
<1>4. ASSUME NEW q \in Requests, NEW rank \in SetToSeqs(Tokens), Query(q, rank) PROVE IInv'
  <2>1. request' = Reading(q, rank, rows, clock) /\ UNCHANGED <<clock, rows>>
    BY <1>4 DEF Query, Reading
  <2>2. clock \in 0 .. clock
    BY DEF IInv
  <2> QED BY <2>1, <2>2 DEF IInv, RequestIsTrue
<1>5. CASE Answer
  <2>1. PICK q \in Requests, rank \in SetToSeqs(Tokens), held \in Tables, at \in 0 .. clock :
          PastOnly(held, at) /\ request = Reading(q, rank, held, at)
    BY <1>5 DEF Answer, IInv, RequestIsTrue, NoRequest, Answering
  <2>2. request' = Answering(q, rank, held, at, clock) /\ UNCHANGED <<clock, rows>>
    BY <1>5, <2>1 DEF Answer, Reading, Answering, Points
  <2>3. clock \in at .. clock
    BY DEF IInv
  <2> QED BY <2>1, <2>2, <2>3 DEF IInv, RequestIsTrue
<1>6. CASE Done
  BY <1>6 DEF Done, IInv, RequestIsTrue
<1>7. CASE UNCHANGED seriesVars
  BY <1>7, <1>1 DEF seriesVars, IInv
<1> QED BY <1>2, <1>3, <1>4, <1>5, <1>6, <1>7 DEF SeriesNext

-----------------------------------------------------------------------------
(* What a handler accepts.                                                  *)

\* parseInt(limit) || default leaves a limit of one or more, in tx-api at most `most`.
LEMMA LimitsArePositive ==
  ASSUME NEW default \in Nat \ {0}
  PROVE  /\ \A most : AcceptedLimits(default, most) \subseteq Nat \ {0}
         /\ \A most : AcceptedLimits(default, most) \subseteq 1 .. most
         /\ AnalyzerLimits(default) \subseteq Nat \ {0}
BY RequestAssumption DEF AcceptedLimits, AnalyzerLimits

\* tx-analyzer's requests.
LEMMA AnalyzerRequestFacts ==
  ASSUME NEW q \in AnalyzerRequests
  PROVE  /\ q.limit \in Nat \ {0}
         /\ q.token \in Tokens \cup {All}
         /\ q.of \in {"analyzer", "analyzerAnomaly"}
<1> USE LimitsArePositive DEF Series, AcceptedTokens
<1>1. ASSUME NEW l \in AnalyzerLimits(60), NEW t \in AcceptedTokens,
             q = AnalyzerMinutes(l, t) \/ q = AnalyzerAnomalyMinutes(l, t)
      PROVE  q.limit = l /\ q.token = t /\ q.of \in {"analyzer", "analyzerAnomaly"}
  BY <1>1 DEF AnalyzerMinutes, AnalyzerAnomalyMinutes
<1>2. ASSUME NEW l \in AnalyzerLimits(24), NEW t \in AcceptedTokens,
             q = AnalyzerHours(l, t) \/ q = AnalyzerAnomalyHours(l, t)
      PROVE  q.limit = l /\ q.token = t /\ q.of \in {"analyzer", "analyzerAnomaly"}
  BY <1>2 DEF AnalyzerHours, AnalyzerAnomalyHours
<1>3. ASSUME NEW l \in AnalyzerLimits(30), NEW t \in AcceptedTokens,
             q = AnalyzerDays(l, t) \/ q = AnalyzerAnomalyDays(l, t)
      PROVE  q.limit = l /\ q.token = t /\ q.of \in {"analyzer", "analyzerAnomaly"}
  BY <1>3 DEF AnalyzerDays, AnalyzerAnomalyDays
<1> QED BY <1>1, <1>2, <1>3 DEF AnalyzerRequests

\* Every request asks for one or more points, of one token or of all.
LEMMA RequestFacts ==
  ASSUME NEW q \in Requests
  PROVE  /\ q.limit \in Nat \ {0}
         /\ q.token \in Tokens \cup {All}
         /\ q.of \in {"volume", "anomaly", "analyzer", "analyzerAnomaly"}
<1> USE DEF Series, AcceptedTokens
<1>1. CASE q \in MinuteVolumeRequests
  BY <1>1, LimitsArePositive DEF MinuteVolumeRequests, MinuteVolume
<1>2. CASE q \in HourlyVolumeRequests
  BY <1>2, LimitsArePositive DEF HourlyVolumeRequests, HourlyVolume
<1>3. CASE q \in DailyVolumeRequests
  BY <1>3, LimitsArePositive DEF DailyVolumeRequests, DailyVolume
<1>4. CASE q \in WeeklyVolumeRequests
  BY <1>4, LimitsArePositive DEF WeeklyVolumeRequests, WeeklyVolume
<1>5. CASE q \in AnomalyRequests
  BY <1>5, LimitsArePositive DEF AnomalyRequests, Anomalies
<1>6. CASE q \in AnomalyMinutesRequests
  BY <1>6, LimitsArePositive DEF AnomalyMinutesRequests, AnomaliesByMinute, Anomalies
<1>7. CASE q \in AnomalyDailyRequests
  BY <1>7, LimitsArePositive DEF AnomalyDailyRequests, AnomaliesByDay, Anomalies
<1>8. CASE q \in AnalyzerRequests
  BY <1>8, AnalyzerRequestFacts
<1> QED BY <1>1, <1>2, <1>3, <1>4, <1>5, <1>6, <1>7, <1>8 DEF Requests

\* A volume series goes back as many units as it has points.
LEMMA VolumeRequests ==
  ASSUME NEW q \in Requests, q.of = "volume"
  PROVE  \/ q.unit = "minute" /\ q.hours = 1 /\ q.limit =< 60
         \/ q.unit = "hour" /\ q.hours = q.limit
         \/ q.unit = "day" /\ q.hours = q.limit * 24
         \/ q.unit = "week" /\ q.hours = q.limit * 168
<1> USE DEF Series
<1>1. CASE q \in MinuteVolumeRequests
  BY <1>1, LimitsArePositive DEF MinuteVolumeRequests, MinuteVolume
<1>2. CASE q \in HourlyVolumeRequests
  BY <1>2 DEF HourlyVolumeRequests, HourlyVolume
<1>3. CASE q \in DailyVolumeRequests
  BY <1>3 DEF DailyVolumeRequests, DailyVolume
<1>4. CASE q \in WeeklyVolumeRequests
  BY <1>4 DEF WeeklyVolumeRequests, WeeklyVolume
<1>5. q \notin AnomalyRequests /\ q \notin AnomalyMinutesRequests /\ q \notin AnomalyDailyRequests
  BY DEF AnomalyRequests, AnomalyMinutesRequests, AnomalyDailyRequests, Anomalies,
         AnomaliesByMinute, AnomaliesByDay
<1>6. q \notin AnalyzerRequests
  BY AnalyzerRequestFacts
<1> QED BY <1>1, <1>2, <1>3, <1>4, <1>5, <1>6 DEF Requests

-----------------------------------------------------------------------------
(* Time                                                                     *)

\* A later tick lies in the same bucket or in a later one.
LEMMA BucketGrows ==
  ASSUME NEW s \in Nat, NEW t \in Nat, s =< t
  PROVE  Bucket(s) \in Nat /\ Bucket(t) \in Nat /\ Bucket(s) =< Bucket(t)
<1> USE TimeAssumption
<1>1. Bucket(s) \in Nat /\ Bucket(t) \in Nat
  BY DEF Bucket
<1>2. Bucket(s) =< Bucket(t)
  BY DEF Bucket
<1> QED BY <1>1, <1>2

\* The last elements of a sequence.
LEMMA LastElements ==
  ASSUME NEW s, NEW m \in Nat, NEW n \in Nat, m =< n, \A k \in n - m + 1 .. n : s[k] \in Int
  PROVE  /\ DOMAIN SubSeq(s, n - m + 1, n) = 1 .. m
         /\ \A k \in 1 .. m : SubSeq(s, n - m + 1, n)[k] = s[n - m + k]
<1> DEFINE a == n - m + 1
           cut == SubSeq(s, a, n)
<1>1. a \in Int /\ n \in Int /\ a >= 1 /\ n - a + 1 = m /\ a = n - m + 1
  OBVIOUS
<1> HIDE DEF a
<1>2. /\ cut \in Seq(Int) /\ Len(cut) = IF a <= n THEN n - a + 1 ELSE 0
      /\ \A k \in 1 .. n - a + 1 : cut[k] = s[a + k - 1]
  BY <1>1, SubSeqProperties
<1> HIDE DEF cut
<1>3. cut \in Seq(Int) /\ Len(cut) = m
  BY <1>1, <1>2
<1>4. ASSUME NEW k \in 1 .. m PROVE cut[k] = s[n - m + k]
  <2>1. cut[k] = s[a + k - 1] /\ a + k - 1 = n - m + k
    BY <1>1, <1>2
  <2> QED BY <2>1
<1>5. DOMAIN cut = 1 .. m
  BY <1>3
<1> QED BY <1>4, <1>5 DEF a, cut

\* The slots of a volume series start at most `limit` units before the current one.
LEMMA VolumeSlots ==
  ASSUME NEW q \in Requests, q.of = "volume", NEW later \in Nat,
         NEW i \in DOMAIN Slots(q, later)
  PROVE  Slots(q, later)[i] \in Int /\ Slots(q, later)[i] >= Bucket(later) - q.limit
<1> DEFINE all == TimeIntervals(q, later)
           end == IF q.unit \in {"minute", "hour"} THEN Bucket(later) ELSE Bucket(later) + 1
           n == InUnits(q)
<1>1. Bucket(later) \in Nat /\ q.limit \in Nat \ {0}
  BY BucketGrows, RequestFacts
<1>2. /\ q.unit = "minute" => n = 60
      /\ q.unit # "minute" => n = q.limit
  BY <1>1, VolumeRequests DEF InUnits, UnitHours
<1>3. n \in Nat /\ end \in Nat
  BY <1>1, <1>2, VolumeRequests
<1>4. all = [k \in 1 .. n + 1 |-> end - (n + 1 - k)]
  <2>1. q.hours % UnitHours(q.unit) = 0
    BY <1>1, VolumeRequests DEF UnitHours
  <2>2. SlotWidth(q) = 1
    BY DEF SlotWidth
  <2> HIDE DEF n
  <2>3. n \div 1 = n /\ (Bucket(later) \div 1) * 1 = Bucket(later)
    BY <1>1, <1>3
  <2>4. all = [k \in 1 .. n + 1 |-> end - 1 * (n + 1 - k)]
    BY <2>1, <2>2, <2>3 DEF TimeIntervals, n
  <2> QED BY <1>3, <2>4
<1>5. Len(all) = n + 1
  BY <1>3, <1>4
<1>6. ~ByAnalyzer(q)
  BY DEF ByAnalyzer
<1>7. CASE q.unit = "minute"
  <2>1. ExpectedPoints(q) = q.limit /\ q.limit =< 60 /\ n = 60
    BY <1>1, <1>2, <1>7, VolumeRequests DEF ExpectedPoints
  <2>2. Slots(q, later) = SubSeq(all, n + 1 - q.limit + 1, n + 1)
    <3>1. q.limit < Len(all) /\ Len(all) = n + 1
      BY <1>1, <1>5, <2>1
    <3>2. RequiredIntervals(q, later) = SubSeq(all, Len(all) - q.limit + 1, Len(all))
      BY <2>1, <3>1, Zenon DEF RequiredIntervals
    <3>3. Slots(q, later) = RequiredIntervals(q, later)
      BY <1>6, Zenon DEF Slots
    <3> HIDE DEF n, all
    <3>4. Len(all) - q.limit + 1 = n + 1 - q.limit + 1
      BY <1>1, <1>3, <3>1
    <3> QED BY <3>1, <3>2, <3>3, <3>4, Zenon
  <2>3. i \in 1 .. q.limit /\ Slots(q, later)[i] = all[i + n + 1 - q.limit]
    <3> DEFINE last == n + 1
               limit == q.limit
               cut == SubSeq(all, last - limit + 1, last)
    <3>1. /\ last \in Nat /\ limit \in Nat /\ limit =< last
          /\ \A k \in last - limit + 1 .. last : all[k] \in Int
      BY <1>1, <1>3, <1>4, <2>1
    <3> HIDE DEF n, all
    <3>2. Slots(q, later) = cut
      <4>1. last = n + 1 /\ limit = q.limit
        OBVIOUS
      <4>2. SubSeq(all, n + 1 - q.limit + 1, n + 1) = SubSeq(all, last - limit + 1, last)
        <5> HIDE DEF last, limit
        <5>1. n + 1 - q.limit + 1 = last - limit + 1
          BY <1>3, <3>1, <4>1
        <5> QED BY <4>1, <5>1, Zenon
      <4> HIDE DEF last, limit
      <4> QED BY <2>2, <4>2, Zenon DEF cut
    <3> HIDE DEF last, limit
    <3>3. DOMAIN cut = 1 .. limit /\ \A k \in 1 .. limit : cut[k] = all[last - limit + k]
      BY <3>1, LastElements
    <3> HIDE DEF cut
    <3>4. i \in 1 .. limit /\ Slots(q, later)[i] = all[last - limit + i]
      BY <3>2, <3>3
    <3>5. i \in Int /\ n \in Int /\ limit \in Int
      BY <1>3, <3>1, <3>4
    <3>6. last - limit + i = i + n + 1 - limit
      BY <3>5 DEF last
    <3> QED BY <3>4, <3>6 DEF limit
  <2> QED BY <1>1, <1>3, <1>4, <1>7, <2>1, <2>3 DEF end
<1>8. CASE q.unit # "minute"
  <2>1. n = q.limit
    BY <1>2, <1>8
  <2>2. ExpectedPoints(q) \in Int
    BY <1>1, VolumeRequests DEF ExpectedPoints
  <2> HIDE DEF n, end, all
  <2>3. \E k \in 1 .. n + 1 : Slots(q, later)[i] = all[k]
    <3> DEFINE m == ExpectedPoints(q)
    <3> HIDE DEF m
    <3>1. Slots(q, later) = IF m < n + 1 THEN SubSeq(all, n + 1 - m + 1, n + 1) ELSE all
      <4>1. RequiredIntervals(q, later)
              = IF m < Len(all) THEN SubSeq(all, Len(all) - m + 1, Len(all)) ELSE all
        BY Zenon DEF RequiredIntervals, all, m
      <4>2. Slots(q, later) = RequiredIntervals(q, later)
        BY <1>6, Zenon DEF Slots
      <4>3. m \in Int
        BY <2>2 DEF m
      <4> HIDE DEF n, all
      <4> QED BY <1>3, <1>5, <4>1, <4>2, <4>3
    <3>2. all \in Seq(Int) /\ DOMAIN all = 1 .. n + 1
      BY <1>3, <1>4
    <3>3. CASE m < n + 1
      <4>1. m \in Int /\ i \in 1 .. m /\ Slots(q, later)[i] = all[i + n + 1 - m]
        <5>1. m \in Int
          BY <2>2 DEF m
        <5> DEFINE last == n + 1
                   cut == SubSeq(all, last - m + 1, last)
        <5>2. Slots(q, later) = cut /\ i \in DOMAIN cut
          <6>1. Slots(q, later) = cut
            <7>1. last = n + 1
              OBVIOUS
            <7> HIDE DEF last
            <7>2. n + 1 - m + 1 = last - m + 1
              BY <1>3, <5>1, <7>1
            <7>3. SubSeq(all, n + 1 - m + 1, n + 1) = cut
              BY <7>1, <7>2, Zenon DEF cut
            <7> QED BY <3>1, <3>3, <7>3, Zenon
          <6> QED BY <6>1, Zenon
        <5>3. last \in Nat /\ m =< last
          BY <1>3, <3>3, <5>1
        <5> HIDE DEF last
        <5>4. ASSUME m < 1 PROVE FALSE
          <6>1. Len(cut) = 0 /\ cut \in Seq(Int)
            BY <5>1, <5>3, <5>4, SubSeqProperties
          <6> HIDE DEF cut
          <6> QED BY <5>2, <6>1
        <5>5. m \in Nat /\ \A k \in last - m + 1 .. last : all[k] \in Int
          BY <1>3, <3>2, <5>1, <5>3, <5>4 DEF last
        <5>6. DOMAIN cut = 1 .. m /\ \A k \in 1 .. m : cut[k] = all[last - m + k]
          BY <5>3, <5>5, LastElements
        <5> HIDE DEF cut
        <5>7. i \in 1 .. m /\ Slots(q, later)[i] = all[last - m + i]
          BY <5>2, <5>6
        <5>8. last - m + i = i + n + 1 - m
          BY <1>3, <5>1, <5>7 DEF last
        <5> QED BY <5>1, <5>7, <5>8
      <4> QED BY <1>3, <3>3, <4>1
    <3>4. CASE ~(m < n + 1)
      BY <3>1, <3>2, <3>4
    <3> QED BY <3>3, <3>4
  <2> QED BY <1>1, <1>3, <1>4, <2>1, <2>3 DEF end
<1> QED BY <1>7, <1>8

-----------------------------------------------------------------------------
(* Counts and groups                                                        *)

LEMMA TokensFinite == IsFiniteSet(Tokens)
<1>1. Len(TokenOrder) \in Nat /\ DOMAIN TokenOrder = 1 .. Len(TokenOrder)
  BY TokenAssumption
<1>2. IsFiniteSet(DOMAIN TokenOrder)
  BY <1>1, FS_Interval
<1> QED BY <1>2, ImageFinite DEF Tokens, ToSet

\* The rows of a few cells are finitely many, and there are some when one has some.
LEMMA RowsOfCells ==
  ASSUME NEW held \in Tables, NEW cells, cells \subseteq Times \X Tokens
  PROVE  /\ Cardinality(RowsOf(held, cells)) \in Nat
         /\ Cardinality(RowsOf(held, cells)) > 0 <=> \E c \in cells : held[c] > 0
<1>1. IsFiniteSet(cells)
  <2>1. IsFiniteSet(Times)
    BY TimeAssumption, FS_Interval DEF Times
  <2> QED BY <2>1, TokensFinite, FS_Product, FS_Subset
<1> DEFINE f == [c \in cells |-> {c} \X (1 .. held[c])]
<1>2. RowsOf(held, cells) = UNION {f[c] : c \in cells}
  BY DEF RowsOf
<1>3. IsFiniteSet({f[c] : c \in cells})
  <2> HIDE DEF f
  <2> QED BY <1>1, ImageFinite
<1>4. ASSUME NEW c \in cells PROVE IsFiniteSet(f[c])
  <2>1. held[c] \in Nat
    BY DEF Tables
  <2>2. IsFiniteSet({c}) /\ IsFiniteSet(1 .. held[c])
    <3>1. 1 \in Int /\ held[c] \in Int
      BY <2>1
    <3> QED BY <3>1, FS_Singleton, FS_Interval, Zenon
  <2> QED BY <2>2, FS_Product
<1>5. IsFiniteSet(RowsOf(held, cells))
  <2> HIDE DEF f
  <2> QED BY <1>2, <1>3, <1>4, FS_UNION
<1>6. RowsOf(held, cells) # {} <=> \E c \in cells : held[c] > 0
  <2>1. ASSUME NEW c \in cells, held[c] > 0 PROVE RowsOf(held, cells) # {}
    <3>1. 1 \in 1 .. held[c]
      BY <2>1 DEF Tables
    <3>2. <<c, 1>> \in {c} \X (1 .. held[c])
      BY <3>1
    <3> QED BY <3>2 DEF RowsOf
  <2>2. ASSUME RowsOf(held, cells) # {} PROVE \E c \in cells : held[c] > 0
    <3>1. PICK c \in cells : {c} \X (1 .. held[c]) # {}
      BY <2>2 DEF RowsOf
    <3> QED BY <3>1 DEF Tables
  <2> QED BY <2>1, <2>2
<1> QED BY <1>5, <1>6, FS_CardinalityType, FS_EmptySet

\* The table has rows of a token and a block time that the WHERE lets through.
Shows(q, now, held, t, k) == t \in Window(q, now) /\ held[<<t, k>>] > 0

\* A bucket has a count of its own, above zero when a row of it is let through.
LEMMA CountFacts ==
  ASSUME NEW q, NEW now, NEW held \in Tables, NEW b, NEW ts, ts \subseteq Tokens
  PROVE  /\ CountOf(q, now, held, b, ts) \in Nat
         /\ CountOf(q, now, held, b, ts) > 0 <=>
              \E t \in Times : \E k \in ts : Bucket(t) = b /\ Shows(q, now, held, t, k)
<1> DEFINE cells == CellsOf(q, now, b, ts)
<1>1. cells \subseteq Times \X Tokens
  BY DEF CellsOf
<1>2. \A c : c \in cells <=> \E t \in Times, k \in ts :
                c = <<t, k>> /\ Bucket(t) = b /\ t \in Window(q, now)
  BY DEF CellsOf
<1>3. /\ CountOf(q, now, held, b, ts) \in Nat
      /\ CountOf(q, now, held, b, ts) > 0 <=> \E c \in cells : held[c] > 0
  BY <1>1, RowsOfCells DEF CountOf
<1> HIDE DEF cells
<1> QED BY <1>2, <1>3 DEF Shows

\* The tokens asked for are known ones.
LEMMA AskedTokens ==
  ASSUME NEW q \in Requests
  PROVE  Asked(q) \subseteq Tokens
BY RequestFacts DEF Asked

\* The parts of a bucket are tokens, and finitely many.
LEMMA PartsAreTokens ==
  ASSUME NEW q \in Requests
  PROVE  /\ \A part \in Parts(q) : part \subseteq Tokens
         /\ IsFiniteSet(Parts(q))
<1>1. Asked(q) \subseteq Tokens /\ IsFiniteSet(Asked(q))
  BY AskedTokens, TokensFinite, FS_Subset
<1>2. CASE PerToken(q)
  <2> DEFINE f == [k \in Asked(q) |-> {k}]
  <2>1. Parts(q) = {f[k] : k \in Asked(q)}
    BY <1>2 DEF Parts
  <2>2. IsFiniteSet({f[k] : k \in Asked(q)})
    <3> HIDE DEF f
    <3> QED BY <1>1, ImageFinite
  <2>3. \A part \in Parts(q) : part \subseteq Tokens
    BY <1>1, <1>2 DEF Parts
  <2> HIDE DEF f
  <2> QED BY <2>1, <2>2, <2>3
<1>3. CASE ~PerToken(q)
  BY <1>1, <1>3, FS_Singleton DEF Parts
<1> QED BY <1>2, <1>3

\* What is in a group, and which groups there are.
LEMMA GroupFacts ==
  ASSUME NEW q \in Requests, NEW now, NEW held \in Tables
  PROVE  /\ \A g \in Groups(q, now, held) :
              /\ g.bucket \in Nat /\ g.tokens \in Parts(q)
              /\ g = GroupOf(q, now, held, g.bucket, g.tokens)
              /\ g.count \in Nat /\ g.count > 0
         /\ \A t \in Times, part \in Parts(q) :
              CountOf(q, now, held, Bucket(t), part) > 0 =>
                GroupOf(q, now, held, Bucket(t), part) \in Groups(q, now, held)
         /\ IsFiniteSet(Groups(q, now, held))
<1> DEFINE B == {Bucket(t) : t \in Times}
           all == {GroupOf(q, now, held, b, part) : b \in B, part \in Parts(q)}
           f == [c \in B \X Parts(q) |-> GroupOf(q, now, held, c[1], c[2])]
           image == {f[c] : c \in B \X Parts(q)}
<1>1. Groups(q, now, held) = {g \in all : g.count > 0}
  BY DEF Groups
<1>2. \A b \in B : b \in Nat
  <2>1. \A t \in Times : t \in Nat
    BY TimeAssumption DEF Times
  <2> QED BY <2>1, BucketGrows
<1>3. \A b \in B, part \in Parts(q) :
        LET g == GroupOf(q, now, held, b, part)
        IN g.bucket = b /\ g.tokens = part /\ g.count = CountOf(q, now, held, b, part)
  BY DEF GroupOf
<1>4. \A b \in B, part \in Parts(q) : CountOf(q, now, held, b, part) \in Nat
  BY PartsAreTokens, CountFacts
<1>5. all \subseteq image
  <2> HIDE DEF B
  <2>1. ASSUME NEW b \in B, NEW part \in Parts(q)
        PROVE  GroupOf(q, now, held, b, part) \in image
    <3>1. <<b, part>> \in B \X Parts(q) /\ f[<<b, part>>] = GroupOf(q, now, held, b, part)
      OBVIOUS
    <3> HIDE DEF f
    <3> QED BY <3>1
  <2>2. \A x \in all : \E b \in B, part \in Parts(q) : x = GroupOf(q, now, held, b, part)
    OBVIOUS
  <2> HIDE DEF image, all
  <2> QED BY <2>1, <2>2
<1>6. IsFiniteSet(B)
  <2> DEFINE h == [t \in Times |-> Bucket(t)]
  <2>1. IsFiniteSet(Times)
    BY TimeAssumption, FS_Interval DEF Times
  <2>2. IsFiniteSet({h[t] : t \in Times})
    <3> HIDE DEF h
    <3> QED BY <2>1, ImageFinite
  <2>3. B = {h[t] : t \in Times}
    OBVIOUS
  <2> QED BY <2>2, <2>3
<1>7. IsFiniteSet(all)
  <2>1. IsFiniteSet(B \X Parts(q))
    <3> HIDE DEF B
    <3> QED BY <1>6, PartsAreTokens, FS_Product
  <2> HIDE DEF f, B, all
  <2>2. IsFiniteSet(image)
    BY <2>1, ImageFinite
  <2> QED BY <1>5, <2>2, FS_Subset
<1>8. IsFiniteSet(Groups(q, now, held))
  <2> HIDE DEF all
  <2>1. Groups(q, now, held) \subseteq all
    BY <1>1
  <2> QED BY <1>7, <2>1, FS_Subset
<1>9. \A t \in Times : Bucket(t) \in B
  OBVIOUS
<1>10. \A g \in all : \E b \in B, part \in Parts(q) : g = GroupOf(q, now, held, b, part)
  OBVIOUS
<1>11. \A b \in B, part \in Parts(q) : GroupOf(q, now, held, b, part) \in all
  OBVIOUS
<1> HIDE DEF B, all, f
<1>12. ASSUME NEW g \in Groups(q, now, held)
       PROVE  /\ g.bucket \in Nat /\ g.tokens \in Parts(q)
              /\ g = GroupOf(q, now, held, g.bucket, g.tokens)
              /\ g.count \in Nat /\ g.count > 0
  <2>1. g \in all /\ g.count > 0
    BY <1>1
  <2>2. PICK b \in B, part \in Parts(q) : g = GroupOf(q, now, held, b, part)
    BY <1>10, <2>1
  <2> QED BY <1>2, <1>3, <1>4, <2>1, <2>2
<1>13. ASSUME NEW t \in Times, NEW part \in Parts(q), CountOf(q, now, held, Bucket(t), part) > 0
       PROVE  GroupOf(q, now, held, Bucket(t), part) \in Groups(q, now, held)
  <2>1. GroupOf(q, now, held, Bucket(t), part) \in all
    BY <1>9, <1>11
  <2>2. GroupOf(q, now, held, Bucket(t), part).count > 0
    BY <1>3, <1>9, <1>13
  <2> QED BY <1>1, <2>1, <2>2
<1> QED BY <1>8, <1>12, <1>13

-----------------------------------------------------------------------------
(* The order of the groups of a bucket                                      *)

\* Where a statement puts a token.
Place(rank, k) == CHOOSE i \in DOMAIN rank : rank[i] = k

\* An order of the tokens puts each of them in one place of its own.
LEMMA PlaceOf ==
  ASSUME NEW rank \in SetToSeqs(Tokens), NEW k \in Tokens
  PROVE  /\ Place(rank, k) \in Nat /\ Place(rank, k) \in DOMAIN rank
         /\ \A i \in DOMAIN rank : rank[i] = k <=> i = Place(rank, k)
<1> DEFINE n == Cardinality(Tokens)
<1>1. n \in Nat
  BY TokensFinite, FS_CardinalityType
<1>2. rank \in Injection(1 .. n, Tokens) /\ DOMAIN rank = 1 .. n
  BY DEF SetToSeqs, Injection, IsInjective
<1>3. IsFiniteSet(1 .. n) /\ Cardinality(1 .. n) = n
  <2> HIDE DEF n
  <2> QED BY <1>1, FS_Interval
<1>4. rank \in Surjection(1 .. n, Tokens)
  BY <1>2, <1>3, TokensFinite, FS_Injection
<1>5. \E i \in DOMAIN rank : rank[i] = k
  BY <1>2, <1>4 DEF Surjection
<1>6. Place(rank, k) \in DOMAIN rank /\ rank[Place(rank, k)] = k
  BY <1>5 DEF Place
<1> HIDE DEF n
<1> QED BY <1>1, <1>2, <1>6 DEF Injection, IsInjective

\* One group is before another when its token is.
LEMMA BeforeIsPlace ==
  ASSUME NEW rank \in SetToSeqs(Tokens), NEW k \in Tokens, NEW l \in Tokens,
         NEW g, NEW h, g.tokens = {k}, h.tokens = {l}
  PROVE  Before(rank, g, h) <=> Place(rank, k) < Place(rank, l)
BY PlaceOf DEF Before

\* A set of numbers has a first one.
LEMMA FirstPlace ==
  ASSUME NEW T, T \subseteq Nat, T # {}
  PROVE  \E m \in T : \A k \in T : ~(k < m)
<1>1. PICK m \in T : \A k \in T : <<k, m>> \notin OpToRel(<, Nat)
  BY WFMin, NatLessThanWellFounded, Zenon
<1>2. \A k \in T : <<k, m>> \in Nat \X Nat
  OBVIOUS
<1> QED BY <1>1, <1>2, Zenon DEF OpToRel

\* And, below a bound, a last one.
LEMMA LastPlace ==
  ASSUME NEW n \in Nat, NEW T, T \subseteq 0 .. n, T # {}
  PROVE  \E m \in T : \A k \in T : ~(m < k)
<1> DEFINE M == {n - k : k \in T}
<1>1. M \subseteq Nat /\ M # {}
  <2>1. \A k \in T : k \in 0 .. n
    OBVIOUS
  <2>2. \A k \in T : n - k \in Nat
    BY <2>1
  <2> QED BY <2>2
<1>2. PICK m \in M : \A k \in M : ~(k < m)
  <2> HIDE DEF M
  <2> QED BY <1>1, FirstPlace
<1>3. PICK k \in T : m = n - k
  OBVIOUS
<1>4. ASSUME NEW l \in T PROVE ~(k < l)
  <2>1. n - l \in M
    OBVIOUS
  <2>2. k \in 0 .. n /\ l \in 0 .. n /\ ~(n - l < n - k)
    BY <1>2, <1>3, <2>1
  <2> QED BY <2>2
<1> QED BY <1>4

\* Of the groups of a bucket one is before all others, and one behind all others.
LEMMA FirstAndLast ==
  ASSUME NEW q \in Requests, NEW now, NEW held \in Tables, NEW rank \in SetToSeqs(Tokens),
         NEW b, NEW H, H \subseteq Groups(q, now, held), H # {}, \A g \in H : g.bucket = b
  PROVE  /\ \E g \in H : \A h \in H \ {g} : Before(rank, g, h) /\ ~Before(rank, h, g)
         /\ \E g \in H : \A h \in H \ {g} : Before(rank, h, g) /\ ~Before(rank, g, h)
<1>1. \A g, h \in H : g.tokens = h.tokens => g = h
  <2>1. \A g \in H : g = GroupOf(q, now, held, b, g.tokens)
    BY GroupFacts
  <2> QED BY <2>1, Zenon
<1>2. CASE ~PerToken(q)
  <2>1. \A g \in H : g.tokens = Asked(q)
    BY <1>2, GroupFacts DEF Parts
  <2>2. \A g, h \in H : g = h
    BY <1>1, <2>1
  <2> QED BY <2>2
<1>3. CASE PerToken(q)
  <2> DEFINE T == {k \in Tokens : \E g \in H : g.tokens = {k}}
             P == {Place(rank, k) : k \in T}
             n == Cardinality(Tokens)
  <2>1. ASSUME NEW g \in H PROVE \E k \in T : g.tokens = {k}
    <3>1. g.tokens \in {{k} : k \in Asked(q)}
      BY <1>3, GroupFacts DEF Parts
    <3>2. PICK k \in Tokens : g.tokens = {k}
      BY <3>1, AskedTokens
    <3> QED BY <3>2
  <2>2. n \in Nat /\ DOMAIN rank = 1 .. n
    BY TokensFinite, FS_CardinalityType DEF SetToSeqs
  <2>3. P \subseteq Nat /\ P \subseteq 0 .. n /\ P # {}
    <3>1. T # {}
      BY <2>1
    <3>2. \A k \in T : Place(rank, k) \in Nat /\ Place(rank, k) \in 1 .. n
      BY <2>2, PlaceOf
    <3> HIDE DEF T, n
    <3> QED BY <2>2, <3>1, <3>2
  <2>4. \A k, l \in T : Place(rank, k) = Place(rank, l) => k = l
    BY PlaceOf
  <2>5. \A k \in T : Place(rank, k) \in Nat
    BY PlaceOf
  <2>6. \A g, h \in H, k, l \in T :
          g.tokens = {k} /\ h.tokens = {l} =>
            (Before(rank, g, h) <=> Place(rank, k) < Place(rank, l))
    BY BeforeIsPlace
  <2>7. \A g, h \in H, k, l \in T :
          g.tokens = {k} /\ h.tokens = {l} /\ h # g => Place(rank, k) # Place(rank, l)
    BY <1>1, <2>4
  <2>8. \A k \in T : Place(rank, k) \in P
    OBVIOUS
  <2>9. \A m \in P : \E g \in H, k \in T : g.tokens = {k} /\ Place(rank, k) = m
    OBVIOUS
  <2> HIDE DEF T, P, n
  <2>10. \E g \in H : \A h \in H \ {g} : Before(rank, g, h) /\ ~Before(rank, h, g)
    <3>1. PICK m \in P : \A k \in P : ~(k < m)
      BY <2>3, FirstPlace
    <3>2. PICK g \in H, k \in T : g.tokens = {k} /\ Place(rank, k) = m
      BY <2>9
    <3>3. ASSUME NEW h \in H \ {g} PROVE Before(rank, g, h) /\ ~Before(rank, h, g)
      <4>1. PICK l \in T : h.tokens = {l}
        BY <2>1
      <4>2. Place(rank, k) # Place(rank, l) /\ ~(Place(rank, l) < Place(rank, k))
        BY <2>7, <2>8, <3>1, <3>2, <4>1
      <4>3. Place(rank, k) < Place(rank, l)
        BY <2>5, <4>2
      <4> QED BY <2>6, <3>2, <4>1, <4>2, <4>3
    <3> QED BY <3>3
  <2>11. \E g \in H : \A h \in H \ {g} : Before(rank, h, g) /\ ~Before(rank, g, h)
    <3>1. PICK m \in P : \A k \in P : ~(m < k)
      BY <2>2, <2>3, LastPlace
    <3>2. PICK g \in H, k \in T : g.tokens = {k} /\ Place(rank, k) = m
      BY <2>9
    <3>3. ASSUME NEW h \in H \ {g} PROVE Before(rank, h, g) /\ ~Before(rank, g, h)
      <4>1. PICK l \in T : h.tokens = {l}
        BY <2>1
      <4>2. Place(rank, k) # Place(rank, l) /\ ~(Place(rank, k) < Place(rank, l))
        BY <2>7, <2>8, <3>1, <3>2, <4>1
      <4>3. Place(rank, l) < Place(rank, k)
        BY <2>5, <4>2
      <4> QED BY <2>6, <3>2, <4>1, <4>2, <4>3
    <3> QED BY <3>3
  <2> QED BY <2>10, <2>11
<1> QED BY <1>2, <1>3

-----------------------------------------------------------------------------
(* The statement and the lookup                                             *)

\* A group the LIMIT cuts off has MaxResults groups before it.
LEMMA CutOff ==
  ASSUME NEW q \in Requests, NEW now, NEW held \in Tables, NEW rank,
         NEW g \in Groups(q, now, held), NEW S, IsFiniteSet(S),
         {h \in Groups(q, now, held) \ {g} : Precedes(q, rank, h, g)} \subseteq S,
         Cardinality(S) < MaxResults(q)
  PROVE  g \in Statement(q, now, held, rank)
<1> DEFINE P == {h \in Groups(q, now, held) \ {g} : Precedes(q, rank, h, g)}
<1>1. Cardinality(P) =< Cardinality(S) /\ IsFiniteSet(P)
  <2> HIDE DEF P
  <2> QED BY FS_Subset DEF P
<1>2. Cardinality(P) \in Nat /\ Cardinality(S) \in Nat /\ MaxResults(q) \in Nat
  <2>1. Cardinality(P) \in Nat /\ Cardinality(S) \in Nat
    BY <1>1, FS_CardinalityType
  <2> QED BY <2>1, RequestFacts DEF MaxResults
<1>3. Cardinality(P) < MaxResults(q)
  <2> HIDE DEF P
  <2> QED BY <1>1, <1>2
<1> QED BY <1>3, Zenon DEF Statement

\* A bucket is looked up as zero when no group of it came back, and else as the count
\* of one that did.
LEMMA LookupFacts ==
  ASSUME NEW q \in Requests, NEW now, NEW held \in Tables, NEW rank \in SetToSeqs(Tokens),
         NEW found, found \subseteq Groups(q, now, held), NEW b
  PROVE  LET c == Lookup(q, rank, found, b) IN
         \/ c = 0 /\ \A g \in found : g.bucket # b
         \/ \E g \in found : g.bucket = b /\ c = g.count
<1> DEFINE at == {g \in found : g.bucket = b}
           Wins(g) == \A h \in at \ {g} : Overwrites(q, rank, g, h)
<1>1. CASE at = {}
  BY <1>1 DEF Lookup
<1>2. CASE at # {}
  <2>1. \E g \in at : Wins(g)
    <3>1. at \subseteq Groups(q, now, held) /\ \A g \in at : g.bucket = b
      OBVIOUS
    <3> HIDE DEF at
    <3>2. /\ \E g \in at : \A h \in at \ {g} : Before(rank, g, h)
          /\ \E g \in at : \A h \in at \ {g} : Before(rank, h, g)
      BY <1>2, <3>1, FirstAndLast
    <3> QED BY <3>2 DEF Overwrites
  <2>2. (CHOOSE g \in at : Wins(g)) \in at
    BY <2>1, Zenon
  <2>3. Lookup(q, rank, found, b) = (CHOOSE g \in at : Wins(g)).count
    BY <1>2, Zenon DEF Lookup
  <2> QED BY <2>2, <2>3
<1> QED BY <1>1, <1>2

\* Where the table has rows there is a group.
LEMMA SomeGroup ==
  ASSUME NEW q \in Requests, NEW now, NEW held \in Tables, NEW b,
         CountOf(q, now, held, b, Asked(q)) > 0
  PROVE  \E g \in Groups(q, now, held) : g.bucket = b
<1>1. PICK t \in Times, k \in Asked(q) : Bucket(t) = b /\ Shows(q, now, held, t, k)
  BY AskedTokens, CountFacts
<1>2. \E part \in Parts(q) : k \in part
  BY DEF Parts
<1>3. PICK part \in Parts(q) : k \in part
  BY <1>2
<1>4. CountOf(q, now, held, b, part) > 0
  BY <1>1, <1>3, PartsAreTokens, CountFacts
<1>5. GroupOf(q, now, held, b, part) \in Groups(q, now, held)
  BY <1>1, <1>4, GroupFacts
<1> QED BY <1>5 DEF GroupOf

\* What the answer says of a slot.
LEMMA PointFacts ==
  ASSUME NEW q, NEW rank, NEW held, NEW at, NEW later
  PROVE  /\ DOMAIN Points(q, rank, held, at, later) = DOMAIN Slots(q, later)
         /\ \A i \in DOMAIN Slots(q, later) :
              LET p == Points(q, rank, held, at, later)[i] IN
              /\ p.bucket = Slots(q, later)[i]
              /\ p.count = Lookup(q, rank, Statement(q, at, held, rank), p.bucket)
BY DEF Points, FilledData, Key

LEMMA StatementGroups ==
  ASSUME NEW q, NEW now, NEW held, NEW rank
  PROVE  Statement(q, now, held, rank) \subseteq Groups(q, now, held)
BY DEF Statement

NewerGroups(q, now, held, b) == {g \in Groups(q, now, held) : g.bucket > b}

\* A point is zero or a group of its bucket; tx-api's zeros are those of empty buckets
\* and of buckets behind a LIMIT of newer groups.
LEMMA PointIsTrue ==
  ASSUME NEW q \in Requests, NEW now, NEW held \in Tables, NEW rank \in SetToSeqs(Tokens),
         NEW b
  PROVE  LET c == Lookup(q, rank, Statement(q, now, held, rank), b) IN
         /\ c > 0 => \E g \in Groups(q, now, held) : g.bucket = b /\ g.count = c
         /\ c = 0 /\ CountOf(q, now, held, b, Asked(q)) > 0 /\ q.of \in {"volume", "anomaly"} =>
              Cardinality(NewerGroups(q, now, held, b)) >= 2 * q.limit
<1> DEFINE found == Statement(q, now, held, rank)
           c == Lookup(q, rank, found, b)
           groups == Groups(q, now, held)
           newer == NewerGroups(q, now, held, b)
<1>1. found \subseteq groups
  BY StatementGroups
<1>2. \A g \in groups : g.bucket \in Nat /\ g.count \in Nat /\ g.count > 0
  BY GroupFacts
<1>3. \/ c = 0 /\ \A g \in found : g.bucket # b
      \/ \E g \in found : g.bucket = b /\ c = g.count
  <2> HIDE DEF found
  <2> QED BY <1>1, LookupFacts
<1>4. c > 0 => \E g \in groups : g.bucket = b /\ g.count = c
  <2> HIDE DEF c, found, groups
  <2> QED BY <1>1, <1>2, <1>3
<1>5. ASSUME c = 0, CountOf(q, now, held, b, Asked(q)) > 0, q.of \in {"volume", "anomaly"}
      PROVE  Cardinality(newer) >= 2 * q.limit
  <2> DEFINE H == {g \in groups : g.bucket = b}
  <2>1. \A g \in H : g \notin found
    <3> HIDE DEF c, found, groups
    <3> QED BY <1>1, <1>2, <1>3, <1>5
  <2>2. H # {}
    BY <1>5, SomeGroup
  <2>3. PICK g \in H : \A h \in H \ {g} : Before(rank, g, h) /\ ~Before(rank, h, g)
    <3>1. H \subseteq Groups(q, now, held) /\ \A g \in H : g.bucket = b
      OBVIOUS
    <3> HIDE DEF H
    <3> QED BY <2>2, <3>1, FirstAndLast
  <2>4. ~ByAnalyzer(q)
    BY <1>5 DEF ByAnalyzer
  <2>5. {h \in groups \ {g} : Precedes(q, rank, h, g)} \subseteq newer
    BY <2>3, <2>4 DEF Precedes, NewestFirst, NewerGroups
  <2>6. IsFiniteSet(newer)
    BY GroupFacts, FS_Subset DEF NewerGroups
  <2>7. ~(Cardinality(newer) < MaxResults(q))
    <3> HIDE DEF newer
    <3> QED BY <2>1, <2>3, <2>5, <2>6, CutOff
  <2>8. MaxResults(q) = 2 * q.limit
    BY <2>4 DEF MaxResults
  <2>9. Cardinality(newer) \in Nat /\ q.limit \in Nat
    BY <2>6, FS_CardinalityType, RequestFacts
  <2> HIDE DEF newer
  <2> QED BY <2>7, <2>8, <2>9
<1> QED BY <1>4, <1>5

\* In a volume series of one token every slot shows its bucket: of the groups before
\* it, at most `limit` are of a bucket between the slot and the statement's own.
LEMMA TokenPointIsExact ==
  ASSUME NEW q \in Requests, q.of = "volume", q.token # All,
         NEW now \in 0 .. Stop, NEW held \in Tables, PastOnly(held, now),
         NEW rank \in SetToSeqs(Tokens), NEW b \in Int, b >= Bucket(now) - q.limit
  PROVE  Lookup(q, rank, Statement(q, now, held, rank), b)
           = CountOf(q, now, held, b, Asked(q))
<1> DEFINE found == Statement(q, now, held, rank)
           groups == Groups(q, now, held)
           stored == CountOf(q, now, held, b, Asked(q))
<1>1. PICK k \in Tokens : Asked(q) = {k} /\ Parts(q) = {{k}}
  <2>1. Asked(q) = {q.token} /\ q.token \in Tokens /\ PerToken(q)
    BY RequestFacts DEF Asked, PerToken
  <2>2. Parts(q) = {{q.token}}
    BY <2>1 DEF Parts
  <2> QED BY <2>1, <2>2
<1>2. \A g \in groups : /\ g.bucket \in Nat /\ g.count > 0
                        /\ g = GroupOf(q, now, held, g.bucket, Asked(q))
  <2>1. \A g \in groups :
          /\ g.bucket \in Nat /\ g.count > 0 /\ g.tokens \in Parts(q)
          /\ g = GroupOf(q, now, held, g.bucket, g.tokens)
    BY GroupFacts
  <2>2. \A part \in Parts(q) : part = Asked(q)
    BY <1>1
  <2> QED BY <2>1, <2>2
<1>3. \A g \in groups : g.count = CountOf(q, now, held, g.bucket, Asked(q))
  BY <1>2 DEF GroupOf
<1>4. found \subseteq groups
  BY StatementGroups
<1>5. \/ Lookup(q, rank, found, b) = 0 /\ \A g \in found : g.bucket # b
      \/ \E g \in found : g.bucket = b /\ Lookup(q, rank, found, b) = g.count
  <2> HIDE DEF found
  <2> QED BY <1>4, LookupFacts
<1>6. stored \in Nat
  BY AskedTokens, CountFacts
<1>7. CASE stored = 0
  <2>1. \A g \in found : g.bucket # b
    BY <1>2, <1>3, <1>4, <1>7
  <2> QED BY <1>5, <1>7, <2>1
<1>8. CASE stored > 0
  <2>1. PICK g \in groups : g.bucket = b
    BY <1>8, SomeGroup
  <2> DEFINE last == Bucket(now)
             between == b + 1 .. last
             P == {h \in groups \ {g} : Precedes(q, rank, h, g)}
             f == [h \in P |-> h.bucket]
  <2>2. now \in Nat /\ last \in Nat /\ q.limit \in Nat \ {0}
    BY RequestFacts, BucketGrows, TimeAssumption
  <2>3. ASSUME NEW h \in groups PROVE h.bucket =< last
    <3>1. CountOf(q, now, held, h.bucket, Asked(q)) > 0
      BY <1>2, <1>3
    <3>2. PICK t \in Times, l \in Asked(q) : Bucket(t) = h.bucket /\ held[<<t, l>>] > 0
      <4>1. \E t \in Times : \E l \in Asked(q) :
              Bucket(t) = h.bucket /\ Shows(q, now, held, t, l)
        BY <3>1, AskedTokens, CountFacts
      <4> QED BY <4>1 DEF Shows
    <3>3. <<t, l>> \in Times \X Tokens /\ t \in Nat
      BY AskedTokens, TimeAssumption DEF Times
    <3>4. t =< now
      BY <2>2, <3>2, <3>3 DEF PastOnly
    <3> QED BY <2>2, <3>2, <3>3, <3>4, BucketGrows
  <2>4. \A h \in P : h.bucket > b
    <3>1. ~ByAnalyzer(q)
      BY DEF ByAnalyzer
    <3>2. \A h \in groups : h.bucket = b => h = g
      BY <1>2, <2>1
    <3> QED BY <2>1, <3>1, <3>2 DEF Precedes, NewestFirst
  <2>5. \A h, l \in P : h.bucket = l.bucket => h = l
    BY <1>2
  <2>6. f \in Injection(P, between)
    <3>1. \A h \in P : h.bucket \in between
      BY <1>2, <2>2, <2>3, <2>4
    <3> HIDE DEF P, between
    <3> QED BY <2>5, <3>1 DEF Injection, IsInjective
  <2>7. IsFiniteSet(between) /\ Cardinality(between) =< q.limit
    <3>1. b + 1 \in Int /\ last \in Int
      BY <2>2
    <3>2. /\ IsFiniteSet(between)
          /\ Cardinality(between) = IF b + 1 > last THEN 0 ELSE last - (b + 1) + 1
      BY <3>1, FS_Interval, Zenon
    <3> HIDE DEF between
    <3> QED BY <2>2, <3>2
  <2>8. IsFiniteSet(P) /\ Cardinality(P) =< Cardinality(between)
    <3> HIDE DEF P, between, f
    <3> QED BY <2>6, <2>7, FS_Injection
  <2>9. Cardinality(P) < MaxResults(q)
    <3>1. Cardinality(P) \in Nat /\ Cardinality(between) \in Nat
      BY <2>7, <2>8, FS_CardinalityType
    <3>2. MaxResults(q) = 2 * q.limit
      BY DEF MaxResults, ByAnalyzer
    <3> HIDE DEF P, between
    <3> QED BY <2>2, <2>7, <2>8, <3>1, <3>2
  <2>10. g \in found
    <3>1. {h \in Groups(q, now, held) \ {g} : Precedes(q, rank, h, g)} \subseteq P
      OBVIOUS
    <3> HIDE DEF P
    <3> QED BY <2>8, <2>9, <3>1, CutOff
  <2>11. \A h \in found : h.bucket = b => h.count = stored
    BY <1>3, <1>4
  <2>12. Lookup(q, rank, found, b) = stored
    <3> HIDE DEF found, stored
    <3> QED BY <1>5, <2>1, <2>10, <2>11
  <2> QED BY <2>12
<1> QED BY <1>6, <1>7, <1>8

-----------------------------------------------------------------------------
(* Theorems                                                                 *)

LEMMA Invariance == SeriesSpec => []IInv
<1> QED BY InvInit, InvStep, PTL DEF SeriesSpec

LEMMA PointsFollow == IInv => PointsAreTrue
<1> SUFFICES ASSUME IInv,
                    Answered({"volume", "anomaly", "analyzer", "analyzerAnomaly"}),
                    NEW i \in DOMAIN request.points
             PROVE  LET p == request.points[i]
                        groups == Groups(request.q, request.at, request.seen) IN
                    /\ p.count > 0 => \E g \in groups : g.bucket = p.bucket /\ g.count = p.count
                    /\ p.count = 0 /\ Stored(p) > 0 /\ request.q.of \in {"volume", "anomaly"} =>
                         Cardinality({g \in groups : g.bucket > p.bucket}) >= 2 * request.q.limit
  BY DEF PointsAreTrue
<1>1. PICK q \in Requests, rank \in SetToSeqs(Tokens), held \in Tables, at \in 0 .. clock :
        /\ PastOnly(held, at)
        /\ \E later \in at .. clock : request = Answering(q, rank, held, at, later)
  BY DEF IInv, RequestIsTrue, Answered, NoRequest, Reading
<1> PICK later \in at .. clock : request = Answering(q, rank, held, at, later)
  BY <1>1
<1>2. /\ request.q = q /\ request.at = at /\ request.seen = held
      /\ request.points = Points(q, rank, held, at, later)
  BY DEF Answering
<1>3. /\ request.points[i].count
           = Lookup(q, rank, Statement(q, at, held, rank), request.points[i].bucket)
  BY <1>2, PointFacts
<1>4. Stored(request.points[i]) = CountOf(q, at, held, request.points[i].bucket, Asked(q))
  BY <1>2 DEF Stored
<1> DEFINE b == request.points[i].bucket
           c == request.points[i].count
<1>5. /\ c > 0 => \E g \in Groups(q, at, held) : g.bucket = b /\ g.count = c
      /\ c = 0 /\ CountOf(q, at, held, b, Asked(q)) > 0 /\ q.of \in {"volume", "anomaly"} =>
           Cardinality(NewerGroups(q, at, held, b)) >= 2 * q.limit
  <2>1. c = Lookup(q, rank, Statement(q, at, held, rank), b)
    BY <1>3
  <2> HIDE DEF b, c
  <2> QED BY <2>1, PointIsTrue
<1> QED BY <1>2, <1>4, <1>5, Zenon DEF NewerGroups

LEMMA SeriesFollow == IInv => TokenSeriesExact
<1> SUFFICES ASSUME IInv, Answered({"volume"}), request.q.token # All,
                    NEW i \in DOMAIN request.points
             PROVE  request.points[i].count = Stored(request.points[i])
  BY DEF TokenSeriesExact
<1>1. PICK q \in Requests, rank \in SetToSeqs(Tokens), held \in Tables, at \in 0 .. clock :
        /\ PastOnly(held, at)
        /\ \E later \in at .. clock : request = Answering(q, rank, held, at, later)
  BY DEF IInv, RequestIsTrue, Answered, NoRequest, Reading
<1> PICK later \in at .. clock : request = Answering(q, rank, held, at, later)
  BY <1>1
<1>2. /\ request.q = q /\ request.at = at /\ request.seen = held
      /\ request.points = Points(q, rank, held, at, later)
  BY DEF Answering
<1>3. q.of = "volume" /\ q.token # All
  BY <1>2 DEF Answered
<1> DEFINE b == request.points[i].bucket
<1>4. /\ i \in DOMAIN Slots(q, later) /\ b = Slots(q, later)[i]
      /\ request.points[i].count = Lookup(q, rank, Statement(q, at, held, rank), b)
  BY <1>2, PointFacts
<1>5. at \in 0 .. Stop /\ at \in Nat /\ later \in Nat /\ at =< later
  BY TimeAssumption DEF IInv
<1>6. b \in Int /\ b >= Bucket(later) - q.limit
  BY <1>3, <1>4, <1>5, VolumeSlots
<1>7. b >= Bucket(at) - q.limit
  <2>1. /\ Bucket(at) \in Nat /\ Bucket(later) \in Nat /\ Bucket(at) =< Bucket(later)
        /\ q.limit \in Nat
    BY <1>5, BucketGrows, RequestFacts
  <2> HIDE DEF b
  <2> QED BY <1>6, <2>1
<1>8. Lookup(q, rank, Statement(q, at, held, rank), b) = CountOf(q, at, held, b, Asked(q))
  <2> HIDE DEF b
  <2> QED BY <1>1, <1>3, <1>5, <1>6, <1>7, TokenPointIsExact
<1> QED BY <1>2, <1>4, <1>8 DEF Stored

\* However many rows are inserted and however late the slots are made, for any limit and
\* any tokens: a volume series of one token shows in every point exactly what the table
\* held (getHourlyVolume and its siblings, fillMissingHourlyData).
THEOREM SeriesExact == SeriesSpec => []TokenSeriesExact
BY Invariance, SeriesFollow, PTL

\* For any limit and any tokens, no point of a chart shows another bucket's count, and
\* tx-api's only false zeros are those behind 2 * limit newer groups
\* (fillMissingHourlyData, fillMissingAnomalyData, fillMissingTimeSlots).
THEOREM TruePoints == SeriesSpec => []PointsAreTrue
BY Invariance, PointsFollow, PTL
=============================================================================
