----------------------------- MODULE TimeSeries -----------------------------
(***************************************************************************)
(* The charts' series of tx-api (services/analytics.service.ts behind       *)
(* controllers/analytics.controller.ts) and of tx-analyzer                  *)
(* (services/analytics.service.ts): a statement groups the transactions by  *)
(* a unit of time, and the answer lays the groups on one slot per unit, a   *)
(* zero where there is none.                                                *)
(*                                                                         *)
(* A behaviour looks at one unit of time.  A unit lasts Width ticks of the  *)
(* clock and bucket b holds the ticks b * Width .. b * Width + Width - 1.   *)
(* The clock may pass between the statement and the slots, which the code   *)
(* computes from a second `new Date()` after its await; so may insertions,  *)
(* whose block times lie anywhere in the past (the scanner's catch-up).     *)
(*                                                                         *)
(* The monthly series, the weekly anomaly series and tx-analyzer's weekly   *)
(* series are left out: see the README.                                     *)
(***************************************************************************)
EXTENDS Integers, Sequences, FiniteSets, SequencesExt

CONSTANTS
  TokenOrder,   \* the token symbols, in alphabetical order (a sequence)
  All,          \* no token asked for
  Units,        \* the units of time looked at
  Limits,       \* the values of the query parameter `limit`
  Hours,        \* the values of the query parameter `hours`
  Width,        \* ticks in a unit
  Start, Stop,  \* bounds of the clock
  MaxRows       \* bound on the stored transactions

ASSUME TimeAssumption == /\ Width \in Nat \ {0}
                         /\ Start \in Nat /\ Stop \in Nat /\ Start <= Stop
ASSUME RequestAssumption == Limits \subseteq Int /\ Hours \subseteq Int
ASSUME TokenAssumption == TokenOrder \in Seq(ToSet(TokenOrder)) /\ IsInjective(TokenOrder)

Tokens == ToSet(TokenOrder)
Times == 0 .. Stop
Bucket(t) == t \div Width

VARIABLES
  unit,     \* the unit of time this behaviour looks at
  clock,    \* the current tick
  rows,     \* table transactions: how many of a token carry a block time
  request   \* the request being answered

seriesVars == <<unit, clock, rows, request>>

NoRequest == [phase |-> "idle"]

-----------------------------------------------------------------------------
(* The requests: what each handler accepts and hands to the service.        *)

\* parseInt(limit) || default, refused outside 1..most
AcceptedLimits(default, most) ==
  {IF l = 0 THEN default ELSE l : l \in Limits} \cap (1 .. most)

AcceptedTokens == Tokens \cup {All}

Series(of, u, hours, limit, token) ==
  [of |-> of, unit |-> u, hours |-> hours, limit |-> limit, token |-> token]

MinuteVolume(limit, token) == Series("volume", "minute", 1, limit, token)
HourlyVolume(limit, token) == Series("volume", "hour", limit, limit, token)
DailyVolume(limit, token)  == Series("volume", "day", limit * 24, limit, token)
WeeklyVolume(limit, token) == Series("volume", "week", limit * 168, limit, token)

\* The unit of an anomaly series follows the hours asked for.
AnomalyUnit(hours) ==
  CASE hours <= 1 -> "minute"
    [] hours > 1 /\ hours <= 168 -> "hour"
    [] hours > 168 /\ hours <= 2160 -> "day"
    [] OTHER -> "weekOrMonth"

Anomalies(hours, limit, token) ==
  Series("anomaly", AnomalyUnit(hours), hours, limit, token)

AnomaliesByMinute(limit, token) == Anomalies(1, limit, token)
AnomaliesByDay(limit, token)    == Anomalies(limit * 24, limit, token)

AnalyzerMinutes(limit, token) == Series("analyzer", "minute", 1, limit, token)
AnalyzerHours(limit, token)   == Series("analyzer", "hour", limit, limit, token)
AnalyzerDays(limit, token)    == Series("analyzer", "day", limit * 24, limit, token)

AnalyzerAnomalyMinutes(limit, token) ==
  Series("analyzerAnomaly", "minute", 1, limit, token)
AnalyzerAnomalyHours(limit, token) ==
  Series("analyzerAnomaly", "hour", limit, limit, token)
AnalyzerAnomalyDays(limit, token) ==
  Series("analyzerAnomaly", "day", limit * 24, limit, token)

MinuteVolumeRequests ==
  {MinuteVolume(l, t) : l \in AcceptedLimits(60, 60), t \in AcceptedTokens}
HourlyVolumeRequests ==
  {HourlyVolume(l, t) : l \in AcceptedLimits(24, 720), t \in AcceptedTokens}
DailyVolumeRequests ==
  {DailyVolume(l, t) : l \in AcceptedLimits(30, 90), t \in AcceptedTokens}
WeeklyVolumeRequests ==
  {WeeklyVolume(l, t) : l \in AcceptedLimits(26, 260), t \in AcceptedTokens}
AnomalyRequests ==
  {Anomalies(h, l, t) : h \in Hours \cap (1 .. 10000),
                        l \in AcceptedLimits(24, 720), t \in AcceptedTokens}
AnomalyMinutesRequests ==
  {AnomaliesByMinute(l, t) : l \in AcceptedLimits(60, 60), t \in AcceptedTokens}
AnomalyDailyRequests ==
  {AnomaliesByDay(l, t) : l \in AcceptedLimits(30, 90), t \in AcceptedTokens}

\* tx-analyzer's services take filters.limit || default and check nothing.
AnalyzerLimits(default) == {IF l = 0 THEN default ELSE l : l \in Limits \cap Nat}
AnalyzerRequests ==
  UNION {{AnalyzerMinutes(l, t) : l \in AnalyzerLimits(60), t \in AcceptedTokens},
         {AnalyzerHours(l, t) : l \in AnalyzerLimits(24), t \in AcceptedTokens},
         {AnalyzerDays(l, t) : l \in AnalyzerLimits(30), t \in AcceptedTokens},
         {AnalyzerAnomalyMinutes(l, t) : l \in AnalyzerLimits(60), t \in AcceptedTokens},
         {AnalyzerAnomalyHours(l, t) : l \in AnalyzerLimits(24), t \in AcceptedTokens},
         {AnalyzerAnomalyDays(l, t) : l \in AnalyzerLimits(30), t \in AcceptedTokens}}

Requests ==
  UNION {MinuteVolumeRequests, HourlyVolumeRequests, DailyVolumeRequests,
         WeeklyVolumeRequests, AnomalyRequests, AnomalyMinutesRequests,
         AnomalyDailyRequests, AnalyzerRequests}

-----------------------------------------------------------------------------
(* The statement: the groups, their order and their LIMIT.                  *)

ByAnalyzer(q) == q.of \in {"analyzer", "analyzerAnomaly"}
PerToken(q) == q.of \in {"volume", "analyzer"}

UnitHours(u) == CASE u = "day" -> 24 [] u = "week" -> 168 [] OTHER -> 1

\* The hours of a series in whole units of time, and in ticks of the clock: an
\* anomaly series by day may cover a part of a day.
InUnits(q) == IF q.unit = "minute" THEN q.hours * 60 ELSE q.hours \div UnitHours(q.unit)
InTicks(q) == IF q.unit = "minute" THEN q.hours * 60 * Width
                                   ELSE (q.hours * Width) \div UnitHours(q.unit)

\* tx-api's volume series have no WHERE on the time; its anomaly series start
\* `hours` ago, tx-analyzer's series `limit` units ago.
Window(q, now) ==
  CASE q.of = "volume" -> 0 .. Stop
    [] q.of = "anomaly" -> (now - InTicks(q)) .. Stop
    [] OTHER -> (now - q.limit * Width) .. now

\* The rows of a bucket that the WHERE of the statement lets through.
CellsOf(q, now, bucket, tokens) ==
  {c \in (Times \cap Window(q, now)) \X tokens : Bucket(c[1]) = bucket}

\* The rows of a set of cells, numbered within each.
RowsOf(table, cells) == UNION {{c} \X (1 .. table[c]) : c \in cells}

CountOf(q, now, table, bucket, tokens) ==
  Cardinality(RowsOf(table, CellsOf(q, now, bucket, tokens)))

Asked(q) == IF q.token = All THEN Tokens ELSE {q.token}

\* GROUP BY the bucket, for the volumes and the token: in a bucket a group for each
\* token, or one for all asked for.
Parts(q) == IF PerToken(q) THEN {{k} : k \in Asked(q)} ELSE {Asked(q)}

GroupOf(q, now, table, b, part) ==
  [bucket |-> b, tokens |-> part, count |-> CountOf(q, now, table, b, part)]

Groups(q, now, table) ==
  {g \in {GroupOf(q, now, table, b, part) :
            b \in {Bucket(t) : t \in Times}, part \in Parts(q)} : g.count > 0}

\* In a bucket tx-api orders by token; tx-analyzer leaves that to the database:
\* `rank` is the order of this statement.
Before(rank, g, h) ==
  \E i, j \in DOMAIN rank : rank[i] \in g.tokens /\ rank[j] \in h.tokens /\ i < j

OldestFirst(rank, g, h) ==
  \/ g.bucket < h.bucket
  \/ g.bucket = h.bucket /\ Before(rank, g, h)

NewestFirst(rank, g, h) ==
  \/ g.bucket > h.bucket
  \/ g.bucket = h.bucket /\ Before(rank, g, h)

Precedes(q, rank, g, h) ==
  IF ByAnalyzer(q) THEN OldestFirst(rank, g, h) ELSE NewestFirst(rank, g, h)

\* Mutant: a LIMIT of as many groups as points.
LimitOfPoints(q) == q.limit

MaxResults(q) == IF ByAnalyzer(q) THEN q.limit ELSE 2 * q.limit

\* The groups that come back: those with fewer than MaxResults before them.
Statement(q, now, table, rank) ==
  LET groups == Groups(q, now, table)
  IN {g \in groups : Cardinality({h \in groups \ {g} : Precedes(q, rank, h, g)}) < MaxResults(q)}

-----------------------------------------------------------------------------
(* The slots and the lookup.                                                *)

ExpectedPoints(q) ==
  LET atMost(n) == IF q.limit < n THEN q.limit ELSE n
  IN CASE q.hours <= 1 -> atMost(60)
       [] q.hours > 1 /\ q.hours <= 24 -> 24
       [] q.hours > 24 /\ q.hours <= 168 -> atMost(168)
       [] q.hours > 168 /\ q.hours <= 2160 -> atMost(90)
       [] q.hours > 2160 /\ q.hours <= 8760 -> atMost(52)
       [] OTHER -> q.limit

\* The anomalies by minute have a slot every five minutes.
SlotWidth(q) == IF q.of = "anomaly" /\ q.unit = "minute" THEN 5 ELSE 1

\* Unit by unit from `hours` before the current bucket, or for days and weeks the
\* next one, up to it: hours that end within a unit stop short of it.
TimeIntervals(q, now) ==
  LET step == SlotWidth(q)
      end == IF q.unit \in {"minute", "hour"}
               THEN (Bucket(now) \div step) * step ELSE Bucket(now) + 1
      last == IF q.hours % UnitHours(q.unit) = 0 THEN end ELSE end - 1
      n == InUnits(q) \div step
  IN [i \in 1 .. n + 1 |-> last - step * (n + 1 - i)]

RequiredIntervals(q, now) ==
  LET all == TimeIntervals(q, now)
      n == ExpectedPoints(q)
  IN IF n < Len(all) THEN SubSeq(all, Len(all) - n + 1, Len(all)) ELSE all

AnalyzerSlots(q, now) == [i \in 1 .. q.limit |-> Bucket(now) - q.limit + i]

Slots(q, now) ==
  IF ByAnalyzer(q) THEN AnalyzerSlots(q, now) ELSE RequiredIntervals(q, now)

\* Mutant: a slot is looked up under the bucket before it.
KeyBefore(b) == b - 1

\* formatHourKey of a slot: local midnight and the UTC date agree, the server's
\* time zone being UTC
Key(b) == b

\* Which of two groups of a bucket overwrites the other in dataMap, the later one
\* of the list; tx-api turns the list of its volumes round first.
Overwrites(q, rank, g, h) ==
  IF q.of = "volume" THEN Before(rank, g, h) ELSE Before(rank, h, g)

Lookup(q, rank, found, bucket) ==
  LET at == {g \in found : g.bucket = bucket}
  IN IF at = {} THEN 0
     ELSE (CHOOSE g \in at : \A h \in at \ {g} : Overwrites(q, rank, g, h)).count

FilledData(q, rank, found, slots) ==
  [i \in DOMAIN slots |->
     [bucket |-> slots[i], count |-> Lookup(q, rank, found, Key(slots[i]))]]

-----------------------------------------------------------------------------
(* Actions                                                                  *)

\* External: the chain scanner stores a transaction, maybe of an older block.
Save(t, token) ==
  /\ Cardinality(RowsOf(rows, DOMAIN rows)) < MaxRows
  /\ t <= clock
  /\ rows' = [rows EXCEPT ![<<t, token>>] = @ + 1]
  /\ UNCHANGED <<unit, clock, request>>

Tick ==
  /\ clock < Stop
  /\ clock' = clock + 1
  /\ UNCHANGED <<unit, rows, request>>

\* A handler takes a request and the service runs its statement.  `seen` is
\* kept for the properties: the table as the statement read it.
Query(q, rank) ==
  /\ request = NoRequest
  /\ q.unit = unit
  /\ ~ByAnalyzer(q) => rank = TokenOrder
  /\ request' = [phase |-> "read", q |-> q, seen |-> rows, at |-> clock, rank |-> rank,
                 found |-> Statement(q, clock, rows, rank)]
  /\ UNCHANGED <<unit, clock, rows>>

\* The slots are made from a new Date() and the answer is sent.
Answer ==
  /\ request.phase = "read"
  /\ request' = [phase |-> "answered", q |-> request.q, seen |-> request.seen,
                 at |-> request.at,
                 points |-> FilledData(request.q, request.rank, request.found,
                                       Slots(request.q, clock))]
  /\ UNCHANGED <<unit, clock, rows>>

Done ==
  /\ request.phase = "answered"
  /\ request' = NoRequest
  /\ UNCHANGED <<unit, clock, rows>>

SeriesInit ==
  /\ unit \in Units
  /\ clock = Start
  /\ rows = [c \in Times \X Tokens |-> 0]
  /\ request = NoRequest

SeriesNext ==
  \/ \E t \in Times, token \in Tokens : Save(t, token)
  \/ Tick
  \/ \E q \in Requests, rank \in SetToSeqs(Tokens) : Query(q, rank)
  \/ Answer
  \/ Done

SeriesSpec == SeriesInit /\ [][SeriesNext]_seriesVars

-----------------------------------------------------------------------------
(* Properties                                                               *)

Answered(ofs) == request.phase = "answered" /\ request.q.of \in ofs

Stored(p) == CountOf(request.q, request.at, request.seen, p.bucket, Asked(request.q))

\* A volume series asked for one token shows in every point exactly the
\* transactions the table held when it was read, whatever the limit cut off
\* and however late the slots were made (getHourlyVolume and its siblings).
TokenSeriesExact ==
  Answered({"volume"}) /\ request.q.token # All =>
    \A i \in DOMAIN request.points :
      request.points[i].count = Stored(request.points[i])

\* A point is zero or the count of one group of its own bucket: no slot shows
\* the transactions of another hour, day or week.  tx-api shows a zero for a
\* bucket that has transactions only when its LIMIT was used up by newer groups
\* (fillMissingHourlyData, fillMissingAnomalyData, fillMissingTimeSlots).
PointsAreTrue ==
  Answered({"volume", "anomaly", "analyzer", "analyzerAnomaly"}) =>
    \A i \in DOMAIN request.points :
      LET p == request.points[i]
          groups == Groups(request.q, request.at, request.seen) IN
      /\ p.count > 0 => \E g \in groups : g.bucket = p.bucket /\ g.count = p.count
      /\ p.count = 0 /\ Stored(p) > 0 /\ request.q.of \in {"volume", "anomaly"} =>
           Cardinality({g \in groups : g.bucket > p.bucket}) >= 2 * request.q.limit
=============================================================================
