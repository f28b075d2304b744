---------------------------- MODULE Reports_proofs ----------------------------
(***************************************************************************)
(* Proofs about the answers made of several statements, for any histories, *)
(* addresses, tokens, limits and number of requests.                       *)
(***************************************************************************)
EXTENDS Reports, SumTheorems, SequenceTheorems, TLAPS

-----------------------------------------------------------------------------
(* Requests and the keys of their answers.                                  *)

\* The endpoints whose answers are kept, those whose are not, and what every handler leaves
\* of its parameters.
Cached == {"transactions", "transaction", "summary", "statistics", "trends", "profile",
  "byVolume", "byFrequency", "search", "whales", "traders", "suspicious", "dashboard",
  "analyzerRealtime", "analyzerTop", "analyzerReceivers", "analyzerSenders"}
Uncached == {"top", "receivers", "senders", "realtime", "distribution", "network", "tokenStats",
  "analyzerTokenStats", "analyzerDistribution", "analyzerAnomalies", "analyzerNetwork"}

Typed(q) ==
  /\ q = Asks(q.of, q.address, q.token, q.hours, q.limit, q.page, q.by)
  /\ q.of \in Cached \cup Uncached
  /\ q.address \in Addresses \cup {None} /\ q.token \in Tokens \cup {None}
  /\ q.hours \in MaybeHours /\ q.limit \in Nat \ {0} /\ q.page \in 1 .. 2

\* The parameters a handler does not read have their default.
Fixed(q) ==
  /\ q.of \notin {"top", "analyzerTop"} => q.by = None
  /\ q.of \in {"transactions", "transaction", "summary", "profile", "search", "dashboard"}
       => q.hours = None
  /\ q.of \in {"transaction", "summary", "search", "dashboard"} => q.token = None
  /\ q.of \in {"transaction", "byVolume", "byFrequency", "whales", "traders", "suspicious",
               "top", "receivers", "senders", "realtime", "dashboard", "distribution", "network",
               "tokenStats", "analyzerRealtime", "analyzerTop", "analyzerReceivers",
               "analyzerSenders", "analyzerTokenStats", "analyzerDistribution",
               "analyzerAnomalies", "analyzerNetwork"}
       => q.address = None
  /\ q.of \in {"transaction", "summary", "statistics", "trends", "profile", "analyzerRealtime",
               "dashboard"} => q.limit = 1
  /\ q.of \in {"summary", "statistics", "trends", "profile", "byVolume", "byFrequency",
               "whales", "search", "analyzerTop", "analyzerReceivers", "analyzerSenders",
               "analyzerRealtime", "dashboard"} => q.page = 1
  /\ q.of = "analyzerRealtime" => q.hours = 1

\* A request has the parameters its handler reads.
LEMMA RequestFacts ==
  ASSUME NEW q \in Requests
  PROVE  Typed(q) /\ Fixed(q)
<1> USE ReportsAssumption DEF Asks, Typed, Fixed, MaybeToken, MaybeHours, MaybePeriod, Cached, Uncached
<1>1. CASE q \in GetTransactions
  BY <1>1 DEF GetTransactions
<1>2. CASE q \in GetTransactionsByAddress
  BY <1>2 DEF GetTransactionsByAddress
<1>3. CASE q \in GetTransactionByHash
  BY <1>3 DEF GetTransactionByHash
<1>4. CASE q \in GetAddressSummary
  BY <1>4 DEF GetAddressSummary
<1>5. CASE q \in GetAddressStatistics
  BY <1>5 DEF GetAddressStatistics
<1>6. CASE q \in GetAddressTrends
  BY <1>6 DEF GetAddressTrends
<1>7. CASE q \in GetAddressProfile
  BY <1>7 DEF GetAddressProfile
<1>8. CASE q \in GetTopAddressesByVolume
  BY <1>8 DEF GetTopAddressesByVolume
<1>9. CASE q \in GetTopAddressesByFrequency
  BY <1>9 DEF GetTopAddressesByFrequency
<1>10. CASE q \in SearchAddresses
  BY <1>10 DEF SearchAddresses
<1>11. CASE q \in GetWhaleAddresses
  BY <1>11 DEF GetWhaleAddresses
<1>12. CASE q \in GetActiveTraders
  BY <1>12 DEF GetActiveTraders
<1>13. CASE q \in GetSuspiciousAddresses
  BY <1>13 DEF GetSuspiciousAddresses
<1>14. CASE q \in GetTopAddresses
  BY <1>14 DEF GetTopAddresses
<1>15. CASE q \in GetTopReceivers
  BY <1>15 DEF GetTopReceivers
<1>16. CASE q \in GetTopSenders
  BY <1>16 DEF GetTopSenders
<1>17. CASE q \in GetRealtimeStats
  BY <1>17 DEF GetRealtimeStats
<1>18. CASE q \in GetDashboardStats
  BY <1>18 DEF GetDashboardStats
<1>19. CASE q \in GetTokenDistribution
  BY <1>19 DEF GetTokenDistribution
<1>20. CASE q \in GetNetworkStats
  BY <1>20 DEF GetNetworkStats
<1>21. CASE q \in GetTokenStats
  BY <1>21 DEF GetTokenStats
<1>22. CASE q \in AnalyzerRealtimeStats
  BY <1>22 DEF AnalyzerRealtimeStats
<1>23. CASE q \in AnalyzerTopAddresses
  BY <1>23 DEF AnalyzerTopAddresses
<1>24. CASE q \in AnalyzerTopReceivers
  BY <1>24 DEF AnalyzerTopReceivers
<1>25. CASE q \in AnalyzerTopSenders
  BY <1>25 DEF AnalyzerTopSenders
<1>26. CASE q \in AnalyzerTokenStats
  BY <1>26 DEF AnalyzerTokenStats
<1>27. CASE q \in AnalyzerDistribution
  BY <1>27 DEF AnalyzerDistribution
<1>28. CASE q \in AnalyzerAnomalyStats
  BY <1>28 DEF AnalyzerAnomalyStats
<1>29. CASE q \in AnalyzerNetworkStats
  BY <1>29 DEF AnalyzerNetworkStats
<1> QED BY <1>1, <1>2, <1>3, <1>4, <1>5, <1>6, <1>7, <1>8, <1>9, <1>10, <1>11, <1>12, <1>13,
          <1>14, <1>15, <1>16, <1>17, <1>18, <1>19, <1>20, <1>21, <1>22, <1>23, <1>24, <1>25,
          <1>26, <1>27, <1>28, <1>29 DEF Requests

\* The key of an answer tells what was asked, but for no hours and 0 hours of three lists.
LEMMA KeyTells ==
  ASSUME NEW q \in Requests, NEW r \in Requests, q.of = r.of, IsCached(q), IsCached(r),
         Key(q) = Key(r)
  PROVE  SameQuestion(q, r)
<1>1. Typed(q) /\ Typed(r) /\ Fixed(q) /\ Fixed(r)
  BY RequestFacts
<1> DEFINE Rest == /\ q.address = r.address /\ q.token = r.token
                     /\ q.limit = r.limit /\ q.page = r.page /\ q.by = r.by
           Same == Rest /\ q.hours = r.hours
           Merged == Rest /\ HoursOrAll(q) = HoursOrAll(r)
<1>2. ASSUME Same PROVE SameQuestion(q, r)
  <2>1. q = r
    BY <1>1, <1>2 DEF Typed
  <2> QED BY <2>1 DEF SameQuestion
<1>3. q.of \in Cached
  BY <1>1 DEF IsCached, Typed, Uncached
<1>4. CASE q.of \in {"transaction", "summary", "profile", "dashboard"}
  <2>1. Same
    BY <1>1, <1>4 DEF Fixed, Key
  <2> QED BY <1>2, <2>1
<1>5. CASE q.of \in {"search", "transactions", "trends"}
  <2>1. Same
    BY <1>1, <1>5 DEF Fixed, Key
  <2> QED BY <1>2, <2>1
<1>6. CASE q.of \in {"byVolume", "byFrequency", "analyzerReceivers", "analyzerSenders"}
  <2>1. Same
    BY <1>1, <1>6 DEF Fixed, Key
  <2> QED BY <1>2, <2>1
<1>7. CASE q.of \in {"analyzerTop", "analyzerRealtime"}
  <2>1. Same
    BY <1>1, <1>7 DEF Fixed, Key
  <2> QED BY <1>2, <2>1
<1>8. CASE q.of = "statistics"
  <2>1. Merged
    BY <1>1, <1>8 DEF Fixed, Key
  <2>2. [q EXCEPT !.hours = HoursOrAll(q)] = [r EXCEPT !.hours = HoursOrAll(r)]
    <3> HIDE DEF HoursOrAll
    <3> QED BY <1>1, <2>1 DEF Typed, Asks
  <2> QED BY <1>8, <2>2 DEF SameQuestion, Question
<1>9. CASE q.of \in {"whales", "traders", "suspicious"}
  <2>1. Merged
    BY <1>1, <1>9 DEF Fixed, Key
  <2>2. q.hours = r.hours \/ {q.hours, r.hours} = {0, None}
    BY <2>1 DEF HoursOrAll
  <2>3. r = [q EXCEPT !.hours = r.hours]
    BY <1>1, <2>1 DEF Typed, Asks
  <2> QED BY <1>2, <1>9, <2>1, <2>2, <2>3 DEF SameQuestion, ZeroHoursMixed
<1> QED BY <1>3, <1>4, <1>5, <1>6, <1>7, <1>8, <1>9 DEF Cached

-----------------------------------------------------------------------------
(* The inductive invariant: each statement of an answer saw the table as it *)
(* was at some time since the request came, one that waits for another not  *)
(* an earlier one.                                                          *)

\* The table when it had n rows.
Upto(n) == {t \in log : t.id =< n}

LogRows ==
  [id : Nat, time : Nat, from : Addresses, to : Addresses, token : Tokens, value : Nat,
   anomaly : BOOLEAN, imported : BOOLEAN]

LogGrows ==
  /\ history \in Seq(Transfers) /\ clock \in Nat
  /\ IsFiniteSet(log) /\ log \subseteq LogRows
  /\ \A t \in log : t.id \in 1 .. Cardinality(log)
  /\ \A n \in 0 .. Cardinality(log) : Cardinality(Upto(n)) = n

EntriesAreAsked ==
  \A k \in DOMAIN cache :
    /\ cache[k].ask \in Requests /\ cache[k].ask.of = endpoint /\ IsCached(cache[k].ask)
    /\ k = Key(cache[k].ask)

\* What a statement returns over a table, as far as the properties tell.
Returned(q, s, v, l, since) ==
  LET w == Where(l, q, since)
      mine == Involving(w, q.address)
  IN /\ s = "count" => v = Cardinality(mine)
     /\ s = "page" => v = Page(mine, q)
     /\ s = "total" => v.count = CASE q.of = "statistics" -> SendsOf(mine, q.address) +
                                                             ReceiptsOf(mine, q.address)
                                   [] q.of = "dashboard" -> Cardinality(l)
                                   [] OTHER -> Cardinality(mine)
     /\ s = "tokens" => v = TokenParts(q, w, mine)
     /\ s = "odd" => v = Cardinality(Odd(w))
     /\ s = "hours" => v = HourlyCounts(w, q.limit)
     /\ s = "ranking" =>
          LET query == RankingQuery(q, l, StatisticsRows({t \in l : ~t.imported}), since)
          IN \E r \in Rankings(query, q.limit) :
               v = [list |-> r, read |-> w, orderBy |-> query.orderBy]
     /\ s \in Tokens => v.count = Cardinality(OfToken(l, s))

\* The statements that wait for another.
InTurn(q) ==
  CASE q.of = "transactions" -> {<<"count", "page">>}
    [] q.of \in {"summary", "statistics"} -> {<<"total", "tokens">>}
    [] OTHER -> {}

Reading(q, since, begin, done, failed, keep) ==
  [phase |-> "reading", ask |-> q, since |-> since, begin |-> begin, done |-> done,
   failed |-> failed, keep |-> keep]

\* Statement s of request q saw the table of at[s] rows.
ReadAt(q, since, done, failed, at) ==
  /\ \A s \in DOMAIN done : failed \/ Returned(q, s, done[s], Upto(at[s]), since)
  /\ \A p \in InTurn(q) : p[2] \in DOMAIN done =>
                            p[1] \in DOMAIN done /\ at[p[1]] =< at[p[2]]

IsReading(q, since, begin, done, failed, keep) ==
  /\ request = Reading(q, since, begin, done, failed, keep)
  /\ q \in Requests /\ q.of = endpoint
  /\ since \in Int /\ begin \in 0 .. Cardinality(log)
  /\ failed => q.of = "dashboard"
  /\ keep => IsCached(q)
  /\ \E at \in [DOMAIN done -> begin .. Cardinality(log)] : ReadAt(q, since, done, failed, at)

RequestIsRead ==
  \/ request = Idle
  \/ /\ request.phase = "served"
     /\ request = [phase |-> "served", ask |-> request.ask, entry |-> request.entry]
     /\ SameQuestion(request.ask, request.entry.ask)
  \/ /\ request.phase = "reading"
     /\ IsReading(request.ask, request.since, request.begin, request.done, request.failed,
                  request.keep)

IInv == LogGrows /\ EntriesAreAsked /\ RequestIsRead

-----------------------------------------------------------------------------
(* Plans.                                                                   *)

\* A set of numbers has a least one.
LEMMA MinOfNats ==
  ASSUME NEW S \in SUBSET Nat, S # {}
  PROVE  Min(S) \in S /\ \A y \in S : Min(S) =< y
<1>1. PICK m \in S : \A y \in S : <<y, m>> \notin OpToRel(<, Nat)
  BY WFMin, NatLessThanWellFounded, Zenon
<1>2. \A y \in S : <<y, m>> \in Nat \X Nat
  OBVIOUS
<1>3. \A y \in S : ~(y < m)
  BY <1>1, <1>2, Zenon DEF OpToRel
<1>4. \A y \in S : m =< y
  BY <1>3
<1> QED BY <1>4 DEF Min

\* A statement runs when those of the stages before have returned, and an answer is complete
\* when all have.
LEMMA PendingFacts ==
  ASSUME NEW q, NEW done, NEW n \in Nat, DOMAIN Plan(q, done) = 1 .. n
  PROVE  /\ \A s \in Pending(q, done) :
              /\ s \notin DOMAIN done
              /\ \E i \in 1 .. n : /\ s \in Plan(q, done)[i]
                                    /\ \A j \in 1 .. n : j < i => Plan(q, done)[j] \subseteq DOMAIN done
         /\ Pending(q, done) = {} => \A i \in 1 .. n : Plan(q, done)[i] \subseteq DOMAIN done
<1> DEFINE plan == Plan(q, done)
           open == {i \in 1 .. n : ~(plan[i] \subseteq DOMAIN done)}
<1>1. Pending(q, done) = IF open = {} THEN {} ELSE plan[Min(open)] \ DOMAIN done
  BY DEF Pending
<1>2. open \in SUBSET Nat
  OBVIOUS
<1>3. CASE open = {}
  BY <1>1, <1>3
<1>4. CASE open # {}
  <2> DEFINE m == Min(open)
  <2>1. m \in open /\ \A y \in open : m =< y
    <3> HIDE DEF open
    <3> QED BY <1>2, <1>4, MinOfNats
  <2> HIDE DEF m
  <2>2. Pending(q, done) = plan[m] \ DOMAIN done
    BY <1>1, <1>4 DEF m
  <2>3. m \in 1 .. n /\ ~(plan[m] \subseteq DOMAIN done)
    BY <2>1
  <2>4. \A j \in 1 .. n : j < m => plan[j] \subseteq DOMAIN done
    BY <2>1
  <2> QED BY <2>2, <2>3, <2>4
<1> QED BY <1>3, <1>4

\* Every plan is made of statements.
LEMMA PlanFacts ==
  ASSUME NEW q \in Requests, NEW done
  PROVE  \E n \in Nat : /\ DOMAIN Plan(q, done) = 1 .. n
                        /\ \A i \in 1 .. n : Plan(q, done)[i] \subseteq Statements \cup Tokens
<1> DEFINE Stage == SUBSET (Statements \cup Tokens)
<1>1. ASSUME NEW b \in Stage PROVE <<b>> \in Seq(Stage)
  OBVIOUS
<1>2. ASSUME NEW b \in Stage, NEW c \in Stage PROVE <<b, c>> \in Seq(Stage)
  OBVIOUS
<1>3. ASSUME NEW b \in Stage, NEW c \in Stage, NEW d \in Stage, NEW e \in Stage
      PROVE  <<b, c, d, e>> \in Seq(Stage)
  OBVIOUS
<1> DEFINE Sets == {RealtimeFigures, AnalyzerRealtimeFigures, DashboardFigures, StatisticsFigures,
                    AnomalyFigures, LabelFigures, TrendFigures, TokenFigures,
                    AnalyzerTokenFigures, NetworkFigures}
<1>4. /\ \A x \in Statements : {x} \in Stage
      /\ \A F \in Sets : F \in Stage /\ {"total", "tokens"} \cup F \in Stage
                         /\ {"odd", "hours"} \cup F \in Stage
                         /\ {"total"} \cup F \cup Tokens \in Stage
      /\ {"total", "hours"} \in Stage
  <2>1. \A F \in Sets : F \subseteq Figures
    BY DEF Figures
  <2>2. Figures \subseteq Statements /\ {"total", "tokens", "odd", "hours"} \subseteq Statements
    BY DEF Statements
  <2> QED BY <2>1, <2>2
<1>5. /\ {"count"} \in Stage /\ {"page"} \in Stage /\ {"row"} \in Stage /\ {"total"} \in Stage
      /\ {"tokens"} \in Stage /\ {"rows"} \in Stage /\ {"ranking"} \in Stage
      /\ {"volumes"} \in Stage /\ {"frequencies"} \in Stage /\ {"rank"} \in Stage
  BY <1>4 DEF Statements, Figures, ProfileFigures
<1> HIDE DEF Sets
<1>51. /\ RealtimeFigures \in Sets /\ AnalyzerRealtimeFigures \in Sets /\ DashboardFigures \in Sets
       /\ StatisticsFigures \in Sets /\ AnomalyFigures \in Sets /\ LabelFigures \in Sets
       /\ TrendFigures \in Sets /\ TokenFigures \in Sets /\ AnalyzerTokenFigures \in Sets
       /\ NetworkFigures \in Sets
  BY DEF Sets
<1> HIDE DEF Stage
<1>6. StatisticsPlan(done) \in Seq(Stage)
  <2>1. StatisticsFigures \in Stage
    BY <1>4, <1>51
  <2> QED BY <1>2, <1>3, <1>5, <2>1 DEF StatisticsPlan
<1>7. ProfilePlan(done) \in Seq(Stage) /\ AnalyzerRankingPlan(done) \in Seq(Stage)
  <2>1. LabelFigures \in Stage
    BY <1>4, <1>51
  <2> QED BY <1>1, <1>2, <1>3, <1>5, <2>1 DEF ProfilePlan, AnalyzerRankingPlan
<1>8. /\ PagePlan \in Seq(Stage) /\ SummaryPlan \in Seq(Stage) /\ RealtimePlan \in Seq(Stage)
      /\ AnalyzerRealtimePlan \in Seq(Stage) /\ DashboardPlan \in Seq(Stage)
      /\ AnalyzerAnomalyPlan \in Seq(Stage)
  <2>1. /\ {"total", "tokens"} \cup RealtimeFigures \in Stage
        /\ {"total", "tokens"} \cup AnalyzerRealtimeFigures \in Stage
        /\ {"total"} \cup DashboardFigures \cup Tokens \in Stage
        /\ {"odd", "hours"} \cup AnomalyFigures \in Stage
    BY <1>4, <1>51
  <2> QED BY <1>1, <1>2, <1>5, <2>1 DEF PagePlan, SummaryPlan, RealtimePlan,
        AnalyzerRealtimePlan, DashboardPlan, AnalyzerAnomalyPlan
<1>9. AnalyzerNetworkPlan \in Seq(Stage) /\ <<{"row"}>> \in Seq(Stage)
      /\ <<TrendFigures>> \in Seq(Stage) /\ <<{"tokens"}>> \in Seq(Stage)
      /\ <<TokenFigures>> \in Seq(Stage) /\ <<AnalyzerTokenFigures>> \in Seq(Stage)
      /\ <<NetworkFigures>> \in Seq(Stage) /\ <<{"ranking"}>> \in Seq(Stage)
  <2>1. TrendFigures \in Stage /\ TokenFigures \in Stage /\ AnalyzerTokenFigures \in Stage
        /\ NetworkFigures \in Stage
    BY <1>4, <1>51
  <2> QED BY <1>1, <1>4, <1>5, <2>1 DEF AnalyzerNetworkPlan
<1>10. Plan(q, done) \in Seq(Stage)
  BY <1>6, <1>7, <1>8, <1>9 DEF Plan
<1> DEFINE plan == Plan(q, done)
<1>11. /\ Len(plan) \in Nat /\ DOMAIN plan = 1 .. Len(plan)
       /\ \A i \in 1 .. Len(plan) : plan[i] \in Stage
  BY <1>10
<1> QED BY <1>11 DEF Stage

\* What is pending is a statement that has not returned.
LEMMA PendingStatements ==
  ASSUME NEW q \in Requests, NEW done, NEW s \in Pending(q, done)
  PROVE  s \in Statements \cup Tokens /\ s \notin DOMAIN done
<1>1. PICK n \in Nat : /\ DOMAIN Plan(q, done) = 1 .. n
                      /\ \A i \in 1 .. n : Plan(q, done)[i] \subseteq Statements \cup Tokens
  BY PlanFacts
<1>2. s \notin DOMAIN done /\ \E i \in 1 .. n : s \in Plan(q, done)[i]
  BY <1>1, PendingFacts
<1> QED BY <1>1, <1>2

\* A statement that waits for another finds what that returned.
LEMMA TurnsKept ==
  ASSUME NEW q \in Requests, NEW done, NEW s \in Pending(q, done), NEW p \in InTurn(q), s = p[2]
  PROVE  p[1] \in DOMAIN done
<1> DEFINE plan == Plan(q, done)
<1>0. ASSUME NEW n \in Nat, DOMAIN plan = 1 .. n, NEW k \in 1 .. n, p[1] \in plan[k],
             \A i \in 1 .. n : s \in plan[i] => k < i
      PROVE  p[1] \in DOMAIN done
  <2>1. PICK i \in 1 .. n : s \in plan[i] /\ \A j \in 1 .. n : j < i => plan[j] \subseteq DOMAIN done
    BY <1>0, PendingFacts
  <2>2. k < i
    BY <1>0, <2>1
  <2> QED BY <1>0, <2>1, <2>2
<1>1. CASE q.of = "transactions"
  <2>1. plan = <<{"count"}, {"page"}>> /\ s = "page" /\ p[1] = "count"
    BY <1>1 DEF Plan, PagePlan, InTurn
  <2> HIDE DEF plan
  <2>2. DOMAIN plan = 1 .. 2 /\ p[1] \in plan[1] /\ \A i \in 1 .. 2 : s \in plan[i] => 1 < i
    BY <2>1
  <2> QED BY <1>0, <2>2
<1>2. CASE q.of = "summary"
  <2>1. plan = <<{"total"}, {"tokens"}>> /\ s = "tokens" /\ p[1] = "total"
    BY <1>2 DEF Plan, SummaryPlan, InTurn
  <2> HIDE DEF plan
  <2>2. DOMAIN plan = 1 .. 2 /\ p[1] \in plan[1] /\ \A i \in 1 .. 2 : s \in plan[i] => 1 < i
    BY <2>1
  <2> QED BY <1>0, <2>2
<1>3. CASE q.of = "statistics"
  <2>1. s = "tokens" /\ p[1] = "total" /\ plan = StatisticsPlan(done)
    BY <1>3 DEF Plan, InTurn
  <2> HIDE DEF plan
  <2>2. ASSUME NEW B, plan = <<{"rows"}, B>>, "tokens" \notin B PROVE FALSE
    <3>1. DOMAIN plan = 1 .. 2 /\ \A i \in 1 .. 2 : s \notin plan[i]
      BY <2>1, <2>2
    <3> QED BY <3>1, PendingFacts DEF plan
  <2>3. CASE plan = <<{"rows"}, {"total"}, {"tokens"}, StatisticsFigures>>
    <3>1. DOMAIN plan = 1 .. 4 /\ p[1] \in plan[2] /\ \A i \in 1 .. 4 : s \in plan[i] => 2 < i
      BY <2>1, <2>3 DEF StatisticsFigures
    <3> QED BY <1>0, <3>1
  <2>4. "tokens" \notin StatisticsFigures /\ "tokens" \notin {"total"}
    BY DEF StatisticsFigures
  <2> QED BY <2>1, <2>2, <2>3, <2>4 DEF StatisticsPlan
<1> QED BY <1>1, <1>2, <1>3 DEF InTurn

-----------------------------------------------------------------------------
(* The invariant is kept.                                                   *)

\* What a statement returns now.
LEMMA ResultReturned ==
  ASSUME NEW q, NEW s \in Statements \cup Tokens, NEW l, NEW since, NEW v \in Results(q, s, l, since)
  PROVE  Returned(q, s, v, l, since)
<1> USE DEF Results, Returned
<1> DEFINE Told == {"count", "page", "total", "tokens", "odd", "hours", "ranking"}
<1>0. Told \cap Figures = {}
  BY DEF Figures, RealtimeFigures, AnalyzerRealtimeFigures, DashboardFigures, ProfileFigures,
     StatisticsFigures, AnomalyFigures, LabelFigures, TrendFigures, TokenFigures,
     AnalyzerTokenFigures, NetworkFigures
<1>1. CASE s \in Tokens
  <2>1. s \notin Statements
    BY <1>1, ReportsAssumption
  <2>2. v \in {DashboardToken(l, s)}
    BY <2>1 DEF Statements
  <2> QED BY <1>1, <2>1, <2>2 DEF DashboardToken, Totals, Statements
<1>2. CASE s \in Statements
  <2>0. s \notin Tokens
    BY <1>2, ReportsAssumption
  <2>1. CASE s \notin Told
    BY <2>0, <2>1
  <2>2. CASE s \in Told
    <3>1. s \notin Figures
      BY <1>0, <2>2
    <3> HIDE DEF Told
    <3>2. CASE s = "count"
      BY <2>0, <3>1, <3>2
    <3>3. CASE s = "page"
      BY <2>0, <3>1, <3>3
    <3>4. CASE s = "total"
      BY <2>0, <3>1, <3>4 DEF Total, Totals, TotalsBySide
    <3>5. CASE s = "tokens"
      BY <2>0, <3>1, <3>5
    <3>6. CASE s = "odd"
      BY <2>0, <3>1, <3>6
    <3>7. CASE s = "hours"
      BY <2>0, <3>1, <3>7
    <3>8. CASE s = "ranking"
      BY <2>0, <3>1, <3>8
    <3> QED BY <2>2, <3>2, <3>3, <3>4, <3>5, <3>6, <3>7, <3>8 DEF Told
  <2> QED BY <2>1, <2>2
<1> QED BY <1>1, <1>2

\* Nothing is stored, kept or asked at first.
LEMMA InvInit == Init => IInv
<1> SUFFICES ASSUME Init PROVE IInv
  OBVIOUS
<1>1. history \in Seq(Transfers) /\ clock \in Nat
  BY ReportsAssumption DEF Init
<1>2. IsFiniteSet(log) /\ log = {} /\ Cardinality(log) = 0
  BY FS_EmptySet DEF Init
<1>3. \A n \in 0 .. Cardinality(log) : n = 0 /\ Upto(n) = log
  BY <1>2 DEF Upto
<1>4. LogGrows
  BY <1>1, <1>2, <1>3 DEF LogGrows
<1> QED BY <1>4 DEF Init, IInv, EntriesAreAsked, RequestIsRead

\* A transaction is stored: the table as it was stays in it.
LEMMA SaveGrows ==
  ASSUME LogGrows, Save
  PROVE  /\ LogGrows' /\ Cardinality(log') = Cardinality(log) + 1
         /\ \A n \in 0 .. Cardinality(log) : Upto(n)' = Upto(n)
<1> DEFINE n == Cardinality(log)
<1>1. PICK time \in {clock - 1, clock} \cap Nat :
         log' = log \cup {[id |-> n + 1, time |-> time, from |-> history[n + 1].from,
                          to |-> history[n + 1].to, token |-> history[n + 1].token,
                          value |-> history[n + 1].value, anomaly |-> history[n + 1].anomaly,
                          imported |-> history[n + 1].imported]}
  BY DEF Save
<1>2. n \in Nat /\ n < Len(history) /\ UNCHANGED <<history, clock>>
  BY FS_CardinalityType DEF Save, LogGrows
<1>3. history[n + 1] \in Transfers
  BY <1>2, ElementOfSeq DEF LogGrows
<1> DEFINE row == [id |-> n + 1, time |-> time, from |-> history[n + 1].from,
                   to |-> history[n + 1].to, token |-> history[n + 1].token,
                   value |-> history[n + 1].value, anomaly |-> history[n + 1].anomaly,
                   imported |-> history[n + 1].imported]
<1>4. row \in LogRows /\ row.id = n + 1 /\ log' = log \cup {row}
  <2> HIDE DEF n
  <2> QED BY <1>1, <1>2, <1>3 DEF LogRows, Transfers
<1> HIDE DEF row
<1>5. row \notin log
  BY <1>2, <1>4 DEF LogGrows
<1>6. IsFiniteSet(log') /\ Cardinality(log') = n + 1
  BY <1>4, <1>5, FS_AddElement DEF LogGrows
<1>7. \A k \in 0 .. n : Upto(k)' = Upto(k)
  BY <1>2, <1>4 DEF Upto
<1>8. \A t \in log' : t.id \in 1 .. n + 1
  BY <1>2, <1>4 DEF LogGrows
<1>9. ASSUME NEW k, k = n + 1 PROVE Upto(k)' = log'
  BY <1>2, <1>8, <1>9 DEF Upto
<1>10. \A k \in 0 .. n + 1 : Cardinality(Upto(k)') = k
  <2>1. ASSUME NEW k \in 0 .. n PROVE Cardinality(Upto(k)') = k
    BY <1>7 DEF LogGrows
  <2>2. ASSUME NEW k, k = n + 1 PROVE Cardinality(Upto(k)') = k
    BY <1>6, <1>9, <2>2
  <2>3. \A k \in 0 .. n + 1 : k \in 0 .. n \/ k = n + 1
    BY <1>2
  <2> HIDE DEF n
  <2> QED BY <2>1, <2>2, <2>3
<1>11. log' \subseteq LogRows /\ history' \in Seq(Transfers) /\ clock' \in Nat
  BY <1>2, <1>4 DEF LogGrows
<1>12. LogGrows'
  <2> HIDE DEF n
  <2>1. /\ IsFiniteSet(log') /\ \A t \in log' : t.id \in 1 .. Cardinality(log')
        /\ \A k \in 0 .. Cardinality(log') : Cardinality(Upto(k)') = k
    BY <1>6, <1>8, <1>10
  <2> QED BY <1>11, <2>1 DEF LogGrows
<1> QED BY <1>6, <1>7, <1>12

\* Where nothing but the time since changes, the request stays as it was read.
LEMMA RequestKept ==
  ASSUME IInv, UNCHANGED <<endpoint, request>>, Cardinality(log') \in Nat,
         Cardinality(log) =< Cardinality(log'),
         \A n \in 0 .. Cardinality(log) : Upto(n)' = Upto(n)
  PROVE  RequestIsRead'
<1>1. CASE request.phase # "reading"
  BY <1>1 DEF IInv, RequestIsRead, Idle
<1>2. CASE request.phase = "reading"
  <2> DEFINE r == request
  <2>1. IsReading(r.ask, r.since, r.begin, r.done, r.failed, r.keep)
    BY <1>2 DEF IInv, RequestIsRead, Idle
  <2>2. PICK at \in [DOMAIN r.done -> r.begin .. Cardinality(log)] :
           ReadAt(r.ask, r.since, r.done, r.failed, at)
    BY <2>1 DEF IsReading
  <2>3. r.begin \in Nat /\ Cardinality(log) \in Nat
    BY <2>1, FS_CardinalityType DEF IsReading, IInv, LogGrows
  <2>4. at \in [DOMAIN r.done -> r.begin .. Cardinality(log')]
    BY <2>3
  <2>5. \A s \in DOMAIN r.done : Upto(at[s])' = Upto(at[s])
    BY <2>3
  <2>6. ReadAt(r.ask, r.since, r.done, r.failed, at)'
    BY <2>2, <2>5 DEF ReadAt
  <2>7. r.begin \in 0 .. Cardinality(log')
    BY <2>1, <2>3 DEF IsReading
  <2>8. IsReading(r.ask, r.since, r.begin, r.done, r.failed, r.keep)'
    BY <2>1, <2>4, <2>6, <2>7 DEF IsReading
  <2> QED BY <1>2, <2>8 DEF RequestIsRead
<1> QED BY <1>1, <1>2

\* A step of a request leaves the tables alone.
LEMMA LogKept ==
  ASSUME LogGrows, UNCHANGED <<history, log>>, clock' \in Nat
  PROVE  LogGrows' /\ \A n : Upto(n)' = Upto(n)
<1>1. \A n : Upto(n)' = Upto(n)
  BY DEF Upto
<1> QED BY <1>1 DEF LogGrows

\* Entries that stay are still of what was asked.
LEMMA EntriesKept ==
  ASSUME EntriesAreAsked, NEW S, S \subseteq DOMAIN cache, cache' = Restrict(cache, S),
         endpoint' = endpoint
  PROVE  EntriesAreAsked'
<1>1. DOMAIN cache' = S /\ \A k \in S : cache'[k] = cache[k]
  BY DEF Restrict
<1> QED BY <1>1 DEF EntriesAreAsked

\* A request that comes.
LEMMA AskKeeps ==
  ASSUME IInv, NEW q \in Requests, q.of = endpoint, Ask(q)
  PROVE  IInv'
<1>1. UNCHANGED <<endpoint, history, log, clock, cache>> /\ request.phase = "idle"
  BY DEF Ask
<1>2. LogGrows' /\ \A n : Upto(n)' = Upto(n)
  BY <1>1, LogKept DEF IInv, LogGrows
<1>3. EntriesAreAsked'
  BY <1>1 DEF IInv, EntriesAreAsked
<1>4. CASE Lookup(q) /\ request' = [phase |-> "served", ask |-> q, entry |-> cache[Key(q)]]
  <2>1. IsCached(q) /\ Key(q) \in DOMAIN cache
    BY <1>4 DEF Lookup
  <2>2. SameQuestion(q, cache[Key(q)].ask)
    BY <2>1, KeyTells DEF IInv, EntriesAreAsked
  <2>3. RequestIsRead'
    BY <1>4, <2>2 DEF RequestIsRead
  <2> QED BY <1>2, <1>3, <2>3 DEF IInv
<1>5. ASSUME NEW start \in Starts(q, clock),
             request' = Reading(q, start, Cardinality(log), <<>>, FALSE, IsCached(q))
      PROVE  IInv'
  <2>1. start \in Int /\ Cardinality(log) \in Nat /\ IsCached(q) \in BOOLEAN
    BY RequestFacts, ReportsAssumption, FS_CardinalityType
       DEF Starts, Typed, MaybeHours, IInv, LogGrows, IsCached
  <2>2. PICK since \in Int, n \in Nat, keep \in BOOLEAN :
           since = start /\ n = Cardinality(log) /\ keep = IsCached(q)
    BY <2>1
  <2>3. request' = Reading(q, since, n, <<>>, FALSE, keep)
    BY <1>5, <2>2
  <2> DEFINE none == <<>>
             at == [s \in {} |-> n]
  <2>4. DOMAIN none = {} /\ at \in [{} -> n .. n]
    OBVIOUS
  <2> HIDE DEF none, at
  <2>5. ReadAt(q, since, none, FALSE, at)'
    BY <2>4 DEF ReadAt, InTurn
  <2>6. n' = n /\ Cardinality(log') = n /\ endpoint' = endpoint
    BY <1>1, <2>2
  <2>7. IsReading(q, since, n, none, FALSE, keep)'
    <3>1. request' = Reading(q, since, n, none, FALSE, keep)
      BY <2>3 DEF none
    <3>2. at \in [DOMAIN none -> n .. Cardinality(log')] /\ n \in 0 .. Cardinality(log')
      BY <2>4, <2>6
    <3>3. (keep => IsCached(q)) /\ since \in Int
      BY <2>2
    <3> QED BY <3>1, <3>2, <3>3, <2>5, <2>6 DEF IsReading
  <2>8. request'.phase = "reading" /\ request'.ask = q /\ request'.since = since
        /\ request'.begin = n /\ request'.done = none /\ request'.failed = FALSE
        /\ request'.keep = keep
    BY <2>3 DEF Reading, none
  <2>9. RequestIsRead'
    BY <2>7, <2>8 DEF RequestIsRead
  <2> QED BY <1>2, <1>3, <2>9 DEF IInv
<1> QED BY <1>4, <1>5 DEF Ask, Reading

\* A request that is read has its parts.
LEMMA ReadingParts ==
  ASSUME IInv, request.phase = "reading"
  PROVE  \E q, since, begin, done, failed, keep : IsReading(q, since, begin, done, failed, keep)
BY DEF IInv, RequestIsRead, Idle

\* A request that goes on being read.
LEMMA ReadingNext ==
  ASSUME NEW q, NEW since, NEW begin, NEW done, NEW failed, NEW keep,
         IsReading(q, since, begin, done, failed, keep), UNCHANGED <<endpoint, log>>,
         NEW more, NEW broken, NEW kept, broken => q.of = "dashboard", kept => keep,
         NEW at \in [DOMAIN more -> begin .. Cardinality(log)],
         ReadAt(q, since, more, broken, at), request' = Reading(q, since, begin, more, broken, kept)
  PROVE  RequestIsRead'
<1>1. ReadAt(q, since, more, broken, at)'
  <2>1. \A s \in DOMAIN more : Upto(at[s])' = Upto(at[s])
    BY DEF Upto
  <2> QED BY <2>1 DEF ReadAt
<1>2. IsReading(q, since, begin, more, broken, kept)'
  BY <1>1 DEF IsReading
<1>3. request'.phase = "reading" /\ request'.ask = q /\ request'.since = since
      /\ request'.begin = begin /\ request'.done = more /\ request'.failed = broken
      /\ request'.keep = kept
  BY DEF Reading
<1> QED BY <1>2, <1>3 DEF RequestIsRead

\* What has been read, and one statement more that saw the table as it is.
LEMMA OneMoreRead ==
  ASSUME LogGrows, NEW q \in Requests, NEW since, NEW begin \in 0 .. Cardinality(log),
         NEW done, NEW failed, NEW broken, failed => broken,
         NEW at \in [DOMAIN done -> begin .. Cardinality(log)], ReadAt(q, since, done, failed, at),
         NEW s \in Pending(q, done), NEW v, broken \/ Returned(q, s, v, log, since)
  PROVE  \E a \in [DOMAIN With(done, s, v) -> begin .. Cardinality(log)] :
           ReadAt(q, since, With(done, s, v), broken, a)
<1> DEFINE more == With(done, s, v)
           n == Cardinality(log)
           a == [t \in DOMAIN done \cup {s} |-> IF t = s THEN n ELSE at[t]]
<1>1. s \notin DOMAIN done
  BY PendingStatements
<1>2. /\ DOMAIN more = DOMAIN done \cup {s} /\ more[s] = v
      /\ \A t \in DOMAIN done : more[t] = done[t]
  BY <1>1 DEF With
<1>3. n \in Nat
  BY FS_CardinalityType DEF LogGrows
<1>4. a \in [DOMAIN more -> begin .. n]
  <2>1. \A t \in DOMAIN more : (IF t = s THEN n ELSE at[t]) \in begin .. n
    BY <1>2, <1>3
  <2> HIDE DEF more, n
  <2> QED BY <1>2, <2>1
<1>5. a[s] = n /\ \A t \in DOMAIN done : a[t] = at[t]
  BY <1>1
<1>6. Upto(n) = log
  BY <1>3 DEF Upto, LogGrows
<1> HIDE DEF more, n, a
<1>7. \A t \in DOMAIN more : broken \/ Returned(q, t, more[t], Upto(a[t]), since)
  BY <1>2, <1>5, <1>6 DEF ReadAt
<1>8. ASSUME NEW p \in InTurn(q), p[2] \in DOMAIN more
      PROVE  p[1] \in DOMAIN more /\ a[p[1]] =< a[p[2]]
  <2>1. CASE p[2] = s
    <3>1. p[1] \in DOMAIN done
      BY <2>1, TurnsKept
    <3> QED BY <1>2, <1>3, <1>5, <2>1, <3>1 DEF n
  <2>2. CASE p[2] # s
    <3>1. p[2] \in DOMAIN done
      BY <1>2, <1>8, <2>2
    <3> QED BY <1>2, <1>5, <3>1 DEF ReadAt
  <2> QED BY <2>1, <2>2
<1>9. ReadAt(q, since, more, broken, a)
  BY <1>7, <1>8 DEF ReadAt
<1> QED BY <1>4, <1>9 DEF more, n

\* A statement returns, or throws.
LEMMA ReadKeeps ==
  ASSUME IInv, NEW s, s \in Pending(request.ask, request.done), Read(s) \/ Fail(s)
  PROVE  IInv'
<1>1. UNCHANGED <<endpoint, history, log, clock, cache>> /\ request.phase = "reading"
  BY DEF Read, Fail
<1>2. LogGrows' /\ EntriesAreAsked'
  BY <1>1, LogKept DEF IInv, LogGrows, EntriesAreAsked
<1>3. PICK q, since, begin, done, failed, keep : IsReading(q, since, begin, done, failed, keep)
  BY <1>1, ReadingParts
<1>4. PICK at \in [DOMAIN done -> begin .. Cardinality(log)] : ReadAt(q, since, done, failed, at)
  BY <1>3 DEF IsReading
<1>5. /\ request = Reading(q, since, begin, done, failed, keep) /\ q \in Requests
      /\ begin \in 0 .. Cardinality(log) /\ s \in Pending(q, done)
      /\ failed => q.of = "dashboard"
  BY <1>3 DEF IsReading, Reading
<1>6. s \in Statements \cup Tokens
  BY <1>5, PendingStatements
<1>7. ASSUME Read(s) PROVE RequestIsRead'
  <2>1. PICK v \in Results(q, s, log, since) :
           request' = Reading(q, since, begin, With(done, s, v), failed, keep)
    BY <1>5, <1>7 DEF Read, Reading
  <2>2. Returned(q, s, v, log, since)
    BY <1>6, ResultReturned
  <2>3. PICK a \in [DOMAIN With(done, s, v) -> begin .. Cardinality(log)] :
           ReadAt(q, since, With(done, s, v), failed, a)
    BY <1>4, <1>5, <2>2, OneMoreRead DEF IInv
  <2> QED BY <1>1, <1>3, <1>5, <2>1, <2>3, ReadingNext
<1>8. ASSUME Fail(s) PROVE RequestIsRead'
  <2>1. CASE q.of = "dashboard"
    <3>1. request' = Reading(q, since, begin, With(done, s, None), TRUE, keep)
      BY <1>5, <1>8, <2>1 DEF Fail, Reading
    <3>2. PICK a \in [DOMAIN With(done, s, None) -> begin .. Cardinality(log)] :
             ReadAt(q, since, With(done, s, None), TRUE, a)
      BY <1>4, <1>5, OneMoreRead DEF IInv
    <3> QED BY <1>1, <1>3, <2>1, <3>1, <3>2, ReadingNext
  <2>2. CASE q.of = "analyzerRealtime" /\ keep
    <3> DEFINE none == <<>>
               at0 == [x \in {} |-> begin]
    <3>1. request' = Reading(q, since, begin, none, failed, FALSE)
      BY <1>5, <1>8, <2>2 DEF Fail, Reading
    <3>2. DOMAIN none = {} /\ at0 \in [DOMAIN none -> begin .. Cardinality(log)]
      OBVIOUS
    <3> HIDE DEF none, at0
    <3>3. ReadAt(q, since, none, failed, at0)
      BY <2>2, <3>2 DEF ReadAt, InTurn
    <3> QED BY <1>1, <1>3, <1>5, <3>1, <3>2, <3>3, ReadingNext
  <2>3. CASE q.of # "dashboard" /\ ~(q.of = "analyzerRealtime" /\ keep)
    <3>1. request' = Idle
      BY <1>5, <1>8, <2>3 DEF Fail, Reading
    <3> QED BY <3>1 DEF RequestIsRead
  <2> QED BY <2>1, <2>2, <2>3
<1> QED BY <1>2, <1>7, <1>8 DEF IInv

\* The answer is sent, and its entry is of what was asked.
LEMMA FinishKeeps ==
  ASSUME IInv, Finish
  PROVE  IInv'
<1>1. UNCHANGED <<endpoint, history, log, clock>> /\ request.phase = "reading" /\ request' = Idle
  BY DEF Finish, IsComplete
<1>2. LogGrows' /\ RequestIsRead'
  BY <1>1, LogKept DEF IInv, LogGrows, RequestIsRead
<1>3. PICK q, since, begin, done, failed, keep : IsReading(q, since, begin, done, failed, keep)
  BY <1>1, ReadingParts
<1>4. request = Reading(q, since, begin, done, failed, keep) /\ q \in Requests /\ q.of = endpoint
      /\ (keep => IsCached(q))
  BY <1>3 DEF IsReading
<1> SUFFICES EntriesAreAsked'
  BY <1>2 DEF IInv
<1>5. CASE UNCHANGED cache
  BY <1>1, <1>5 DEF IInv, EntriesAreAsked
<1>6. CASE keep /\ cache' = With(cache, Key(q), [ask |-> q, expires |-> clock + 1])
  <2>1. DOMAIN cache' = DOMAIN cache \cup {Key(q)}
    BY <1>6 DEF With
  <2>2. cache'[Key(q)] = [ask |-> q, expires |-> clock + 1]
    BY <1>6 DEF With
  <2>3. \A k \in DOMAIN cache : k # Key(q) => cache'[k] = cache[k]
    BY <1>6 DEF With
  <2>4. cache'[Key(q)].ask = q
    BY <2>2
  <2> QED BY <1>1, <1>4, <1>6, <2>1, <2>3, <2>4 DEF IInv, EntriesAreAsked
<1> QED BY <1>4, <1>5, <1>6 DEF Finish, Reading

\* A step that touches neither the table nor the request.
LEMMA EntriesOnly ==
  ASSUME IInv, UNCHANGED <<endpoint, history, log, request>>, clock' \in Nat, EntriesAreAsked'
  PROVE  IInv'
<1>1. LogGrows' /\ \A n : Upto(n)' = Upto(n)
  BY LogKept DEF IInv
<1>2. Cardinality(log') \in Nat /\ Cardinality(log) =< Cardinality(log')
  BY FS_CardinalityType DEF IInv, LogGrows
<1>3. RequestIsRead'
  BY <1>1, <1>2, RequestKept
<1> QED BY <1>1, <1>3 DEF IInv

\* Keys are deleted.
LEMMA DeleteKeeps ==
  ASSUME IInv, DeleteByPattern \/ PurgeAllCache
  PROVE  IInv'
<1>1. UNCHANGED <<endpoint, history, log, request>> /\ clock' = clock
  BY DEF DeleteByPattern, PurgeAllCache
<1>2. CASE DeleteByPattern
  BY <1>1, <1>2, EntriesKept, EntriesOnly DEF DeleteByPattern, IInv, LogGrows
<1>3. CASE PurgeAllCache
  <2>1. cache' = <<>>
    BY <1>3 DEF PurgeAllCache
  <2>2. EntriesAreAsked'
    BY <2>1 DEF EntriesAreAsked
  <2> QED BY <1>1, <2>2, EntriesOnly DEF IInv, LogGrows
<1> QED BY <1>2, <1>3

LEMMA InvStep == IInv /\ [Next]_vars => IInv'
<1> SUFFICES ASSUME IInv, [Next]_vars PROVE IInv'
  OBVIOUS
<1>1. CASE Save
  <2>1. LogGrows' /\ Cardinality(log') = Cardinality(log) + 1
        /\ \A n \in 0 .. Cardinality(log) : Upto(n)' = Upto(n)
    BY <1>1, SaveGrows DEF IInv
  <2>2. Cardinality(log) \in Nat
    BY FS_CardinalityType DEF IInv, LogGrows
  <2>3. Cardinality(log') \in Nat /\ Cardinality(log) =< Cardinality(log')
    BY <2>1, <2>2
  <2>4. UNCHANGED <<endpoint, cache, request>>
    BY <1>1 DEF Save
  <2>5. RequestIsRead'
    BY <2>1, <2>3, <2>4, RequestKept
  <2>6. EntriesAreAsked'
    BY <2>4 DEF IInv, EntriesAreAsked
  <2> QED BY <2>1, <2>5, <2>6 DEF IInv
<1>2. CASE Tick
  <2>1. clock' \in Nat /\ UNCHANGED <<endpoint, history, log, request>>
    BY <1>2 DEF Tick, IInv, LogGrows
  <2>2. EntriesAreAsked'
    BY <1>2, EntriesKept DEF Tick, IInv
  <2> QED BY <2>1, <2>2, EntriesOnly
<1>3. ASSUME NEW q \in {r \in Requests : r.of = endpoint}, Ask(q) PROVE IInv'
  BY <1>3, AskKeeps
<1>4. ASSUME NEW s \in Pending(request.ask, request.done), Read(s) \/ Fail(s) PROVE IInv'
  BY <1>4, ReadKeeps
<1>5. CASE Finish
  BY <1>5, FinishKeeps
<1>6. CASE Serve
  <2>1. UNCHANGED <<endpoint, history, log, clock, cache>> /\ request' = Idle
    BY <1>6 DEF Serve
  <2>2. LogGrows' /\ EntriesAreAsked' /\ RequestIsRead'
    BY <2>1, LogKept DEF IInv, LogGrows, EntriesAreAsked, RequestIsRead
  <2> QED BY <2>2 DEF IInv
<1>7. CASE PurgeAddressCache \/ PurgeTransactionCache \/ PurgeByPattern \/ PurgeAllCache
  BY <1>7, DeleteKeeps DEF PurgeAddressCache, PurgeTransactionCache, PurgeByPattern
<1>8. CASE UNCHANGED vars
  <2>1. EntriesAreAsked' /\ clock' = clock
    BY <1>8 DEF vars, IInv, EntriesAreAsked
  <2> QED BY <1>8, <2>1, EntriesOnly DEF vars, IInv, LogGrows
<1>9. CASE Done
  BY <1>8, <1>9 DEF Done
<1> QED BY <1>1, <1>2, <1>3, <1>4, <1>5, <1>6, <1>7, <1>8, <1>9 DEF Next

\* Every statement of an answer saw the table at its time (the services' methods).
LEMMA Invariance == Spec => []IInv
BY InvInit, InvStep, PTL DEF Spec

\* A key of the cache leaves out nothing that was asked (the cacheKey of each service method).
THEOREM CacheAnswersWhatIsAsked == Spec => []ServedIsAsked
<1>1. IInv => ServedIsAsked
  BY DEF IInv, RequestIsRead, ServedIsAsked, Idle, IsReading, Reading
<1> QED BY <1>1, Invariance, PTL

-----------------------------------------------------------------------------
(* Pages of transactions.                                                   *)

\* The larger and the smaller of two.
LEMMA MinMax ==
  ASSUME NEW a \in Int, NEW b \in Int
  PROVE  /\ Min({a, b}) = IF a < b THEN a ELSE b
         /\ Max({a, b}) = IF a < b THEN b ELSE a
BY DEF Min, Max

\* What of a part of the rows is there at two times.
LEMMA PartGrows ==
  ASSUME LogGrows, NEW m \in 0 .. Cardinality(log), NEW n \in 0 .. Cardinality(log), m =< n,
         NEW A, NEW B, A \subseteq B, B \subseteq Upto(n), B \cap Upto(m) \subseteq A
  PROVE  /\ IsFiniteSet(A) /\ IsFiniteSet(B)
         /\ Cardinality(A) \in Nat /\ Cardinality(B) \in Nat
         /\ Cardinality(A) =< Cardinality(B) /\ Cardinality(B) - Cardinality(A) =< n - m
<1>1. IsFiniteSet(Upto(n)) /\ Upto(m) \subseteq Upto(n) /\ m \in Nat /\ n \in Nat
      /\ Cardinality(Upto(m)) = m /\ Cardinality(Upto(n)) = n
  <2>1. Upto(n) \subseteq log /\ IsFiniteSet(log) /\ Cardinality(log) \in Nat
    BY FS_CardinalityType DEF Upto, LogGrows
  <2>2. \A t \in log : t.id \in Int
    BY DEF LogGrows, LogRows
  <2>3. Upto(m) \subseteq Upto(n)
    BY <2>1, <2>2 DEF Upto
  <2> QED BY <2>1, <2>3, FS_Subset DEF LogGrows
<1>2. IsFiniteSet(A) /\ IsFiniteSet(B) /\ IsFiniteSet(B \ A) /\ IsFiniteSet(Upto(n) \ Upto(m))
  BY <1>1, FS_Subset
<1>3. Cardinality(B) = Cardinality(A) + Cardinality(B \ A)
  <2>1. A \cup (B \ A) = B /\ A \cap (B \ A) = {}
    OBVIOUS
  <2> QED BY <1>2, <2>1, SizeOfUnion
<1>4. n = m + Cardinality(Upto(n) \ Upto(m))
  <2>1. Upto(m) \cup (Upto(n) \ Upto(m)) = Upto(n) /\ Upto(m) \cap (Upto(n) \ Upto(m)) = {}
    BY <1>1
  <2>2. IsFiniteSet(Upto(m))
    BY <1>1, FS_Subset
  <2> QED BY <1>1, <1>2, <2>1, <2>2, SizeOfUnion
<1>5. Cardinality(B \ A) =< Cardinality(Upto(n) \ Upto(m))
  <2>1. B \ A \subseteq Upto(n) \ Upto(m)
    OBVIOUS
  <2> QED BY <1>2, <2>1, FS_Subset
<1>6. Cardinality(A) \in Nat /\ Cardinality(B) \in Nat /\ Cardinality(B \ A) \in Nat
      /\ Cardinality(Upto(n) \ Upto(m)) \in Nat
  BY <1>2, FS_CardinalityType
<1> QED BY <1>1, <1>2, <1>3, <1>4, <1>5, <1>6

\* An answer that is complete, each of its statements at its time.
Answered(q, since, begin, done, failed, keep, at) ==
  /\ IsReading(q, since, begin, done, failed, keep)
  /\ at \in [DOMAIN done -> begin .. Cardinality(log)] /\ ReadAt(q, since, done, failed, at)
  /\ Pending(q, done) = {}

LEMMA AnswerParts ==
  ASSUME IInv, IsComplete
  PROVE  \E q, since, begin, done, failed, keep, at : Answered(q, since, begin, done, failed, keep, at)
<1>1. PICK q, since, begin, done, failed, keep : IsReading(q, since, begin, done, failed, keep)
  BY ReadingParts DEF IsComplete
<1>2. PICK at \in [DOMAIN done -> begin .. Cardinality(log)] : ReadAt(q, since, done, failed, at)
  BY <1>1 DEF IsReading
<1>3. Pending(q, done) = {}
  BY <1>1 DEF IsReading, Reading, IsComplete
<1>4. Answered(q, since, begin, done, failed, keep, at)
  BY <1>1, <1>2, <1>3 DEF Answered
<1> QED BY <1>4

\* What can be said of a complete answer.
LEMMA AnswerFacts ==
  ASSUME IInv, NEW q, NEW since, NEW begin, NEW done, NEW failed, NEW keep, NEW at,
         Answered(q, since, begin, done, failed, keep, at)
  PROVE  /\ request = Reading(q, since, begin, done, failed, keep) /\ q \in Requests
         /\ Cardinality(log) \in Nat /\ begin \in 0 .. Cardinality(log)
         /\ failed => q.of = "dashboard"
         /\ \A s \in DOMAIN done : /\ at[s] \in begin .. Cardinality(log)
                                   /\ failed \/ Returned(q, s, done[s], Upto(at[s]), since)
         /\ \A n \in Nat : DOMAIN Plan(q, done) = 1 .. n =>
              \A i \in 1 .. n : Plan(q, done)[i] \subseteq DOMAIN done
<1>1. Cardinality(log) \in Nat
  BY FS_CardinalityType DEF IInv, LogGrows
<1>2. \A n \in Nat : DOMAIN Plan(q, done) = 1 .. n =>
         \A i \in 1 .. n : Plan(q, done)[i] \subseteq DOMAIN done
  BY PendingFacts DEF Answered
<1> QED BY <1>1, <1>2 DEF Answered, IsReading, ReadAt

\* The rows a request is about.
Mine(q, l, since) == Involving(Where(l, q, since), q.address)

LEMMA MineGrows ==
  ASSUME NEW q, NEW since, NEW m \in Nat, NEW n \in Nat, m =< n, LogGrows
  PROVE  /\ Mine(q, Upto(m), since) \subseteq Mine(q, Upto(n), since)
         /\ Mine(q, Upto(n), since) \subseteq Upto(n)
         /\ Mine(q, Upto(n), since) \cap Upto(m) \subseteq Mine(q, Upto(m), since)
<1>1. Upto(m) \subseteq Upto(n)
  BY DEF Upto, LogGrows, LogRows
<1> QED BY <1>1 DEF Mine, Involving, Where

\* As many rows as are left, and at most as many as asked for.
LEMMA PageLength ==
  ASSUME NEW q \in Requests, NEW l, IsFiniteSet(l)
  PROVE  Len(Page(l, q)) = Min({q.limit, Max({0, Cardinality(l) - (q.page - 1) * q.limit})})
<1>1. q.limit \in Nat \ {0} /\ q.page \in 1 .. 2
  BY RequestFacts DEF Typed
<1>2. (q.page - 1) * q.limit \in Int /\ Cardinality(l) \in Nat
  BY <1>1, FS_CardinalityType
<1> DEFINE left == Max({0, Cardinality(l) - (q.page - 1) * q.limit})
           n == Min({q.limit, left})
<1>3. left \in Nat
  <2> DEFINE c == Cardinality(l) - (q.page - 1) * q.limit
  <2>1. c \in Int
    BY <1>2
  <2> HIDE DEF c
  <2>2. Max({0, c}) = IF 0 < c THEN c ELSE 0
    BY <2>1, MinMax
  <2>3. Max({0, c}) \in Nat
    BY <2>1, <2>2
  <2> QED BY <2>3 DEF c
<1> HIDE DEF left
<1>4. n \in Nat
  BY <1>1, <1>3, MinMax
<1>5. \E f : Page(l, q) = [i \in 1 .. n |-> f[(q.page - 1) * q.limit + i]]
  BY DEF Page, left
<1> HIDE DEF n
<1>6. Len(Page(l, q)) = n
  BY <1>4, <1>5
<1> QED BY <1>6 DEF n, left

\* A page never falls short of the total it comes with (TransactionService.getTransactions
\* counts first, and rows are only added).
THEOREM PagesAreFull == Spec => []PageIsFull
<1>1. ASSUME IInv PROVE PageIsFull
  <2> SUFFICES ASSUME IsComplete, request.ask.of = "transactions"
               PROVE  LET q == request.ask IN
                      Len(request.done["page"]) >=
                        Min({q.limit, Max({0, request.done["count"] - (q.page - 1) * q.limit})})
    BY DEF PageIsFull
  <2>1. PICK q, since, begin, done, failed, keep, at :
           Answered(q, since, begin, done, failed, keep, at)
    BY <1>1, AnswerParts
  <2>2. /\ request = Reading(q, since, begin, done, failed, keep) /\ q \in Requests
        /\ Cardinality(log) \in Nat /\ begin \in 0 .. Cardinality(log)
        /\ failed => q.of = "dashboard"
        /\ \A s \in DOMAIN done : /\ at[s] \in begin .. Cardinality(log)
                                  /\ failed \/ Returned(q, s, done[s], Upto(at[s]), since)
        /\ \A n \in Nat : DOMAIN Plan(q, done) = 1 .. n =>
             \A i \in 1 .. n : Plan(q, done)[i] \subseteq DOMAIN done
    BY <1>1, <2>1, AnswerFacts
  <2>3. q = request.ask /\ done = request.done /\ q.of = "transactions" /\ ~failed
    BY <2>2 DEF Reading
  <2>4. Plan(q, done) = <<{"count"}, {"page"}>> /\ InTurn(q) = {<<"count", "page">>}
    BY <2>3 DEF Plan, PagePlan, InTurn
  <2>5. "count" \in DOMAIN done /\ "page" \in DOMAIN done
    <3> DEFINE plan == Plan(q, done)
    <3>1. DOMAIN plan = 1 .. 2 /\ plan[1] = {"count"} /\ plan[2] = {"page"}
      BY <2>4
    <3> HIDE DEF plan
    <3>2. \A i \in 1 .. 2 : plan[i] \subseteq DOMAIN done
      BY <2>2, <3>1 DEF plan
    <3> QED BY <3>1, <3>2
  <2> DEFINE m == at["count"]
             n == at["page"]
             A == Mine(q, Upto(m), since)
             B == Mine(q, Upto(n), since)
  <2>6. m \in 0 .. Cardinality(log) /\ n \in 0 .. Cardinality(log) /\ m =< n
    <3>1. at["count"] =< at["page"]
      BY <2>1, <2>4, <2>5 DEF Answered, ReadAt
    <3> QED BY <2>2, <2>5, <3>1
  <2>7. done["count"] = Cardinality(A) /\ done["page"] = Page(B, q)
    BY <2>2, <2>3, <2>5 DEF Returned, Mine
  <2> HIDE DEF m, n
  <2>8. /\ IsFiniteSet(B) /\ Cardinality(A) \in Nat /\ Cardinality(B) \in Nat
        /\ Cardinality(A) =< Cardinality(B)
    BY <1>1, <2>6, MineGrows, PartGrows DEF IInv
  <2> HIDE DEF A, B
  <2> DEFINE skip == (q.page - 1) * q.limit
             a == Cardinality(A) - skip
             b == Cardinality(B) - skip
  <2>9. q.limit \in Nat /\ skip \in Int
    <3>1. q.limit \in Nat /\ q.page \in 1 .. 2
      BY <2>2, RequestFacts DEF Typed
    <3> QED BY <3>1
  <2>10. Len(done["page"]) = Min({q.limit, Max({0, b})})
    BY <2>2, <2>7, <2>8, PageLength
  <2>11. Min({q.limit, Max({0, b})}) >= Min({q.limit, Max({0, a})})
    <3>1. a \in Int /\ b \in Int /\ a =< b
      BY <2>8, <2>9
    <3> HIDE DEF a, b
    <3>2. Max({0, a}) = (IF 0 < a THEN a ELSE 0) /\ Max({0, b}) = (IF 0 < b THEN b ELSE 0)
      BY <3>1, MinMax
    <3>3. Max({0, a}) \in Int /\ Max({0, b}) \in Int /\ Max({0, a}) =< Max({0, b})
      BY <3>1, <3>2
    <3> DEFINE x == Max({0, a})
               y == Max({0, b})
               limit == q.limit
    <3>4. x \in Int /\ y \in Int /\ x =< y /\ limit \in Int
      BY <2>9, <3>3
    <3> HIDE DEF x, y, limit
    <3>5. Min({limit, x}) = (IF limit < x THEN limit ELSE x)
          /\ Min({limit, y}) = (IF limit < y THEN limit ELSE y)
      BY <3>4, MinMax
    <3>6. Min({limit, y}) >= Min({limit, x})
      BY <3>4, <3>5
    <3> QED BY <3>6 DEF x, y, limit
  <2>12. done["count"] - (q.page - 1) * q.limit = a
    BY <2>7
  <2> QED BY <2>3, <2>10, <2>11, <2>12
<1> QED BY <1>1, Invariance, PTL

-----------------------------------------------------------------------------
(* Rankings.                                                                *)

\* An order of a set names each of its elements once.
LEMMA OrderNamesAll ==
  ASSUME NEW S, IsFiniteSet(S), NEW o \in SetToSeqs(S)
  PROVE  /\ Cardinality(S) \in Nat /\ o \in [1 .. Cardinality(S) -> S]
         /\ \A i, j \in 1 .. Cardinality(S) : i # j => o[i] # o[j]
         /\ \A x \in S : \E i \in 1 .. Cardinality(S) : o[i] = x
<1> DEFINE n == Cardinality(S)
<1>1. n \in Nat
  BY FS_CardinalityType
<1>2. o \in [1 .. n -> S] /\ \A i, j \in 1 .. n : i # j => o[i] # o[j]
  BY DEF SetToSeqs
<1>3. IsFiniteSet(1 .. n) /\ Cardinality(1 .. n) = n
  <2> HIDE DEF n
  <2> QED BY <1>1, FS_Interval
<1>4. o \in Injection(1 .. n, S)
  <2> HIDE DEF n
  <2> QED BY <1>2 DEF Injection, IsInjective
<1>5. o \in Surjection(1 .. n, S)
  BY <1>3, <1>4, FS_Injection
<1>6. \A x \in S : \E i \in 1 .. n : o[i] = x
  BY <1>5 DEF Surjection
<1> QED BY <1>1, <1>2, <1>6

\* The first elements of a sequence.
LEMMA PrefixFacts ==
  ASSUME NEW S, NEW s, NEW k \in Nat, \A i \in 1 .. k : s[i] \in S
  PROVE  /\ SubSeq(s, 1, k) \in Seq(S)
         /\ Len(SubSeq(s, 1, k)) = k /\ DOMAIN SubSeq(s, 1, k) = 1 .. k
         /\ \A i \in 1 .. k : SubSeq(s, 1, k)[i] = s[i]
<1> DEFINE one == 1
           p == SubSeq(s, one, k)
<1>1. one \in Int /\ k \in Int /\ \A i \in one .. k : s[i] \in S
  OBVIOUS
<1> HIDE DEF one
<1>2. /\ p \in Seq(S)
      /\ Len(p) = IF one <= k THEN k - one + 1 ELSE 0
      /\ \A i \in 1 .. k - one + 1 : p[i] = s[one + i - 1]
  BY <1>1, SubSeqProperties
<1> HIDE DEF p
<1>3. p \in Seq(S) /\ Len(p) = k /\ \A i \in 1 .. k : p[i] = s[i]
  BY <1>2 DEF one
<1>4. DOMAIN p = 1 .. k
  BY <1>3
<1> QED BY <1>3, <1>4 DEF p, one

\* A ranking takes rows of its query, each once, and what it leaves out is not above its last.
LEMMA RankingFacts ==
  ASSUME NEW query, IsFiniteSet(query.rows), NEW limit \in Nat \ {0},
         NEW r \in Rankings(query, limit)
  PROVE  /\ Len(r) \in Nat /\ r \in [1 .. Len(r) -> query.rows]
         /\ \A i, j \in 1 .. Len(r) : i # j => r[i] # r[j]
         /\ r # <<>> => Len(r) > 0 /\
              \A x \in query.rows : (\A i \in 1 .. Len(r) : r[i] # x) =>
                                    ~Above(x, r[Len(r)], query.orderBy)
<1> DEFINE n == Cardinality(query.rows)
<1>1. PICK o \in SetToSeqs(query.rows) :
         /\ \A i, j \in DOMAIN o : i < j => ~Above(o[j], o[i], query.orderBy)
         /\ r = SubSeq(o, 1, Min({limit, Len(o)}))
  BY DEF Rankings
<1>2. /\ n \in Nat /\ o \in [1 .. n -> query.rows]
      /\ \A i, j \in 1 .. n : i # j => o[i] # o[j]
      /\ \A x \in query.rows : \E i \in 1 .. n : o[i] = x
  BY OrderNamesAll
<1> HIDE DEF n
<1>3. DOMAIN o = 1 .. n /\ Len(o) = n
  BY <1>2
<1> DEFINE k == Min({limit, n})
<1>4. k = (IF limit < n THEN limit ELSE n) /\ r = SubSeq(o, 1, k)
  BY <1>1, <1>2, <1>3, MinMax
<1> HIDE DEF k
<1>5. k \in 0 .. n
  BY <1>2, <1>4
<1>6. /\ r \in Seq(query.rows) /\ Len(r) = k /\ DOMAIN r = 1 .. k
      /\ \A i \in 1 .. k : r[i] = o[i]
  <2> DEFINE S == query.rows
  <2>1. k \in Nat /\ \A i \in 1 .. k : o[i] \in S
    BY <1>2, <1>5
  <2> HIDE DEF S
  <2>2. /\ SubSeq(o, 1, k) \in Seq(S)
        /\ Len(SubSeq(o, 1, k)) = k /\ DOMAIN SubSeq(o, 1, k) = 1 .. k
        /\ \A i \in 1 .. k : SubSeq(o, 1, k)[i] = o[i]
    BY <2>1, PrefixFacts
  <2> QED BY <1>4, <2>2, Zenon DEF S
<1>7. r \in [1 .. k -> query.rows] /\ \A i, j \in 1 .. k : i # j => r[i] # r[j]
  <2>1. \A i \in 1 .. k : i \in 1 .. n
    BY <1>2, <1>5
  <2>2. r \in [1 .. k -> query.rows]
    BY <1>6
  <2> QED BY <1>2, <1>6, <2>1, <2>2
<1>8. ASSUME r # <<>> PROVE k > 0
  BY <1>5, <1>6, <1>7, <1>8
<1>9. ASSUME k > 0, NEW x \in query.rows, \A i \in 1 .. k : r[i] # x
      PROVE  ~Above(x, r[k], query.orderBy)
  <2>1. PICK i \in 1 .. n : o[i] = x
    BY <1>2
  <2>2. k < i /\ k \in 1 .. n /\ r[k] = o[k]
    BY <1>2, <1>5, <1>6, <1>9, <2>1
  <2>3. ~Above(o[i], o[k], query.orderBy)
    BY <1>1, <1>3, <2>1, <2>2
  <2> QED BY <2>1, <2>2, <2>3
<1> QED BY <1>2, <1>5, <1>6, <1>7, <1>8, <1>9

\* What two parts of the rows hold together.
LEMMA SumOfTwoParts ==
  ASSUME NEW l, IsFiniteSet(l), NEW P, P \subseteq l, NEW R, R \subseteq l,
         NEW v, NEW vP, NEW vR, NEW k, \A t \in l : v[t] \in Nat,
         \A t \in P : vP[t] = v[t], \A t \in R : vR[t] = v[t],
         \A t \in l : k[t] = (IF t \in P THEN v[t] ELSE 0) + (IF t \in R THEN v[t] ELSE 0)
  PROVE  /\ SumFunctionOnSet(k, l) = SumFunctionOnSet(vP, P) + SumFunctionOnSet(vR, R)
         /\ SumFunctionOnSet(vP, P) \in Nat /\ SumFunctionOnSet(vR, R) \in Nat
<1> DEFINE f == [t \in l |-> IF t \in P THEN v[t] ELSE 0]
           h == [t \in l |-> IF t \in R THEN v[t] ELSE 0]
<1>1. /\ \A t \in l : f[t] \in Nat /\ h[t] \in Nat /\ k[t] = f[t] + h[t]
      /\ \A t \in P : vP[t] = f[t]
      /\ \A t \in R : vR[t] = h[t]
      /\ \A t \in l \ P : f[t] = 0
      /\ \A t \in l \ R : h[t] = 0
  OBVIOUS
<1> HIDE DEF f, h
<1>2. SumFunctionOnSet(k, l) = SumFunctionOnSet(f, l) + SumFunctionOnSet(h, l)
  BY <1>1, SumAdds
<1>3. SumFunctionOnSet(vP, P) = SumFunctionOnSet(f, l)
  BY <1>1, SumsAgree
<1>4. SumFunctionOnSet(vR, R) = SumFunctionOnSet(h, l)
  BY <1>1, SumsAgree
<1>5. SumFunctionOnSet(f, l) \in Nat /\ SumFunctionOnSet(h, l) \in Nat
  BY <1>1, SumOfNaturals
<1> QED BY <1>2, <1>3, <1>4, <1>5

\* A sum over one or both of two.
LEMMA SumOfPair ==
  ASSUME NEW s, NEW r, s # r, NEW T, T \subseteq {s, r}, NEW x \in Nat, NEW y \in Nat, NEW f,
         IF s \in T THEN f[s] = x ELSE x = 0, IF r \in T THEN f[r] = y ELSE y = 0
  PROVE  SumFunctionOnSet(f, T) = x + y
<1> DEFINE g == [z \in {s, r} |-> IF z = s THEN x ELSE y]
<1>1. IsFiniteSet({s, r}) /\ IsFiniteSet({s}) /\ IsFiniteSet({r})
  <2>1. {s, r} = {s} \cup {r}
    OBVIOUS
  <2>2. IsFiniteSet({s}) /\ IsFiniteSet({r})
    BY FS_Singleton
  <2>3. IsFiniteSet({s} \cup {r})
    BY <2>2, FS_AddElement
  <2> QED BY <2>1, <2>2, <2>3
<1>2. /\ \A z \in {s, r} : g[z] \in Nat
      /\ \A z \in T : f[z] = g[z]
      /\ \A z \in {s, r} \ T : g[z] = 0
      /\ g[s] = x /\ g[r] = y
  OBVIOUS
<1> HIDE DEF g
<1>3. SumFunctionOnSet(f, T) = SumFunctionOnSet(g, {s, r})
  BY <1>1, <1>2, SumsAgree
<1>4. ASSUME NEW z \in {s, r} PROVE SumFunctionOnSet(g, {z}) = g[z]
  <2>1. First({z}) = z /\ Others({z}) = {}
    BY FirstOfSet DEF Others
  <2>2. SumFunctionOnSet(g, {z}) = g[z] + SumFunctionOnSet(g, {})
    BY <1>1, <2>1, SumUnfolds
  <2>3. SumFunctionOnSet(g, {}) = 0
    BY <1>1, SumUnfolds
  <2> QED BY <1>2, <2>2, <2>3
<1>5. \/ First({s, r}) = s /\ Others({s, r}) = {r}
      \/ First({s, r}) = r /\ Others({s, r}) = {s}
  BY FirstOfSet DEF Others
<1>6. SumFunctionOnSet(g, {s, r}) = g[First({s, r})] + SumFunctionOnSet(g, Others({s, r}))
  BY <1>1, SumUnfolds
<1>7. SumFunctionOnSet(g, {s}) = g[s] /\ SumFunctionOnSet(g, {r}) = g[r]
  BY <1>4
<1>8. CASE First({s, r}) = s /\ Others({s, r}) = {r}
  BY <1>2, <1>3, <1>6, <1>7, <1>8
<1>9. CASE First({s, r}) = r /\ Others({s, r}) = {s}
  <2>1. SumFunctionOnSet(f, T) = y + x
    BY <1>2, <1>3, <1>6, <1>7, <1>9
  <2> QED BY <2>1
<1> QED BY <1>5, <1>8, <1>9

Rows(l) == IsFiniteSet(l) /\ l \subseteq LogRows

\* Volumes and counts are numbers.
LEMMA VolumeFacts ==
  ASSUME NEW l, Rows(l)
  PROVE  /\ Volume(l) \in Nat /\ Cardinality(l) \in Nat
         /\ l = {} => Volume(l) = 0 /\ Cardinality(l) = 0
         /\ Volume(l) = SumFunctionOnSet([t \in l |-> t.value], l)
         /\ Cardinality(l) = SumFunctionOnSet([t \in l |-> 1], l)
         /\ \A s \in SUBSET l : Rows(s)
<1> DEFINE v == [t \in l |-> t.value]
           w == [t \in l |-> 1]
<1>1. (\A t \in l : v[t] \in Nat) /\ (\A t \in l : w[t] = 1) /\ IsFiniteSet(l)
  BY DEF Rows, LogRows
<1>2. Volume(l) = SumFunctionOnSet(v, l)
  BY DEF Volume
<1> HIDE DEF v, w
<1>3. Volume(l) \in Nat /\ Cardinality(l) \in Nat
  BY <1>1, <1>2, SumOfNaturals, FS_CardinalityType
<1>4. Cardinality(l) = SumFunctionOnSet(w, l)
  BY <1>1, SumOfOnes
<1>5. l = {} => SumFunctionOnSet(v, l) = 0 /\ Cardinality(l) = 0
  BY SumUnfolds, FS_EmptySet
<1>6. \A s \in SUBSET l : Rows(s)
  BY FS_Subset DEF Rows
<1> QED BY <1>2, <1>3, <1>4, <1>5, <1>6 DEF v, w

\* What an address sent and received, as far as a ranking counts it.
Out(q, l, a) == IF q.of \notin {"receivers", "analyzerReceivers"} THEN {t \in l : t.from = a} ELSE {}
In(q, l, a) == IF q.of \notin {"senders", "analyzerSenders"} THEN {t \in l : t.to = a} ELSE {}

LEMMA MovedFacts ==
  ASSUME NEW q, NEW l, Rows(l), NEW a
  PROVE  /\ Moved(q, l, a) = [address |-> a,
                              volume |-> Volume(Out(q, l, a)) + Volume(In(q, l, a)),
                              count |-> Cardinality(Out(q, l, a)) + Cardinality(In(q, l, a))]
         /\ Rows(Out(q, l, a)) /\ Rows(In(q, l, a))
<1> DEFINE P == Out(q, l, a)
           R == In(q, l, a)
           volumes == [t \in l |-> (IF q.of \notin {"receivers", "analyzerReceivers"} /\ t.from = a
                                     THEN t.value ELSE 0) +
                                  (IF q.of \notin {"senders", "analyzerSenders"} /\ t.to = a
                                     THEN t.value ELSE 0)]
           counts == [t \in l |-> (IF q.of \notin {"receivers", "analyzerReceivers"} /\ t.from = a
                                    THEN 1 ELSE 0) +
                                 (IF q.of \notin {"senders", "analyzerSenders"} /\ t.to = a
                                    THEN 1 ELSE 0)]
<1>1. Moved(q, l, a) = [address |-> a, volume |-> SumFunctionOnSet(volumes, l),
                        count |-> SumFunctionOnSet(counts, l)]
  BY DEF Moved
<1>2. P \subseteq l /\ R \subseteq l
  BY DEF Out, In
<1>3. Rows(P) /\ Rows(R)
  BY <1>2, VolumeFacts
<1>4. SumFunctionOnSet(volumes, l) = Volume(P) + Volume(R)
  <2> DEFINE v == [t \in l |-> t.value]
             vP == [t \in P |-> t.value]
             vR == [t \in R |-> t.value]
  <2>1. /\ \A t \in l : v[t] \in Nat
        /\ \A t \in P : vP[t] = v[t]
        /\ \A t \in R : vR[t] = v[t]
    BY <1>2 DEF Rows, LogRows
  <2>2. \A t \in l : volumes[t] = (IF t \in P THEN v[t] ELSE 0) + (IF t \in R THEN v[t] ELSE 0)
    BY DEF Out, In
  <2>3. Volume(P) = SumFunctionOnSet(vP, P) /\ Volume(R) = SumFunctionOnSet(vR, R)
    BY DEF Volume
  <2> HIDE DEF volumes, v, vP, vR, P, R
  <2>4. SumFunctionOnSet(volumes, l) = SumFunctionOnSet(vP, P) + SumFunctionOnSet(vR, R)
    BY <1>2, <2>1, <2>2, SumOfTwoParts DEF Rows
  <2> QED BY <2>3, <2>4
<1>5. SumFunctionOnSet(counts, l) = Cardinality(P) + Cardinality(R)
  <2> DEFINE v == [t \in l |-> 1]
             vP == [t \in P |-> 1]
             vR == [t \in R |-> 1]
  <2>1. /\ \A t \in l : v[t] \in Nat
        /\ \A t \in P : vP[t] = v[t]
        /\ \A t \in R : vR[t] = v[t]
    BY <1>2
  <2>2. \A t \in l : counts[t] = (IF t \in P THEN v[t] ELSE 0) + (IF t \in R THEN v[t] ELSE 0)
    BY DEF Out, In
  <2>3. Cardinality(P) = SumFunctionOnSet(vP, P) /\ Cardinality(R) = SumFunctionOnSet(vR, R)
    <3> HIDE DEF P, R
    <3> QED BY <1>3, VolumeFacts
  <2> HIDE DEF counts, v, vP, vR, P, R
  <2>4. SumFunctionOnSet(counts, l) = SumFunctionOnSet(vP, P) + SumFunctionOnSet(vR, R)
    BY <1>2, <2>1, <2>2, SumOfTwoParts DEF Rows
  <2> QED BY <2>3, <2>4
<1> QED BY <1>1, <1>3, <1>4, <1>5

\* What an address moved on both sides.
Both(l, a) ==
  [address |-> a, volume |-> SentBy(l, a) + ReceivedBy(l, a),
   count |-> SendsOf(l, a) + ReceiptsOf(l, a)]

\* UNION ALL keeps both halves, of equal ones too.
LEMMA CombinedFacts ==
  ASSUME NEW l, Rows(l), NEW kinds
  PROVE  Combined(l, kinds) = {Both(l, a) : a \in Senders(l) \cup Receivers(l)}
<1> DEFINE sent(a) == <<"sent", Half(SentPart(l, a), "sent", kinds)>>
           received(a) == <<"received", Half(ReceivedPart(l, a), "received", kinds)>>
           parts == UnionAll(SentHalves(l, kinds), ReceivedHalves(l, kinds))
           of(a) == {p \in parts : p[2].row.address = a}
           volumes(a) == [p \in of(a) |-> p[2].row.volume]
           counts(a) == [p \in of(a) |-> p[2].row.count]
<1>1. Combined(l, kinds) = {[address |-> a, volume |-> SumFunctionOnSet(volumes(a), of(a)),
                             count |-> SumFunctionOnSet(counts(a), of(a))] :
                              a \in Senders(l) \cup Receivers(l)}
  BY DEF Combined
<1>2. ASSUME NEW a
      PROVE  /\ SumFunctionOnSet(volumes(a), of(a)) = SentBy(l, a) + ReceivedBy(l, a)
             /\ SumFunctionOnSet(counts(a), of(a)) = SendsOf(l, a) + ReceiptsOf(l, a)
  <2>0. /\ \A b : /\ sent(b)[1] = "sent" /\ received(b)[1] = "received"
                  /\ sent(b)[2].row = SentPart(l, b) /\ SentPart(l, b).address = b
                  /\ received(b)[2].row = ReceivedPart(l, b) /\ ReceivedPart(l, b).address = b
        /\ parts = {sent(b) : b \in Senders(l)} \cup {received(b) : b \in Receivers(l)}
    <3>1. \A row, side : Half(row, side, kinds).row = row
      BY DEF Half
    <3>2. \A b : SentPart(l, b).address = b /\ ReceivedPart(l, b).address = b
      BY DEF SentPart, ReceivedPart
    <3>3. parts = {sent(b) : b \in Senders(l)} \cup {received(b) : b \in Receivers(l)}
      BY DEF UnionAll, SentHalves, ReceivedHalves
    <3> QED BY <3>1, <3>2, <3>3
  <2> HIDE DEF sent, received, parts
  <2>1. of(a) \subseteq {sent(a), received(a)}
    BY <2>0
  <2>2. sent(a) \in of(a) <=> a \in Senders(l)
    BY <2>0
  <2>3. received(a) \in of(a) <=> a \in Receivers(l)
    BY <2>0
  <2>4. /\ SentBy(l, a) \in Nat /\ SendsOf(l, a) \in Nat
        /\ a \notin Senders(l) => SentBy(l, a) = 0 /\ SendsOf(l, a) = 0
    <3> DEFINE s == {t \in l : t.from = a}
    <3>1. Rows(s) /\ (a \notin Senders(l) => s = {})
      BY VolumeFacts DEF Senders
    <3> HIDE DEF s
    <3>2. Volume(s) \in Nat /\ Cardinality(s) \in Nat
          /\ (a \notin Senders(l) => Volume(s) = 0 /\ Cardinality(s) = 0)
      BY <3>1, VolumeFacts
    <3> QED BY <3>2 DEF s, SentBy, SendsOf
  <2>5. /\ ReceivedBy(l, a) \in Nat /\ ReceiptsOf(l, a) \in Nat
        /\ a \notin Receivers(l) => ReceivedBy(l, a) = 0 /\ ReceiptsOf(l, a) = 0
    <3> DEFINE s == {t \in l : t.to = a}
    <3>1. Rows(s) /\ (a \notin Receivers(l) => s = {})
      BY VolumeFacts DEF Receivers
    <3> HIDE DEF s
    <3>2. Volume(s) \in Nat /\ Cardinality(s) \in Nat
          /\ (a \notin Receivers(l) => Volume(s) = 0 /\ Cardinality(s) = 0)
      BY <3>1, VolumeFacts
    <3> QED BY <3>2 DEF s, ReceivedBy, ReceiptsOf
  <2>6. sent(a) # received(a)
    BY <2>0
  <2>7. /\ sent(a)[2].row.volume = SentBy(l, a) /\ sent(a)[2].row.count = SendsOf(l, a)
        /\ received(a)[2].row.volume = ReceivedBy(l, a)
        /\ received(a)[2].row.count = ReceiptsOf(l, a)
    <3>1. /\ SentPart(l, a).volume = SentBy(l, a) /\ SentPart(l, a).count = SendsOf(l, a)
          /\ ReceivedPart(l, a).volume = ReceivedBy(l, a)
          /\ ReceivedPart(l, a).count = ReceiptsOf(l, a)
      BY DEF SentPart, ReceivedPart
    <3>2. sent(a)[2].row = SentPart(l, a) /\ received(a)[2].row = ReceivedPart(l, a)
      BY <2>0
    <3> QED BY <3>1, <3>2, Zenon
  <2> HIDE DEF of
  <2>8. /\ IF sent(a) \in of(a) THEN volumes(a)[sent(a)] = SentBy(l, a) ELSE SentBy(l, a) = 0
        /\ IF received(a) \in of(a) THEN volumes(a)[received(a)] = ReceivedBy(l, a)
                                    ELSE ReceivedBy(l, a) = 0
    BY <2>2, <2>3, <2>4, <2>5, <2>7
  <2>9. /\ IF sent(a) \in of(a) THEN counts(a)[sent(a)] = SendsOf(l, a) ELSE SendsOf(l, a) = 0
        /\ IF received(a) \in of(a) THEN counts(a)[received(a)] = ReceiptsOf(l, a)
                                    ELSE ReceiptsOf(l, a) = 0
    BY <2>2, <2>3, <2>4, <2>5, <2>7
  <2> HIDE DEF volumes, counts
  <2>10. SumFunctionOnSet(volumes(a), of(a)) = SentBy(l, a) + ReceivedBy(l, a)
    BY <2>1, <2>4, <2>5, <2>6, <2>8, SumOfPair
  <2>11. SumFunctionOnSet(counts(a), of(a)) = SendsOf(l, a) + ReceiptsOf(l, a)
    BY <2>1, <2>4, <2>5, <2>6, <2>9, SumOfPair
  <2> QED BY <2>10, <2>11
<1> HIDE DEF volumes, counts, of
<1> QED BY <1>1, <1>2 DEF Both

\* Who moved something stands in the rows, who does not moved nothing.
LEMMA MovedInRows ==
  ASSUME NEW q, NEW l, Rows(l), NEW a
  PROVE  LET x == Moved(q, l, a)
         IN /\ x.address = a /\ x.volume \in Nat /\ x.count \in Nat
            /\ x.count = 0 => x.volume = 0
            /\ x.count > 0 => a \in Addresses
            /\ q.of \notin {"receivers", "analyzerReceivers", "senders", "analyzerSenders"}
                 => x = Both(l, a) /\ (x.count > 0 <=> a \in Senders(l) \cup Receivers(l))
            /\ q.of \in {"receivers", "analyzerReceivers"}
                 => x = ReceivedPart(l, a) /\ (x.count > 0 <=> a \in Receivers(l))
            /\ q.of \in {"senders", "analyzerSenders"}
                 => x = SentPart(l, a) /\ (x.count > 0 <=> a \in Senders(l))
<1> DEFINE P == Out(q, l, a)
           R == In(q, l, a)
<1>1. Moved(q, l, a) = [address |-> a, volume |-> Volume(P) + Volume(R),
                        count |-> Cardinality(P) + Cardinality(R)]
  BY MovedFacts
<1>2. /\ Volume(P) \in Nat /\ Volume(R) \in Nat
      /\ Cardinality(P) \in Nat /\ Cardinality(R) \in Nat
      /\ (P = {} => Volume(P) = 0) /\ (R = {} => Volume(R) = 0)
      /\ (Cardinality(P) = 0 <=> P = {}) /\ (Cardinality(R) = 0 <=> R = {})
  BY MovedFacts, VolumeFacts, FS_EmptySet DEF Rows
<1>3. P # {} => a \in Addresses /\ a \in Senders(l)
  BY DEF Out, Senders, Rows, LogRows
<1>4. R # {} => a \in Addresses /\ a \in Receivers(l)
  BY DEF In, Receivers, Rows, LogRows
<1>5. CASE q.of \notin {"receivers", "analyzerReceivers", "senders", "analyzerSenders"}
  <2>1. P = {t \in l : t.from = a} /\ R = {t \in l : t.to = a}
    BY <1>5 DEF Out, In
  <2>2. (a \in Senders(l) => P # {}) /\ (a \in Receivers(l) => R # {})
    BY <2>1 DEF Senders, Receivers
  <2>3. Moved(q, l, a) = Both(l, a)
    BY <1>1, <2>1 DEF Both, SentBy, ReceivedBy, SendsOf, ReceiptsOf
  <2> HIDE DEF P, R
  <2> QED BY <1>1, <1>2, <1>3, <1>4, <1>5, <2>2, <2>3
<1>6. CASE q.of \in {"receivers", "analyzerReceivers"}
  <2>1. P = {} /\ R = {t \in l : t.to = a}
    BY <1>6 DEF Out, In
  <2>2. a \in Receivers(l) => R # {}
    BY <2>1 DEF Receivers
  <2>3. Volume(R) = ReceivedBy(l, a) /\ Cardinality(R) = ReceiptsOf(l, a)
    BY <2>1 DEF ReceivedBy, ReceiptsOf
  <2> HIDE DEF P, R
  <2>4. 0 + Volume(R) = Volume(R) /\ 0 + Cardinality(R) = Cardinality(R)
        /\ Volume(P) = 0 /\ Cardinality(P) = 0
    BY <1>2, <2>1
  <2>5. Moved(q, l, a) = ReceivedPart(l, a)
    BY <1>1, <2>3, <2>4 DEF ReceivedPart
  <2> QED BY <1>1, <1>2, <1>4, <1>6, <2>1, <2>2, <2>5
<1>7. CASE q.of \in {"senders", "analyzerSenders"}
  <2>1. R = {} /\ P = {t \in l : t.from = a}
    BY <1>7 DEF Out, In
  <2>2. a \in Senders(l) => P # {}
    BY <2>1 DEF Senders
  <2>3. Volume(P) = SentBy(l, a) /\ Cardinality(P) = SendsOf(l, a)
    BY <2>1 DEF SentBy, SendsOf
  <2> HIDE DEF P, R
  <2>4. Volume(P) + 0 = Volume(P) /\ Cardinality(P) + 0 = Cardinality(P)
        /\ Volume(R) = 0 /\ Cardinality(R) = 0
    BY <1>2, <2>1
  <2>5. Moved(q, l, a) = SentPart(l, a)
    BY <1>1, <2>3, <2>4 DEF SentPart
  <2> QED BY <1>1, <1>2, <1>3, <1>7, <2>1, <2>2, <2>5
<1> QED BY <1>5, <1>6, <1>7

\* Who moved nothing is above nobody.
LEMMA NothingIsAbove ==
  ASSUME NEW x, NEW r, r.volume \in Nat, r.count \in Nat, x.volume = 0,
         NEW orderBy, \/ orderBy = <<"volume">>
                      \/ x.count = 0 /\ orderBy \in {<<"count">>, <<"count", "volume">>}
  PROVE  ~Above(x, r, orderBy)
BY DEF Above

\* The rows of a ranking: what their addresses moved; who is left out moved nothing of what
\* they are ordered by.
LEMMA QueryFacts ==
  ASSUME NEW q \in Requests, q.of \in OverTransfers, NEW l, NEW stats, NEW since,
         Rows(Where(l, q, since))
  PROVE  LET w == Where(l, q, since)
             query == RankingQuery(q, l, stats, since)
             wanted == IF q.of = "search" /\ q.address # None THEN {q.address} ELSE Addresses
         IN /\ \A r \in query.rows : r.address \in Addresses /\ r = Moved(q, w, r.address)
            /\ \A a \in wanted :
                 \/ Moved(q, w, a) \in query.rows
                 \/ q.of = "byFrequency" /\ Moved(q, w, a).volume = 0
                 \/ \A r \in query.rows : ~Above(Moved(q, w, a), r, query.orderBy)
<1> DEFINE w == Where(l, q, since)
           query == RankingQuery(q, l, stats, since)
           x(a) == Moved(q, w, a)
<1> HIDE DEF w, query, x
<1>0. Rows(w)
  BY DEF w
<1>1. \A a : /\ x(a).address = a /\ x(a).volume \in Nat /\ x(a).count \in Nat
             /\ (x(a).count = 0 => x(a).volume = 0) /\ (x(a).count > 0 => a \in Addresses)
  BY <1>0, MovedInRows DEF x
<1> SUFFICES /\ \A r \in query.rows : r.address \in Addresses /\ r = x(r.address)
             /\ \A a \in IF q.of = "search" /\ q.address # None THEN {q.address} ELSE Addresses :
                  \/ x(a) \in query.rows
                  \/ q.of = "byFrequency" /\ x(a).volume = 0
                  \/ \A r \in query.rows : ~Above(x(a), r, query.orderBy)
  BY DEF w, query, x
<1>2. ASSUME NEW S, \A a : x(a).count > 0 <=> a \in S,
             query.rows = {x(a) : a \in S},
             query.orderBy \in {<<"volume">>, <<"count">>, <<"count", "volume">>}
      PROVE  /\ \A r \in query.rows : r.address \in Addresses /\ r = x(r.address)
             /\ \A a : \/ x(a) \in query.rows
                       \/ \A r \in query.rows : ~Above(x(a), r, query.orderBy)
  <2>1. \A r \in query.rows : /\ r.address \in Addresses /\ r = x(r.address)
                               /\ r.volume \in Nat /\ r.count \in Nat
    BY <1>1, <1>2
  <2>2. ASSUME NEW a, x(a) \notin query.rows PROVE x(a).count = 0 /\ x(a).volume = 0
    BY <1>1, <1>2, <2>2
  <2>3. ASSUME NEW a, x(a) \notin query.rows, NEW r \in query.rows
        PROVE  ~Above(x(a), r, query.orderBy)
    BY <1>2, <2>1, <2>2, <2>3, NothingIsAbove
  <2> QED BY <2>1, <2>3
<1>3. ASSUME q.of \notin {"receivers", "analyzerReceivers", "senders", "analyzerSenders"}
      PROVE  /\ \A a : x(a).count > 0 <=> a \in Senders(w) \cup Receivers(w)
             /\ \A kinds : Combined(w, kinds) = {x(a) : a \in Senders(w) \cup Receivers(w)}
  <2>1. \A a : x(a) = Both(w, a) /\ (x(a).count > 0 <=> a \in Senders(w) \cup Receivers(w))
    BY <1>0, <1>3, MovedInRows DEF x
  <2> QED BY <1>0, <2>1, CombinedFacts
<1>4. CASE q.of \in {"top", "analyzerTop"}
  <2>1. /\ \E kinds : query.rows = Combined(w, kinds)
        /\ query.orderBy \in {<<"volume">>, <<"count">>}
    BY <1>4 DEF query, w, RankingQuery, AnalyzerTop, TopAddresses, ByMetric
  <2> QED BY <1>2, <1>3, <1>4, <2>1
<1>5. CASE q.of \in {"receivers", "analyzerReceivers"}
  <2>1. query.rows = {ReceivedPart(w, a) : a \in Receivers(w)} /\ query.orderBy = <<"count">>
    BY <1>5 DEF query, w, RankingQuery, AnalyzerReceivers, TopReceivers
  <2>2. \A a : x(a) = ReceivedPart(w, a) /\ (x(a).count > 0 <=> a \in Receivers(w))
    BY <1>0, <1>5, MovedInRows DEF x
  <2>3. query.rows = {x(a) : a \in Receivers(w)}
    BY <2>1, <2>2
  <2> QED BY <1>2, <1>5, <2>1, <2>2, <2>3
<1>6. CASE q.of \in {"senders", "analyzerSenders"}
  <2>1. query.rows = {SentPart(w, a) : a \in Senders(w)} /\ query.orderBy = <<"count">>
    BY <1>6 DEF query, w, RankingQuery, AnalyzerSenders, TopSenders
  <2>2. \A a : x(a) = SentPart(w, a) /\ (x(a).count > 0 <=> a \in Senders(w))
    BY <1>0, <1>6, MovedInRows DEF x
  <2>3. query.rows = {x(a) : a \in Senders(w)}
    BY <2>1, <2>2
  <2> QED BY <1>2, <1>6, <2>1, <2>2, <2>3
<1>7. CASE q.of = "byVolume"
  <2>1. /\ query.rows = {c \in Combined(w, {"volume"}) : c.volume > 0 /\ c.count >= 1}
        /\ query.orderBy = <<"volume">>
    BY <1>7 DEF query, w, RankingQuery, TopAddressesByVolume
  <2>2. \A r \in query.rows : /\ r.address \in Addresses /\ r = x(r.address)
                               /\ r.volume \in Nat /\ r.count \in Nat
    BY <1>1, <1>3, <1>7, <2>1
  <2>3. ASSUME NEW a, x(a) \notin query.rows PROVE x(a).volume = 0
    BY <1>1, <1>3, <1>7, <2>1, <2>3
  <2>4. ASSUME NEW a, x(a) \notin query.rows, NEW r \in query.rows
        PROVE  ~Above(x(a), r, query.orderBy)
    BY <2>1, <2>2, <2>3, <2>4, NothingIsAbove
  <2> QED BY <2>2, <2>4
<1>8. CASE q.of = "byFrequency"
  <2>1. query.rows = {c \in Combined(w, {"volume"}) : c.count >= 1 /\ c.volume > 0}
    BY <1>8 DEF query, w, RankingQuery, TopAddressesByFrequency
  <2>2. \A r \in query.rows : r.address \in Addresses /\ r = x(r.address)
    BY <1>1, <1>3, <1>8, <2>1
  <2>3. ASSUME NEW a, x(a) \notin query.rows PROVE x(a).volume = 0
    BY <1>1, <1>3, <1>8, <2>1, <2>3
  <2> QED BY <1>8, <2>2, <2>3
<1>9. CASE q.of = "search"
  <2>1. /\ query.rows = {c \in Combined(w, {}) : q.address \in {None, c.address}}
        /\ query.orderBy = <<"count", "volume">>
    BY <1>9 DEF query, w, RankingQuery, AddressSearch
  <2>2. \A r \in query.rows : /\ r.address \in Addresses /\ r = x(r.address)
                               /\ r.volume \in Nat /\ r.count \in Nat
    BY <1>1, <1>3, <1>9, <2>1
  <2>3. ASSUME NEW a, q.address \in {None, a}, x(a) \notin query.rows
        PROVE  x(a).volume = 0 /\ x(a).count = 0
    BY <1>1, <1>3, <1>9, <2>1, <2>3
  <2>4. ASSUME NEW a, q.address \in {None, a}, x(a) \notin query.rows, NEW r \in query.rows
        PROVE  ~Above(x(a), r, query.orderBy)
    BY <2>1, <2>2, <2>3, <2>4, NothingIsAbove
  <2>5. \A a \in IF q.address # None THEN {q.address} ELSE Addresses : q.address \in {None, a}
    OBVIOUS
  <2> QED BY <1>9, <2>2, <2>4, <2>5
<1> QED BY <1>4, <1>5, <1>6, <1>7, <1>8, <1>9 DEF OverTransfers

\* What is stored so far is rows, and so is what a request is about.
LEMMA UptoRows ==
  ASSUME LogGrows, NEW n
  PROVE  Rows(Upto(n)) /\ \A s \in SUBSET Upto(n) : Rows(s)
<1>1. Upto(n) \subseteq log
  BY DEF Upto
<1>2. Rows(Upto(n))
  BY <1>1, FS_Subset DEF LogGrows, Rows
<1> QED BY <1>2, VolumeFacts

\* Of every ranking that a query gives, what RankingIsRight says.
LEMMA RankedRight ==
  ASSUME NEW q \in Requests, q.of \in OverTransfers, NEW l, NEW stats, NEW since,
         Rows(Where(l, q, since)),
         NEW list \in Rankings(RankingQuery(q, l, stats, since), q.limit)
  PROVE  LET w == Where(l, q, since)
             listed == {list[i].address : i \in DOMAIN list}
         IN /\ Cardinality(listed) = Len(list)
            /\ \A i \in DOMAIN list : list[i] = Moved(q, w, list[i].address)
            /\ list # <<>> =>
                 \A a \in (IF q.of = "search" /\ q.address # None
                             THEN {q.address} ELSE Addresses) \ listed :
                   (q.of = "byFrequency" => Moved(q, w, a).volume > 0) =>
                     ~Above(Moved(q, w, a), list[Len(list)], RankingQuery(q, l, stats, since).orderBy)
<1> DEFINE w == Where(l, q, since)
           query == RankingQuery(q, l, stats, since)
           x(a) == Moved(q, w, a)
           wanted == IF q.of = "search" /\ q.address # None THEN {q.address} ELSE Addresses
           listed == {list[i].address : i \in DOMAIN list}
<1> HIDE DEF w, query, x, wanted
<1>1. /\ \A r \in query.rows : r.address \in Addresses /\ r = x(r.address)
      /\ \A a \in wanted : \/ x(a) \in query.rows
                           \/ q.of = "byFrequency" /\ x(a).volume = 0
                           \/ \A r \in query.rows : ~Above(x(a), r, query.orderBy)
  BY QueryFacts DEF w, query, x, wanted
<1>2. \A a : x(a).address = a /\ x(a).volume \in Nat
  BY MovedInRows DEF x, w
<1>3. IsFiniteSet(query.rows)
  <2> DEFINE f == [a \in Addresses |-> x(a)]
  <2>1. query.rows \subseteq {f[a] : a \in Addresses}
    BY <1>1
  <2> HIDE DEF f
  <2>2. IsFiniteSet({f[a] : a \in Addresses})
    BY ImageFinite, ReportsAssumption
  <2> QED BY <2>1, <2>2, FS_Subset
<1>4. q.limit \in Nat \ {0}
  BY RequestFacts DEF Typed
<1>5. /\ Len(list) \in Nat /\ list \in [1 .. Len(list) -> query.rows]
      /\ \A i, j \in 1 .. Len(list) : i # j => list[i] # list[j]
      /\ list # <<>> => Len(list) > 0 /\
           \A r \in query.rows : (\A i \in 1 .. Len(list) : list[i] # r) =>
                                 ~Above(r, list[Len(list)], query.orderBy)
  BY <1>3, <1>4, RankingFacts DEF query
<1> DEFINE n == Len(list)
<1>6. DOMAIN list = 1 .. n /\ \A i \in 1 .. n : list[i] = x(list[i].address)
  BY <1>1, <1>5
<1>7. Cardinality(listed) = n
  <2> DEFINE f == [i \in 1 .. n |-> list[i].address]
  <2> HIDE DEF n
  <2>1. f \in Bijection(1 .. n, listed)
    <3>1. f \in Surjection(1 .. n, listed)
      BY <1>6 DEF Surjection
    <3>2. \A i, j \in 1 .. n : f[i] = f[j] => i = j
      BY <1>5, <1>6 DEF n
    <3> QED BY <3>1, <3>2 DEF Surjection, Bijection, Injection, IsInjective
  <2>2. 1 \in Int /\ n \in Int /\ n \in Nat
    BY <1>5 DEF n
  <2>3. IsFiniteSet(1 .. n) /\ Cardinality(1 .. n) = IF 1 > n THEN 0 ELSE n - 1 + 1
    BY <2>2, FS_Interval, Zenon
  <2>4. Cardinality(1 .. n) = n
    BY <2>2, <2>3
  <2> HIDE DEF f, listed
  <2> QED BY <2>1, <2>3, <2>4, FS_Bijection DEF ExistsBijection
<1>8. ASSUME list # <<>>, NEW a \in wanted \ listed,
             q.of = "byFrequency" => x(a).volume > 0
      PROVE  ~Above(x(a), list[n], query.orderBy)
  <2>1. n > 0 /\ list[n] \in query.rows
    BY <1>5, <1>8
  <2>2. CASE x(a) \in query.rows
    <3>1. \A i \in 1 .. n : list[i] # x(a)
      BY <1>2, <1>6, <1>8
    <3> QED BY <1>5, <1>8, <2>2, <3>1
  <2>3. CASE q.of = "byFrequency" /\ x(a).volume = 0
    BY <1>2, <1>8, <2>3
  <2>4. CASE \A r \in query.rows : ~Above(x(a), r, query.orderBy)
    BY <2>1, <2>4
  <2> QED BY <1>1, <1>8, <2>2, <2>3, <2>4
<1> HIDE DEF n, listed
<1>9. /\ Cardinality(listed) = Len(list) /\ \A i \in DOMAIN list : list[i] = x(list[i].address)
      /\ list # <<>> => \A a \in wanted \ listed : (q.of = "byFrequency" => x(a).volume > 0) =>
                          ~Above(x(a), list[Len(list)], query.orderBy)
  BY <1>6, <1>7, <1>8 DEF n
<1> QED BY <1>9 DEF w, query, x, wanted, listed

\* A ranking over transfers names no address twice, gives each what it moved on both sides, and
\* leaves out nobody who belongs above its last row (getTopAddresses and its kin).
THEOREM RankingsAreRight == Spec => []RankingIsRight
<1>1. ASSUME IInv PROVE RankingIsRight
  <2> SUFFICES ASSUME IsComplete, request.ask.of \in OverTransfers PROVE RankingIsRight
    BY DEF RankingIsRight
  <2>1. PICK q, since, begin, done, failed, keep, at :
           Answered(q, since, begin, done, failed, keep, at)
    BY <1>1, AnswerParts
  <2>2. /\ request = Reading(q, since, begin, done, failed, keep) /\ q \in Requests
        /\ failed => q.of = "dashboard"
        /\ \A s \in DOMAIN done : failed \/ Returned(q, s, done[s], Upto(at[s]), since)
        /\ \A n \in Nat : DOMAIN Plan(q, done) = 1 .. n =>
             \A i \in 1 .. n : Plan(q, done)[i] \subseteq DOMAIN done
    BY <1>1, <2>1, AnswerFacts
  <2>3. q = request.ask /\ done = request.done /\ q.of \in OverTransfers /\ ~failed
    BY <2>2 DEF Reading, OverTransfers
  <2>4. "ranking" \in DOMAIN done
    <3> DEFINE plan == Plan(q, done)
    <3>1. plan = <<{"ranking"}>> \/ plan = <<{"ranking"}, LabelFigures>>
      BY <2>3 DEF Plan, AnalyzerRankingPlan, OverTransfers
    <3> HIDE DEF plan
    <3>2. \E n \in Nat : n > 0 /\ DOMAIN plan = 1 .. n /\ plan[1] = {"ranking"}
      <4>1. CASE plan = <<{"ranking"}>>
        <5>1. 1 > 0 /\ DOMAIN plan = 1 .. 1 /\ plan[1] = {"ranking"}
          BY <4>1
        <5> QED BY <5>1
      <4>2. CASE plan = <<{"ranking"}, LabelFigures>>
        <5>1. 2 > 0 /\ DOMAIN plan = 1 .. 2 /\ plan[1] = {"ranking"}
          BY <4>2
        <5> QED BY <5>1
      <4> QED BY <3>1, <4>1, <4>2
    <3>3. plan[1] \subseteq DOMAIN done /\ plan[1] = {"ranking"}
      BY <2>2, <3>2 DEF plan
    <3> QED BY <3>3
  <2> DEFINE l == Upto(at["ranking"])
             stats == StatisticsRows({t \in l : ~t.imported})
             query == RankingQuery(q, l, stats, since)
             w == Where(l, q, since)
             wanted == IF q.of = "search" /\ q.address # None THEN {q.address} ELSE Addresses
  <2>5. PICK list \in Rankings(query, q.limit) :
           done["ranking"] = [list |-> list, read |-> w, orderBy |-> query.orderBy]
    BY <2>2, <2>3, <2>4 DEF Returned
  <2>6. Rows(w)
    BY <1>1, UptoRows DEF Where, IInv
  <2> DEFINE listed == {list[i].address : i \in DOMAIN list}
             order == query.orderBy
  <2>7. /\ request.done["ranking"].list = list /\ request.done["ranking"].read = w
        /\ request.done["ranking"].orderBy = order
    BY <2>3, <2>5
  <2> HIDE DEF l, stats
  <2>8. /\ Cardinality(listed) = Len(list)
        /\ \A i \in DOMAIN list : list[i] = Moved(q, w, list[i].address)
        /\ list # <<>> => \A a \in wanted \ listed :
             (q.of = "byFrequency" => Moved(q, w, a).volume > 0) =>
               ~Above(Moved(q, w, a), list[Len(list)], order)
    BY <2>2, <2>3, <2>5, <2>6, RankedRight
  <2> HIDE DEF w, query, order
  <2> QED BY <2>3, <2>7, <2>8, Zenon DEF RankingIsRight
<1> QED BY <1>1, Invariance, PTL

-----------------------------------------------------------------------------
(* Parts and wholes.                                                        *)

\* The rows of the tokens make up the rows.
LEMMA TokenSizes ==
  ASSUME NEW l, Rows(l), NEW K, IsFiniteSet(K), Symbols(l) \subseteq K,
         NEW c, \A k \in K : c[k] = Cardinality(OfToken(l, k))
  PROVE  SumFunctionOnSet(c, K) = Cardinality(l)
<1> DEFINE key == [t \in l |-> t.token]
<1>1. \A t \in l : key[t] \in K
  BY DEF Symbols
<1>2. \A k : Part(l, key, k) = OfToken(l, k)
  BY DEF Part, OfToken
<1> HIDE DEF key
<1>3. IsFiniteSet(l) /\ \A k \in K : c[k] = Cardinality(Part(l, key, k))
  BY <1>2 DEF Rows
<1> QED BY <1>1, <1>3, SizesByParts

\* The rows of some hours are no more than all.
LEMMA HourSizes ==
  ASSUME NEW l, Rows(l), NEW K, IsFiniteSet(K),
         NEW c, \A h \in K : c[h] = Cardinality({t \in l : t.time = h})
  PROVE  SumFunctionOnSet(c, K) \in Nat /\ SumFunctionOnSet(c, K) =< Cardinality(l)
<1> DEFINE S == {t \in l : t.time \in K}
           key == [t \in S |-> t.time]
<1>1. \A t \in S : key[t] \in K
  OBVIOUS
<1>2. ASSUME NEW h \in K PROVE Part(S, key, h) = {t \in l : t.time = h}
  BY DEF Part
<1>3. IsFiniteSet(S) /\ Cardinality(S) \in Nat /\ Cardinality(S) =< Cardinality(l)
  BY FS_Subset, FS_CardinalityType DEF Rows
<1> HIDE DEF S, key
<1>4. \A h \in K : c[h] = Cardinality(Part(S, key, h))
  BY <1>2
<1> QED BY <1>1, <1>3, <1>4, SizesByParts

\* What the rows of one token count, over all tokens.
LEMMA PartCounts ==
  ASSUME NEW q, NEW w, NEW l, Rows(l)
  PROVE  /\ q.of \in {"summary", "realtime", "analyzerRealtime"} =>
              CountsOf(TokenParts(q, w, l)) = Cardinality(l)
         /\ q.of = "statistics" =>
              CountsOf(TokenParts(q, w, l)) = SendsOf(l, q.address) + ReceiptsOf(l, q.address)
<1> DEFINE K == Symbols(l)
           a == q.address
           sent == {t \in l : t.from = a}
           received == {t \in l : t.to = a}
<1>1. K \subseteq Tokens /\ IsFiniteSet(K)
  <2>1. K \subseteq Tokens
    BY DEF Symbols, Rows, LogRows
  <2> QED BY <2>1, ReportsAssumption, FS_Subset
<1>2. ASSUME q.of \in {"summary", "realtime", "analyzerRealtime"}
      PROVE  CountsOf(TokenParts(q, w, l)) = Cardinality(l)
  <2> DEFINE c == [k \in K |-> Cardinality(OfToken(l, k))]
  <2>1. CountsOf(TokenParts(q, w, l)) = SumFunctionOnSet(c, K)
    BY <1>2 DEF CountsOf, TokenParts, ByToken, Totals
  <2>2. \A k \in K : c[k] = Cardinality(OfToken(l, k))
    OBVIOUS
  <2> HIDE DEF c
  <2> QED BY <1>1, <2>1, <2>2, TokenSizes
<1>3. ASSUME q.of = "statistics"
      PROVE  CountsOf(TokenParts(q, w, l)) = SendsOf(l, a) + ReceiptsOf(l, a)
  <2> DEFINE c == [k \in K |-> SendsOf(OfToken(l, k), a) + ReceiptsOf(OfToken(l, k), a)]
             f == [k \in K |-> Cardinality(OfToken(sent, k))]
             h == [k \in K |-> Cardinality(OfToken(received, k))]
  <2>1. CountsOf(TokenParts(q, w, l)) = SumFunctionOnSet(c, K)
    BY <1>3 DEF CountsOf, TokenParts, ByToken, Totals, TotalsBySide
  <2>2. /\ Rows(sent) /\ Symbols(sent) \subseteq K
        /\ Rows(received) /\ Symbols(received) \subseteq K
    BY VolumeFacts DEF Symbols
  <2>3. ASSUME NEW k \in K
        PROVE  /\ SendsOf(OfToken(l, k), a) = Cardinality(OfToken(sent, k))
               /\ ReceiptsOf(OfToken(l, k), a) = Cardinality(OfToken(received, k))
               /\ Cardinality(OfToken(sent, k)) \in Nat
               /\ Cardinality(OfToken(received, k)) \in Nat
    <3>1. /\ {t \in OfToken(l, k) : t.from = a} = OfToken(sent, k)
          /\ {t \in OfToken(l, k) : t.to = a} = OfToken(received, k)
          /\ OfToken(sent, k) \subseteq l /\ OfToken(received, k) \subseteq l
      BY DEF OfToken
    <3>2. IsFiniteSet(OfToken(sent, k)) /\ IsFiniteSet(OfToken(received, k))
      BY <3>1, FS_Subset DEF Rows
    <3> QED BY <3>1, <3>2, FS_CardinalityType DEF SendsOf, ReceiptsOf
  <2>4. /\ \A k \in K : f[k] \in Nat /\ h[k] \in Nat /\ c[k] = f[k] + h[k]
        /\ \A k \in K : f[k] = Cardinality(OfToken(sent, k))
        /\ \A k \in K : h[k] = Cardinality(OfToken(received, k))
    BY <2>3
  <2>5. SendsOf(l, a) = Cardinality(sent) /\ ReceiptsOf(l, a) = Cardinality(received)
    BY DEF SendsOf, ReceiptsOf
  <2> HIDE DEF c, f, h, K, sent, received
  <2>6. SumFunctionOnSet(c, K) = SumFunctionOnSet(f, K) + SumFunctionOnSet(h, K)
    BY <1>1, <2>4, SumAdds
  <2>7. SumFunctionOnSet(f, K) = Cardinality(sent)
    BY <1>1, <2>2, <2>4, TokenSizes
  <2>8. SumFunctionOnSet(h, K) = Cardinality(received)
    BY <1>1, <2>2, <2>4, TokenSizes
  <2> QED BY <2>1, <2>5, <2>6, <2>7, <2>8
<1> HIDE DEF K, sent, received
<1> QED BY <1>2, <1>3, Zenon DEF a


\* What the newest hours count is no more than all.
LEMMA HourCounts ==
  ASSUME NEW w, Rows(w), NEW most
  PROVE  LET hours == HourlyCounts(w, most)
             odd == SumFunctionOnSet([h \in DOMAIN hours |-> hours[h].odd], DOMAIN hours)
         IN /\ CountsOf(hours) \in Nat /\ CountsOf(hours) =< Cardinality(w)
            /\ odd \in Nat /\ odd =< Cardinality(Odd(w))
<1> DEFINE hours == HourlyCounts(w, most)
           K == DOMAIN hours
           c == [h \in K |-> hours[h].count]
           o == [h \in K |-> hours[h].odd]
<1>1. IsFiniteSet(K)
  <2> DEFINE times == [t \in w |-> t.time]
             T == {times[t] : t \in w}
  <2>1. K \subseteq T
    BY DEF HourlyCounts
  <2> HIDE DEF times, K
  <2>2. IsFiniteSet(T)
    BY ImageFinite DEF Rows
  <2> QED BY <2>1, <2>2, FS_Subset
<1>2. /\ \A h \in K : c[h] = Cardinality({t \in w : t.time = h})
      /\ \A h \in K : o[h] = Cardinality({t \in Odd(w) : t.time = h})
  <2>1. \A h : Odd({t \in w : t.time = h}) = {t \in Odd(w) : t.time = h}
    BY DEF Odd
  <2> QED BY <2>1 DEF HourlyCounts
<1>3. Rows(Odd(w))
  BY VolumeFacts DEF Odd
<1>4. CountsOf(hours) = SumFunctionOnSet(c, K)
  BY DEF CountsOf
<1> HIDE DEF c, o, K
<1>5. SumFunctionOnSet(c, K) \in Nat /\ SumFunctionOnSet(c, K) =< Cardinality(w)
  BY <1>1, <1>2, HourSizes
<1>6. SumFunctionOnSet(o, K) \in Nat /\ SumFunctionOnSet(o, K) =< Cardinality(Odd(w))
  BY <1>1, <1>2, <1>3, HourSizes
<1> QED BY <1>4, <1>5, <1>6 DEF o, K

\* A quotient, multiplied out, is at most the dividend and less than the divisor below it.
LEMMA QuotientFacts ==
  ASSUME NEW n \in Nat, n # 0, NEW x \in Nat
  PROVE  x \div n \in Nat /\ n * (x \div n) =< x /\ x < n * (x \div n) + n
<1>1. x \div n \in Int /\ n * (x \div n) =< x /\ x < n * (x \div n) + n
  OBVIOUS
<1> DEFINE p == x \div n
<1>2. p \in Int /\ x < n * p + n
  BY <1>1
<1> HIDE DEF p
<1>3. n * 0 < n * (p + 1)
  BY <1>2
<1>4. 0 < p + 1
  BY <1>2, <1>3
<1> QED BY <1>1, <1>2, <1>4 DEF p

\* Rounded shares of a whole add up to a hundred percent, up to one hundredth a part.
LEMMA SharesAddUp ==
  ASSUME NEW K, IsFiniteSet(K), NEW n, NEW p, NEW of \in Nat \ {0},
         \A k \in K : n[k] \in Nat /\ p[k] = Percent(n[k], of),
         SumFunctionOnSet(n, K) = of
  PROVE  Abs(SumFunctionOnSet(p, K) - 10000) =< Cardinality(K)
<1> DEFINE c == 2 * of
           scaled == [k \in K |-> 20000 * n[k]]
           half == [k \in K |-> of]
           ones == [k \in K |-> 1]
           upper == [k \in K |-> 20000 * n[k] + of]
           taken == [k \in K |-> c * p[k]]
           grown == [k \in K |-> c * p[k] + of]
           P == SumFunctionOnSet(p, K)
           m == Cardinality(K)
<1>1. c \in Nat /\ c > 0 /\ c = of + of
  OBVIOUS
<1>2. ASSUME NEW k \in K
      PROVE  /\ p[k] \in Nat /\ c * p[k] \in Nat
             /\ c * p[k] =< 20000 * n[k] + of /\ 20000 * n[k] =< c * p[k] + of
  <2> DEFINE x == 20000 * n[k] + of
  <2>1. x \in Nat /\ p[k] = x \div c /\ x = 20000 * n[k] + of
    BY DEF Percent
  <2> HIDE DEF x, c
  <2>2. x \div c \in Nat /\ c * (x \div c) =< x /\ x < c * (x \div c) + c
    <3>1. c \in Nat /\ c # 0 /\ x \in Nat
      BY <1>1, <2>1
    <3> QED BY <3>1, QuotientFacts, Zenon
  <2>3. c * (x \div c) \in Nat
    BY <1>1, <2>2
  <2> QED BY <1>1, <2>1, <2>2, <2>3
<1> HIDE DEF c
<1>3. /\ \A k \in K : n[k] \in Nat /\ scaled[k] = 20000 * n[k]
      /\ \A k \in K : ones[k] \in Nat /\ half[k] = of * ones[k] /\ ones[k] = 1
      /\ \A k \in K : p[k] \in Nat /\ taken[k] = c * p[k]
      /\ \A k \in K : scaled[k] \in Nat /\ half[k] \in Nat /\ upper[k] = scaled[k] + half[k]
      /\ \A k \in K : taken[k] \in Nat /\ half[k] \in Nat /\ grown[k] = taken[k] + half[k]
      /\ \A k \in K : taken[k] \in Nat /\ upper[k] \in Nat /\ taken[k] =< upper[k]
      /\ \A k \in K : scaled[k] \in Nat /\ grown[k] \in Nat /\ scaled[k] =< grown[k]
  BY <1>2
<1> HIDE DEF scaled, half, ones, upper, taken, grown
<1>4. SumFunctionOnSet(scaled, K) = 20000 * of
  <2> DEFINE factor == 20000
  <2>1. factor \in Nat /\ IsScaled(scaled, factor, n, K)
    BY <1>3 DEF IsScaled
  <2> HIDE DEF factor
  <2>2. SumFunctionOnSet(scaled, K) = factor * of
    BY <2>1, SumScales
  <2> QED BY <2>2 DEF factor
<1>5. SumFunctionOnSet(half, K) = of * m /\ m \in Nat
  <2>1. IsScaled(half, of, ones, K)
    BY <1>3 DEF IsScaled
  <2>2. SumFunctionOnSet(half, K) = of * SumFunctionOnSet(ones, K)
    BY <2>1, SumScales
  <2>3. SumFunctionOnSet(ones, K) = m
    BY <1>3, SumOfOnes
  <2> QED BY <2>2, <2>3, FS_CardinalityType
<1>6. SumFunctionOnSet(taken, K) = c * P /\ P \in Nat
  <2>1. IsScaled(taken, c, p, K)
    BY <1>3 DEF IsScaled
  <2>2. SumFunctionOnSet(taken, K) = c * SumFunctionOnSet(p, K)
    BY <1>1, <2>1, SumScales
  <2> QED BY <1>3, <2>2, SumOfNaturals
<1>7. SumFunctionOnSet(upper, K) = SumFunctionOnSet(scaled, K) + SumFunctionOnSet(half, K)
  BY <1>3, SumAdds
<1>8. SumFunctionOnSet(grown, K) = SumFunctionOnSet(taken, K) + SumFunctionOnSet(half, K)
  BY <1>3, SumAdds
<1>9. SumFunctionOnSet(taken, K) =< SumFunctionOnSet(upper, K)
  BY <1>3, SumIsMonotone
<1>10. SumFunctionOnSet(scaled, K) =< SumFunctionOnSet(grown, K)
  BY <1>3, SumIsMonotone
<1>11. c * P =< 20000 * of + of * m /\ 20000 * of =< c * P + of * m
  BY <1>4, <1>5, <1>6, <1>7, <1>8, <1>9, <1>10
<1> HIDE DEF P, m
<1>12. of * (P + P) =< of * (20000 + m) /\ of * 20000 =< of * (P + P + m)
  BY <1>1, <1>5, <1>6, <1>11
<1>13. P + P =< 20000 + m /\ 20000 =< P + P + m
  <2>1. ASSUME NEW a \in Nat, NEW b \in Nat, of * a =< of * b PROVE a =< b
    <3> SUFFICES ASSUME b < a PROVE FALSE
      BY <2>1
    <3>1. PICK d \in Nat : a = b + 1 + d
      <4>1. a - b - 1 \in Nat /\ a = b + 1 + (a - b - 1)
        OBVIOUS
      <4> QED BY <4>1
    <3>2. of * a = of * b + of + of * d /\ of * d \in Nat /\ of * b \in Nat
      BY <3>1
    <3> QED BY <2>1, <3>2
  <2> QED BY <1>5, <1>6, <1>12, <2>1
<1> QED BY <1>5, <1>6, <1>13 DEF Abs, P, m

\* What is there at any time is a selection of the log.
LEMMA Selections ==
  ASSUME LogGrows, NEW n, NEW q, NEW since
  PROVE  /\ Where(Upto(n), q, since) = Upto(n) \cap Where(log, q, since)
         /\ Mine(q, Upto(n), since) = Upto(n) \cap Mine(q, log, since)
         /\ Odd(Where(Upto(n), q, since)) = Upto(n) \cap Odd(Where(log, q, since))
         /\ \A a : /\ SendsOf(Mine(q, Upto(n), since), a) =
                        Cardinality(Upto(n) \cap {t \in Mine(q, log, since) : t.from = a})
                   /\ ReceiptsOf(Mine(q, Upto(n), since), a) =
                        Cardinality(Upto(n) \cap {t \in Mine(q, log, since) : t.to = a})
<1>1. Upto(n) \subseteq log
  BY DEF Upto
<1>2. Where(Upto(n), q, since) = Upto(n) \cap Where(log, q, since)
  BY <1>1 DEF Where
<1>3. Mine(q, Upto(n), since) = Upto(n) \cap Mine(q, log, since)
  BY <1>2 DEF Mine, Involving
<1>4. Odd(Where(Upto(n), q, since)) = Upto(n) \cap Odd(Where(log, q, since))
  BY <1>2 DEF Odd
<1>5. ASSUME NEW a
      PROVE  /\ {t \in Mine(q, Upto(n), since) : t.from = a} =
                  Upto(n) \cap {t \in Mine(q, log, since) : t.from = a}
             /\ {t \in Mine(q, Upto(n), since) : t.to = a} =
                  Upto(n) \cap {t \in Mine(q, log, since) : t.to = a}
  BY <1>3
<1> QED BY <1>2, <1>3, <1>4, <1>5 DEF SendsOf, ReceiptsOf

\* What of a selection is there at two times of a request differs by no more than what was
\* stored meanwhile.
LEMMA SelectionGrows ==
  ASSUME LogGrows, NEW begin \in 0 .. Cardinality(log), NEW m \in begin .. Cardinality(log),
         NEW n \in begin .. Cardinality(log), NEW F
  PROVE  LET a == Cardinality(Upto(m) \cap F)
             b == Cardinality(Upto(n) \cap F)
             stored == Cardinality(log) - begin
         IN /\ a \in Nat /\ b \in Nat /\ stored \in Nat
            /\ b - a =< stored /\ a - b =< stored
            /\ m =< n => a =< b
<1> DEFINE A == Upto(m) \cap F
           B == Upto(n) \cap F
           c == Cardinality(log)
<1>1. c \in Nat /\ m \in 0 .. c /\ n \in 0 .. c /\ m \in Nat /\ n \in Nat
  BY FS_CardinalityType DEF LogGrows
<1>2. ASSUME m =< n PROVE Upto(m) \subseteq Upto(n)
  BY <1>1, <1>2 DEF Upto, LogGrows, LogRows
<1>3. ASSUME n =< m PROVE Upto(n) \subseteq Upto(m)
  BY <1>1, <1>3 DEF Upto, LogGrows, LogRows
<1>4. ASSUME m =< n
      PROVE  /\ Cardinality(A) \in Nat /\ Cardinality(B) \in Nat
             /\ Cardinality(A) =< Cardinality(B) /\ Cardinality(B) - Cardinality(A) =< n - m
  <2>1. A \subseteq B /\ B \subseteq Upto(n) /\ B \cap Upto(m) \subseteq A
    BY <1>2, <1>4
  <2> HIDE DEF A, B
  <2> QED BY <1>1, <1>4, <2>1, PartGrows
<1>5. ASSUME n =< m
      PROVE  /\ Cardinality(A) \in Nat /\ Cardinality(B) \in Nat
             /\ Cardinality(B) =< Cardinality(A) /\ Cardinality(A) - Cardinality(B) =< m - n
  <2>1. B \subseteq A /\ A \subseteq Upto(m) /\ A \cap Upto(n) \subseteq B
    BY <1>3, <1>5
  <2> HIDE DEF A, B
  <2> QED BY <1>1, <1>5, <2>1, PartGrows
<1> HIDE DEF A, B
<1>6. /\ Cardinality(A) \in Nat /\ Cardinality(B) \in Nat /\ c - begin \in Nat
      /\ Cardinality(B) - Cardinality(A) =< c - begin
      /\ Cardinality(A) - Cardinality(B) =< c - begin
      /\ m =< n => Cardinality(A) =< Cardinality(B)
  BY <1>1, <1>4, <1>5
<1> QED BY <1>6 DEF A, B

\* All the statements of a plan of one stage have returned.
LEMMA OneStage ==
  ASSUME IInv, NEW q, NEW since, NEW begin, NEW done, NEW failed, NEW keep, NEW at,
         Answered(q, since, begin, done, failed, keep, at), NEW stage, Plan(q, done) = <<stage>>
  PROVE  stage \subseteq DOMAIN done
<1> DEFINE plan == Plan(q, done)
<1>1. DOMAIN plan = 1 .. 1 /\ plan[1] = stage
  OBVIOUS
<1> HIDE DEF plan
<1>2. \A i \in 1 .. 1 : plan[i] \subseteq DOMAIN done
  BY <1>1, AnswerFacts DEF plan
<1> QED BY <1>1, <1>2

\* What a statement saw, and when.
LEMMA Seen ==
  ASSUME IInv, NEW q, NEW since, NEW begin, NEW done, NEW failed, NEW keep, NEW at,
         Answered(q, since, begin, done, failed, keep, at), ~failed, NEW s \in DOMAIN done
  PROVE  /\ at[s] \in begin .. Cardinality(log) /\ begin \in 0 .. Cardinality(log)
         /\ Cardinality(log) \in Nat /\ q \in Requests
         /\ Returned(q, s, done[s], Upto(at[s]), since)
         /\ Rows(Mine(q, Upto(at[s]), since)) /\ Rows(Where(Upto(at[s]), q, since))
<1>1. /\ at[s] \in begin .. Cardinality(log) /\ begin \in 0 .. Cardinality(log)
      /\ Cardinality(log) \in Nat /\ q \in Requests
      /\ Returned(q, s, done[s], Upto(at[s]), since)
  BY AnswerFacts
<1>2. LogGrows
  BY DEF IInv
<1>3. Where(Upto(at[s]), q, since) \subseteq Upto(at[s])
      /\ Mine(q, Upto(at[s]), since) \subseteq Upto(at[s])
  BY DEF Where, Mine, Involving
<1>4. Rows(Mine(q, Upto(at[s]), since)) /\ Rows(Where(Upto(at[s]), q, since))
  BY <1>2, <1>3, UptoRows
<1> QED BY <1>1, <1>4

\* A summary and its parts: the parts are read later.
LEMMA SummaryAgrees ==
  ASSUME IInv, NEW q, NEW since, NEW begin, NEW done, NEW failed, NEW keep, NEW at,
         Answered(q, since, begin, done, failed, keep, at), ~failed,
         q.of \in {"summary", "statistics"}, "total" \in DOMAIN done, "tokens" \in DOMAIN done
  PROVE  CountsOf(done["tokens"]) - done["total"].count
           \in 0 .. (IF q.of = "statistics" THEN 2 ELSE 1) * (Cardinality(log) - begin)
<1> DEFINE m == at["total"]
           n == at["tokens"]
           C == Cardinality(log)
           F == Mine(q, log, since)
           a == q.address
           sent == {t \in F : t.from = a}
           received == {t \in F : t.to = a}
           whole == done["total"].count
           sum == CountsOf(done["tokens"])
<1>1. /\ m \in begin .. C /\ n \in begin .. C /\ begin \in 0 .. C /\ C \in Nat
      /\ Returned(q, "total", done["total"], Upto(m), since)
      /\ Returned(q, "tokens", done["tokens"], Upto(n), since)
      /\ Rows(Mine(q, Upto(n), since))
  BY Seen
<1>2. m =< n
  BY DEF Answered, ReadAt, InTurn
<1>3. LogGrows
  BY DEF IInv
<1> HIDE DEF m, n
<1>4. done["tokens"] = TokenParts(q, Where(Upto(n), q, since), Mine(q, Upto(n), since))
  BY <1>1 DEF Returned, Mine
<1>5. CASE q.of = "summary"
  <2>1. whole = Cardinality(Mine(q, Upto(m), since))
    BY <1>1, <1>5 DEF Returned, Mine
  <2>2. sum = Cardinality(Mine(q, Upto(n), since))
    BY <1>1, <1>4, <1>5, PartCounts
  <2> HIDE DEF whole, sum
  <2>3. whole = Cardinality(Upto(m) \cap F) /\ sum = Cardinality(Upto(n) \cap F)
    <3>1. Mine(q, Upto(m), since) = Upto(m) \cap F /\ Mine(q, Upto(n), since) = Upto(n) \cap F
      BY <1>3, Selections
    <3> QED BY <2>1, <2>2, <3>1
  <2> HIDE DEF F
  <2>4. whole \in Nat /\ sum \in Nat /\ C - begin \in Nat /\ sum - whole =< C - begin
        /\ whole =< sum
    BY <1>1, <1>2, <1>3, <2>3, SelectionGrows
  <2> HIDE DEF C
  <2>5. sum - whole \in 0 .. 1 * (C - begin)
    BY <2>4
  <2> QED BY <1>5, <2>5 DEF C, whole, sum
<1>6. CASE q.of = "statistics"
  <2>1. whole = SendsOf(Mine(q, Upto(m), since), a) + ReceiptsOf(Mine(q, Upto(m), since), a)
    BY <1>1, <1>6 DEF Returned, Mine
  <2>2. sum = SendsOf(Mine(q, Upto(n), since), a) + ReceiptsOf(Mine(q, Upto(n), since), a)
    BY <1>1, <1>4, <1>6, PartCounts
  <2>3. /\ whole = Cardinality(Upto(m) \cap sent) + Cardinality(Upto(m) \cap received)
        /\ sum = Cardinality(Upto(n) \cap sent) + Cardinality(Upto(n) \cap received)
    BY <1>3, <2>1, <2>2, Selections
  <2> DEFINE s == Cardinality(Upto(m) \cap sent)
             t == Cardinality(Upto(n) \cap sent)
             r == Cardinality(Upto(m) \cap received)
             u == Cardinality(Upto(n) \cap received)
  <2> HIDE DEF F, sent, received, whole, sum
  <2>4. s \in Nat /\ t \in Nat /\ C - begin \in Nat /\ t - s =< C - begin /\ s =< t
    BY <1>1, <1>2, <1>3, SelectionGrows
  <2>5. r \in Nat /\ u \in Nat /\ u - r =< C - begin /\ r =< u
    BY <1>1, <1>2, <1>3, SelectionGrows
  <2>6. whole = s + r /\ sum = t + u
    BY <2>3
  <2> HIDE DEF C, s, t, r, u
  <2>7. sum - whole \in 0 .. 2 * (C - begin)
    BY <2>4, <2>5, <2>6
  <2> QED BY <1>6, <2>7 DEF C, whole, sum
<1> QED BY <1>5, <1>6

\* Both real-time statistics: the total and the parts are read in any order.
LEMMA RealtimeAgrees ==
  ASSUME IInv, NEW q, NEW since, NEW begin, NEW done, NEW failed, NEW keep, NEW at,
         Answered(q, since, begin, done, failed, keep, at), ~failed, q.of \in {"realtime", "analyzerRealtime"}
  PROVE  CountsOf(done["tokens"]) - done["total"].count
           \in -(Cardinality(log) - begin) .. (Cardinality(log) - begin)
<1> DEFINE m == at["total"]
           n == at["tokens"]
           C == Cardinality(log)
           F == Mine(q, log, since)
           whole == done["total"].count
           sum == CountsOf(done["tokens"])
<1>0. "total" \in DOMAIN done /\ "tokens" \in DOMAIN done
  <2>1. CASE q.of = "realtime"
    <3>1. Plan(q, done) = <<{"total", "tokens"} \cup RealtimeFigures>>
      BY <2>1 DEF Plan, RealtimePlan
    <3>2. {"total", "tokens"} \cup RealtimeFigures \subseteq DOMAIN done
      BY <3>1, OneStage
    <3> QED BY <3>2
  <2>2. CASE q.of = "analyzerRealtime"
    <3>1. Plan(q, done) = <<{"total", "tokens"} \cup AnalyzerRealtimeFigures>>
      BY <2>2 DEF Plan, AnalyzerRealtimePlan
    <3>2. {"total", "tokens"} \cup AnalyzerRealtimeFigures \subseteq DOMAIN done
      BY <3>1, OneStage
    <3> QED BY <3>2
  <2> QED BY <2>1, <2>2
<1>1. /\ m \in begin .. C /\ n \in begin .. C /\ begin \in 0 .. C /\ C \in Nat
      /\ Returned(q, "total", done["total"], Upto(m), since)
      /\ Returned(q, "tokens", done["tokens"], Upto(n), since)
      /\ Rows(Mine(q, Upto(n), since))
  BY <1>0, Seen
<1>2. LogGrows
  BY DEF IInv
<1> HIDE DEF m, n
<1>3. done["tokens"] = TokenParts(q, Where(Upto(n), q, since), Mine(q, Upto(n), since))
  BY <1>1 DEF Returned, Mine
<1>4. whole = Cardinality(Mine(q, Upto(m), since))
  BY <1>1 DEF Returned, Mine
<1>5. sum = Cardinality(Mine(q, Upto(n), since))
  BY <1>1, <1>3, PartCounts
<1> HIDE DEF whole, sum
<1>6. whole = Cardinality(Upto(m) \cap F) /\ sum = Cardinality(Upto(n) \cap F)
  <2>1. Mine(q, Upto(m), since) = Upto(m) \cap F /\ Mine(q, Upto(n), since) = Upto(n) \cap F
    BY <1>2, Selections
  <2> QED BY <1>4, <1>5, <2>1
<1> HIDE DEF F
<1>7. whole \in Nat /\ sum \in Nat /\ C - begin \in Nat
      /\ sum - whole =< C - begin /\ whole - sum =< C - begin
  BY <1>1, <1>2, <1>6, SelectionGrows
<1> HIDE DEF C
<1>8. sum - whole \in -(C - begin) .. (C - begin)
  BY <1>7
<1> QED BY <1>8 DEF C, whole, sum

\* The dashboard: the tokens are each counted at a time of their own, the total at another.
LEMMA DashboardAgrees ==
  ASSUME IInv, NEW q, NEW since, NEW begin, NEW done, NEW failed, NEW keep, NEW at,
         Answered(q, since, begin, done, failed, keep, at), ~failed, q.of = "dashboard"
  PROVE  SumFunctionOnSet([k \in Tokens |-> done[k].count], Tokens) - done["total"].count
           \in -(Cardinality(log) - begin) .. (Cardinality(log) - begin)
<1> DEFINE C == Cardinality(log)
           counts == [k \in Tokens |-> done[k].count]
           least == [k \in Tokens |-> Cardinality(OfToken(Upto(begin), k))]
           most == [k \in Tokens |-> Cardinality(OfToken(Upto(C), k))]
           whole == done["total"].count
           sum == SumFunctionOnSet(counts, Tokens)
<1>1. "total" \in DOMAIN done /\ Tokens \subseteq DOMAIN done
  <2>1. Plan(q, done) = <<{"total"} \cup DashboardFigures \cup Tokens>>
    BY DEF Plan, DashboardPlan
  <2>2. {"total"} \cup DashboardFigures \cup Tokens \subseteq DOMAIN done
    BY <2>1, OneStage
  <2> QED BY <2>2
<1>2. /\ LogGrows /\ C \in Nat /\ begin \in 0 .. C /\ begin \in Nat
      /\ Cardinality(Upto(begin)) = begin /\ Cardinality(Upto(C)) = C
      /\ Rows(Upto(begin)) /\ Rows(Upto(C))
  <2>1. LogGrows /\ C \in Nat /\ begin \in 0 .. C
    BY <1>1, Seen DEF IInv
  <2>2. begin \in Nat /\ C \in 0 .. C
    BY <2>1
  <2> QED BY <2>1, <2>2, UptoRows DEF LogGrows
<1>3. whole \in begin .. C
  <2>1. at["total"] \in begin .. C /\ Returned(q, "total", done["total"], Upto(at["total"]), since)
    BY <1>1, Seen
  <2>2. whole = Cardinality(Upto(at["total"]))
    BY <2>1 DEF Returned
  <2>3. Cardinality(Upto(at["total"])) = at["total"]
    BY <1>2, <2>1 DEF LogGrows
  <2> QED BY <2>1, <2>2, <2>3
<1>4. ASSUME NEW k \in Tokens
      PROVE  /\ counts[k] \in Nat /\ least[k] \in Nat /\ most[k] \in Nat
             /\ least[k] =< counts[k] /\ counts[k] =< most[k]
  <2> DEFINE n == at[k]
             A == OfToken(Upto(begin), k)
             B == OfToken(Upto(n), k)
             D == OfToken(Upto(C), k)
  <2>1. n \in begin .. C /\ Returned(q, k, done[k], Upto(n), since)
    BY <1>1, <1>4, Seen
  <2>2. done[k].count = Cardinality(B)
    BY <1>4, <2>1 DEF Returned
  <2> HIDE DEF n, C
  <2>3. Upto(begin) \subseteq Upto(n) /\ Upto(n) \subseteq Upto(C)
    BY <1>2, <2>1 DEF Upto, LogGrows, LogRows
  <2>4. A \subseteq B /\ B \subseteq D /\ D \subseteq Upto(C)
    BY <2>3 DEF OfToken
  <2>5. IsFiniteSet(A) /\ IsFiniteSet(B) /\ IsFiniteSet(D)
    BY <1>2, <2>4, FS_Subset DEF Rows
  <2> HIDE DEF A, B, D
  <2>6. /\ Cardinality(A) \in Nat /\ Cardinality(B) \in Nat /\ Cardinality(D) \in Nat
        /\ Cardinality(A) =< Cardinality(B) /\ Cardinality(B) =< Cardinality(D)
    BY <2>4, <2>5, FS_Subset, FS_CardinalityType
  <2> QED BY <2>2, <2>6 DEF A, B, D
<1>5. /\ \A k \in Tokens : least[k] = Cardinality(OfToken(Upto(begin), k))
      /\ \A k \in Tokens : most[k] = Cardinality(OfToken(Upto(C), k))
      /\ IsFiniteSet(Tokens)
  BY ReportsAssumption
<1>6. \A l : Rows(l) => Symbols(l) \subseteq Tokens
  BY DEF Rows, Symbols, LogRows
<1> HIDE DEF C, counts, least, most, whole
<1>7. SumFunctionOnSet(least, Tokens) = begin
  BY <1>2, <1>5, <1>6, TokenSizes
<1>8. SumFunctionOnSet(most, Tokens) = C
  BY <1>2, <1>5, <1>6, TokenSizes
<1>9. sum \in Nat /\ begin =< sum
  BY <1>4, <1>5, <1>7, SumIsMonotone
<1>10. sum =< C
  BY <1>4, <1>5, <1>8, SumIsMonotone
<1> HIDE DEF sum
<1>11. sum - whole \in -(C - begin) .. (C - begin)
  BY <1>2, <1>3, <1>9, <1>10
<1> QED BY <1>11 DEF C, sum, whole, counts

\* tx-analyzer's hours: none holds more than was there.
LEMMA HoursAgree ==
  ASSUME IInv, NEW q, NEW since, NEW begin, NEW done, NEW failed, NEW keep, NEW at,
         Answered(q, since, begin, done, failed, keep, at), ~failed
  PROVE  LET hours == done["hours"]
             odd == SumFunctionOnSet([h \in DOMAIN hours |-> hours[h].odd], DOMAIN hours)
             stored == Cardinality(log) - begin
         IN /\ q.of = "analyzerAnomalies" => odd =< done["odd"] + stored
            /\ q.of = "analyzerNetwork" => CountsOf(hours) - done["total"].count =< stored
<1> DEFINE hours == done["hours"]
           odd == SumFunctionOnSet([h \in DOMAIN hours |-> hours[h].odd], DOMAIN hours)
           C == Cardinality(log)
           n == at["hours"]
           w == Where(Upto(n), q, since)
<1>1. LogGrows
  BY DEF IInv
<1>2. ASSUME "hours" \in DOMAIN done
      PROVE  /\ n \in begin .. C /\ begin \in 0 .. C /\ C \in Nat /\ q \in Requests
             /\ CountsOf(hours) \in Nat /\ CountsOf(hours) =< Cardinality(w)
             /\ odd \in Nat /\ odd =< Cardinality(Odd(w))
  <2>1. /\ n \in begin .. C /\ begin \in 0 .. C /\ C \in Nat /\ q \in Requests
        /\ Returned(q, "hours", done["hours"], Upto(n), since) /\ Rows(w)
    BY <1>2, Seen
  <2>2. hours = HourlyCounts(w, q.limit)
    BY <2>1 DEF Returned
  <2> HIDE DEF w, hours
  <2> QED BY <2>1, <2>2, HourCounts
<1> HIDE DEF n
<1>3. ASSUME q.of = "analyzerAnomalies" PROVE odd =< done["odd"] + (C - begin)
  <2> DEFINE m == at["odd"]
             F == Odd(Where(log, q, since))
  <2>1. "hours" \in DOMAIN done /\ "odd" \in DOMAIN done
    <3>1. Plan(q, done) = <<{"odd", "hours"} \cup AnomalyFigures>>
      BY <1>3 DEF Plan, AnalyzerAnomalyPlan
    <3>2. {"odd", "hours"} \cup AnomalyFigures \subseteq DOMAIN done
      BY <3>1, OneStage
    <3> QED BY <3>2
  <2>2. m \in begin .. C /\ Returned(q, "odd", done["odd"], Upto(m), since)
    BY <2>1, Seen
  <2> HIDE DEF m
  <2>3. done["odd"] = Cardinality(Odd(Where(Upto(m), q, since)))
    BY <2>2 DEF Returned
  <2>4. Odd(Where(Upto(m), q, since)) = Upto(m) \cap F /\ Odd(w) = Upto(n) \cap F
    BY <1>1, Selections
  <2> HIDE DEF F, w, hours, odd
  <2>5. /\ Cardinality(Upto(m) \cap F) \in Nat /\ Cardinality(Upto(n) \cap F) \in Nat
        /\ Cardinality(Upto(n) \cap F) - Cardinality(Upto(m) \cap F) =< C - begin
    BY <1>1, <1>2, <2>1, <2>2, SelectionGrows
  <2> HIDE DEF C
  <2>6. /\ done["odd"] = Cardinality(Upto(m) \cap F)
        /\ odd \in Nat /\ odd =< Cardinality(Upto(n) \cap F) /\ C - begin \in Int
    BY <1>2, <2>1, <2>3, <2>4
  <2> QED BY <2>5, <2>6
<1>4. ASSUME q.of = "analyzerNetwork" PROVE CountsOf(hours) - done["total"].count =< C - begin
  <2> DEFINE m == at["total"]
             F == Where(log, q, since)
             whole == done["total"].count
             sum == CountsOf(hours)
  <2>1. "hours" \in DOMAIN done /\ "total" \in DOMAIN done
    <3>1. Plan(q, done) = <<{"total", "hours"}>>
      BY <1>4 DEF Plan, AnalyzerNetworkPlan
    <3>2. {"total", "hours"} \subseteq DOMAIN done
      BY <3>1, OneStage
    <3> QED BY <3>2
  <2>2. m \in begin .. C /\ Returned(q, "total", done["total"], Upto(m), since)
    BY <2>1, Seen
  <2> HIDE DEF m
  <2>3. q.address = None
    BY <1>2, <1>4, <2>1, RequestFacts DEF Fixed
  <2>4. whole = Cardinality(Where(Upto(m), q, since))
    <3>1. Involving(Where(Upto(m), q, since), q.address) = Where(Upto(m), q, since)
      BY <2>3 DEF Involving
    <3>2. whole = Cardinality(Involving(Where(Upto(m), q, since), q.address))
      BY <1>4, <2>2 DEF Returned
    <3> QED BY <3>1, <3>2
  <2>5. Where(Upto(m), q, since) = Upto(m) \cap F /\ w = Upto(n) \cap F
    BY <1>1, Selections
  <2> HIDE DEF F, w, whole
  <2>6. /\ Cardinality(Upto(m) \cap F) \in Nat /\ Cardinality(Upto(n) \cap F) \in Nat
        /\ Cardinality(Upto(n) \cap F) - Cardinality(Upto(m) \cap F) =< C - begin
    BY <1>1, <1>2, <2>1, <2>2, SelectionGrows
  <2>7. sum \in Nat /\ sum =< Cardinality(w) /\ C - begin \in Int
    BY <1>2, <2>1
  <2> HIDE DEF C, sum
  <2>8. whole = Cardinality(Upto(m) \cap F) /\ sum =< Cardinality(Upto(n) \cap F)
    BY <2>4, <2>5, <2>7
  <2>9. sum - whole =< C - begin
    BY <2>6, <2>7, <2>8
  <2> QED BY <2>9 DEF C, sum, whole
<1> QED BY <1>3, <1>4

\* The volumes of the tokens make up the volume.
LEMMA TokenVolumes ==
  ASSUME NEW l, Rows(l), NEW c, \A k \in Symbols(l) : c[k] = Volume(OfToken(l, k))
  PROVE  /\ IsFiniteSet(Symbols(l)) /\ \A k \in Symbols(l) : c[k] \in Nat
         /\ SumFunctionOnSet(c, Symbols(l)) = Volume(l)
<1> DEFINE K == Symbols(l)
           key == [t \in l |-> t.token]
           f == [t \in l |-> t.value]
           sums == [k \in K |-> SumFunctionOnSet(f, Part(l, key, k))]
<1>1. K \subseteq Tokens /\ IsFiniteSet(K)
  <2>1. K \subseteq Tokens
    BY DEF Symbols, Rows, LogRows
  <2> QED BY <2>1, ReportsAssumption, FS_Subset
<1>2. IsFiniteSet(l) /\ (\A t \in l : key[t] \in K) /\ (\A t \in l : f[t] \in Nat)
  BY DEF Rows, LogRows, Symbols
<1>3. \A k \in K : Part(l, key, k) = OfToken(l, k)
  BY DEF Part, OfToken
<1>4. Volume(l) = SumFunctionOnSet(f, l)
  BY DEF Volume
<1>5. ASSUME NEW k \in K PROVE c[k] = SumFunctionOnSet(f, OfToken(l, k)) /\ c[k] \in Nat
  <2> DEFINE S == OfToken(l, k)
             h == [t \in S |-> t.value]
  <2>1. IsFiniteSet(S) /\ \A t \in S : f[t] \in Nat /\ h[t] = f[t]
    BY <1>2, FS_Subset DEF OfToken
  <2>2. c[k] = SumFunctionOnSet(h, S)
    BY <1>5 DEF Volume
  <2> HIDE DEF S, h, f
  <2>3. SumFunctionOnSet(h, S) = SumFunctionOnSet(f, S)
    BY <2>1, SumsAgree
  <2>4. SumFunctionOnSet(f, S) \in Nat
    BY <2>1, SumOfNaturals
  <2> QED BY <2>2, <2>3, <2>4 DEF S
<1> HIDE DEF key, f
<1>6. SumFunctionOnSet(sums, K) = SumFunctionOnSet(f, l)
  BY <1>1, <1>2, SumByParts
<1>7. \A k \in K : c[k] = sums[k] /\ sums[k] \in Nat
  BY <1>3, <1>5
<1> HIDE DEF sums, K
<1>8. SumFunctionOnSet(c, K) = SumFunctionOnSet(sums, K)
  BY <1>1, <1>7, SumsAgree
<1> QED BY <1>1, <1>4, <1>6, <1>7, <1>8 DEF K

\* Both distributions.
LEMMA SharesAgree ==
  ASSUME NEW w, Rows(w), NEW parts,
         \/ parts = DistributionByVolume(w) /\ \E k \in DOMAIN parts : parts[k].volume > 0
         \/ parts = DistributionByCount(w) /\ DOMAIN parts # {}
  PROVE  Abs(SumFunctionOnSet([k \in DOMAIN parts |-> parts[k].share], DOMAIN parts) - 10000)
           =< Cardinality(DOMAIN parts)
<1> DEFINE K == Symbols(w)
           p == [k \in K |-> parts[k].share]
<1>1. ASSUME NEW n, NEW of \in Nat, DOMAIN parts = K, IsFiniteSet(K),
             \A k \in K : n[k] \in Nat /\ parts[k].share = Percent(n[k], of),
             SumFunctionOnSet(n, K) = of, \E k \in K : n[k] > 0
      PROVE  Abs(SumFunctionOnSet([k \in DOMAIN parts |-> parts[k].share], DOMAIN parts) - 10000)
               =< Cardinality(DOMAIN parts)
  <2>1. of \in Nat \ {0}
    <3>1. SumFunctionOnSet(n, K) = 0 <=> \A k \in K : n[k] = 0
      BY <1>1, SumOfNaturals
    <3> QED BY <1>1, <3>1
  <2>2. \A k \in K : n[k] \in Nat /\ p[k] = Percent(n[k], of)
    BY <1>1
  <2> HIDE DEF p, K
  <2>3. Abs(SumFunctionOnSet(p, K) - 10000) =< Cardinality(K)
    BY <1>1, <2>1, <2>2, SharesAddUp
  <2> QED BY <1>1, <2>3 DEF p
<1>2. CASE parts = DistributionByVolume(w) /\ \E k \in DOMAIN parts : parts[k].volume > 0
  <2> DEFINE n == [k \in K |-> Volume(OfToken(w, k))]
             of == Volume(w)
  <2>1. /\ DOMAIN parts = K
        /\ \A k \in K : parts[k].volume = n[k] /\ parts[k].share = Percent(n[k], of)
        /\ \A k \in K : n[k] = Volume(OfToken(w, k))
    BY <1>2 DEF DistributionByVolume, ByToken
  <2> HIDE DEF n
  <2>2. /\ IsFiniteSet(K) /\ \A k \in K : n[k] \in Nat
        /\ SumFunctionOnSet(n, K) = of /\ of \in Nat
    BY <2>1, TokenVolumes, VolumeFacts
  <2>3. \E k \in K : n[k] > 0
    BY <1>2, <2>1
  <2> HIDE DEF of, K
  <2> QED BY <1>1, <2>1, <2>2, <2>3
<1>3. CASE parts = DistributionByCount(w) /\ DOMAIN parts # {}
  <2> DEFINE n == [k \in K |-> Cardinality(OfToken(w, k))]
             of == Cardinality(w)
  <2>1. /\ DOMAIN parts = K
        /\ \A k \in K : parts[k].share = Percent(n[k], of)
        /\ \A k \in K : n[k] = Cardinality(OfToken(w, k))
    BY <1>3 DEF DistributionByCount, ByToken
  <2> HIDE DEF n
  <2>2. IsFiniteSet(K)
    <3>1. K \subseteq Tokens
      BY DEF Symbols, Rows, LogRows
    <3> QED BY <3>1, ReportsAssumption, FS_Subset
  <2>3. ASSUME NEW k \in K PROVE n[k] \in Nat /\ n[k] > 0
    <3>1. IsFiniteSet(OfToken(w, k)) /\ OfToken(w, k) # {}
      BY FS_Subset DEF OfToken, Rows, Symbols
    <3> QED BY <2>1, <3>1, FS_CardinalityType, FS_EmptySet
  <2>4. SumFunctionOnSet(n, K) = of /\ of \in Nat
    <3>1. SumFunctionOnSet(n, K) = Cardinality(w)
      BY <2>1, <2>2, TokenSizes
    <3> QED BY <3>1, VolumeFacts
  <2>5. \E k \in K : n[k] > 0
    BY <1>3, <2>1, <2>3
  <2> HIDE DEF of, K
  <2> QED BY <1>1, <2>1, <2>2, <2>3, <2>4, <2>5
<1> QED BY <1>2, <1>3

\* The total of an answer and the sum of its parts differ by no more than what was stored while
\* the answer was put together, and shares add up to a hundred (getAddressTransactionSummary,
\* getAddressStatistics, both getRealtimeStats, getDashboardStats, both getTokenDistribution,
\* tx-analyzer's getAnomalyStats and getNetworkStats).
THEOREM PartsMakeTheWhole == Spec => []PartsAgree
<1>1. ASSUME IInv PROVE PartsAgree
  <2> SUFFICES ASSUME IsComplete, ~request.failed PROVE PartsAgree
    BY DEF PartsAgree
  <2>1. PICK q, since, begin, done, failed, keep, at :
           Answered(q, since, begin, done, failed, keep, at)
    BY <1>1, AnswerParts
  <2>2. /\ request = Reading(q, since, begin, done, failed, keep)
    BY <1>1, <2>1, AnswerFacts
  <2>3. q = request.ask /\ done = request.done /\ begin = request.begin /\ ~failed
    BY <2>2 DEF Reading
  <2>4. Answered(q, since, begin, done, failed, keep, at) /\ ~failed
    BY <2>1, <2>3
  <2> DEFINE stored == Cardinality(log) - begin
             sides == IF q.of = "statistics" THEN 2 ELSE 1
             gap(sum) == sum - done["total"].count
  <2>5. ASSUME q.of \in {"summary", "statistics"}, {"total", "tokens"} \subseteq DOMAIN done
        PROVE  gap(CountsOf(done["tokens"])) \in 0 .. sides * stored
    BY <1>1, <2>4, <2>5, SummaryAgrees
  <2>6. ASSUME q.of \in {"realtime", "analyzerRealtime"}
        PROVE  gap(CountsOf(done["tokens"])) \in -stored .. stored
    BY <1>1, <2>4, <2>6, RealtimeAgrees
  <2>7. ASSUME q.of = "dashboard"
        PROVE  gap(SumFunctionOnSet([k \in Tokens |-> done[k].count], Tokens)) \in -stored .. stored
    BY <1>1, <2>4, <2>7, DashboardAgrees
  <2>8. LET hours == done["hours"]
            odd == SumFunctionOnSet([h \in DOMAIN hours |-> hours[h].odd], DOMAIN hours)
        IN /\ q.of = "analyzerAnomalies" => odd =< done["odd"] + stored
           /\ q.of = "analyzerNetwork" => gap(CountsOf(hours)) =< stored
    BY <1>1, <2>4, HoursAgree
  <2>9. ASSUME q.of \in {"distribution", "analyzerDistribution"},
               IF q.of = "distribution"
                 THEN \E k \in DOMAIN done["tokens"] : done["tokens"][k].volume > 0
                 ELSE DOMAIN done["tokens"] # {}
        PROVE  Abs(SumFunctionOnSet([k \in DOMAIN done["tokens"] |-> done["tokens"][k].share],
                                    DOMAIN done["tokens"]) - 10000)
                 =< Cardinality(DOMAIN done["tokens"])
    <3> DEFINE w == Where(Upto(at["tokens"]), q, since)
               parts == done["tokens"]
    <3>1. "tokens" \in DOMAIN done
      <4>1. Plan(q, done) = <<{"tokens"}>>
        BY <2>9 DEF Plan
      <4>2. {"tokens"} \subseteq DOMAIN done
        BY <1>1, <2>4, <4>1, OneStage
      <4> QED BY <4>2
    <3>2. Rows(w) /\ Returned(q, "tokens", parts, Upto(at["tokens"]), since)
      BY <1>1, <2>4, <3>1, Seen
    <3>3. parts = TokenParts(q, w, Involving(w, q.address))
      BY <3>2 DEF Returned
    <3> HIDE DEF w
    <3>4. \/ parts = DistributionByVolume(w) /\ \E k \in DOMAIN parts : parts[k].volume > 0
          \/ parts = DistributionByCount(w) /\ DOMAIN parts # {}
      BY <2>9, <3>3 DEF TokenParts
    <3> HIDE DEF parts
    <3>5. Abs(SumFunctionOnSet([k \in DOMAIN parts |-> parts[k].share], DOMAIN parts) - 10000)
            =< Cardinality(DOMAIN parts)
      BY <3>2, <3>4, SharesAgree
    <3> QED BY <3>5 DEF parts
  <2> QED BY <2>3, <2>5, <2>6, <2>7, <2>8, <2>9 DEF PartsAgree
<1> QED BY <1>1, Invariance, PTL
=============================================================================
