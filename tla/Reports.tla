------------------------------ MODULE Reports ------------------------------
(***************************************************************************)
(* The answers that several statements make up: tx-api's transaction pages, *)
(* address summaries, rankings, profiles and trends                         *)
(* (services/transaction.service.ts, address.service.ts,                    *)
(* analytics.service.ts with their controllers and cache/redis.ts),         *)
(* tx-analyzer's rankings and real-time statistics and the chain scanner's  *)
(* dashboard statistics (services/statisticsService.ts).                    *)
(*                                                                         *)
(* The statements of one request run one after another, or all at once      *)
(* under Promise.all, without a transaction, while the scanner goes on      *)
(* inserting; most answers are kept in Redis under a key made of the        *)
(* parameters.  A behaviour looks at one endpoint.  An hour of `hours` and  *)
(* the life of a cache entry are both one tick of the clock.  Abstracted:   *)
(* a statement whose figures nothing is said of returns None; those about   *)
(* one token of the dashboard are read as one, and so are the two of a      *)
(* change; windows have no upper end, a time being none later than now.     *)
(***************************************************************************)
EXTENDS Integers, Sequences, FiniteSets, SequencesExt, FiniteSetsExt

CONSTANTS
  Addresses,    \* wallet addresses
  AskedAddresses, \* those asked about
  Tokens,       \* token symbols; a statement about one token is named by it
  AskedTokens,  \* those asked about
  None,         \* no value: no token, no hours asked for
  Endpoints,    \* the endpoints looked at
  Histories,    \* sequences of transfers that may come to be stored
  Limits,       \* values of the parameter limit
  LastTick,     \* bound on the clock
  MaxRequests   \* bound on the requests of a behaviour

Transfers ==
  [from : Addresses, to : Addresses, token : Tokens, value : Nat, anomaly : BOOLEAN,
   imported : BOOLEAN]

\* Statements that add figures to an answer of which nothing is said here: averages, changes,
\* percentiles, ranks, counts of addresses, tokens and blocks.
RealtimeFigures == {"activeTokens"}
AnalyzerRealtimeFigures == {"ever", "everVolume", "volume", "addresses", "currentBlock"}
DashboardFigures == {"active", "past", "pastActive"}
ProfileFigures == {"volumes", "frequencies", "rank"}
StatisticsFigures == {"anomalies"}
AnomalyFigures == {"levels", "oddAddresses"}
LabelFigures == {"labels"}
TrendFigures == {"trends"}
TokenFigures == {"ofTokens"}
AnalyzerTokenFigures == {"ofTokenGroups"}
NetworkFigures == {"network"}

Figures ==
  UNION {RealtimeFigures, AnalyzerRealtimeFigures, DashboardFigures, ProfileFigures,
    StatisticsFigures, AnomalyFigures, LabelFigures, TrendFigures, TokenFigures,
    AnalyzerTokenFigures, NetworkFigures}

\* Names of statements, which no token has.
Statements ==
  {"count", "page", "row", "total", "tokens", "odd", "hours", "rows", "ranking"} \cup Figures

ASSUME ReportsAssumption ==
  /\ IsFiniteSet(Addresses) /\ IsFiniteSet(Tokens)
  /\ AskedAddresses \subseteq Addresses /\ AskedTokens \subseteq Tokens
  /\ Tokens \cap Statements = {}
  /\ Limits \subseteq Nat \ {0}
  /\ \A h \in Histories : h \in Seq(Transfers)
  /\ LastTick \in Nat

VARIABLES
  endpoint,  \* the endpoint of this behaviour
  history,   \* the transfers of this behaviour, in the order they are stored
  log,       \* table transactions: a set of rows, each a transfer with its id and time
  clock,
  cache,     \* Redis: key -> the answer, what was asked for and the expiry
  request,   \* the request being served
  asked      \* requests so far

vars == <<endpoint, history, log, clock, cache, request, asked>>

Idle == [phase |-> "idle"]

-----------------------------------------------------------------------------
(* Requests: the parameters a handler reads, with its default and limits.   *)

Asks(of, address, token, hours, limit, page, by) ==
  [of |-> of, address |-> address, token |-> token, hours |-> hours,
   limit |-> limit, page |-> page, by |-> by]

MaybeToken == AskedTokens \cup {None}
\* hours is parsed where it is given: "0" is not the empty string.
MaybeHours == {None, 0, 1}
\* a named period, or a number of hours that has to be positive
MaybePeriod == {None, 1}

GetTransactions == {Asks("transactions", None, t, None, l, p, None) :
                      t \in MaybeToken, l \in Limits, p \in 1 .. 2}
GetTransactionsByAddress == {Asks("transactions", a, None, None, l, 1, None) :
                      a \in AskedAddresses, l \in Limits}
GetTransactionByHash == {Asks("transaction", None, None, None, 1, n, None) : n \in 1 .. 2}
GetAddressSummary == {Asks("summary", a, None, None, 1, 1, None) : a \in AskedAddresses}
GetAddressStatistics == {Asks("statistics", a, t, h, 1, 1, None) :
                      a \in AskedAddresses, t \in MaybeToken, h \in MaybeHours}
GetAddressTrends == {Asks("trends", a, t, h, 1, 1, None) :
                      a \in AskedAddresses, t \in MaybeToken, h \in MaybePeriod}
GetAddressProfile == {Asks("profile", a, t, None, 1, 1, None) :
                      a \in AskedAddresses, t \in MaybeToken}
GetTopAddressesByVolume == {Asks("byVolume", None, t, h, l, 1, None) :
                      t \in MaybeToken, h \in MaybeHours, l \in Limits}
GetTopAddressesByFrequency == {Asks("byFrequency", None, t, h, l, 1, None) :
                      t \in MaybeToken, h \in MaybePeriod, l \in Limits}
\* the addresses a prefix matches: one of them, or all
SearchAddresses == {Asks("search", a, None, None, l, 1, None) :
                      a \in AskedAddresses \cup {None}, l \in Limits}
GetWhaleAddresses == {Asks("whales", None, t, h, l, 1, None) :
                      t \in MaybeToken, h \in MaybeHours, l \in Limits}
GetActiveTraders == {Asks("traders", None, t, h, l, m, None) :
                      t \in MaybeToken, h \in MaybeHours, l \in Limits, m \in 1 .. 2}
GetSuspiciousAddresses == {Asks("suspicious", None, t, h, l, m, None) :
                      t \in MaybeToken, h \in MaybeHours, l \in Limits, m \in 1 .. 2}
GetTopAddresses == {Asks("top", None, t, h, l, 1, b) :
                      t \in MaybeToken, h \in MaybePeriod, l \in Limits,
                      b \in {"volume", "transactions"}}
GetTopReceivers == {Asks("receivers", None, t, h, l, 1, None) :
                      t \in MaybeToken, h \in MaybePeriod, l \in Limits}
GetTopSenders == {Asks("senders", None, t, h, l, 1, None) :
                      t \in MaybeToken, h \in MaybePeriod, l \in Limits}
GetRealtimeStats == {Asks("realtime", None, t, h, 1, 1, None) :
                      t \in MaybeToken, h \in MaybePeriod}
GetDashboardStats == {Asks("dashboard", None, None, None, 1, 1, None)}
GetTokenDistribution == {Asks("distribution", None, t, None, 1, 1, None) : t \in MaybeToken}
GetNetworkStats == {Asks("network", None, t, None, 1, 1, None) : t \in MaybeToken}
GetTokenStats == {Asks("tokenStats", None, t, h, 1, 1, None) :
                      t \in MaybeToken, h \in MaybePeriod}

\* tx-analyzer's services
\* 24 hours unless dates are given
AnalyzerRealtimeStats == {Asks("analyzerRealtime", None, t, 1, 1, 1, None) :
                      t \in MaybeToken}
AnalyzerTopAddresses == {Asks("analyzerTop", None, t, h, l, 1, b) :
                      t \in MaybeToken, h \in MaybePeriod, l \in Limits,
                      b \in {"volume", "transactions"}}
AnalyzerTopReceivers == {Asks("analyzerReceivers", None, t, h, l, 1, None) :
                      t \in MaybeToken, h \in MaybePeriod, l \in Limits}
AnalyzerTopSenders == {Asks("analyzerSenders", None, t, h, l, 1, None) :
                      t \in MaybeToken, h \in MaybePeriod, l \in Limits}
AnalyzerTokenStats == {Asks("analyzerTokenStats", None, t, 1, 1, 1, None) : t \in MaybeToken}
AnalyzerDistribution == {Asks("analyzerDistribution", None, None, 1, 1, 1, None)}
AnalyzerAnomalyStats == {Asks("analyzerAnomalies", None, t, 1, 1, 1, None) : t \in MaybeToken}
AnalyzerNetworkStats == {Asks("analyzerNetwork", None, None, 1, l, 1, None) : l \in Limits}

Requests ==
  UNION {GetTransactions, GetTransactionsByAddress, GetTransactionByHash,
    GetAddressSummary, GetAddressStatistics, GetAddressTrends, GetAddressProfile,
    GetTopAddressesByVolume, GetTopAddressesByFrequency, SearchAddresses,
    GetWhaleAddresses, GetActiveTraders, GetSuspiciousAddresses, GetTopAddresses,
    GetTopReceivers, GetTopSenders, GetRealtimeStats, GetDashboardStats,
    AnalyzerRealtimeStats, AnalyzerTopAddresses, AnalyzerTopReceivers,
    AnalyzerTopSenders, GetTokenDistribution, GetNetworkStats, GetTokenStats, AnalyzerTokenStats,
    AnalyzerDistribution, AnalyzerAnomalyStats, AnalyzerNetworkStats}

-----------------------------------------------------------------------------
(* Tables and what the statements compute from them.                        *)

\* Where the window of a request made at `now` may start.  For 0 hours the statistics have no
\* window (`hours ? ... : null`); getTopAddresses asks for the time twice: two equal times make
\* no window, the later start makes an empty one.
Starts(q, now) ==
  CASE q.hours = None \/ (q.of = "statistics" /\ q.hours = 0) -> {0}
    [] q.of = "byVolume" /\ q.hours = 0 -> {0, LastTick + 1}
    [] OTHER -> {now - q.hours}

Where(l, q, since) ==
  {t \in l : (q.token = None \/ t.token = q.token) /\ t.time >= since}

Involving(l, a) == {t \in l : a = None \/ t.from = a \/ t.to = a}

Volume(l) == SumFunctionOnSet([t \in l |-> t.value], l)
SentBy(l, a) == Volume({t \in l : t.from = a})
ReceivedBy(l, a) == Volume({t \in l : t.to = a})
SendsOf(l, a) == Cardinality({t \in l : t.from = a})
ReceiptsOf(l, a) == Cardinality({t \in l : t.to = a})
OfToken(l, k) == {t \in l : t.token = k}
Odd(l) == {t \in l : t.anomaly}
Senders(l) == {t.from : t \in l}
Receivers(l) == {t.to : t \in l}
Symbols(l) == {t.token : t \in l}

\* External: address_statistics, a row per address and token, which the
\* scanner's AddressStatsCalculator keeps; its scores are taken to grow with
\* the transactions and the anomalies they stand for.
StatisticsRows(l) ==
  LET row(a, k) ==
        LET s == OfToken(Involving(l, a), k) IN
        [address |-> a, token |-> k,
         sent |-> SentBy(s, a), received |-> ReceivedBy(s, a),
         countSent |-> SendsOf(s, a), countReceived |-> ReceiptsOf(s, a),
         lastSeen |-> Max({0} \cup {t.time : t \in s}),
         velocity |-> Cardinality(s),
         risk |-> Cardinality(Odd(s))]
  IN {r \in {row(a, k) : a \in Addresses, k \in Tokens} :
        r.countSent + r.countReceived > 0}

\* SELECT ... COUNT
Totals(l) == [count |-> Cardinality(l)]

\* COUNT of getAddressStatistics: a transfer to oneself is both sent and received
TotalsBySide(l, a) == [count |-> SendsOf(l, a) + ReceiptsOf(l, a)]

ByToken(l, Of(_)) == [k \in Symbols(l) |-> Of(OfToken(l, k))]

\* Hundredths of a percent, rounded half up; of nothing there is none.
Percent(n, of) == IF of > 0 THEN (20000 * n + of) \div (2 * of) ELSE 0

\* The share of each token, by volume in tx-api and by count in tx-analyzer.
DistributionByVolume(l) ==
  ByToken(l, LAMBDA t : [volume |-> Volume(t), share |-> Percent(Volume(t), Volume(l))])
DistributionByCount(l) ==
  ByToken(l, LAMBDA t : [share |-> Percent(Cardinality(t), Cardinality(l))])

\* GROUP BY hour ORDER BY hour DESC LIMIT: the newest `most` hours with transfers
HourlyCounts(l, most) ==
  LET hours == {t.time : t \in l}
      newest == {h \in hours : Cardinality({g \in hours : g > h}) < most}
      in(h) == {t \in l : t.time = h}
  IN [h \in newest |-> [count |-> Cardinality(in(h)), odd |-> Cardinality(Odd(in(h)))]]

\* ORDER BY timestamp DESC, id DESC, with skip and take
Page(l, q) ==
  LET newer(t, u) == t.time > u.time \/ (t.time = u.time /\ t.id > u.id)
      order == SetToSortSeq(l, newer)
      skip == (q.page - 1) * q.limit
  IN [i \in 1 .. Min({q.limit, Max({0, Cardinality(l) - skip})}) |-> order[skip + i]]

-----------------------------------------------------------------------------
(* Rankings                                                                 *)

\* What an address sent and what it received: GROUP BY fromAddress, GROUP BY toAddress
SentPart(l, a) == [address |-> a, volume |-> SentBy(l, a), count |-> SendsOf(l, a)]
ReceivedPart(l, a) ==
  [address |-> a, volume |-> ReceivedBy(l, a), count |-> ReceiptsOf(l, a)]

\* A half of a ranking.  Most have columns <<sent, received>> besides, 0 on the other side.
Half(row, side, kinds) ==
  [row |-> row,
   columns |-> [k \in kinds |-> IF side = "sent" THEN <<row[k], 0>> ELSE <<0, row[k]>>]]

SentHalves(l, kinds) == {Half(SentPart(l, a), "sent", kinds) : a \in Senders(l)}
ReceivedHalves(l, kinds) == {Half(ReceivedPart(l, a), "received", kinds) : a \in Receivers(l)}

\* Mutant: UNION, which keeps one of two equal halves.
Union(sent, received) ==
  {<<"half", h>> : h \in sent} \cup {<<"half", h>> : h \in received}

UnionAll(sent, received) ==
  {<<"sent", h>> : h \in sent} \cup {<<"received", h>> : h \in received}

\* GROUP BY address over the halves
Combined(l, kinds) ==
  LET parts == UnionAll(SentHalves(l, kinds), ReceivedHalves(l, kinds))
      of(a) == {p \in parts : p[2].row.address = a}
  IN {[address |-> a,
       volume |-> SumFunctionOnSet([p \in of(a) |-> p[2].row.volume], of(a)),
       count |-> SumFunctionOnSet([p \in of(a) |-> p[2].row.count], of(a))] :
        a \in Senders(l) \cup Receivers(l)}

RowsOf(rows, q, since) ==
  {r \in rows : (q.token = None \/ r.token = q.token) /\ r.lastSeen >= since}

\* The query of each ranking service: its rows before LIMIT, and the columns
\* of its ORDER BY, all DESC.  Left out: isActive, which holds of every row,
\* isSuspicious, which goes with the risk, and the ranking of tx-analyzer by
\* the number of tokens.
TopAddressesByVolume(w) ==
  [rows |-> {c \in Combined(w, {"volume"}) : c.volume > 0 /\ c.count >= 1},
   orderBy |-> <<"volume">>]
TopAddressesByFrequency(w) ==
  [rows |-> {c \in Combined(w, {"volume"}) : c.count >= 1 /\ c.volume > 0},
   orderBy |-> <<"count", "volume">>]
AddressSearch(w, a) ==
  [rows |-> {c \in Combined(w, {}) : a \in {None, c.address}},
   orderBy |-> <<"count", "volume">>]
ByMetric(metric) == <<IF metric = "volume" THEN "volume" ELSE "count">>
TopAddresses(w, metric) ==
  [rows |-> Combined(w, {"volume", "count"}), orderBy |-> ByMetric(metric)]
TopReceivers(w) == [rows |-> {ReceivedPart(w, a) : a \in Receivers(w)}, orderBy |-> <<"count">>]
TopSenders(w) == [rows |-> {SentPart(w, a) : a \in Senders(w)}, orderBy |-> <<"count">>]
AnalyzerTop(w, metric) == [rows |-> Combined(w, {"volume"}), orderBy |-> ByMetric(metric)]
AnalyzerReceivers(w) == TopReceivers(w)
AnalyzerSenders(w) == TopSenders(w)
WhaleAddresses(rows) == [rows |-> rows, orderBy |-> <<"sent", "received">>]
ActiveTraders(rows, least) ==
  [rows |-> {r \in rows : r.countSent >= least \/ r.countReceived >= least},
   orderBy |-> <<"velocity", "countSent", "countReceived">>]
SuspiciousAddresses(rows, least) ==
  [rows |-> {r \in rows : r.risk >= least}, orderBy |-> <<"risk", "sent", "received">>]

RankingQuery(q, l, rows, since) ==
  LET w == Where(l, q, since)
      recent == RowsOf(rows, q, since)
  IN CASE q.of = "byVolume" -> TopAddressesByVolume(w)
       [] q.of = "byFrequency" -> TopAddressesByFrequency(w)
       [] q.of = "search" -> AddressSearch(w, q.address)
       [] q.of = "top" -> TopAddresses(w, q.by)
       [] q.of = "receivers" -> TopReceivers(w)
       [] q.of = "senders" -> TopSenders(w)
       [] q.of = "analyzerTop" -> AnalyzerTop(w, q.by)
       [] q.of = "analyzerReceivers" -> AnalyzerReceivers(w)
       [] q.of = "analyzerSenders" -> AnalyzerSenders(w)
       [] q.of = "whales" -> WhaleAddresses(recent)
       [] q.of = "traders" -> ActiveTraders(recent, q.page)
       [] q.of = "suspicious" -> SuspiciousAddresses(recent, q.page)

\* ORDER BY
Above(r, s, orderBy) ==
  \E i \in DOMAIN orderBy : /\ r[orderBy[i]] > s[orderBy[i]]
                            /\ \A j \in 1 .. i - 1 : r[orderBy[j]] = s[orderBy[j]]

\* Every list ORDER BY and LIMIT may give: equal keys come in any order.
Rankings(query, limit) ==
  LET ordered(s) == \A i, j \in DOMAIN s : i < j => ~Above(s[j], s[i], query.orderBy)
      take(s) == SubSeq(s, 1, Min({limit, Len(s)}))
  IN {take(s) : s \in {o \in SetToSeqs(query.rows) : ordered(o)}}

-----------------------------------------------------------------------------
(* The statements of a request: `Plan` lists the stages, each a set of      *)
(* statements that run at once; `done` holds what those so far returned.    *)

\* Mutant: the rows of the page are read before they are counted.
PageBeforeCount == <<{"page"}, {"count"}>>

PagePlan == <<{"count"}, {"page"}>>

\* Mutant: the parts are read before the whole.
TokensBeforeTotal == <<{"tokens"}, {"total"}>>

\* COUNT(*) comes as a BigInt and is compared with the number 0: the answer
\* for no transactions is not null.
SummaryPlan == <<{"total"}, {"tokens"}>>

StatisticsPlan(done) ==
  CASE "rows" \in DOMAIN done /\ done["rows"] # {} -> <<{"rows"}, StatisticsFigures>>
    [] "total" \in DOMAIN done /\ done["total"].count = 0 -> <<{"rows"}, {"total"}>>
    [] OTHER -> <<{"rows"}, {"total"}, {"tokens"}, StatisticsFigures>>

ProfilePlan(done) ==
  IF "rows" \in DOMAIN done /\ done["rows"] = {}
    THEN <<{"rows"}>> ELSE <<{"rows"}, {"volumes"}, {"frequencies"}, {"rank"}>>

AnalyzerRankingPlan(done) ==
  IF "ranking" \in DOMAIN done /\ done["ranking"].list = <<>>
    THEN <<{"ranking"}>> ELSE <<{"ranking"}, LabelFigures>>

RealtimePlan == <<{"total", "tokens"} \cup RealtimeFigures>>
AnalyzerRealtimePlan == <<{"total", "tokens"} \cup AnalyzerRealtimeFigures>>
DashboardPlan == <<{"total"} \cup DashboardFigures \cup Tokens>>
AnalyzerAnomalyPlan == <<{"odd", "hours"} \cup AnomalyFigures>>
AnalyzerNetworkPlan == <<{"total", "hours"}>>

Plan(q, done) ==
  CASE q.of = "transactions" -> PagePlan
    [] q.of = "transaction" -> <<{"row"}>>
    [] q.of = "summary" -> SummaryPlan
    [] q.of = "statistics" -> StatisticsPlan(done)
    [] q.of = "trends" -> <<TrendFigures>>
    [] q.of = "profile" -> ProfilePlan(done)
    [] q.of = "realtime" -> RealtimePlan
    [] q.of = "analyzerRealtime" -> AnalyzerRealtimePlan
    [] q.of = "dashboard" -> DashboardPlan
    [] q.of \in {"distribution", "analyzerDistribution"} -> <<{"tokens"}>>
    [] q.of = "tokenStats" -> <<TokenFigures>>
    [] q.of = "analyzerTokenStats" -> <<AnalyzerTokenFigures>>
    [] q.of = "network" -> <<NetworkFigures>>
    [] q.of = "analyzerAnomalies" -> AnalyzerAnomalyPlan
    [] q.of = "analyzerNetwork" -> AnalyzerNetworkPlan
    [] q.of \in {"analyzerTop", "analyzerReceivers", "analyzerSenders"} ->
         AnalyzerRankingPlan(done)
    [] OTHER -> <<{"ranking"}>>

Pending(q, done) ==
  LET plan == Plan(q, done)
      open == {i \in DOMAIN plan : ~(plan[i] \subseteq DOMAIN done)}
  IN IF open = {} THEN {} ELSE plan[Min(open)] \ DOMAIN done

\* The parts of an answer that come as one row per token
TokenParts(q, w, mine) ==
  CASE q.of = "statistics" -> ByToken(mine, LAMBDA t : TotalsBySide(t, q.address))
    [] q.of = "distribution" -> DistributionByVolume(w)
    [] q.of = "analyzerDistribution" -> DistributionByCount(w)
    [] OTHER -> ByToken(mine, Totals)

\* The whole: of the table for the dashboard, by side for an address's statistics
Total(q, l, mine) ==
  CASE q.of = "statistics" -> TotalsBySide(mine, q.address)
    [] q.of = "dashboard" -> Totals(l)
    [] OTHER -> Totals(mine)

\* One element of getTokenSpecificStats
DashboardToken(l, k) == Totals(OfToken(l, k))

\* The rows of address_statistics an address has: getAddressStatistics takes all, and none
\* where hours are asked for
OwnRows(q, rows) ==
  {r \in rows : /\ r.address = q.address
                /\ q.of = "profile" => q.token \in {None, r.token}
                /\ q.of = "statistics" => q.hours \in {None, 0}}

\* What a statement may return over the tables as they are.
Results(q, s, l, since) ==
  LET rows == StatisticsRows({t \in l : ~t.imported})
      w == Where(l, q, since)
      mine == Involving(w, q.address)
  IN CASE s \in Figures -> {None}
       [] s = "count" -> {Cardinality(mine)}
       [] s = "page" -> {Page(mine, q)}
       [] s = "row" -> {IF \E t \in l : t.id = q.page
                          THEN CHOOSE t \in l : t.id = q.page ELSE None}
       [] s = "total" -> {Total(q, l, mine)}
       [] s = "tokens" -> {TokenParts(q, w, mine)}
       [] s = "odd" -> {Cardinality(Odd(w))}
       [] s = "hours" -> {HourlyCounts(w, q.limit)}
       [] s = "rows" -> {OwnRows(q, rows)}
       [] s = "ranking" ->
            LET query == RankingQuery(q, l, rows, since)
            IN {[list |-> r, read |-> w, orderBy |-> query.orderBy] :
                  r \in Rankings(query, q.limit)}
       [] OTHER -> {DashboardToken(l, s)}

-----------------------------------------------------------------------------
(* The cache, and one request at a time                                     *)

\* Mutant: the token is left out.
KeyWithoutToken(q) == <<q.of, q.address, q.hours, q.limit, q.page, q.by>>

\* `hours || 'all'` takes 0 for no hours.
HoursOrAll(q) == IF q.hours = 0 THEN None ELSE q.hours

Key(q) ==
  CASE q.of \in {"transaction"} -> <<q.of, q.page>>
    [] q.of = "summary" -> <<q.of, q.address>>
    [] q.of = "profile" -> <<q.of, q.address, q.token>>
    [] q.of = "statistics" -> <<q.of, q.address, HoursOrAll(q), q.token>>
    [] q.of = "trends" -> <<q.of, q.address, q.hours, q.token>>
    [] q.of = "search" -> <<q.of, q.address, q.limit>>
    [] q.of = "transactions" -> <<q.of, q.address, q.token, q.limit, q.page>>
    [] q.of = "whales" -> <<q.of, q.token, q.limit, HoursOrAll(q)>>
    [] q.of \in {"traders", "suspicious"} ->
         <<q.of, q.token, q.limit, q.page, HoursOrAll(q)>>
    [] q.of \in {"byVolume", "byFrequency", "analyzerReceivers", "analyzerSenders"} ->
         <<q.of, q.token, q.limit, q.hours>>
    [] q.of = "analyzerTop" -> <<q.of, q.by, q.hours, q.token, q.limit>>
    [] q.of = "analyzerRealtime" -> <<q.of, q.token>>
    [] q.of = "dashboard" -> <<q.of>>

IsCached(q) ==
  /\ q.of \notin {"top", "receivers", "senders", "realtime", "distribution", "network",
                  "tokenStats", "analyzerTokenStats", "analyzerDistribution",
                  "analyzerAnomalies", "analyzerNetwork"}
  /\ q.of \in {"analyzerTop", "analyzerReceivers", "analyzerSenders"} => q.hours # None

\* The answer is null and is not kept.
IsNull(q, done) ==
  \/ q.of = "transaction" /\ done["row"] = None
  \/ q.of = "profile" /\ done["rows"] = {}
  \/ q.of = "statistics" /\ done["rows"] = {} /\ done["total"].count = 0

\* SUM over no rows is NULL, whose toString() throws.
Throws(q, done) == q.of \in {"summary", "realtime"} /\ done["total"].count = 0

\* The entry a service may be given.
Lookup(q) == IsCached(q) /\ Key(q) \in DOMAIN cache

\* f, with v at x
With(f, x, v) == [y \in DOMAIN f \cup {x} |-> IF y = x THEN v ELSE f[y]]

Init ==
  /\ endpoint \in Endpoints
  /\ history \in Histories
  /\ log = {} /\ clock = 0
  /\ cache = <<>>
  /\ request = Idle
  /\ asked = 0

\* External: a transaction is stored, of this block or one before, by the
\* scanner with its statistics or by an import without.
Save ==
  /\ Cardinality(log) < Len(history)
  /\ \E time \in {clock - 1, clock} \cap Nat :
       LET n == Cardinality(log) + 1
           t == history[n]
       IN log' = log \cup {[id |-> n, time |-> time, from |-> t.from, to |-> t.to,
                            token |-> t.token, value |-> t.value, anomaly |-> t.anomaly,
                            imported |-> t.imported]}
  /\ UNCHANGED <<endpoint, history, clock, cache, request, asked>>

\* Time passes; entries of Redis expire after a tick (external).
Tick ==
  /\ clock < LastTick
  /\ clock' = clock + 1
  /\ cache' = Restrict(cache, {k \in DOMAIN cache : cache[k].expires > clock'})
  /\ UNCHANGED <<endpoint, history, log, request, asked>>

\* The handler calls the service, which looks in the cache first.  A lookup
\* that fails counts as a miss.
Ask(q) ==
  /\ request.phase = "idle" /\ asked < MaxRequests
  /\ asked' = asked + 1
  /\ \/ /\ Lookup(q)
        /\ request' = [phase |-> "served", ask |-> q, entry |-> cache[Key(q)]]
     \/ \E since \in Starts(q, clock) :
          request' = [phase |-> "reading", ask |-> q, since |-> since,
                      begin |-> Cardinality(log), done |-> <<>>, failed |-> FALSE,
                      keep |-> IsCached(q)]
  /\ UNCHANGED <<endpoint, history, log, clock, cache>>

\* One statement returns.
Read(s) ==
  /\ request.phase = "reading"
  /\ s \in Pending(request.ask, request.done)
  /\ \E v \in Results(request.ask, s, log, request.since) :
       request' = [request EXCEPT !.done = With(@, s, v)]
  /\ UNCHANGED <<endpoint, history, log, clock, cache, asked>>

\* A statement throws: the dashboard statistics take 0 for it, tx-analyzer's
\* real-time statistics are computed once more, other requests fail.  A profile
\* takes a default instead, which is as good as an answer here.
Fail(s) ==
  /\ request.phase = "reading"
  /\ s \in Pending(request.ask, request.done) \ ProfileFigures
  /\ request' =
       CASE request.ask.of = "dashboard" ->
              [request EXCEPT !.done = With(@, s, None), !.failed = TRUE]
         [] request.ask.of = "analyzerRealtime" /\ request.keep ->
              [request EXCEPT !.done = <<>>, !.keep = FALSE]
         [] OTHER -> Idle
  /\ UNCHANGED <<endpoint, history, log, clock, cache, asked>>

IsComplete == request.phase = "reading" /\ Pending(request.ask, request.done) = {}

\* The answer is sent; its entry is written unless Redis fails.
Finish ==
  /\ IsComplete
  /\ request' = Idle
  /\ \/ /\ request.keep
        /\ ~IsNull(request.ask, request.done) /\ ~Throws(request.ask, request.done)
        /\ cache' = With(cache, Key(request.ask), [ask |-> request.ask, expires |-> clock + 1])
     \/ UNCHANGED cache
  /\ UNCHANGED <<endpoint, history, log, clock, asked>>

\* An answer from the cache is sent.
Serve ==
  /\ request.phase = "served"
  /\ request' = Idle
  /\ UNCHANGED <<endpoint, history, log, clock, cache, asked>>

\* deleteByPattern: the keys found by one SCAN are deleted, others may be left for the next.
DeleteByPattern ==
  /\ \E keys \in (SUBSET DOMAIN cache) \ {{}} : cache' = Restrict(cache, DOMAIN cache \ keys)
  /\ UNCHANGED <<endpoint, history, log, clock, request, asked>>

\* The cache controller; the services and the scanner share one database.
PurgeAddressCache ==
  /\ endpoint \in {"byVolume", "byFrequency", "search", "statistics", "profile", "whales",
                   "traders", "suspicious", "trends"}
  /\ DeleteByPattern
PurgeTransactionCache ==
  endpoint \in {"transactions", "transaction", "summary"} /\ DeleteByPattern
PurgeByPattern == DeleteByPattern
PurgeAllCache ==
  /\ cache # <<>> /\ cache' = <<>>
  /\ UNCHANGED <<endpoint, history, log, clock, request, asked>>

Done ==
  /\ request.phase = "idle" /\ asked = MaxRequests
  /\ UNCHANGED vars

Next ==
  \/ Save \/ Tick
  \/ \E q \in {r \in Requests : r.of = endpoint} : Ask(q)
  \/ request.phase = "reading" /\
       \E s \in Pending(request.ask, request.done) : Read(s) \/ Fail(s)
  \/ Finish \/ Serve
  \/ PurgeAddressCache \/ PurgeTransactionCache \/ PurgeByPattern \/ PurgeAllCache
  \/ Done

Spec == Init /\ [][Next]_vars

-----------------------------------------------------------------------------
(* Properties of an answer that is about to be sent, or that the cache gave. *)

\* A page of transactions holds as many rows as its own total promises for
\* it: totals may lag behind rows, rows never behind the total
\* (TransactionService.getTransactions).
PageIsFull ==
  IsComplete /\ request.ask.of = "transactions" =>
    LET q == request.ask IN
    Len(request.done["page"]) >=
      Min({q.limit, Max({0, request.done["count"] - (q.page - 1) * q.limit})})

Abs(n) == IF n < 0 THEN -n ELSE n
CountsOf(parts) == SumFunctionOnSet([k \in DOMAIN parts |-> parts[k].count], DOMAIN parts)

\* The total of an answer and the sum of its parts differ by no more than the
\* transfers stored while it was put together, and where the total is read
\* first the parts never fall short of it (getAddressTransactionSummary,
\* getAddressStatistics, both getRealtimeStats, getDashboardStats, tx-analyzer's
\* getAnomalyStats and getNetworkStats, whose hours may leave out older ones but
\* never hold more); shares add up to a hundred (both getTokenDistribution).
PartsAgree ==
  IsComplete /\ ~request.failed =>
    LET q == request.ask
        done == request.done
        stored == Cardinality(log) - request.begin
        gap(sum) == sum - done["total"].count
        \* a transfer to oneself counts on both sides
        sides == IF q.of = "statistics" THEN 2 ELSE 1
    IN CASE q.of \in {"summary", "statistics"} /\ {"total", "tokens"} \subseteq DOMAIN done ->
              gap(CountsOf(done["tokens"])) \in 0 .. sides * stored
         [] q.of \in {"realtime", "analyzerRealtime"} ->
              gap(CountsOf(done["tokens"])) \in -stored .. stored
         [] q.of = "dashboard" ->
              gap(SumFunctionOnSet([k \in Tokens |-> done[k].count], Tokens))
                \in -stored .. stored
         [] q.of = "analyzerAnomalies" ->
              LET hours == done["hours"]
              IN SumFunctionOnSet([h \in DOMAIN hours |-> hours[h].odd], DOMAIN hours)
                   =< done["odd"] + stored
         [] q.of = "analyzerNetwork" -> gap(CountsOf(done["hours"])) =< stored
         [] q.of \in {"distribution", "analyzerDistribution"} ->
              LET parts == done["tokens"]
                  sum == SumFunctionOnSet([k \in DOMAIN parts |-> parts[k].share], DOMAIN parts)
                  \* there is something to share
                  some == IF q.of = "distribution"
                            THEN \E k \in DOMAIN parts : parts[k].volume > 0
                            ELSE DOMAIN parts # {}
              IN some => Abs(sum - 10000) =< Cardinality(DOMAIN parts)
         [] OTHER -> TRUE

\* What a ranking over transfers should say of an address.
Moved(q, l, a) ==
  LET out == q.of \notin {"receivers", "analyzerReceivers"}
      in == q.of \notin {"senders", "analyzerSenders"}
      share(t, n) == (IF out /\ t.from = a THEN n ELSE 0) +
                     (IF in /\ t.to = a THEN n ELSE 0)
  IN [address |-> a,
      volume |-> SumFunctionOnSet([t \in l |-> share(t, t.value)], l),
      count |-> SumFunctionOnSet([t \in l |-> share(t, 1)], l)]

OverTransfers == {"byVolume", "byFrequency", "search", "top", "receivers", "senders",
  "analyzerTop", "analyzerReceivers", "analyzerSenders"}

\* A ranking computed by UNION ALL of both sides names no address twice, gives
\* each what it moved, a transfer to oneself included, and leaves out nobody
\* who belongs above its last row (getTopAddresses and its kin).
RankingIsRight ==
  IsComplete /\ request.ask.of \in OverTransfers =>
    LET q == request.ask
        list == request.done["ranking"].list
        read == request.done["ranking"].read
        listed == {list[i].address : i \in DOMAIN list}
    IN /\ Cardinality(listed) = Len(list)
       /\ \A i \in DOMAIN list : list[i] = Moved(q, read, list[i].address)
       /\ list # <<>> =>
            \A a \in (IF q.of = "search" /\ q.address # None
                        THEN {q.address} ELSE Addresses) \ listed :
              (q.of = "byFrequency" => Moved(q, read, a).volume > 0) =>
                ~Above(Moved(q, read, a), list[Len(list)], request.done["ranking"].orderBy)

\* Two requests of address statistics with 0 hours and with none are the same question.
Question(q) == IF q.of = "statistics" THEN [q EXCEPT !.hours = HoursOrAll(q)] ELSE q

\* Whales, traders and suspicious addresses of 0 hours are kept with those of any time.
ZeroHoursMixed(q, r) ==
  /\ q.of \in {"whales", "traders", "suspicious"}
  /\ {q.hours, r.hours} = {0, None}
  /\ r = [q EXCEPT !.hours = r.hours]

SameQuestion(q, r) == Question(r) = Question(q) \/ ZeroHoursMixed(q, r)

\* What the cache gives was computed for the same question (the cacheKey of
\* each service method), but for the three lists that take `hours || 'all'`.
ServedIsAsked ==
  request.phase = "served" => SameQuestion(request.ask, request.entry.ask)

\* "Add time-based filtering if hours is provided" (getWhaleAddresses): an
\* answer given to a request with hours was filtered by hours.
HoursAreApplied ==
  request.phase = "served" /\ request.ask.of = "whales" /\ request.ask.hours # None
    => request.entry.ask.hours # None

=============================================================================
