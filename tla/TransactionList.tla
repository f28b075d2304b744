--------------------------- MODULE TransactionList ---------------------------
(***************************************************************************)
(* The live transaction list: TransactionContext of the dashboard, the     *)
(* cursor pages of tx-api's TransactionService and the Redis entries       *)
(* between them, over a table that grows while pages are asked for.        *)
(*                                                                         *)
(* A row is named by its id, which stands for its hash too (both are       *)
(* unique).  Requests are answered in any order, from the cache or by a    *)
(* query; new rows also reach the list as messages of the WebSocket.       *)
(***************************************************************************)
EXTENDS Integers, Sequences, FiniteSets, SequencesExt

CONSTANTS
  Rows,            \* the rows the scanner stores, in order: [token, from, to, odd]
  Tokens,          \* FILTER_TOKENS
  Searches,        \* the other filters: [term, odd], odd for showAnomalies
  NoTerm,          \* the empty search
  PageSize,        \* the 50 of a request
  MaxRecent,       \* the 50 kept by ADD_TRANSACTION in recentTransactions
  MaxKept,         \* the 1000 it keeps in transactions
  MaxRequests      \* bound: requests made

ASSUME FilterAssumption == [term |-> NoTerm, odd |-> FALSE] \in Searches
\* The scanner watches the tokens that the page lets one select.
ASSUME TokenAssumption == \A i \in 1..Len(Rows) : Rows[i].token \in Tokens
ASSUME SizeAssumption == /\ {PageSize, MaxRecent, MaxKept, Len(Rows)} \subseteq Nat \ {0}
                         /\ MaxRecent =< MaxKept

VARIABLES
  stored,        \* how many of the rows are in the table; an id is a row's place
  redis,         \* transactions_cursor:*, a set of [ask, answer]
  requests,      \* those in flight: [no, kind, ask, at, answer]
  issued,        \* how many were made
  feed,          \* messages of the WebSocket not yet delivered
  transactions, recent,         \* the lists of the reducer, newest first
  filters, hasMore, lastId,     \* lastTransactionId, 0 for null
  isInitialLoad, isLoading,
  base,          \* history: the last first page applied: [no, filters, upTo]
  whole,         \* history: every page since continued it
  heard,         \* history: messages delivered since
  overtaken      \* history: the tokens were last reloaded out of turn

server == <<stored, redis, feed>>
list   == <<transactions, recent, hasMore, lastId>>
history == <<base, whole, heard, overtaken>>
vars == <<server, requests, issued, list, filters, isInitialLoad, isLoading, history>>

NoAnswer == [ids |-> <<>>, hasNext |-> FALSE, upTo |-> 0]
Filters  == {[tokens |-> T, term |-> s.term, odd |-> s.odd] :
               T \in SUBSET Tokens \ {Tokens}, s \in Searches}
-----------------------------------------------------------------------------
(* The server's reading of a filter.  No token stands for all of them.     *)

\* convertFiltersForAPI: the term is taken for a whole address, at either end
ApiFilters(f) == [token |-> f.tokens, from |-> f.term, to |-> f.term, odd |-> f.odd]

\* buildPrismaWhereClause: one address at both ends means at either
Selects(q, row) ==
  /\ q.token # {} => row.token \in q.token
  /\ q.odd => row.odd
  /\ IF q.from = q.to
     THEN q.from # NoTerm => q.from \in {row.from, row.to}
     ELSE (q.from # NoTerm => row.from = q.from) /\ (q.to # NoTerm => row.to = q.to)

\* SET_TOKEN_FILTER with all tokens is turned into the one with none.
Canonical(tokens) == IF tokens = Tokens THEN {} ELSE tokens

\* updateUrlFromFilters leaves the default tokens out, parseFiltersFromUrl puts them in.
UrlTokens(tokens) == IF tokens \in {{}, Tokens} THEN {} ELSE tokens
FromUrl(param)    == IF param = {} THEN Tokens ELSE param

\* parseFiltersFromUrl: the first request names every token, no later one does.
InUrl(f)  == [f EXCEPT !.tokens = FromUrl(UrlTokens(f.tokens))]
OutUrl(f) == [f EXCEPT !.tokens = Canonical(f.tokens)]
AsOne(q)  == [q EXCEPT !.token = Canonical(q.token)]   \* the two forms, as one

Matching(f, S) == {i \in S : Selects(f, Rows[i])}

\* The place of a row in the descending order of S.
Place(i, S) == Cardinality({j \in S : j >= i})

\* The n largest of S, in descending order.
Newest(S, n) ==
  [k \in 1..(IF Cardinality(S) < n THEN Cardinality(S) ELSE n) |-> CHOOSE i \in S : Place(i, S) = k]

\* Mutant: no extra record is fetched.
FullPage(rows, size) == [ids |-> Newest(rows, size), hasNext |-> Cardinality(rows) >= size]

\* One record more than the page tells whether there are more.
Page(rows, size) == [ids |-> Newest(rows, size), hasNext |-> Cardinality(rows) > size]

\* where.id
BeyondCursor(ask) == {i \in 1..stored : ask.after > 0 => i < ask.after}

\* getTransactionsCursor, the answer of the database.
CursorPage(ask) ==
  LET p == Page(Matching(ask.filters, BeyondCursor(ask)), PageSize)
  IN [ids |-> p.ids, hasNext |-> p.hasNext, upTo |-> stored]
-----------------------------------------------------------------------------
NewRequest(kind, f, after) ==
  [no |-> issued + 1, kind |-> kind, ask |-> [filters |-> ApiFilters(f), after |-> after],
   at |-> "sent", answer |-> NoAnswer]

Send(kind, f, after) ==
  /\ issued < MaxRequests
  /\ requests' = requests \union {NewRequest(kind, f, after)} /\ issued' = issued + 1
  /\ isLoading' = TRUE

NoBase(f) == [no |-> 0, filters |-> ApiFilters(f), upTo |-> 0]

\* The page is opened with the filters of its URL and asks for the first rows.
Fresh(f) ==
  /\ transactions' = <<>> /\ recent' = <<>> /\ hasMore' = TRUE /\ lastId' = 0
  /\ filters' = f /\ isInitialLoad' = TRUE
  /\ base' = NoBase(f) /\ whole' = FALSE /\ heard' = {} /\ overtaken' = FALSE

Init ==
  /\ stored = 1 /\ redis = {} /\ feed = <<>>
  /\ filters = [tokens |-> {}, term |-> NoTerm, odd |-> FALSE]
  /\ requests = {[no |-> 1, kind |-> "load",
                  ask |-> [filters |-> ApiFilters(InUrl(filters)), after |-> 0],
                  at |-> "sent", answer |-> NoAnswer]}
  /\ issued = 1
  /\ transactions = <<>> /\ recent = <<>> /\ hasMore = TRUE /\ lastId = 0
  /\ isInitialLoad = TRUE /\ isLoading = TRUE
  /\ base = NoBase(filters) /\ whole = FALSE /\ heard = {} /\ overtaken = FALSE

\* The scanner stores a row, then broadcasts it.
Save ==
  /\ stored < Len(Rows) /\ stored' = stored + 1 /\ feed' = Append(feed, stored')
  /\ UNCHANGED <<redis, requests, issued, list, filters, isInitialLoad, isLoading, history>>

Disconnect ==
  /\ feed # <<>> /\ feed' = <<>>
  /\ UNCHANGED <<stored, redis, requests, issued, list, filters, isInitialLoad, isLoading, history>>

Advance(r, at, answer) ==
  requests' = (requests \ {r}) \union {[r EXCEPT !.at = at, !.answer = answer]}

page == <<issued, list, filters, isInitialLoad, isLoading, history>>

\* A cached answer, or, when there is none, it is older than 30 seconds or Redis
\* fails, one of the database.
Lookup(r) ==
  /\ r.at = "sent"
  /\ \E e \in redis : e.ask = r.ask /\ Advance(r, "answered", e.answer)
  /\ UNCHANGED <<server, page>>

Query(r) ==
  /\ r.at = "sent" /\ Advance(r, "read", CursorPage(r.ask))
  /\ UNCHANGED <<server, page>>

\* The entry replaces another of its key; a failure to store it is ignored.
Store(r) ==
  /\ r.at = "read" /\ Advance(r, "answered", r.answer)
  /\ redis' \in {redis, {e \in redis : e.ask # r.ask} \union {[ask |-> r.ask, answer |-> r.answer]}}
  /\ UNCHANGED <<stored, feed, page>>
-----------------------------------------------------------------------------
(* The reducer.                                                            *)

FirstOf(s, n) == SubSeq(s, 1, IF Len(s) < n THEN Len(s) ELSE n)

IsDuplicate(id) == id \in ToSet(transactions)

\* ADD_TRANSACTION
Deliver ==
  /\ feed # <<>> /\ feed' = Tail(feed)
  /\ heard' = IF whole THEN heard \union {Head(feed)} ELSE {}
  /\ IF IsDuplicate(Head(feed))
     THEN UNCHANGED <<transactions, recent, whole>>
     ELSE /\ transactions' = FirstOf(<<Head(feed)>> \o transactions, MaxKept)
          /\ recent' = FirstOf(<<Head(feed)>> \o recent, MaxRecent)
          /\ whole' = (whole /\ Len(transactions) < MaxKept)
  /\ UNCHANGED <<stored, redis, requests, issued, hasMore, lastId, filters, isInitialLoad,
                 isLoading, base, overtaken>>

\* SET_ERROR of an error message: nothing is loading any more.
ErrorMessage ==
  /\ isLoading /\ isLoading' = FALSE
  /\ UNCHANGED <<server, requests, issued, list, filters, isInitialLoad, history>>

LastOr(s, otherwise) == IF s = <<>> THEN otherwise ELSE Last(s)

\* SET_INITIAL_DATA, without a total.  The tokens are reloaded out of turn when
\* a later answer was there before, or they changed under the first load.
ApplyLoad(r) ==
  /\ r.kind = "load" /\ r.at = "answered"
  /\ transactions' = r.answer.ids /\ recent' = FirstOf(r.answer.ids, MaxRecent)
  /\ hasMore' = r.answer.hasNext /\ lastId' = LastOr(r.answer.ids, 0)
  /\ isInitialLoad' = FALSE /\ isLoading' = FALSE /\ requests' = requests \ {r}
  /\ base' = [no |-> r.no, filters |-> AsOne(r.ask.filters), upTo |-> r.answer.upTo]
  /\ whole' = TRUE /\ heard' = {}
  /\ overtaken' = \/ overtaken \/ r.no < base.no
                  \/ isInitialLoad /\ Canonical(r.ask.filters.token) # filters.tokens
  /\ UNCHANGED <<server, issued, filters>>

\* Mutant: rows are appended as they come.
AllRows(ids) == ids

\* The rows of a page, newest first, that the list has not.
NewRows(ids) == Newest(ToSet(ids) \ ToSet(transactions), Len(ids))

\* LOAD_MORE_DATA
ApplyMore(r) ==
  /\ r.kind = "more" /\ r.at = "answered"
  /\ transactions' = transactions \o NewRows(r.answer.ids) /\ recent' = transactions'
  /\ hasMore' = r.answer.hasNext /\ lastId' = LastOr(r.answer.ids, lastId)
  /\ isLoading' = FALSE /\ requests' = requests \ {r}
  /\ whole' = (whole /\ r.ask = [filters |-> base.filters, after |-> lastId])
  /\ UNCHANGED <<server, issued, filters, isInitialLoad, base, heard, overtaken>>

\* Mutant: a failure to load more leaves the button busy.
BusyAfter(r) == r.kind = "more"

LoadingAfter(r) == FALSE

\* An error, or the 10 seconds in which an answer has to begin (the timer is cleared
\* before the body is read, whose own failure is an error too); a list that was asked for stays as it was.
Fail(r) ==
  /\ requests' = requests \ {r} /\ isLoading' = LoadingAfter(r) /\ isInitialLoad' = FALSE
  /\ overtaken' = (overtaken \/ r.kind = "load")
  /\ UNCHANGED <<server, issued, list, filters, base, whole, heard>>

\* Mutant: the new tokens do not reload a list that is loading.
UnlessLoading(f) ==
  IF isInitialLoad \/ isLoading
  THEN UNCHANGED <<requests, issued, isLoading, overtaken>>
  ELSE Send("load", f, 0) /\ overtaken' = FALSE

\* The effect on the tokens; not before the first load has ended.
Reload(f) ==
  IF isInitialLoad
  THEN UNCHANGED <<requests, issued, isLoading, overtaken>>
  ELSE Send("load", f, 0) /\ overtaken' = FALSE

\* toggleTokenFilter
Toggle(token) ==
  LET tokens == IF token \in filters.tokens THEN filters.tokens \ {token}
                                            ELSE filters.tokens \union {token}
      f == [filters EXCEPT !.tokens = Canonical(tokens)]
  IN /\ filters' = f /\ Reload(f)
     /\ UNCHANGED <<server, list, isInitialLoad, base, whole, heard>>

ToggleAll ==
  /\ filters' = [filters EXCEPT !.tokens = {}] /\ Reload(filters')
  /\ UNCHANGED <<server, list, isInitialLoad, base, whole, heard>>

\* updateFilters and toggleAnomalies: only what is shown changes.
Refine(f) ==
  /\ f.tokens = filters.tokens /\ f # filters /\ filters' = f
  /\ UNCHANGED <<server, requests, issued, list, isInitialLoad, isLoading, history>>

LoadMore ==
  /\ ~isLoading /\ hasMore /\ lastId > 0
  /\ Send("more", filters, lastId)
  /\ UNCHANGED <<server, list, filters, isInitialLoad, history>>

\* The browser loads the page anew: only the URL is left of it.
OpenAgain ==
  /\ issued < MaxRequests
  /\ Fresh(OutUrl(InUrl(filters)))
  /\ requests' = {NewRequest("load", InUrl(filters), 0)} /\ issued' = issued + 1 /\ isLoading' = TRUE
  /\ feed' = <<>>
  /\ UNCHANGED <<stored, redis>>
-----------------------------------------------------------------------------
Serve(r) == Lookup(r) \/ Query(r) \/ Store(r)
Receive(r) == ApplyLoad(r) \/ ApplyMore(r)

Next ==
  \/ Save \/ Disconnect \/ Deliver \/ ErrorMessage
  \/ \E r \in requests : Serve(r) \/ Receive(r) \/ Fail(r)
  \/ \E t \in Tokens : Toggle(t)
  \/ ToggleAll \/ LoadMore \/ OpenAgain
  \/ \E f \in Filters : Refine(f)

\* The server answers or the request times out, and a body that has begun ends, for
\* which the page has no timer: the network is taken to finish or break it.
Fairness == WF_vars(\E r \in requests : Serve(r) \/ Receive(r) \/ Fail(r))

Spec == Init /\ [][Next]_vars /\ Fairness
-----------------------------------------------------------------------------
\* Pages join up: after a first page and pages that went on from it, every row
\* the server selects, down to the last one loaded, is in the list, as is every
\* message since; there is a next page just when such a row is missing
\* (getTransactionsCursor, SET_INITIAL_DATA, LOAD_MORE_DATA, ADD_TRANSACTION).
ListIsComplete ==
  whole =>
    LET selected == Matching(base.filters, 1..base.upTo)
    IN /\ {i \in selected : i >= lastId} \subseteq ToSet(transactions)
       /\ heard \subseteq ToSet(transactions)
       /\ hasMore <=> \E i \in selected : i < lastId

\* A row is listed once, however it came, and the recent ones are part of the list
\* (the hash checks of ADD_TRANSACTION and LOAD_MORE_DATA).
ListedOnce ==
  /\ IsInjective(transactions) /\ IsInjective(recent)
  /\ ToSet(recent) \subseteq ToSet(transactions)

\* With nothing under way the list was loaded for the tokens selected, unless an
\* answer came late, a load failed, or the tokens changed under the first load.
ListFitsTokens ==
  requests = {} /\ ~overtaken => base.filters.token = filters.tokens

\* Loading ends, whatever is asked for meanwhile.
LoadingEnds == []<>(~isLoading)
=============================================================================
