--------------------------- MODULE DashboardPages ---------------------------
(***************************************************************************)
(* The three pages of the dashboard and the window of details all of them  *)
(* open over an address: what is shown against what was asked for, while   *)
(* the user goes on selecting and the answers are still on their way.      *)
(*                                                                         *)
(* No request is aborted and no answer is compared with the selection, so  *)
(* the order of the answers matters: inOrder says whether the server keeps *)
(* the order of the requests of one kind.  A page is left by loading the   *)
(* next one, which drops all of this state.                                *)
(***************************************************************************)
EXTENDS Integers, Sequences, SequencesExt

CONSTANTS
  Addresses, Tokens,
  Ranges,          \* the time ranges, of RangeHours below
  Sections,        \* the nine boxes of Analytics, or the four lists of Addresses
  Filters,         \* those of the window, "all" among them
  MaxPage,         \* bound: the last page of transactions asked for
  MaxEvents,       \* bound: clicks of the user, for each page
  FirstToken, FirstRange,     \* selected when a page opens
  None

VARIABLES
  page,            \* one of Pages
  inOrder,
  token, range,    \* selected; on the feed the token of the opened transaction
  sections,        \* [shows, loading, failed]; failed: history, the last request did
  fetches,         \* per section the requests in flight, oldest first
  modal,           \* [data, loading]: modalData, modalLoading
  opens,           \* calls of fetchAddressDetails in flight
  list,            \* the window's transactions: [rows, filter, page, loading]
  rowFetches,      \* calls of onFetchTransactions in flight
  events

window == <<modal, opens, list, rowFetches>>
vars == <<page, inOrder, token, range, sections, fetches, window, events>>
-----------------------------------------------------------------------------
(* What is asked for.                                                      *)

RangeHours == [r \in {"1h", "24h", "7d", "30d", "3m", "6m", "1y", "all"} |->
                 CASE r = "1h" -> 1     [] r = "24h" -> 24   [] r = "7d" -> 168
                   [] r = "30d" -> 720  [] r = "3m" -> 2160  [] r = "6m" -> 4320
                   [] r = "1y" -> 8760  [] r = "all" -> 43800]

Pages == {"analytics", "addresses", "feed"}

ASSUME RangesAssumption == Ranges \subseteq DOMAIN RangeHours
ASSUME FiltersAssumption == "all" \in Filters
ASSUME FirstAssumption == FirstToken \in Tokens /\ FirstRange \in Ranges
ASSUME BoundsAssumption == MaxPage \in Nat /\ MaxEvents \in [Pages -> Nat]

\* The steps of the volume chart and how many of them (Analytics).
ChartUnit(r) ==
  CASE r = "1h" -> "minutes" [] r \in {"24h", "7d"} -> "hourly" [] r \in {"30d", "3m"} -> "daily"
    [] OTHER -> "weekly"

ChartPoints(r) ==
  CASE r = "1h" -> 60 [] r = "24h" -> 24 [] r = "7d" -> 168 [] r = "30d" -> 30
    [] r = "3m" -> 90 [] r = "6m" -> 26  [] r = "1y" -> 52  [] r = "all" -> 156

\* The lists of Addresses ask for hours, and for none for all time.
ListHours(r) == IF r = "all" THEN None ELSE RangeHours[r]

Asked(t, r) ==
  IF page = "addresses" THEN [token |-> t, hours |-> ListHours(r)]
  ELSE [token |-> t, unit |-> ChartUnit(r), points |-> ChartPoints(r)]

\* The details' range: the longer ones of Addresses are sent as a day.
DetailRange ==
  CASE page = "feed" -> "7d"
    [] page = "addresses" /\ range \notin {"1h", "24h", "7d", "30d"} -> "24h"
    [] OTHER -> range
-----------------------------------------------------------------------------
(* The boxes and lists of a page.                                          *)

NothingShown == [shows |-> None, loading |-> TRUE, failed |-> FALSE]

\* The page before it has asked for anything.
Init ==
  /\ page \in Pages /\ inOrder \in BOOLEAN
  /\ token = IF page = "feed" THEN None ELSE FirstToken
  /\ range = FirstRange
  /\ sections = [s \in Sections |-> [NothingShown EXCEPT !.loading = (page # "feed")]]
  /\ fetches = [s \in Sections |-> IF page = "feed" THEN <<>> ELSE <<Asked(token, range)>>]
  /\ modal = [data |-> None, loading |-> FALSE]
  /\ opens = <<>>
  /\ list = [rows |-> None, filter |-> "all", page |-> 1, loading |-> FALSE]
  /\ rowFetches = <<>>
  /\ events = 0

Event == events < MaxEvents[page] /\ events' = events + 1

\* isOpen; the window covers the page below it
IsOpen == modal.data # None \/ modal.loading

\* Mutant: the request of the render before, of the range not yet selected.
FetchStale(t, r) ==
  /\ fetches' = [s \in Sections |-> Append(fetches[s], Asked(t, range))]
  /\ sections' = [s \in Sections |-> [sections[s] EXCEPT !.loading = TRUE, !.failed = FALSE]]

\* fetchAnalyticsData, fetchAllCategories: every box asks anew and shows that it does.
FetchAll(t, r) ==
  /\ fetches' = [s \in Sections |-> Append(fetches[s], Asked(t, r))]
  /\ sections' = [s \in Sections |-> [sections[s] EXCEPT !.loading = TRUE, !.failed = FALSE]]

Select(t, r) ==
  /\ page # "feed" /\ ~IsOpen /\ <<t, r>> # <<token, range>>
  /\ t = token \/ r = range
  /\ Event
  /\ FetchAll(t, r)
  /\ token' = t /\ range' = r
  /\ UNCHANGED <<page, inOrder, window>>

\* The button waits for every box, so a box that failed keeps it disabled.
Refresh ==
  /\ page = "analytics" /\ ~IsOpen
  /\ \A s \in Sections : ~sections[s].loading
  /\ Event
  /\ FetchAll(token, range)
  /\ UNCHANGED <<page, inOrder, token, range, window>>

\* Addresses awaits its four answers together.
Together(s) == IF page = "addresses" THEN Sections ELSE {s}

Arrives(i, calls) == i \in DOMAIN calls /\ (inOrder => i = 1)

Settle(s, i, Result(_)) ==
  /\ Arrives(i, fetches[s])
  /\ sections' = [x \in Sections |-> IF x \in Together(s) THEN Result(x) ELSE sections[x]]
  /\ fetches' = [x \in Sections |-> IF x \in Together(s) THEN RemoveAt(fetches[x], i) ELSE fetches[x]]
  /\ UNCHANGED <<page, inOrder, token, range, window, events>>

\* The status of an answer is not looked at: one without data is zeros or no rows.
Shown(x, s, i, refused) == IF x \in refused THEN None ELSE fetches[s][i]

\* An answer that can be read ends the loading, refused or not.
Answer(s, i, refused) == Settle(s, i, LAMBDA x :
  [shows   |-> Shown(x, s, i, refused),
   loading |-> FALSE,
   failed  |-> sections[x].failed \/ (x \in refused /\ i = Len(fetches[s]))])

\* No answer, or none that can be read.  Analytics only logs it: what was shown stays,
\* and so does the skeleton over it.  Addresses empties all four lists and ends the loading.
FailBox(s, i) == Settle(s, i, LAMBDA x :
  [shows   |-> IF page = "addresses" THEN None ELSE sections[x].shows,
   loading |-> IF page = "addresses" THEN FALSE ELSE sections[x].loading,
   failed  |-> sections[x].failed \/ i = Len(fetches[s])])
-----------------------------------------------------------------------------
(* The window of details.                                                  *)

\* The feed's transaction is opened and closed; its token is the one asked for.
OpenTransaction(t) ==
  /\ page = "feed" /\ token = None /\ ~IsOpen
  /\ Event
  /\ token' = t
  /\ UNCHANGED <<page, inOrder, range, sections, fetches, window>>

CloseTransaction ==
  /\ page = "feed" /\ token # None /\ ~IsOpen
  /\ Event
  /\ token' = None
  /\ UNCHANGED <<page, inOrder, range, sections, fetches, window>>

\* onFetchTransactions: without an opened transaction it answers with no rows.
RowsOf(a, f, n) == [address |-> a, token |-> token, range |-> DetailRange, filter |-> f, page |-> n]

\* handleAddressClick; the window resets itself when it opens.
ClickAddress(a) ==
  /\ ~IsOpen /\ token # None
  /\ Event
  /\ modal' = [modal EXCEPT !.loading = TRUE]
  /\ opens' = Append(opens, [address |-> a, token |-> token, range |-> DetailRange])
  /\ list' = [list EXCEPT !.rows = None, !.filter = "all", !.page = 1]
  /\ UNCHANGED <<page, inOrder, token, range, sections, fetches, rowFetches>>

\* The details arrive.  If the window was closed or showed another address, it
\* starts from their rows with no filter and asks for them once more, and with
\* the filter left there before, if any, first.
Details(i) ==
  LET d == opens[i]
      new == ~IsOpen \/ modal.data = None \/ modal.data.address # d.address
      left == IF list.filter = "all" THEN <<>> ELSE <<RowsOf(d.address, list.filter, 1)>>
  IN /\ Arrives(i, opens)
     /\ opens' = RemoveAt(opens, i)
     /\ modal' = [data |-> d, loading |-> FALSE]
     /\ list' = IF ~new THEN list
                ELSE [rows |-> [address |-> d.address, token |-> d.token, range |-> d.range,
                                filter |-> "all", page |-> 1],
                      filter |-> "all", page |-> 1, loading |-> TRUE]
     /\ rowFetches' = IF new THEN rowFetches \o left \o <<RowsOf(d.address, "all", 1)>> ELSE rowFetches
     /\ UNCHANGED <<page, inOrder, token, range, sections, fetches, events>>

\* Mutant: a failure is logged and nothing more.
LoadingKept(i) ==
  /\ Arrives(i, opens)
  /\ opens' = RemoveAt(opens, i)
  /\ modal' = modal
  /\ UNCHANGED <<page, inOrder, token, range, sections, fetches, list, rowFetches, events>>

\* Only a failure of the transactions is one; those of the two requests before are not.
DetailsFail(i) ==
  /\ Arrives(i, opens)
  /\ opens' = RemoveAt(opens, i)
  /\ modal' = [modal EXCEPT !.loading = FALSE]
  /\ UNCHANGED <<page, inOrder, token, range, sections, fetches, list, rowFetches, events>>

\* Mutant: closing ends the loading on every page, as it does on the feed.
CloseAnytime ==
  /\ IsOpen
  /\ Event
  /\ modal' = [data |-> None, loading |-> FALSE]
  /\ UNCHANGED <<page, inOrder, token, range, sections, fetches, opens, list, rowFetches>>

\* closeModal by its button, which is there once the details are, or by Escape.
\* Only closeAddressModal of the feed ends the loading too.
CloseModal ==
  /\ IsOpen /\ (page # "feed" => modal.data # None)
  /\ Event
  /\ modal' = [data |-> None, loading |-> IF page = "feed" THEN FALSE ELSE modal.loading]
  /\ UNCHANGED <<page, inOrder, token, range, sections, fetches, opens, list, rowFetches>>

\* On the feed Escape closes the opened transaction below as well.
Escape ==
  /\ page = "feed" /\ IsOpen
  /\ Event
  /\ modal' = [data |-> None, loading |-> FALSE]
  /\ token' = None
  /\ UNCHANGED <<page, inOrder, range, sections, fetches, opens, list, rowFetches>>

Usable == modal.data # None /\ ~modal.loading

ChangeFilter(f) ==
  /\ Usable /\ f # list.filter
  /\ Event
  /\ list' = [list EXCEPT !.filter = f, !.page = 1, !.loading = TRUE]
  /\ rowFetches' = Append(rowFetches, RowsOf(modal.data.address, f, 1))
  /\ UNCHANGED <<page, inOrder, token, range, sections, fetches, modal, opens>>

\* Mutant: a page is asked for without the filter.
PageOfAll(n) ==
  /\ Usable /\ ~list.loading /\ n \in {list.page - 1, list.page + 1}
  /\ Event
  /\ list' = [list EXCEPT !.loading = TRUE]
  /\ rowFetches' = Append(rowFetches, RowsOf(modal.data.address, "all", n))
  /\ UNCHANGED <<page, inOrder, token, range, sections, fetches, modal, opens>>

\* handlePageChange; its buttons wait for the page before.
ChangePage(n) ==
  /\ Usable /\ ~list.loading /\ n \in {list.page - 1, list.page + 1}
  /\ Event
  /\ list' = [list EXCEPT !.loading = TRUE]
  /\ rowFetches' = Append(rowFetches, RowsOf(modal.data.address, list.filter, n))
  /\ UNCHANGED <<page, inOrder, token, range, sections, fetches, modal, opens>>

\* The rows of a page, or none after a failure; whatever is open by then gets them.
\* One without an opened transaction is answered without the server.
RowsArrive(i, ok) ==
  /\ i \in DOMAIN rowFetches /\ (inOrder => i = 1 \/ rowFetches[i].token = None)
  /\ ok => rowFetches[i].token # None
  /\ rowFetches' = RemoveAt(rowFetches, i)
  /\ list' = [list EXCEPT !.rows = IF ok THEN rowFetches[i] ELSE None,
                          !.page = rowFetches[i].page, !.loading = FALSE]
  /\ UNCHANGED <<page, inOrder, token, range, sections, fetches, modal, opens, events>>
-----------------------------------------------------------------------------
FetchEnds(s)  == \E i \in DOMAIN fetches[s] :
                   FailBox(s, i) \/ \E refused \in SUBSET Together(s) : Answer(s, i, refused)
DetailsEnd    == \E i \in DOMAIN opens : Details(i) \/ DetailsFail(i)
RowsEnd       == \E i \in DOMAIN rowFetches, ok \in BOOLEAN : RowsArrive(i, ok)

Next ==
  \/ \E t \in Tokens, r \in Ranges : Select(t, r)
  \/ Refresh
  \/ \E s \in Sections : FetchEnds(s)
  \/ \E t \in Tokens : OpenTransaction(t)
  \/ CloseTransaction
  \/ \E a \in Addresses : ClickAddress(a)
  \/ DetailsEnd
  \/ CloseModal \/ Escape
  \/ \E f \in Filters : ChangeFilter(f)
  \/ \E n \in 1..MaxPage : ChangePage(n)
  \/ RowsEnd

\* Every request ends, by an answer or an error of fetch.
Spec == Init /\ [][Next]_vars
             /\ \A s \in Sections : WF_vars(FetchEnds(s))
             /\ WF_vars(DetailsEnd) /\ WF_vars(RowsEnd)
-----------------------------------------------------------------------------
(* Properties.                                                             *)

\* When all answers are in and came in order, each box of Analytics and list of
\* Addresses shows what is selected; a list whose request failed or was refused is
\* empty, and a box that still waits is one whose request failed (fetchAnalyticsData
\* and fetchAllCategories, their effects and the ref between them).
SectionsFit ==
  \A s \in Sections :
    (inOrder /\ page # "feed" /\ fetches[s] = <<>>) =>
      /\ ~sections[s].failed => ~sections[s].loading /\ sections[s].shows = Asked(token, range)
      /\ sections[s].failed /\ page = "addresses" => ~sections[s].loading /\ sections[s].shows = None

\* When all answers are in and came in order, the window lists the page its pager
\* shows, under the filter and the address it shows, or nothing after a failure
\* (the two effects and handlePageChange of DetailedAnalysisModal).
ListFits ==
  (inOrder /\ Usable /\ token # None /\ rowFetches = <<>>) =>
    /\ ~list.loading
    /\ list.rows # None => list.rows = RowsOf(modal.data.address, list.filter, list.page)

\* On Analytics and Addresses details on their way are being waited for: the window
\* opens on a click only, and two answers never race for it (closeModal).
DetailsAreAwaited == page # "feed" /\ opens # <<>> => modal.loading /\ Len(opens) = 1

\* The window's spinners end, answered or not (finally of handleAddressClick, of
\* handlePageChange and of the effect on the filter).
WindowSettles == (modal.loading ~> ~modal.loading) /\ (list.loading ~> ~list.loading)
=============================================================================
