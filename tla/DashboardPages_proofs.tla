----------------------- MODULE DashboardPages_proofs -----------------------
(***************************************************************************)
(* The pages and the window of details for every set of addresses, tokens, *)
(* boxes and filters, every number of clicks and of requests in flight.    *)
(* Under one order of answers the last request decides what is shown, so   *)
(* the invariants follow the last element of each queue of requests.       *)
(***************************************************************************)
EXTENDS DashboardPages, SequenceTheorems, TLAPS

Units == {"minutes", "hourly", "daily", "weekly"}
Asks == [token : Tokens, hours : Int \cup {None}] \cup [token : Tokens, unit : Units, points : Int]
Detail == [address : Addresses, token : Tokens \cup {None}, range : Ranges \cup {"7d", "24h"}]
Rows == [address : Addresses, token : Tokens \cup {None}, range : Ranges \cup {"7d", "24h"},
         filter : Filters, page : Int]

TypeOK ==
  /\ page \in Pages /\ inOrder \in BOOLEAN
  /\ token \in Tokens \cup {None} /\ range \in Ranges
  /\ page # "feed" => token \in Tokens
  /\ sections \in [Sections -> [shows : Asks \cup {None}, loading : BOOLEAN, failed : BOOLEAN]]
  /\ fetches \in [Sections -> Seq(Asks)]
  /\ modal \in [data : Detail \cup {None}, loading : BOOLEAN]
  /\ opens \in Seq(Detail)
  /\ list \in [rows : Rows \cup {None}, filter : Filters, page : Int, loading : BOOLEAN]
  /\ rowFetches \in Seq(Rows)
  /\ events \in 0..MaxEvents[page]

\* The last request of a queue.
LastOf(calls) == calls[Len(calls)]

\* Addresses awaits its four answers together: its lists have the same requests in flight.
SameRequests == page = "addresses" => \A s, x \in Sections : fetches[s] = fetches[x]

-----------------------------------------------------------------------------
(* Queues of requests.                                                     *)

\* The part of a queue behind a position.
LEMMA RestLength ==
  ASSUME NEW n \in Nat, NEW i \in 1..n
  PROVE  /\ (IF i + 1 <= n THEN n - (i + 1) + 1 ELSE 0) = n - i /\ n - (i + 1) + 1 = n - i
         /\ \A k \in 1..(n - i) : (i + 1) + k - 1 = i + k
OBVIOUS

\* An answer takes its request out of the queue; the last one stays last.
LEMMA RemoveAtProperties ==
  ASSUME NEW S, NEW s \in Seq(S), NEW i \in DOMAIN s
  PROVE  /\ RemoveAt(s, i) \in Seq(S) /\ Len(RemoveAt(s, i)) = Len(s) - 1
         /\ i # Len(s) => RemoveAt(s, i) # <<>> /\ LastOf(RemoveAt(s, i)) = LastOf(s)
<1> DEFINE n == Len(s)
           front == SubSeq(s, 1, i - 1)
           rest == SubSeq(s, i + 1, n)
<1>1. n \in Nat /\ i \in 1..n /\ \A k \in 1..n : s[k] \in S
  BY LenProperties, ElementOfSeq
<1>2. /\ front \in Seq(S) /\ Len(front) = i - 1
  <2>1. \A k \in 1..(i - 1) : s[k] \in S
    BY <1>1
  <2> QED BY <1>1, <2>1, SubSeqProperties
<1>3. /\ rest \in Seq(S) /\ Len(rest) = n - i
      /\ \A k \in 1..(n - i) : rest[k] = s[i + k]
  <2>1. \A k \in (i + 1)..n : s[k] \in S
    BY <1>1
  <2> HIDE DEF n
  <2>2. /\ rest \in Seq(S)
        /\ Len(rest) = IF i + 1 <= n THEN n - (i + 1) + 1 ELSE 0
        /\ \A k \in 1..(n - (i + 1) + 1) : rest[k] = s[(i + 1) + k - 1]
    BY <1>1, <2>1, SubSeqProperties
  <2>3. /\ (IF i + 1 <= n THEN n - (i + 1) + 1 ELSE 0) = n - i /\ n - (i + 1) + 1 = n - i
        /\ \A k \in 1..(n - i) : (i + 1) + k - 1 = i + k
    BY <1>1, RestLength
  <2> QED BY <2>2, <2>3
<1>4. RemoveAt(s, i) = front \o rest
  BY DEF RemoveAt
<1> HIDE DEF n, front, rest
<1>5. /\ front \o rest \in Seq(S) /\ Len(front \o rest) = Len(front) + Len(rest)
      /\ \A k \in 1..(Len(front) + Len(rest)) :
           (front \o rest)[k] = IF k <= Len(front) THEN front[k] ELSE rest[k - Len(front)]
  BY <1>2, <1>3, ConcatProperties
<1>6. RemoveAt(s, i) \in Seq(S) /\ Len(RemoveAt(s, i)) = n - 1
  BY <1>1, <1>2, <1>3, <1>4, <1>5
<1>7. ASSUME i # n PROVE RemoveAt(s, i) # <<>> /\ LastOf(RemoveAt(s, i)) = LastOf(s)
  <2>1. /\ n - 1 \in 1..(Len(front) + Len(rest)) /\ ~(n - 1 <= Len(front))
        /\ n - 1 - Len(front) = n - i /\ n - i \in 1..(n - i) /\ i + (n - i) = n
    BY <1>1, <1>2, <1>3, <1>7
  <2>2. (front \o rest)[n - 1] = s[n]
    BY <1>3, <1>5, <2>1
  <2>3. Len(RemoveAt(s, i)) # 0
    BY <1>1, <1>6, <1>7
  <2> QED BY <1>4, <1>6, <2>2, <2>3, EmptySeq DEF LastOf, n
<1> QED BY <1>6, <1>7 DEF n

\* A request goes to the end of its queue.
LEMMA AppendLast ==
  ASSUME NEW S, NEW s \in Seq(S), NEW e \in S
  PROVE  Append(s, e) \in Seq(S) /\ Append(s, e) # <<>> /\ LastOf(Append(s, e)) = e
<1>1. /\ Append(s, e) \in Seq(S) /\ Len(Append(s, e)) = Len(s) + 1
      /\ Append(s, e)[Len(s) + 1] = e
  BY AppendProperties
<1>2. Len(s) \in Nat
  BY LenProperties
<1> QED BY <1>1, <1>2, EmptySeq DEF LastOf

\* The same, written with a concatenation.
LEMMA ConcatLast ==
  ASSUME NEW S, NEW s \in Seq(S), NEW e \in S
  PROVE  s \o <<e>> \in Seq(S) /\ s \o <<e>> # <<>> /\ LastOf(s \o <<e>>) = e
<1>1. <<e>> \in Seq(S) /\ Len(<<e>>) = 1 /\ <<e>>[1] = e
  OBVIOUS
<1>2. Len(s) \in Nat
  BY LenProperties
<1> DEFINE x == <<e>>
<1>3. /\ x \in Seq(S) /\ Len(x) = 1 /\ x[1] = e
  BY <1>1
<1> HIDE DEF x
<1>4. /\ s \o x \in Seq(S) /\ Len(s \o x) = Len(s) + Len(x)
      /\ \A k \in 1..(Len(s) + Len(x)) : (s \o x)[k] = IF k <= Len(s) THEN s[k] ELSE x[k - Len(s)]
  BY <1>3, ConcatProperties
<1>5. (s \o x)[Len(s) + 1] = e
  <2>1. /\ Len(s) + 1 \in 1..(Len(s) + Len(x)) /\ ~(Len(s) + 1 <= Len(s))
        /\ Len(s) + 1 - Len(s) = 1
    BY <1>2, <1>3
  <2> QED BY <1>3, <1>4, <2>1
<1>6. Len(s \o x) = Len(s) + 1 /\ Len(s \o x) # 0
  BY <1>2, <1>3, <1>4
<1> QED BY <1>4, <1>5, <1>6, EmptySeq DEF LastOf, x

\* What the pages ask for.
LEMMA AskedTyped ==
  ASSUME NEW t \in Tokens, NEW r \in Ranges
  PROVE  Asked(t, r) \in Asks
<1>1. r \in {"1h", "24h", "7d", "30d", "3m", "6m", "1y", "all"}
  BY RangesAssumption DEF RangeHours
<1>2. RangeHours[r] \in Int
  BY <1>1 DEF RangeHours
<1>3. ListHours(r) \in Int \cup {None}
  BY <1>2 DEF ListHours
<1>4. ChartPoints(r) \in Int
  BY <1>1 DEF ChartPoints
<1>5. ChartUnit(r) \in Units
  BY <1>1 DEF ChartUnit, Units
<1> QED BY <1>3, <1>4, <1>5 DEF Asked, Asks


-----------------------------------------------------------------------------
(* Types.                                                                  *)

\* The selection, the requests of the window and the range of the details.
LEMMA RowsTyped ==
  ASSUME TypeOK, NEW a \in Addresses
  PROVE  /\ DetailRange \in Ranges \cup {"7d", "24h"}
         /\ [address |-> a, token |-> token, range |-> DetailRange] \in Detail
         /\ \A f \in Filters, n \in Int : RowsOf(a, f, n) \in Rows
<1>1. DetailRange \in Ranges \cup {"7d", "24h"}
  BY DEF TypeOK, DetailRange
<1> QED BY <1>1 DEF TypeOK, Detail, Rows, RowsOf

\* Every box asks anew.
LEMMA FetchAllTyped ==
  ASSUME TypeOK, NEW t \in Tokens, NEW r \in Ranges, FetchAll(t, r)
  PROVE  /\ fetches' \in [Sections -> Seq(Asks)]
         /\ sections' \in [Sections -> [shows : Asks \cup {None}, loading : BOOLEAN, failed : BOOLEAN]]
<1>1. \A s \in Sections : Append(fetches[s], Asked(t, r)) \in Seq(Asks)
  BY AskedTyped, AppendLast DEF TypeOK
<1>2. \A s \in Sections : [sections[s] EXCEPT !.loading = TRUE, !.failed = FALSE]
                            \in [shows : Asks \cup {None}, loading : BOOLEAN, failed : BOOLEAN]
  BY DEF TypeOK
<1> QED BY <1>1, <1>2 DEF FetchAll


\* What a box shows after an answer, which refused some boxes, or after an error.
AfterAnswer(x, s, i, refused) ==
  [shows   |-> IF x \in refused THEN None ELSE fetches[s][i],
   loading |-> FALSE,
   failed  |-> sections[x].failed \/ (x \in refused /\ i = Len(fetches[s]))]
AfterError(x, s, i) ==
  [shows   |-> IF page = "addresses" THEN None ELSE sections[x].shows,
   loading |-> IF page = "addresses" THEN FALSE ELSE sections[x].loading,
   failed  |-> sections[x].failed \/ i = Len(fetches[s])]

\* A box has been refused if it had failed, or if its last request was refused.
LEMMA RefusedAfter ==
  ASSUME NEW x, NEW s, NEW i, NEW refused
  PROVE  AfterAnswer(x, s, i, refused).failed
           <=> sections[x].failed \/ (x \in refused /\ i = Len(fetches[s]))
<1> DEFINE now == sections[x].failed \/ (x \in refused /\ i = Len(fetches[s]))
<1>1. CASE now
  <2>1. now = TRUE
    BY <1>1
  <2> QED BY <1>1, <2>1 DEF AfterAnswer
<1>2. CASE ~now
  <2>1. now = FALSE
    BY <1>2
  <2> QED BY <1>2, <2>1 DEF AfterAnswer
<1> QED BY <1>1, <1>2

\* A box has failed if it had, or if its last request did.
LEMMA FailedAfter ==
  ASSUME NEW x, NEW s, NEW i
  PROVE  AfterError(x, s, i).failed <=> sections[x].failed \/ i = Len(fetches[s])
<1>1. CASE sections[x].failed \/ i = Len(fetches[s])
  <2>1. (sections[x].failed \/ i = Len(fetches[s])) = TRUE
    BY <1>1
  <2> QED BY <1>1, <2>1 DEF AfterError
<1>2. CASE ~(sections[x].failed \/ i = Len(fetches[s]))
  <2>1. (sections[x].failed \/ i = Len(fetches[s])) = FALSE
    BY <1>2
  <2> QED BY <1>2, <2>1 DEF AfterError
<1> QED BY <1>1, <1>2

\* A request of a box ends.
LEMMA BoxEnds ==
  ASSUME TypeOK, NEW s \in Sections, NEW i \in DOMAIN fetches[s], NEW refused,
         Answer(s, i, refused) \/ FailBox(s, i)
  PROVE  /\ UNCHANGED <<page, inOrder, token, range, window, events>>
         /\ Arrives(i, fetches[s]) /\ fetches[s][i] \in Asks
         /\ \A x \in Sections \ Together(s) : sections'[x] = sections[x] /\ fetches'[x] = fetches[x]
         /\ \A x \in Sections \cap Together(s) :
              /\ fetches'[x] = RemoveAt(fetches[x], i)
              /\ \/ sections'[x] = AfterAnswer(x, s, i, refused)
                 \/ sections'[x] = AfterError(x, s, i)
         /\ fetches' = [x \in Sections |-> IF x \in Together(s) THEN RemoveAt(fetches[x], i) ELSE fetches[x]]
         /\ sections' \in [Sections -> [shows : Asks \cup {None}, loading : BOOLEAN, failed : BOOLEAN]]
<1>1. fetches[s][i] \in Asks
  <2>1. fetches[s] \in Seq(Asks)
    BY DEF TypeOK
  <2>2. i \in 1..Len(fetches[s])
    BY <2>1, LenProperties
  <2> QED BY <2>1, <2>2, ElementOfSeq
<1>2. \A x \in Sections :
        /\ AfterAnswer(x, s, i, refused) \in [shows : Asks \cup {None}, loading : BOOLEAN, failed : BOOLEAN]
        /\ AfterError(x, s, i) \in [shows : Asks \cup {None}, loading : BOOLEAN, failed : BOOLEAN]
        /\ sections[x] \in [shows : Asks \cup {None}, loading : BOOLEAN, failed : BOOLEAN]
  <2> SUFFICES ASSUME NEW x \in Sections
      PROVE  /\ AfterAnswer(x, s, i, refused) \in [shows : Asks \cup {None}, loading : BOOLEAN, failed : BOOLEAN]
             /\ AfterError(x, s, i) \in [shows : Asks \cup {None}, loading : BOOLEAN, failed : BOOLEAN]
             /\ sections[x] \in [shows : Asks \cup {None}, loading : BOOLEAN, failed : BOOLEAN]
    OBVIOUS
  <2>1. sections[x] \in [shows : Asks \cup {None}, loading : BOOLEAN, failed : BOOLEAN]
    BY DEF TypeOK
  <2>2. AfterAnswer(x, s, i, refused) \in [shows : Asks \cup {None}, loading : BOOLEAN, failed : BOOLEAN]
    BY <1>1, <2>1 DEF AfterAnswer
  <2>3. AfterError(x, s, i) \in [shows : Asks \cup {None}, loading : BOOLEAN, failed : BOOLEAN]
    BY <2>1 DEF AfterError
  <2> QED BY <2>1, <2>2, <2>3
<1>3. CASE Answer(s, i, refused)
  <2>1. sections' = [x \in Sections |->
                       IF x \in Together(s) THEN AfterAnswer(x, s, i, refused) ELSE sections[x]]
    BY <1>3 DEF Answer, Settle, AfterAnswer, Shown
  <2> QED BY <1>1, <1>2, <1>3, <2>1 DEF Answer, Settle
<1>4. CASE FailBox(s, i)
  <2>1. sections' = [x \in Sections |-> IF x \in Together(s) THEN AfterError(x, s, i) ELSE sections[x]]
    BY <1>4 DEF FailBox, Settle, AfterError
  <2> QED BY <1>1, <1>2, <1>4, <2>1 DEF FailBox, Settle
<1> QED BY <1>3, <1>4

\* A click is counted.
LEMMA EventTyped ==
  ASSUME TypeOK, Event
  PROVE  events' \in 0..MaxEvents[page]
<1>1. /\ events \in 0..MaxEvents[page] /\ events < MaxEvents[page]
        /\ events' = events + 1 /\ MaxEvents[page] \in Nat
  BY BoundsAssumption DEF TypeOK, Event
<1> QED BY <1>1

\* Selections and refreshes of the two pages with boxes.
LEMMA TypeSelect ==
  ASSUME TypeOK, SameRequests, Refresh \/ \E t \in Tokens, r \in Ranges : Select(t, r)
  PROVE  TypeOK' /\ SameRequests'
<1>1. PICK t \in Tokens, r \in Ranges :
        /\ FetchAll(t, r) /\ token' = t /\ range' = r /\ Event
        /\ UNCHANGED <<page, inOrder, window>>
  BY DEF Refresh, Select, TypeOK
<1>2. /\ fetches' \in [Sections -> Seq(Asks)]
      /\ sections' \in [Sections -> [shows : Asks \cup {None}, loading : BOOLEAN, failed : BOOLEAN]]
  BY <1>1, FetchAllTyped
<1>3. events' \in 0..MaxEvents[page]
  BY <1>1, EventTyped
<1>4. UNCHANGED <<modal, opens, list, rowFetches>>
  BY <1>1 DEF window
<1>5. TypeOK'
  BY <1>1, <1>2, <1>3, <1>4 DEF TypeOK
<1>6. SameRequests'
  BY <1>1 DEF SameRequests, FetchAll
<1> QED BY <1>5, <1>6

\* Requests of boxes end.
LEMMA TypeBoxes ==
  ASSUME TypeOK, SameRequests, NEW s \in Sections, FetchEnds(s)
  PROVE  TypeOK' /\ SameRequests'
<1>1. PICK i \in DOMAIN fetches[s], refused \in SUBSET Together(s) :
        Answer(s, i, refused) \/ FailBox(s, i)
  BY DEF FetchEnds
<1>2. /\ UNCHANGED <<page, inOrder, token, range, window, events>>
      /\ fetches' = [x \in Sections |-> IF x \in Together(s) THEN RemoveAt(fetches[x], i) ELSE fetches[x]]
      /\ sections' \in [Sections -> [shows : Asks \cup {None}, loading : BOOLEAN, failed : BOOLEAN]]
  BY <1>1, BoxEnds
<1>3. ASSUME NEW x \in Together(s) PROVE fetches[x] = fetches[s]
  BY <1>3 DEF Together, SameRequests
<1>4. RemoveAt(fetches[s], i) \in Seq(Asks)
  BY <1>1, RemoveAtProperties DEF TypeOK
<1>5. fetches' \in [Sections -> Seq(Asks)]
  BY <1>2, <1>3, <1>4 DEF TypeOK
<1>6. UNCHANGED <<modal, opens, list, rowFetches>>
  BY <1>2 DEF window
<1>7. TypeOK'
  BY <1>2, <1>5, <1>6 DEF TypeOK
<1>8. SameRequests'
  BY <1>2, <1>3 DEF SameRequests, Together
<1> QED BY <1>7, <1>8

\* A filter or a page is chosen: the request is under the filter shown from then on.
LEMMA ListAsks ==
  ASSUME TypeOK, (\E f \in Filters : ChangeFilter(f)) \/ (\E n \in 1..MaxPage : ChangePage(n))
  PROVE  /\ Usable /\ UNCHANGED <<page, inOrder, token, range, modal, opens>>
         /\ \E n \in Int : rowFetches' = Append(rowFetches, RowsOf(modal.data.address, list'.filter, n))
         /\ list' \in [rows : Rows \cup {None}, filter : Filters, page : Int, loading : BOOLEAN]
         /\ list'.filter \in Filters
<1> DEFINE T == [rows : Rows \cup {None}, filter : Filters, page : Int, loading : BOOLEAN]
<1>1. Usable /\ UNCHANGED <<page, inOrder, token, range, modal, opens>> /\ list \in T
  BY DEF ChangeFilter, ChangePage, TypeOK
<1>2. ASSUME NEW f \in Filters, ChangeFilter(f)
      PROVE  /\ \E n \in Int : rowFetches' = Append(rowFetches, RowsOf(modal.data.address, list'.filter, n))
             /\ list' \in T /\ list'.filter \in Filters
  <2> DEFINE l1 == [list EXCEPT !.filter = f]
             l2 == [l1 EXCEPT !.page = 1]
  <2>1. l1 \in T /\ l1.filter = f
    BY <1>1
  <2>2. l2 \in T /\ l2.filter = f
    <3> HIDE DEF l1
    <3> QED BY <2>1
  <2>3. list' = [l2 EXCEPT !.loading = TRUE]
    BY <1>2 DEF ChangeFilter
  <2> HIDE DEF l1, l2
  <2>4. list' \in T /\ list'.filter = f
    BY <2>2, <2>3
  <2>5. rowFetches' = Append(rowFetches, RowsOf(modal.data.address, f, 1))
    BY <1>2 DEF ChangeFilter
  <2>6. 1 \in Int
    OBVIOUS
  <2> QED BY <2>4, <2>5, <2>6
<1>3. ASSUME NEW n \in 1..MaxPage, ChangePage(n)
      PROVE  /\ \E m \in Int : rowFetches' = Append(rowFetches, RowsOf(modal.data.address, list'.filter, m))
             /\ list' \in T /\ list'.filter \in Filters
  <2>1. list' = [list EXCEPT !.loading = TRUE]
    BY <1>3 DEF ChangePage
  <2>2. list' \in T /\ list'.filter = list.filter
    BY <1>1, <2>1
  <2>3. rowFetches' = Append(rowFetches, RowsOf(modal.data.address, list.filter, n)) /\ n \in Int
    BY <1>3, BoundsAssumption DEF ChangePage
  <2> QED BY <2>2, <2>3
<1> QED BY <1>1, <1>2, <1>3

\* The window opens, closes and is used.
LEMMA TypeClicks ==
  ASSUME TypeOK,
         \/ \E t \in Tokens : OpenTransaction(t)
         \/ CloseTransaction \/ CloseModal \/ Escape
         \/ \E a \in Addresses : ClickAddress(a)
         \/ \E f \in Filters : ChangeFilter(f)
         \/ \E n \in 1..MaxPage : ChangePage(n)
  PROVE  TypeOK' /\ UNCHANGED <<page, inOrder, range, sections, fetches>>
<1>1. UNCHANGED <<page, inOrder, range, sections, fetches>> /\ Event
  BY DEF OpenTransaction, CloseTransaction, CloseModal, Escape, ClickAddress, ChangeFilter,
         ChangePage, window
<1>2. events' \in 0..MaxEvents[page]
  BY <1>1, EventTyped
<1>3. CASE (\E t \in Tokens : OpenTransaction(t)) \/ CloseTransaction
  BY <1>1, <1>2, <1>3 DEF OpenTransaction, CloseTransaction, window, TypeOK
<1>4. CASE CloseModal \/ Escape
  <2>1. modal' \in [data : Detail \cup {None}, loading : BOOLEAN]
    <3>1. modal.loading \in BOOLEAN
      BY DEF TypeOK
    <3>2. \E b \in BOOLEAN : modal' = [data |-> None, loading |-> b]
      <4>1. CASE modal' = [data |-> None, loading |-> FALSE]
        BY <4>1
      <4>2. CASE modal' = [data |-> None, loading |-> modal.loading]
        BY <3>1, <4>2
      <4> QED BY <1>4, <4>1, <4>2 DEF CloseModal, Escape
    <3> QED BY <3>2
  <2>2. token' \in Tokens \cup {None} /\ (page' # "feed" => token' \in Tokens)
    BY <1>4 DEF CloseModal, Escape, TypeOK
  <2>3. UNCHANGED <<opens, list, rowFetches>>
    BY <1>4 DEF CloseModal, Escape
  <2> QED BY <1>1, <1>2, <2>1, <2>2, <2>3 DEF TypeOK
<1>5. ASSUME NEW a \in Addresses, ClickAddress(a) PROVE TypeOK'
  <2>1. modal' \in [data : Detail \cup {None}, loading : BOOLEAN]
    BY <1>5 DEF ClickAddress, TypeOK
  <2>2. opens' \in Seq(Detail)
    BY <1>5, RowsTyped, AppendLast DEF ClickAddress, TypeOK
  <2>3. list' \in [rows : Rows \cup {None}, filter : Filters, page : Int, loading : BOOLEAN]
    <3> DEFINE T == [rows : Rows \cup {None}, filter : Filters, page : Int, loading : BOOLEAN]
               l1 == [list EXCEPT !.rows = None]
               l2 == [l1 EXCEPT !.filter = "all"]
    <3>1. l1 \in T
      BY DEF TypeOK
    <3>2. l2 \in T
      <4> HIDE DEF l1
      <4> QED BY <3>1, FiltersAssumption
    <3>3. list' = [l2 EXCEPT !.page = 1]
      BY <1>5 DEF ClickAddress
    <3> HIDE DEF l1, l2
    <3> QED BY <3>2, <3>3
  <2>4. UNCHANGED <<token, rowFetches>>
    BY <1>5 DEF ClickAddress
  <2> QED BY <1>1, <1>2, <2>1, <2>2, <2>3, <2>4 DEF TypeOK
<1>6. CASE (\E f \in Filters : ChangeFilter(f)) \/ (\E n \in 1..MaxPage : ChangePage(n))
  <2>1. PICK n \in Int : rowFetches' = Append(rowFetches, RowsOf(modal.data.address, list'.filter, n))
    BY <1>6, ListAsks
  <2>2. /\ Usable /\ UNCHANGED <<token, modal, opens>> /\ list'.filter \in Filters
        /\ list' \in [rows : Rows \cup {None}, filter : Filters, page : Int, loading : BOOLEAN]
    BY <1>6, ListAsks
  <2>3. modal.data.address \in Addresses
    BY <2>2 DEF Usable, TypeOK, Detail
  <2>4. rowFetches' \in Seq(Rows)
    BY <2>1, <2>2, <2>3, RowsTyped, AppendLast DEF TypeOK
  <2> QED BY <1>1, <1>2, <2>2, <2>4 DEF TypeOK
<1> QED BY <1>1, <1>3, <1>4, <1>5, <1>6

\* The details arrive: what the window starts from.
DetailsRows(d) == [address |-> d.address, token |-> d.token, range |-> d.range,
                   filter |-> "all", page |-> 1]
IsNew(d) == ~IsOpen \/ modal.data = None \/ modal.data.address # d.address

\* The window takes the details that arrive.
LEMMA DetailsArrive ==
  ASSUME TypeOK, NEW i \in DOMAIN opens, Details(i)
  PROVE  /\ opens' = RemoveAt(opens, i) /\ opens' \in Seq(Detail) /\ opens[i] \in Detail
         /\ modal' = [data |-> opens[i], loading |-> FALSE]
         /\ UNCHANGED <<page, inOrder, token, range, sections, fetches, events>>
         /\ ~IsNew(opens[i]) => UNCHANGED <<list, rowFetches>>
         /\ IsNew(opens[i]) =>
              /\ list' = [rows |-> DetailsRows(opens[i]), filter |-> "all", page |-> 1, loading |-> TRUE]
              /\ rowFetches' \in Seq(Rows) /\ rowFetches' # <<>>
              /\ LastOf(rowFetches') = RowsOf(opens[i].address, "all", 1)
<1> DEFINE d == opens[i]
           left == IF list.filter = "all" THEN <<>> ELSE <<RowsOf(d.address, list.filter, 1)>>
<1>1. d \in Detail /\ RemoveAt(opens, i) \in Seq(Detail)
  <2>1. opens \in Seq(Detail)
    BY DEF TypeOK
  <2>2. i \in 1..Len(opens)
    BY <2>1, LenProperties
  <2> QED BY <2>1, <2>2, ElementOfSeq, RemoveAtProperties
<1>2. /\ opens' = RemoveAt(opens, i) /\ modal' = [data |-> opens[i], loading |-> FALSE]
      /\ UNCHANGED <<page, inOrder, token, range, sections, fetches, events>>
  BY DEF Details
<1>3. ~IsNew(d) => UNCHANGED <<list, rowFetches>>
  BY DEF Details, IsNew
<1>4. ASSUME IsNew(d)
      PROVE  /\ list' = [rows |-> DetailsRows(d), filter |-> "all", page |-> 1, loading |-> TRUE]
             /\ rowFetches' = rowFetches \o left \o <<RowsOf(d.address, "all", 1)>>
  BY <1>4 DEF Details, IsNew, DetailsRows
<1>5. ASSUME IsNew(d)
      PROVE  /\ rowFetches' \in Seq(Rows) /\ rowFetches' # <<>>
             /\ LastOf(rowFetches') = RowsOf(d.address, "all", 1)
  <2>1. d.address \in Addresses /\ list.filter \in Filters /\ 1 \in Int
    BY <1>1 DEF Detail, TypeOK
  <2>2. RowsOf(d.address, "all", 1) \in Rows /\ RowsOf(d.address, list.filter, 1) \in Rows
    BY <2>1, RowsTyped, FiltersAssumption
  <2>3. left \in Seq(Rows)
    <3>1. CASE list.filter = "all"
      BY <3>1, EmptySeq
    <3>2. CASE list.filter # "all"
      BY <2>2, <3>2
    <3> QED BY <3>1, <3>2
  <2> HIDE DEF left
  <2>4. rowFetches \o left \in Seq(Rows)
    BY <2>3, ConcatProperties DEF TypeOK
  <2>5. rowFetches' = (rowFetches \o left) \o <<RowsOf(d.address, "all", 1)>>
    BY <1>4, <1>5
  <2> QED BY <2>2, <2>4, <2>5, ConcatLast
<1> QED BY <1>1, <1>2, <1>3, <1>4, <1>5

\* Answers to the window.
LEMMA TypeAnswers ==
  ASSUME TypeOK, DetailsEnd \/ RowsEnd
  PROVE  TypeOK' /\ UNCHANGED <<page, inOrder, token, range, sections, fetches>>
<1>1. ASSUME NEW i \in DOMAIN opens, Details(i)
      PROVE  TypeOK' /\ UNCHANGED <<page, inOrder, token, range, sections, fetches>>
  <2> DEFINE d == opens[i]
  <2>1. d \in Detail /\ d.address \in Addresses
    BY <1>1, DetailsArrive DEF Detail
  <2>2. [data |-> d, loading |-> FALSE] \in [data : Detail \cup {None}, loading : BOOLEAN]
    BY <2>1
  <2>3. DetailsRows(d) \in Rows
    BY <2>1, FiltersAssumption DEF DetailsRows, Rows, Detail
  <2>4. [rows |-> DetailsRows(d), filter |-> "all", page |-> 1, loading |-> TRUE]
          \in [rows : Rows \cup {None}, filter : Filters, page : Int, loading : BOOLEAN]
    BY <2>3, FiltersAssumption
  <2> HIDE DEF d
  <2>5. /\ list' \in [rows : Rows \cup {None}, filter : Filters, page : Int, loading : BOOLEAN]
        /\ rowFetches' \in Seq(Rows)
    BY <1>1, <2>4, DetailsArrive DEF d, TypeOK
  <2>6. modal' \in [data : Detail \cup {None}, loading : BOOLEAN]
    BY <1>1, <2>2, DetailsArrive DEF d
  <2>7. opens' \in Seq(Detail) /\ UNCHANGED <<page, inOrder, token, range, sections, fetches, events>>
    BY <1>1, DetailsArrive
  <2> QED BY <2>5, <2>6, <2>7 DEF TypeOK
<1>2. ASSUME NEW i \in DOMAIN opens, DetailsFail(i)
      PROVE  TypeOK' /\ UNCHANGED <<page, inOrder, token, range, sections, fetches>>
  <2>1. opens' \in Seq(Detail)
    BY <1>2, RemoveAtProperties DEF TypeOK, DetailsFail
  <2>2. modal' \in [data : Detail \cup {None}, loading : BOOLEAN]
    BY <1>2 DEF TypeOK, DetailsFail
  <2> QED BY <1>2, <2>1, <2>2 DEF TypeOK, DetailsFail
<1>3. ASSUME NEW i \in DOMAIN rowFetches, NEW ok \in BOOLEAN, RowsArrive(i, ok)
      PROVE  TypeOK' /\ UNCHANGED <<page, inOrder, token, range, sections, fetches>>
  <2>1. rowFetches' \in Seq(Rows) /\ rowFetches[i] \in Rows
    <3>1. rowFetches \in Seq(Rows)
      BY DEF TypeOK
    <3>2. i \in 1..Len(rowFetches)
      BY <3>1, LenProperties
    <3> QED BY <1>3, <3>1, <3>2, ElementOfSeq, RemoveAtProperties DEF RowsArrive
  <2>2. list' \in [rows : Rows \cup {None}, filter : Filters, page : Int, loading : BOOLEAN]
    <3> DEFINE T == [rows : Rows \cup {None}, filter : Filters, page : Int, loading : BOOLEAN]
               l1 == [list EXCEPT !.rows = IF ok THEN rowFetches[i] ELSE None]
               l2 == [l1 EXCEPT !.page = rowFetches[i].page]
    <3>1. l1 \in T
      BY <2>1 DEF TypeOK
    <3>2. rowFetches[i].page \in Int
      BY <2>1 DEF Rows
    <3>3. l2 \in T
      <4> HIDE DEF l1
      <4> QED BY <3>1, <3>2
    <3>4. list' = [l2 EXCEPT !.loading = FALSE]
      BY <1>3 DEF RowsArrive
    <3> HIDE DEF l1, l2
    <3> QED BY <3>3, <3>4
  <2> QED BY <1>3, <2>1, <2>2 DEF TypeOK, RowsArrive
<1> QED BY <1>1, <1>2, <1>3 DEF DetailsEnd, RowsEnd, Arrives

\* The page as it opens.
LEMMA TypeInit == Init => TypeOK /\ SameRequests
<1> SUFFICES ASSUME Init PROVE TypeOK /\ SameRequests
  OBVIOUS
<1>1. FirstRange \in Ranges /\ FirstToken \in Tokens
  BY FirstAssumption
<1>2. page # "feed" => Asked(token, range) \in Asks
  BY <1>1, AskedTyped DEF Init
<1>3. page # "feed" => <<Asked(token, range)>> \in Seq(Asks)
  BY <1>2
<1>4. fetches \in [Sections -> Seq(Asks)]
  BY <1>3, EmptySeq DEF Init
<1>5. sections \in [Sections -> [shows : Asks \cup {None}, loading : BOOLEAN, failed : BOOLEAN]]
  <2>1. [NothingShown EXCEPT !.loading = (page # "feed")]
          \in [shows : Asks \cup {None}, loading : BOOLEAN, failed : BOOLEAN]
    BY DEF NothingShown
  <2> QED BY <2>1 DEF Init
<1>6. opens \in Seq(Detail) /\ rowFetches \in Seq(Rows)
  BY EmptySeq DEF Init
<1>7. list \in [rows : Rows \cup {None}, filter : Filters, page : Int, loading : BOOLEAN]
  BY FiltersAssumption DEF Init
<1>8. events \in 0..MaxEvents[page]
  <2>1. MaxEvents[page] \in Nat
    BY BoundsAssumption DEF Init
  <2> QED BY <2>1 DEF Init
<1>9. SameRequests
  BY DEF Init, SameRequests
<1> QED BY <1>1, <1>4, <1>5, <1>6, <1>7, <1>8, <1>9 DEF Init, TypeOK

\* Every step keeps the types.
LEMMA TypeStep ==
  ASSUME TypeOK, SameRequests, [Next]_vars
  PROVE  TypeOK' /\ SameRequests'
<1>1. CASE UNCHANGED vars
  BY <1>1 DEF vars, window, TypeOK, SameRequests
<1>2. CASE Refresh \/ \E t \in Tokens, r \in Ranges : Select(t, r)
  BY <1>2, TypeSelect
<1>3. CASE \E s \in Sections : FetchEnds(s)
  BY <1>3, TypeBoxes
<1>4. ASSUME TypeOK', UNCHANGED <<page, fetches>> PROVE TypeOK' /\ SameRequests'
  BY <1>4 DEF SameRequests
<1>5. CASE DetailsEnd \/ RowsEnd
  BY <1>4, <1>5, TypeAnswers
<1>6. CASE \/ \E t \in Tokens : OpenTransaction(t)
           \/ CloseTransaction \/ CloseModal \/ Escape
           \/ \E a \in Addresses : ClickAddress(a)
           \/ \E f \in Filters : ChangeFilter(f)
           \/ \E n \in 1..MaxPage : ChangePage(n)
  BY <1>4, <1>6, TypeClicks
<1> QED BY <1>1, <1>2, <1>3, <1>5, <1>6 DEF Next

\* The types of the pages' state, and that the four lists of Addresses always have
\* the same requests in flight (fetchAllCategories awaits Promise.all).
THEOREM PagesTyped == Spec => [](TypeOK /\ SameRequests)
BY TypeInit, TypeStep, PTL DEF Spec

-----------------------------------------------------------------------------
(* Details on their way.                                                   *)

\* The window waits with nothing in it, and off the feed for exactly one answer.
WaitsForOne ==
  /\ modal.loading => modal.data = None
  /\ page # "feed" => Len(opens) = IF modal.loading THEN 1 ELSE 0

\* Nothing is asked for as the page opens.
LEMMA WaitsInit == Init => WaitsForOne
BY DEF Init, WaitsForOne

\* One click, one request, one answer.
LEMMA WaitsStep ==
  ASSUME TypeOK, SameRequests, WaitsForOne, [Next]_vars
  PROVE  WaitsForOne'
<1>1. CASE UNCHANGED <<page, modal, opens>>
  BY <1>1 DEF WaitsForOne
<1>2. CASE UNCHANGED vars
  BY <1>1, <1>2 DEF vars, window
<1>3. CASE Refresh \/ \E t \in Tokens, r \in Ranges : Select(t, r)
  BY <1>1, <1>3 DEF Refresh, Select, window
<1>4. CASE \E s \in Sections : FetchEnds(s)
  BY <1>1, <1>4 DEF FetchEnds, Answer, FailBox, Settle, window
<1>5. CASE (\E t \in Tokens : OpenTransaction(t)) \/ CloseTransaction
  BY <1>1, <1>5 DEF OpenTransaction, CloseTransaction, window
<1>6. ASSUME NEW a \in Addresses, ClickAddress(a) PROVE WaitsForOne'
  <2> DEFINE call == [address |-> a, token |-> token, range |-> DetailRange]
  <2>1. call \in Detail /\ opens \in Seq(Detail)
    BY RowsTyped DEF TypeOK
  <2>2. /\ ~modal.loading /\ modal.data = None
        /\ modal' = [modal EXCEPT !.loading = TRUE] /\ opens' = Append(opens, call)
        /\ page' = page
    BY <1>6 DEF ClickAddress, IsOpen, TypeOK
  <2>3. modal'.loading = TRUE /\ modal'.data = None
    BY <2>2 DEF TypeOK
  <2> HIDE DEF call
  <2>4. Len(opens') = Len(opens) + 1
    BY <2>1, <2>2, AppendProperties
  <2> QED BY <2>2, <2>3, <2>4 DEF WaitsForOne
<1>7. ASSUME NEW i \in DOMAIN opens, Details(i) \/ DetailsFail(i) PROVE WaitsForOne'
  <2>1. Len(opens') = Len(opens) - 1 /\ page' = page
    BY <1>7, RemoveAtProperties DEF Details, DetailsFail, TypeOK
  <2>2. ~modal'.loading
    BY <1>7 DEF Details, DetailsFail, TypeOK
  <2>3. Len(opens) \in Nat /\ i \in 1..Len(opens)
    BY LenProperties DEF TypeOK
  <2> QED BY <2>1, <2>2, <2>3 DEF WaitsForOne
<1>8. CASE CloseModal \/ Escape
  <2>1. page' = page /\ modal'.data = None /\ opens' = opens
    <3>1. CASE modal' = [data |-> None, loading |-> FALSE]
      BY <1>8, <3>1 DEF CloseModal, Escape
    <3>2. CASE modal' = [data |-> None, loading |-> modal.loading]
      BY <1>8, <3>2 DEF CloseModal, Escape
    <3> QED BY <1>8, <3>1, <3>2 DEF CloseModal, Escape
  <2>2. page # "feed" => ~modal.loading /\ ~modal'.loading
    BY <1>8 DEF CloseModal, Escape, WaitsForOne, IsOpen
  <2> QED BY <2>1, <2>2 DEF WaitsForOne
<1>9. CASE (\E f \in Filters : ChangeFilter(f)) \/ (\E n \in 1..MaxPage : ChangePage(n)) \/ RowsEnd
  BY <1>1, <1>9 DEF ChangeFilter, ChangePage, RowsEnd, RowsArrive
<1> QED BY <1>2, <1>3, <1>4, <1>5, <1>6, <1>7, <1>8, <1>9 DEF Next, DetailsEnd

\* On Analytics and Addresses two answers never race for the window, and it cannot be
\* closed over one on its way (handleAddressClick and closeModal).
THEOREM DetailsRaceNothing == Spec => []DetailsAreAwaited
<1>1. TypeOK /\ WaitsForOne => DetailsAreAwaited
  <2>1. ASSUME TypeOK PROVE opens # <<>> => Len(opens) # 0
    BY <2>1, EmptySeq, LenProperties DEF TypeOK
  <2> QED BY <2>1 DEF WaitsForOne, DetailsAreAwaited
<1> QED BY <1>1, WaitsInit, WaitsStep, PagesTyped, PTL DEF Spec

-----------------------------------------------------------------------------
(* The boxes and lists.                                                    *)

\* What a box shows once its requests are answered.
BoxFits(s) ==
  /\ ~sections[s].failed => ~sections[s].loading /\ sections[s].shows = Asked(token, range)
  /\ sections[s].failed /\ page = "addresses" => ~sections[s].loading /\ sections[s].shows = None

\* While one is in flight the last one is of what is selected, and it has not failed.
BoxFollows(s) ==
  IF fetches[s] = <<>> THEN BoxFits(s)
  ELSE ~sections[s].failed /\ LastOf(fetches[s]) = Asked(token, range)

BoxesFollow == inOrder /\ page # "feed" => \A s \in Sections : BoxFollows(s)

\* The first requests are of the first selection.
LEMMA BoxesInit == Init => BoxesFollow
<1> SUFFICES ASSUME Init, page # "feed", NEW s \in Sections PROVE BoxFollows(s)
  BY DEF BoxesFollow
<1>1. fetches[s] = <<Asked(token, range)>> /\ ~sections[s].failed
  BY DEF Init, NothingShown
<1> DEFINE e == Asked(token, range)
<1>2. fetches[s] = <<e>>
  BY <1>1
<1> HIDE DEF e
<1>3. fetches[s] # <<>> /\ LastOf(fetches[s]) = e
  BY <1>2 DEF LastOf
<1> QED BY <1>1, <1>3 DEF BoxFollows, e

\* Nothing about the boxes changes.
LEMMA BoxesKept ==
  ASSUME BoxesFollow, UNCHANGED <<page, inOrder, token, range, sections, fetches>>
  PROVE  BoxesFollow'
BY DEF BoxesFollow, BoxFollows, BoxFits, Asked

\* Selections ask anew, and the answers arrive one after the other.
LEMMA BoxesStep ==
  ASSUME TypeOK, SameRequests, BoxesFollow, [Next]_vars
  PROVE  BoxesFollow'
<1>1. CASE Refresh \/ \E t \in Tokens, r \in Ranges : Select(t, r)
  <2>1. PICK t \in Tokens, r \in Ranges :
          /\ FetchAll(t, r) /\ token' = t /\ range' = r /\ UNCHANGED <<page, inOrder>>
    BY <1>1 DEF Refresh, Select, TypeOK
  <2> SUFFICES ASSUME NEW s \in Sections PROVE BoxFollows(s)'
    BY DEF BoxesFollow
  <2>2. fetches'[s] = Append(fetches[s], Asked(t, r)) /\ ~sections'[s].failed
    <3>1. sections'[s] = [sections[s] EXCEPT !.loading = TRUE, !.failed = FALSE]
      BY <2>1 DEF FetchAll
    <3> QED BY <2>1, <3>1 DEF FetchAll, TypeOK
  <2>3. Asked(token, range)' = Asked(t, r)
    BY <2>1 DEF Asked
  <2>4. fetches[s] \in Seq(Asks) /\ Asked(t, r) \in Asks
    BY AskedTyped DEF TypeOK
  <2>5. fetches'[s] # <<>> /\ LastOf(fetches'[s]) = Asked(t, r)
    BY <2>2, <2>4, AppendLast
  <2> QED BY <2>2, <2>3, <2>5 DEF BoxFollows, LastOf
<1>2. ASSUME NEW s \in Sections, FetchEnds(s) PROVE BoxesFollow'
  <2>1. PICK i \in DOMAIN fetches[s], refused \in SUBSET Together(s) :
          Answer(s, i, refused) \/ FailBox(s, i)
    BY <1>2 DEF FetchEnds
  <2>2. UNCHANGED <<page, inOrder, token, range>>
    BY <2>1, BoxEnds
  <2>3. Asked(token, range)' = Asked(token, range)
    BY <2>2 DEF Asked
  <2> SUFFICES ASSUME inOrder, page # "feed", NEW x \in Sections PROVE BoxFollows(x)'
    BY <2>2 DEF BoxesFollow
  <2>4. BoxFollows(x)
    BY DEF BoxesFollow
  <2>5. CASE x \notin Together(s)
    <3>1. sections'[x] = sections[x] /\ fetches'[x] = fetches[x]
      BY <2>1, <2>5, BoxEnds
    <3> QED BY <2>2, <2>3, <2>4, <3>1 DEF BoxFollows, BoxFits, LastOf
  <2>6. CASE x \in Together(s)
    <3>1. fetches[x] = fetches[s] /\ fetches[x] \in Seq(Asks) /\ i \in DOMAIN fetches[x]
      BY <2>1, <2>6 DEF Together, SameRequests, TypeOK
    <3>2. i = 1 /\ fetches[x] # <<>>
      <4>1. i = 1
        BY <2>1, BoxEnds DEF Arrives
      <4> QED BY <3>1, <4>1
    <3>3. /\ fetches'[x] = RemoveAt(fetches[x], i)
          /\ \/ sections'[x] = AfterAnswer(x, s, i, refused)
             \/ sections'[x] = AfterError(x, s, i)
      <4>1. x \in Sections \cap Together(s)
        BY <2>6
      <4>2. \A y \in Sections \cap Together(s) :
              /\ fetches'[y] = RemoveAt(fetches[y], i)
              /\ \/ sections'[y] = AfterAnswer(y, s, i, refused)
                 \/ sections'[y] = AfterError(y, s, i)
        BY <2>1, BoxEnds
      <4> QED BY <4>1, <4>2
    <3>4. ~sections[x].failed /\ LastOf(fetches[x]) = Asked(token, range)
      BY <2>4, <3>2 DEF BoxFollows
    <3>5. /\ fetches'[x] \in Seq(Asks) /\ Len(fetches'[x]) = Len(fetches[x]) - 1
          /\ i # Len(fetches[x]) => fetches'[x] # <<>> /\ LastOf(fetches'[x]) = LastOf(fetches[x])
      BY <3>1, <3>3, RemoveAtProperties
    <3>6. CASE i # Len(fetches[x])
      <4>1. ~sections'[x].failed
        <5>1. CASE sections'[x] = AfterAnswer(x, s, i, refused)
          BY <3>1, <3>4, <3>6, <5>1, RefusedAfter
        <5>2. CASE sections'[x] = AfterError(x, s, i)
          BY <3>1, <3>4, <3>6, <5>2, FailedAfter
        <5> QED BY <3>3, <5>1, <5>2
      <4> QED BY <2>3, <3>4, <3>5, <3>6, <4>1 DEF BoxFollows, LastOf
    <3>7. CASE i = Len(fetches[x])
      <4>1. fetches'[x] = <<>>
        <5>1. Len(fetches'[x]) = 0
          BY <3>2, <3>5, <3>7
        <5> QED BY <3>5, <5>1, EmptySeq
      <4>2. CASE sections'[x] = AfterAnswer(x, s, i, refused)
        <5>1. fetches[s][i] = Asked(token, range)
          BY <3>1, <3>4, <3>7 DEF LastOf
        <5>2. sections'[x].failed <=> x \in refused
          BY <3>1, <3>4, <3>7, <4>2, RefusedAfter
        <5>3. /\ ~sections'[x].loading
              /\ x \in refused => sections'[x].shows = None
              /\ x \notin refused => sections'[x].shows = Asked(token, range)
          BY <4>2, <5>1 DEF AfterAnswer
        <5> QED BY <2>3, <4>1, <5>2, <5>3 DEF BoxFollows, BoxFits
      <4>3. CASE sections'[x] = AfterError(x, s, i)
        <5>1. sections'[x].failed
          BY <3>1, <3>7, <4>3, FailedAfter
        <5>2. page = "addresses" => ~sections'[x].loading /\ sections'[x].shows = None
          BY <4>3 DEF AfterError
        <5> QED BY <2>2, <4>1, <5>1, <5>2 DEF BoxFollows, BoxFits
      <4> QED BY <3>3, <4>2, <4>3
    <3> QED BY <3>6, <3>7
  <2> QED BY <2>5, <2>6
<1>3. CASE DetailsEnd \/ RowsEnd
  BY <1>3, TypeAnswers, BoxesKept
<1>4. CASE \/ \E a \in Addresses : ClickAddress(a)
           \/ \E f \in Filters : ChangeFilter(f)
           \/ \E n \in 1..MaxPage : ChangePage(n)
           \/ CloseModal
  <2>1. UNCHANGED <<page, inOrder, token, range, sections, fetches>>
    BY <1>4 DEF ClickAddress, ChangeFilter, ChangePage, CloseModal
  <2> QED BY <2>1, BoxesKept
<1>5. CASE (\E t \in Tokens : OpenTransaction(t)) \/ CloseTransaction \/ Escape
  BY <1>5 DEF OpenTransaction, CloseTransaction, Escape, BoxesFollow
<1>6. CASE UNCHANGED vars
  BY <1>6, BoxesKept DEF vars
<1> QED BY <1>1, <1>2, <1>3, <1>4, <1>5, <1>6 DEF Next

\* When every answer is in and came in order, each box shows what is selected, and a
\* page of lists that failed is empty and not loading (fetchAnalyticsData and
\* fetchAllCategories, however often the user selects and refreshes meanwhile).
THEOREM BoxesShowSelection == Spec => []SectionsFit
<1>1. BoxesFollow => SectionsFit
  BY DEF BoxesFollow, BoxFollows, BoxFits, SectionsFit
<1> QED BY <1>1, BoxesInit, BoxesStep, PagesTyped, PTL DEF Spec

-----------------------------------------------------------------------------
(* The window's list.                                                      *)

\* While rows are asked for the last request is of the address and filter shown, and
\* once all are in the rows shown are of the page shown.
ListFollows ==
  inOrder /\ modal.data # None /\ token # None =>
    IF rowFetches = <<>>
    THEN /\ ~list.loading
         /\ list.rows # None => list.rows = RowsOf(modal.data.address, list.filter, list.page)
    ELSE \E n \in Int : LastOf(rowFetches) = RowsOf(modal.data.address, list.filter, n)

\* The page opens without the window.
LEMMA ListInit == Init => ListFollows
BY DEF Init, ListFollows

\* Nothing about the window changes.
LEMMA ListKept ==
  ASSUME ListFollows,
         \/ UNCHANGED <<page, inOrder, token, range, modal, list, rowFetches>>
         \/ modal'.data = None
  PROVE  ListFollows'
BY DEF ListFollows, LastOf, RowsOf, DetailRange

\* The window opens, is used and answered.
LEMMA ListStep ==
  ASSUME TypeOK, WaitsForOne, ListFollows, [Next]_vars
  PROVE  ListFollows'
<1>1. CASE Refresh \/ \E t \in Tokens, r \in Ranges : Select(t, r)
  <2>1. modal'.data = None
    BY <1>1 DEF Refresh, Select, IsOpen, window
  <2> QED BY <2>1, ListKept
<1>2. CASE \E s \in Sections : FetchEnds(s)
  <2>1. UNCHANGED <<page, inOrder, token, range, modal, list, rowFetches>>
    BY <1>2 DEF FetchEnds, Answer, FailBox, Settle, window
  <2> QED BY <2>1, ListKept
<1>3. CASE (\E t \in Tokens : OpenTransaction(t)) \/ CloseTransaction
  <2>1. modal'.data = None
    BY <1>3 DEF OpenTransaction, CloseTransaction, IsOpen, window
  <2> QED BY <2>1, ListKept
<1>4. CASE (\E a \in Addresses : ClickAddress(a)) \/ CloseModal \/ Escape
  <2>1. modal'.data = None
    <3>1. CASE \E a \in Addresses : ClickAddress(a)
      BY <3>1 DEF ClickAddress, IsOpen, TypeOK
    <3>2. CASE modal' = [data |-> None, loading |-> FALSE]
      BY <3>2
    <3>3. CASE modal' = [data |-> None, loading |-> modal.loading]
      BY <3>3
    <3> QED BY <1>4, <3>1, <3>2, <3>3 DEF CloseModal, Escape
  <2> QED BY <2>1, ListKept
<1>5. ASSUME NEW i \in DOMAIN opens, Details(i) PROVE ListFollows'
  <2> DEFINE d == opens[i]
  <2>1. /\ modal' = [data |-> d, loading |-> FALSE] /\ UNCHANGED <<page, inOrder, token, range>>
        /\ ~IsNew(d) => UNCHANGED <<list, rowFetches>>
        /\ IsNew(d) =>
              /\ list' = [rows |-> DetailsRows(d), filter |-> "all", page |-> 1, loading |-> TRUE]
              /\ rowFetches' \in Seq(Rows) /\ rowFetches' # <<>>
              /\ LastOf(rowFetches') = RowsOf(d.address, "all", 1)
    BY <1>5, DetailsArrive
  <2> HIDE DEF d
  <2>2. \A a, f, n : RowsOf(a, f, n)' = RowsOf(a, f, n)
    BY <2>1 DEF RowsOf, DetailRange
  <2>3. modal'.data.address = d.address
    BY <2>1
  <2>4. CASE IsNew(d)
    <3>1. LastOf(rowFetches)' = RowsOf(modal.data.address, list.filter, 1)'
      <4>1. list'.filter = "all"
        BY <2>1, <2>4
      <4> QED BY <2>1, <2>3, <2>4, <4>1 DEF LastOf, RowsOf, DetailRange
    <3>2. 1 \in Int
      OBVIOUS
    <3> QED BY <2>1, <2>4, <3>1, <3>2 DEF ListFollows
  <2>5. CASE ~IsNew(d)
    <3>1. modal.data # None /\ modal.data.address = d.address
      BY <2>5 DEF IsNew
    <3> QED BY <2>1, <2>3, <2>5, <3>1 DEF ListFollows, LastOf, RowsOf, DetailRange
  <2> QED BY <2>4, <2>5
<1>6. ASSUME NEW i \in DOMAIN opens, DetailsFail(i) PROVE ListFollows'
  <2>1. modal'.data = modal.data /\ UNCHANGED <<page, inOrder, token, range, list, rowFetches>>
    BY <1>6 DEF DetailsFail, TypeOK
  <2> QED BY <2>1 DEF ListFollows, LastOf, RowsOf, DetailRange
<1>7. CASE (\E f \in Filters : ChangeFilter(f)) \/ (\E n \in 1..MaxPage : ChangePage(n))
  <2>1. PICK n \in Int :
          /\ rowFetches' = Append(rowFetches, RowsOf(modal.data.address, list'.filter, n))
          /\ list'.filter \in Filters
          /\ Usable /\ UNCHANGED <<page, inOrder, token, range, modal>>
    BY <1>7, ListAsks
  <2>2. modal.data.address \in Addresses
    BY <2>1 DEF Usable, TypeOK, Detail
  <2> DEFINE e == RowsOf(modal.data.address, list'.filter, n)
  <2>3. e \in Rows /\ rowFetches \in Seq(Rows)
    BY <2>1, <2>2, RowsTyped DEF TypeOK
  <2>4. e = RowsOf(modal.data.address, list.filter, n)'
    BY <2>1 DEF RowsOf, DetailRange
  <2> HIDE DEF e
  <2>5. rowFetches' # <<>> /\ LastOf(rowFetches') = e
    <3>1. rowFetches' = Append(rowFetches, e)
      BY <2>1 DEF e
    <3> QED BY <2>3, <3>1, AppendLast
  <2>6. LastOf(rowFetches)' = RowsOf(modal.data.address, list.filter, n)'
    BY <2>4, <2>5 DEF LastOf
  <2> QED BY <2>5, <2>6 DEF ListFollows
<1>8. ASSUME NEW i \in DOMAIN rowFetches, NEW ok \in BOOLEAN, RowsArrive(i, ok) PROVE ListFollows'
  <2>1. UNCHANGED <<page, inOrder, token, range, modal>> /\ rowFetches' = RemoveAt(rowFetches, i)
    BY <1>8 DEF RowsArrive
  <2> SUFFICES ASSUME inOrder, modal.data # None, token # None PROVE ListFollows'
    BY <2>1 DEF ListFollows
  <2>2. rowFetches \in Seq(Rows) /\ Len(rowFetches) \in Nat /\ i \in 1..Len(rowFetches)
    BY LenProperties DEF TypeOK
  <2>3. rowFetches # <<>>
    BY <2>2
  <2>4. PICK n \in Int : LastOf(rowFetches) = RowsOf(modal.data.address, list.filter, n)
    BY <2>3 DEF ListFollows
  <2>5. i = Len(rowFetches) => i = 1
    BY <1>8, <2>4 DEF RowsArrive, LastOf, RowsOf
  <2>6. /\ Len(rowFetches') = Len(rowFetches) - 1 /\ rowFetches' \in Seq(Rows)
        /\ i # Len(rowFetches) => rowFetches' # <<>> /\ LastOf(rowFetches') = LastOf(rowFetches)
    BY <2>1, RemoveAtProperties DEF TypeOK
  <2>7. /\ ~list'.loading /\ list'.filter = list.filter
        /\ list'.page = rowFetches[i].page
        /\ list'.rows # None => list'.rows = rowFetches[i]
    <3> DEFINE l1 == [list EXCEPT !.rows = IF ok THEN rowFetches[i] ELSE None]
               l2 == [l1 EXCEPT !.page = rowFetches[i].page]
    <3>1. list' = [l2 EXCEPT !.loading = FALSE]
      BY <1>8 DEF RowsArrive
    <3>2. /\ DOMAIN l1 = {"rows", "filter", "page", "loading"} /\ l1.filter = list.filter
          /\ l1.rows # None => l1.rows = rowFetches[i]
      BY DEF TypeOK
    <3> HIDE DEF l1
    <3>3. /\ DOMAIN l2 = {"rows", "filter", "page", "loading"} /\ l2.filter = l1.filter
          /\ l2.rows = l1.rows /\ l2.page = rowFetches[i].page
      BY <3>2
    <3> HIDE DEF l2
    <3> QED BY <3>1, <3>2, <3>3
  <2>8. CASE i # Len(rowFetches)
    <3>1. LastOf(rowFetches)' = RowsOf(modal.data.address, list.filter, n)'
      BY <2>1, <2>4, <2>6, <2>7, <2>8 DEF LastOf, RowsOf, DetailRange
    <3> QED BY <2>6, <2>8, <3>1 DEF ListFollows
  <2>9. CASE i = Len(rowFetches)
    <3>1. rowFetches' = <<>>
      <4>1. Len(rowFetches') = 0
        BY <2>5, <2>6, <2>9
      <4> QED BY <2>6, <4>1, EmptySeq
    <3>2. rowFetches[i] = RowsOf(modal.data.address, list.filter, n)
      BY <2>4, <2>9 DEF LastOf
    <3>3. rowFetches[i].page = n
      BY <3>2 DEF RowsOf
    <3>4. RowsOf(modal.data.address, list.filter, list.page)' = rowFetches[i]
      BY <2>1, <2>7, <3>2, <3>3 DEF RowsOf, DetailRange
    <3> QED BY <2>7, <3>1, <3>4 DEF ListFollows
  <2> QED BY <2>8, <2>9
<1>9. CASE UNCHANGED vars
  BY <1>9, ListKept DEF vars, window
<1> QED BY <1>1, <1>2, <1>3, <1>4, <1>5, <1>6, <1>7, <1>8, <1>9 DEF Next, DetailsEnd, RowsEnd

\* When every answer is in and came in order, the window lists the page its pager shows
\* under the filter and the address it shows (the effects and handlePageChange of
\* DetailedAnalysisModal, for every sequence of filters, pages and windows).
THEOREM WindowShowsAsked == Spec => []ListFits
<1>1. ListFollows => ListFits
  BY DEF ListFollows, ListFits, Usable
<1> QED BY <1>1, WaitsInit, WaitsStep, ListInit, ListStep, PagesTyped, PTL DEF Spec

=============================================================================
