----------------------- MODULE TransactionList_proofs -----------------------
(***************************************************************************)
(* The live list for every table, page size, filter and number of          *)
(* requests.  An answer below a cursor does not depend on when it was      *)
(* given, so it may come late or from the cache; an answer to a first      *)
(* load may not, which is what base, whole and overtaken keep apart.       *)
(***************************************************************************)
EXTENDS TransactionList, SequenceTheorems, FiniteSetTheorems, TLAPS

\* Queries and filters have all their fields; all tokens are selected as none.
IsQuery(q) == q = [token |-> q.token, from |-> q.from, to |-> q.to, odd |-> q.odd]

IsFilter(f) ==
  /\ f = [tokens |-> f.tokens, term |-> f.term, odd |-> f.odd]
  /\ Canonical(f.tokens) = f.tokens

TypeOK ==
  /\ stored \in Nat \ {0} /\ stored =< Len(Rows) /\ issued \in Nat /\ lastId \in 0..stored
  /\ transactions \in Seq(Nat) /\ recent \in Seq(Nat) /\ feed \in Seq(Nat)
  /\ \A b \in {hasMore, isInitialLoad, isLoading, whole, overtaken} : b \in BOOLEAN
  /\ IsFilter(filters)
  /\ base.no \in 0..issued /\ base.upTo \in 0..stored
  /\ \A r \in requests :
       /\ r = [no |-> r.no, kind |-> r.kind, ask |-> r.ask, at |-> r.at, answer |-> r.answer]
       /\ r.no \in 1..issued /\ r.ask.after \in 0..stored
       /\ r.kind = (IF r.ask.after = 0 THEN "load" ELSE "more")
       /\ r.at \in {"sent", "read", "answered"}
       /\ IsQuery(r.ask.filters)

\* What an answer was to hold, when it was given with n rows in the table.
Wanted(ask, n) == Matching(ask.filters, {i \in 1..n : ask.after > 0 => i < ask.after})

IsAnswer(ask, a) ==
  /\ a.upTo \in ask.after..stored
  /\ a.ids = Newest(Wanted(ask, a.upTo), PageSize)
  /\ a.hasNext = (Cardinality(Wanted(ask, a.upTo)) > PageSize)

AnswersAreTrue ==
  /\ \A r \in requests : r.at # "sent" => IsAnswer(r.ask, r.answer)
  /\ \A e \in redis : e.ask.after \in Nat /\ IsAnswer(e.ask, e.answer)

\* The recent rows are the beginning of the list.
Once ==
  /\ IsInjective(transactions)
  /\ Len(recent) =< Len(transactions)
  /\ \A i \in 1..Len(recent) : recent[i] = transactions[i]

Complete == ListIsComplete /\ (whole => lastId =< base.upTo)

Loads == {r \in requests : r.kind = "load"}

\* While the first load is under way it is alone.
FirstLoad == isInitialLoad => lastId = 0 /\ \E r \in Loads : requests = {r}

\* The last load asked for is for the tokens selected: it is still to come, or it
\* was the last to be applied.
FitsTokens ==
  ~overtaken /\ ~isInitialLoad =>
    \/ \E r \in Loads : /\ Canonical(r.ask.filters.token) = filters.tokens /\ base.no < r.no
                        /\ \A s \in Loads : s = r \/ s.no < r.no
    \/ base.filters.token = filters.tokens /\ \A s \in Loads : s.no < base.no

IInv == TypeOK /\ AnswersAreTrue /\ Once /\ Complete /\ FirstLoad /\ FitsTokens
-----------------------------------------------------------------------------
(* The rows of a page: those with the first places among what is wanted.   *)

LEMMA SizeFacts ==
  /\ \A n \in {PageSize, MaxRecent, MaxKept, Len(Rows)} : n \in Nat /\ n > 0
  /\ MaxRecent =< MaxKept
BY SizeAssumption

\* A row that comes before another has a smaller place.
LEMMA PlacesDescend ==
  ASSUME NEW S, S \subseteq Nat, IsFiniteSet(S), NEW i \in S
  PROVE  /\ Place(i, S) \in 1..Cardinality(S) /\ Cardinality(S) \in Nat
         /\ \A j \in S : i < j => Place(j, S) < Place(i, S)
<1> DEFINE From(x) == {y \in S : y >= x}
<1>1. ASSUME NEW x \in S PROVE IsFiniteSet(From(x)) /\ Cardinality(From(x)) \in Nat
  <2>1. From(x) \in SUBSET S
    OBVIOUS
  <2> QED BY <2>1, FS_Subset, FS_CardinalityType
<1>2. Cardinality(S) \in Nat /\ Cardinality(From(i)) =< Cardinality(S)
  <2>1. From(i) \in SUBSET S
    OBVIOUS
  <2> QED BY <2>1, FS_Subset, FS_CardinalityType
<1>3. Cardinality(From(i)) # 0
  <2>1. i \in From(i)
    OBVIOUS
  <2> QED BY <1>1, <2>1, FS_EmptySet
<1>4. ASSUME NEW j \in S, i < j PROVE Cardinality(From(j)) < Cardinality(From(i))
  <2>1. From(j) \in SUBSET From(i)
    <3> SUFFICES ASSUME NEW y \in S, y >= j PROVE y >= i
      OBVIOUS
    <3>1. y \in Nat /\ i \in Nat /\ j \in Nat
      OBVIOUS
    <3> QED BY <1>4, <3>1
  <2>2. i \in From(i) /\ i \notin From(j)
    BY <1>4
  <2>3. Cardinality(From(j)) =< Cardinality(From(i)) /\ Cardinality(From(j)) # Cardinality(From(i))
    <3> HIDE DEF From
    <3> QED BY <1>1, <2>1, <2>2, FS_Subset
  <2> HIDE DEF From
  <2> QED BY <1>1, <2>3
<1> HIDE DEF From
<1>5. /\ Cardinality(From(i)) \in 1..Cardinality(S) /\ Cardinality(S) \in Nat
      /\ \A j \in S : i < j => Cardinality(From(j)) < Cardinality(From(i))
  BY <1>1, <1>2, <1>3, <1>4
<1> QED BY <1>5 DEF From, Place

\* Each place is taken.
LEMMA PlacesAreTaken ==
  ASSUME NEW S, S \subseteq Nat, IsFiniteSet(S), NEW k \in 1..Cardinality(S)
  PROVE  \E i \in S : Place(i, S) = k
<1> DEFINE f == [i \in S |-> Place(i, S)]
           T == 1..Cardinality(S)
<1>1. Cardinality(S) \in Nat /\ IsFiniteSet(T) /\ Cardinality(T) = Cardinality(S)
  <2>1. Cardinality(S) \in Nat
    BY FS_CardinalityType
  <2> QED BY <2>1, FS_Interval
<1>2. f \in Injection(S, T)
  <2>1. f \in [S -> T]
    BY PlacesDescend
  <2>2. ASSUME NEW i \in S, NEW j \in S, Place(i, S) = Place(j, S) PROVE i = j
    <3>1. /\ Place(i, S) \in Int /\ i \in Nat /\ j \in Nat
          /\ (i < j => Place(j, S) < Place(i, S)) /\ (j < i => Place(i, S) < Place(j, S))
      <4>1. Place(i, S) \in 1..Cardinality(S) /\ (i < j => Place(j, S) < Place(i, S))
        BY PlacesDescend
      <4>2. j < i => Place(i, S) < Place(j, S)
        BY PlacesDescend
      <4> QED BY <1>1, <4>1, <4>2
    <3> QED BY <2>2, <3>1
  <2> QED BY <2>1, <2>2 DEF Injection, IsInjective
<1>3. f \in Surjection(S, T)
  BY <1>1, <1>2, FS_Injection
<1> QED BY <1>3 DEF Surjection

\* The n largest of a set, in descending order, and the rest below them.
ListsNewest(s, S, n) ==
  /\ s \in Seq(S) /\ Len(s) \in Nat
  /\ Len(s) = IF Cardinality(S) < n THEN Cardinality(S) ELSE n
  /\ \A j, k \in 1..Len(s) : j < k => s[k] < s[j]
  /\ \A x \in S : (\E k \in 1..Len(s) : s[k] = x) \/ \A k \in 1..Len(s) : x < s[k]
  /\ Cardinality(S) =< n => \A x \in S : \E k \in 1..Len(s) : s[k] = x
  /\ Cardinality(S) > n => \E x \in S : \A k \in 1..Len(s) : x < s[k]

LEMMA NewestProperties ==
  ASSUME NEW S, S \subseteq Nat, IsFiniteSet(S), NEW n \in Nat
  PROVE  ListsNewest(Newest(S, n), S, n)
<1> DEFINE c == Cardinality(S)
           m == IF c < n THEN c ELSE n
           s == Newest(S, n)
<1>1. c \in Nat /\ m \in Nat /\ m =< n /\ m =< c
  BY FS_CardinalityType
<1>2. \A k \in 1..m : k \in 1..c
  BY <1>1
<1>3. \A k \in 1..m : s[k] \in S /\ Place(s[k], S) = k
  <2> SUFFICES ASSUME NEW k \in 1..m PROVE s[k] \in S /\ Place(s[k], S) = k
    OBVIOUS
  <2>1. \E i \in S : Place(i, S) = k
    BY <1>2, PlacesAreTaken
  <2>2. s[k] = CHOOSE i \in S : Place(i, S) = k
    BY DEF Newest
  <2> QED BY <2>1, <2>2
<1>4. s \in [1..m -> S]
  BY <1>3 DEF Newest
<1>5. s \in Seq(S) /\ Len(s) = m
  <2> HIDE DEF s, m
  <2> QED BY <1>1, <1>4
<1>6. \A x \in S : Place(x, S) \in 1..c
  BY PlacesDescend
<1>7. ASSUME NEW x \in S, NEW y \in S, Place(x, S) < Place(y, S) PROVE y < x
  <2>1. ~(x < y)
    <3>1. Place(x, S) \in 1..c /\ Place(y, S) \in 1..c /\ (x < y => Place(y, S) < Place(x, S))
      BY PlacesDescend
    <3> HIDE DEF c
    <3> QED BY <1>1, <1>7, <3>1
  <2>2. x # y
    <3>1. Place(x, S) \in 1..c
      BY <1>6
    <3> HIDE DEF c
    <3> QED BY <1>1, <1>7, <3>1
  <2> QED BY <2>1, <2>2
<1>8. ASSUME NEW x \in S, NEW y \in S, Place(x, S) = Place(y, S) PROVE x = y
  <2>1. ~(x < y) /\ ~(y < x)
    <3>1. /\ Place(x, S) \in 1..c
          /\ (x < y => Place(y, S) < Place(x, S)) /\ (y < x => Place(x, S) < Place(y, S))
      BY PlacesDescend
    <3> HIDE DEF c
    <3> QED BY <1>1, <1>8, <3>1
  <2> QED BY <2>1
<1> HIDE DEF s, m, c
<1>9. \A j, k \in 1..m : j < k => s[k] < s[j]
  BY <1>3, <1>7
<1>10. ASSUME NEW x \in S
       PROVE  /\ Place(x, S) =< m => \E k \in 1..m : s[k] = x
              /\ ~(Place(x, S) =< m) => \A k \in 1..m : x < s[k]
  <2>1. CASE Place(x, S) =< m
    <3>1. Place(x, S) \in 1..m
      BY <1>1, <1>6, <2>1
    <3> QED BY <1>3, <1>8, <2>1, <3>1
  <2>2. CASE ~(Place(x, S) =< m)
    <3>1. \A k \in 1..m : Place(s[k], S) < Place(x, S)
      BY <1>1, <1>3, <1>6, <2>2
    <3> QED BY <1>3, <1>7, <2>2, <3>1
  <2> QED BY <2>1, <2>2
<1>11. c =< n => \A x \in S : Place(x, S) =< m
  BY <1>1, <1>6 DEF m
<1>12. c > n => \E x \in S : ~(Place(x, S) =< m)
  <2> SUFFICES ASSUME c > n PROVE \E x \in S : ~(Place(x, S) =< m)
    OBVIOUS
  <2>1. c \in 1..c /\ ~(c =< m)
    BY <1>1 DEF m
  <2>2. PICK x \in S : Place(x, S) = c
    BY <2>1, PlacesAreTaken DEF c
  <2> QED BY <2>1, <2>2
<1>13. /\ s \in Seq(S) /\ Len(s) \in Nat
       /\ Len(s) = m
       /\ \A j, k \in 1..Len(s) : j < k => s[k] < s[j]
       /\ \A x \in S : (\E k \in 1..Len(s) : s[k] = x) \/ \A k \in 1..Len(s) : x < s[k]
       /\ c =< n => \A x \in S : \E k \in 1..Len(s) : s[k] = x
       /\ c > n => \E x \in S : \A k \in 1..Len(s) : x < s[k]
  BY <1>1, <1>5, <1>9, <1>10, <1>11, <1>12
<1> QED BY <1>13 DEF s, m, c, ListsNewest

\* A list by its places.
LEMMA ByIndex ==
  ASSUME NEW s \in Seq(Nat)
  PROVE  /\ Len(s) \in Nat /\ (s = <<>> <=> Len(s) = 0)
         /\ \A k \in 1..Len(s) : s[k] \in Nat
         /\ \A x : x \in ToSet(s) <=> \E k \in 1..Len(s) : s[k] = x
         /\ IsInjective(s) <=> \A j, k \in 1..Len(s) : s[j] = s[k] => j = k
<1>1. DOMAIN s = 1..Len(s) /\ Len(s) \in Nat /\ (s = <<>> <=> Len(s) = 0)
  BY LenProperties, EmptySeq
<1> QED BY <1>1, ElementOfSeq DEF ToSet, IsInjective

\* A slice from the front.
LEMMA FirstOfProperties ==
  ASSUME NEW s \in Seq(Nat), NEW n \in Nat
  PROVE  /\ FirstOf(s, n) \in Seq(Nat)
         /\ Len(FirstOf(s, n)) = IF Len(s) < n THEN Len(s) ELSE n
         /\ \A k \in 1..Len(FirstOf(s, n)) : FirstOf(s, n)[k] = s[k]
<1> DEFINE m == IF Len(s) < n THEN Len(s) ELSE n
<1>1. m \in Nat /\ m =< Len(s) /\ Len(s) \in Nat
  BY ByIndex
<1> HIDE DEF m
<1>2. \A k \in 1..m : s[k] \in Nat
  BY <1>1, ByIndex
<1>3. /\ SubSeq(s, 1, m) \in Seq(Nat) /\ Len(SubSeq(s, 1, m)) = m
      /\ \A k \in 1..m : SubSeq(s, 1, m)[k] = s[k]
  BY <1>1, <1>2
<1> QED BY <1>3 DEF m, FirstOf

LEMMA WantedFacts ==
  ASSUME NEW ask, NEW n \in Nat
  PROVE  /\ Wanted(ask, n) \subseteq 1..n /\ Wanted(ask, n) \subseteq Nat
         /\ IsFiniteSet(Wanted(ask, n)) /\ Cardinality(Wanted(ask, n)) \in Nat
<1>1. Wanted(ask, n) \in SUBSET (1..n)
  BY DEF Wanted, Matching
<1>2. IsFiniteSet(1..n)
  BY FS_Interval
<1> QED BY <1>1, <1>2, FS_Subset, FS_CardinalityType

\* A page goes down to its last row without leaving any out, and says whether there
\* are rows below it.
LEMMA AnswerFacts ==
  ASSUME NEW ask, NEW a, ask.after \in Nat, stored \in Nat, IsAnswer(ask, a)
  PROVE  LET W == Wanted(ask, a.upTo) IN
         /\ a.upTo \in Nat /\ a.upTo =< stored /\ ask.after =< a.upTo
         /\ a.ids \in Seq(Nat) /\ IsInjective(a.ids) /\ ToSet(a.ids) \subseteq W
         /\ a.hasNext \in BOOLEAN
         /\ a.ids = <<>> => W = {} /\ ~a.hasNext
         /\ a.ids # <<>> =>
              /\ Last(a.ids) \in W
              /\ \A x \in W : x \in ToSet(a.ids) \/ x < Last(a.ids)
              /\ a.hasNext <=> \E x \in W : x < Last(a.ids)
<1> DEFINE W == Wanted(ask, a.upTo)
           s == a.ids
           c == Cardinality(W)
<1>1. a.upTo \in Nat /\ a.upTo =< stored /\ ask.after =< a.upTo
  BY DEF IsAnswer
<1>2. W \subseteq Nat /\ IsFiniteSet(W) /\ c \in Nat /\ PageSize \in Nat /\ PageSize > 0
  BY <1>1, WantedFacts, SizeFacts
<1>3. s = Newest(W, PageSize) /\ a.hasNext = (c > PageSize)
  BY DEF IsAnswer
<1> HIDE DEF W, s, c
<1>4. /\ s \in Seq(W) /\ Len(s) \in Nat
      /\ Len(s) = IF c < PageSize THEN c ELSE PageSize
      /\ \A j, k \in 1..Len(s) : j < k => s[k] < s[j]
      /\ \A x \in W : (\E k \in 1..Len(s) : s[k] = x) \/ \A k \in 1..Len(s) : x < s[k]
      /\ c =< PageSize => \A x \in W : \E k \in 1..Len(s) : s[k] = x
      /\ c > PageSize => \E x \in W : \A k \in 1..Len(s) : x < s[k]
  <2>1. ListsNewest(s, W, PageSize)
    BY <1>2, <1>3, NewestProperties
  <2> QED BY <2>1, Zenon DEF ListsNewest, c
<1>5. \A k \in 1..Len(s) : s[k] \in W /\ s[k] \in Nat
  BY <1>2, <1>4, ElementOfSeq
<1>6. s \in Seq(Nat)
  BY <1>2, <1>4, SeqMonotonic
<1>7. IsInjective(s)
  <2>1. ASSUME NEW j \in 1..Len(s), NEW k \in 1..Len(s), s[j] = s[k] PROVE j = k
    <3>1. s[j] \in Nat
      BY <1>5
    <3>2. ~(j < k) /\ ~(k < j)
      BY <1>4, <2>1, <3>1
    <3> QED BY <1>4, <3>2
  <2> QED BY <1>6, <2>1, ByIndex
<1>8. \A x : x \in ToSet(s) <=> \E k \in 1..Len(s) : s[k] = x
  BY <1>6, ByIndex
<1>9. ASSUME s = <<>> PROVE W = {} /\ ~a.hasNext
  <2>1. c = 0
    BY <1>2, <1>4, <1>6, <1>9, ByIndex
  <2>2. W = {}
    BY <1>2, <2>1, FS_EmptySet DEF c
  <2>3. ~(c > PageSize)
    BY <1>2, <2>1
  <2> QED BY <1>3, <2>2, <2>3
<1>10. ASSUME s # <<>>
       PROVE  /\ Last(s) \in W
              /\ \A x \in W : x \in ToSet(s) \/ x < Last(s)
              /\ a.hasNext <=> \E x \in W : x < Last(s)
  <2>1. Len(s) \in 1..Len(s) /\ Last(s) = s[Len(s)]
    BY <1>4, <1>6, <1>10, ByIndex DEF Last
  <2>2. \A k \in 1..Len(s) : ~(s[k] < Last(s))
    <3> SUFFICES ASSUME NEW k \in 1..Len(s) PROVE ~(s[k] < s[Len(s)])
      BY <2>1
    <3>1. s[k] \in Nat /\ s[Len(s)] \in Nat
      BY <1>5, <2>1
    <3>2. CASE k = Len(s)
      BY <3>1, <3>2
    <3>3. CASE k < Len(s)
      BY <1>4, <2>1, <3>1, <3>3
    <3> QED BY <1>4, <3>2, <3>3
  <2>3. CASE c =< PageSize
    <3>1. ~a.hasNext
      <4>1. ~(c > PageSize)
        BY <1>2, <2>3
      <4> QED BY <1>3, <4>1
    <3>2. \A x \in W : x \in ToSet(s)
      BY <1>4, <1>8, <2>3
    <3>3. \A x \in W : ~(x < Last(s))
      BY <1>8, <2>2, <3>2
    <3> QED BY <1>5, <2>1, <3>1, <3>2, <3>3
  <2>4. CASE c > PageSize
    <3>1. \E x \in W : x < Last(s)
      BY <1>4, <2>1, <2>4
    <3>2. a.hasNext
      BY <1>3, <2>4
    <3>3. \A x \in W : x \in ToSet(s) \/ x < Last(s)
      BY <1>4, <1>8, <2>1
    <3> QED BY <1>5, <2>1, <3>1, <3>2, <3>3
  <2> QED BY <1>2, <2>3, <2>4
<1>11. a.hasNext \in BOOLEAN
  BY <1>3
<1>12. ToSet(s) \subseteq W
  BY <1>5, <1>8
<1> QED BY <1>1, <1>6, <1>7, <1>9, <1>10, <1>11, <1>12 DEF W, s

\* The rows of a page the list has not, each once.
LEMMA NewRowsFacts ==
  ASSUME NEW ids \in Seq(Nat)
  PROVE  /\ NewRows(ids) \in Seq(Nat) /\ IsInjective(NewRows(ids))
         /\ ToSet(NewRows(ids)) = ToSet(ids) \ ToSet(transactions)
<1> DEFINE S == ToSet(ids) \ ToSet(transactions)
           s == NewRows(ids)
<1>1. Len(ids) \in Nat /\ ToSet(ids) \subseteq Nat
  BY ByIndex
<1>2. IsFiniteSet(ToSet(ids)) /\ Cardinality(ToSet(ids)) =< Len(ids)
  <2>1. DOMAIN ids = 1..Len(ids)
    BY LenProperties
  <2>2. ids \in Surjection(1..Len(ids), ToSet(ids))
    BY <2>1 DEF Surjection, ToSet
  <2>3. IsFiniteSet(1..Len(ids)) /\ Cardinality(1..Len(ids)) = Len(ids)
    <3>1. 1 \in Int /\ Len(ids) \in Int /\ Len(ids) >= 0
      BY <1>1
    <3>2. /\ IsFiniteSet(1..Len(ids))
          /\ Cardinality(1..Len(ids)) = IF 1 > Len(ids) THEN 0 ELSE Len(ids) - 1 + 1
      BY <3>1, FS_Interval, Zenon
    <3> QED BY <3>1, <3>2
  <2> QED BY <2>2, <2>3, FS_Surjection
<1>3. S \subseteq Nat /\ IsFiniteSet(S) /\ Cardinality(S) =< Len(ids)
  <2>1. S \in SUBSET ToSet(ids)
    OBVIOUS
  <2>2. IsFiniteSet(S) /\ Cardinality(S) =< Cardinality(ToSet(ids))
    BY <1>2, <2>1, FS_Subset
  <2>3. Cardinality(S) \in Nat /\ Cardinality(ToSet(ids)) \in Nat
    BY <1>2, <2>2, FS_CardinalityType
  <2> QED BY <1>1, <1>2, <2>2, <2>3
<1> HIDE DEF S, s
<1>4. s = Newest(S, Len(ids))
  BY DEF s, S, NewRows
<1>5. /\ s \in Seq(S) /\ Len(s) \in Nat
      /\ \A j, k \in 1..Len(s) : j < k => s[k] < s[j]
      /\ \A x \in S : \E k \in 1..Len(s) : s[k] = x
  <2>1. ListsNewest(s, S, Len(ids))
    BY <1>1, <1>3, <1>4, NewestProperties
  <2> QED BY <1>3, <2>1 DEF ListsNewest
<1>6. s \in Seq(Nat) /\ \A k \in 1..Len(s) : s[k] \in S
  BY <1>3, <1>5, SeqMonotonic, ElementOfSeq
<1>7. IsInjective(s)
  <2>1. ASSUME NEW j \in 1..Len(s), NEW k \in 1..Len(s), s[j] = s[k] PROVE j = k
    <3>1. s[j] \in Nat
      BY <1>3, <1>6
    <3>2. ~(s[j] < s[k]) /\ ~(s[k] < s[j])
      BY <2>1, <3>1
    <3>3. ~(j < k) /\ ~(k < j)
      BY <1>5, <2>1, <3>2
    <3>4. j \in Int /\ k \in Int
      BY <1>5, <2>1
    <3> QED BY <3>3, <3>4
  <2> QED BY <1>6, <2>1, ByIndex
<1>8. ToSet(s) = S
  <2>1. \A x : x \in ToSet(s) <=> \E k \in 1..Len(s) : s[k] = x
    BY <1>6, ByIndex
  <2> QED BY <1>5, <1>6, <2>1
<1> QED BY <1>6, <1>7, <1>8 DEF s, S

-----------------------------------------------------------------------------
(* Steps that leave the list alone.                                        *)

\* A table that grows keeps what an answer says.
LEMMA AnswersStay ==
  ASSUME stored \in Nat, stored' \in Nat, stored =< stored', NEW ask, NEW a,
         ask.after \in Nat, IsAnswer(ask, a)
  PROVE  IsAnswer(ask, a)'
<1>1. a.upTo \in ask.after..stored'
  BY DEF IsAnswer
<1> QED BY <1>1 DEF IsAnswer

LEMMA ListStays ==
  ASSUME IInv, UNCHANGED <<list, base, whole, heard>>
  PROVE  Once' /\ Complete'
BY DEF IInv, Once, Complete, ListIsComplete, list

LEMMA QuietStep ==
  ASSUME IInv, Save \/ Disconnect \/ ErrorMessage \/ \E f \in Filters : Refine(f)
  PROVE  IInv'
<1>1. /\ UNCHANGED <<redis, requests, issued, list, isInitialLoad, history>>
      /\ stored' \in Nat /\ stored =< stored' /\ stored' > 0 /\ stored' =< Len(Rows)
      /\ feed' \in Seq(Nat) /\ isLoading' \in BOOLEAN
      /\ IsFilter(filters') /\ filters'.tokens = filters.tokens
  <2>1. CASE Save
    <3>1. stored' \in Nat /\ stored' = stored + 1 /\ feed' = Append(feed, stored') /\ feed \in Seq(Nat)
      BY <2>1 DEF Save, IInv, TypeOK
    <3>2. feed' \in Seq(Nat)
      BY <3>1, AppendProperties
    <3>3. stored' =< Len(Rows)
      BY <2>1, <3>1, SizeFacts DEF Save, IInv, TypeOK
    <3> QED BY <2>1, <3>1, <3>2, <3>3 DEF Save, IInv, TypeOK
  <2>2. CASE Disconnect \/ ErrorMessage
    <3>1. <<>> \in Seq(Nat) /\ FALSE \in BOOLEAN
      OBVIOUS
    <3>2. stored \in Nat \ {0} /\ stored =< Len(Rows) /\ feed \in Seq(Nat) /\ isLoading \in BOOLEAN
      BY DEF IInv, TypeOK
    <3>3. IsFilter(filters)
      BY DEF IInv, TypeOK
    <3>4. feed' \in Seq(Nat) /\ isLoading' \in BOOLEAN
      BY <2>2, <3>1, <3>2 DEF Disconnect, ErrorMessage, server
    <3> QED BY <2>2, <3>2, <3>3, <3>4 DEF Disconnect, ErrorMessage, server
  <2>3. ASSUME NEW f \in Filters, Refine(f)
        PROVE  /\ IsFilter(filters') /\ filters'.tokens = filters.tokens
               /\ UNCHANGED <<server, requests, issued, list, isInitialLoad, isLoading, history>>
    <3>1. f = [tokens |-> f.tokens, term |-> f.term, odd |-> f.odd]
      BY DEF Filters
    <3>2. Canonical(filters.tokens) = filters.tokens
      BY DEF IInv, TypeOK, IsFilter
    <3> QED BY <2>3, <3>1, <3>2 DEF Refine, IsFilter
  <2> QED BY <2>1, <2>2, <2>3 DEF server, IInv, TypeOK
<1>2. TypeOK'
  BY <1>1 DEF IInv, TypeOK, list, history
<1>3. AnswersAreTrue'
  <2>1. stored \in Nat /\ \A r \in requests : r.ask.after \in Nat
    BY DEF IInv, TypeOK
  <2> QED BY <1>1, <2>1, AnswersStay DEF IInv, AnswersAreTrue
<1>4. Once' /\ Complete'
  BY <1>1, ListStays DEF history
<1>5. FirstLoad' /\ FitsTokens'
  BY <1>1 DEF IInv, FirstLoad, FitsTokens, Loads, list, history
<1> QED BY <1>2, <1>3, <1>4, <1>5 DEF IInv

\* A request goes one step on at the server.
LEMMA ServeStep ==
  ASSUME IInv, NEW r \in requests, Serve(r)
  PROVE  IInv'
<1>1. PICK at, a :
        /\ at \in {"read", "answered"}
        /\ Advance(r, at, a) /\ IsAnswer(r.ask, a)
        /\ \A e \in redis' : e \in redis \/ e = [ask |-> r.ask, answer |-> a]
        /\ UNCHANGED <<stored, feed, page>>
  <2>1. CASE Lookup(r)
    <3>1. PICK e \in redis : e.ask = r.ask /\ Advance(r, "answered", e.answer)
      BY <2>1 DEF Lookup
    <3>2. IsAnswer(r.ask, e.answer)
      BY <3>1 DEF IInv, AnswersAreTrue
    <3> QED BY <2>1, <3>1, <3>2 DEF Lookup, server
  <2>2. CASE Query(r)
    <3>1. stored \in r.ask.after..stored /\ stored \in Nat
      BY DEF IInv, TypeOK
    <3>2. Wanted(r.ask, stored) = Matching(r.ask.filters, BeyondCursor(r.ask))
      BY DEF Wanted, BeyondCursor
    <3>3. IsAnswer(r.ask, CursorPage(r.ask))
      BY <3>1, <3>2 DEF IsAnswer, CursorPage, Page
    <3> QED BY <2>2, <3>3 DEF Query, server
  <2>3. CASE Store(r)
    <3>1. IsAnswer(r.ask, r.answer) /\ Advance(r, "answered", r.answer)
      BY <2>3 DEF Store, IInv, AnswersAreTrue
    <3> QED BY <2>3, <3>1 DEF Store
  <2> QED BY <2>1, <2>2, <2>3 DEF Serve
<1> DEFINE n == [no |-> r.no, kind |-> r.kind, ask |-> r.ask, at |-> at, answer |-> a]
<1>2. requests' = (requests \ {r}) \union {n}
  <2>1. r = [no |-> r.no, kind |-> r.kind, ask |-> r.ask, at |-> r.at, answer |-> r.answer]
    BY DEF IInv, TypeOK
  <2> DEFINE s == [no |-> r.no, kind |-> r.kind, ask |-> r.ask, at |-> at, answer |-> r.answer]
  <2>2. [r EXCEPT !.at = at] = s
    BY <2>1
  <2>3. [s EXCEPT !.answer = a] = n
    OBVIOUS
  <2>4. [r EXCEPT !.at = at, !.answer = a] = [[r EXCEPT !.at = at] EXCEPT !.answer = a]
    OBVIOUS
  <2>5. [r EXCEPT !.at = at, !.answer = a] = n
    BY <2>2, <2>3, <2>4
  <2> QED BY <1>1, <2>5 DEF Advance
<1>3. /\ n = [no |-> n.no, kind |-> n.kind, ask |-> n.ask, at |-> n.at, answer |-> n.answer]
      /\ n.no = r.no /\ n.kind = r.kind /\ n.ask = r.ask /\ n.at = at /\ n.answer = a
  OBVIOUS
<1> HIDE DEF n
<1>4. UNCHANGED <<stored, feed, issued, list, filters, isInitialLoad, isLoading, history>>
  BY <1>1 DEF page
<1>5. TypeOK'
  <2>1. \A q \in requests' :
          /\ q = [no |-> q.no, kind |-> q.kind, ask |-> q.ask, at |-> q.at, answer |-> q.answer]
          /\ q.no \in 1..issued /\ q.ask.after \in 0..stored
          /\ q.kind = (IF q.ask.after = 0 THEN "load" ELSE "more")
          /\ q.at \in {"sent", "read", "answered"}
          /\ IsQuery(q.ask.filters)
    <3>1. at \in {"sent", "read", "answered"}
      BY <1>1
    <3>2. \A q \in requests \ {r} : q \in requests
      OBVIOUS
    <3>3. r \in requests
      OBVIOUS
    <3> QED BY <1>2, <1>3, <3>1, <3>2, <3>3 DEF IInv, TypeOK
  <2> QED BY <1>4, <2>1 DEF IInv, TypeOK, list, history
<1>6. AnswersAreTrue'
  <2>1. \A q \in requests' : q.at # "sent" => IsAnswer(q.ask, q.answer)
    BY <1>1, <1>2, <1>3 DEF IInv, AnswersAreTrue
  <2>2. \A e \in redis' : e.ask.after \in Nat /\ IsAnswer(e.ask, e.answer)
    BY <1>1 DEF IInv, AnswersAreTrue, TypeOK
  <2> QED BY <1>4, <2>1, <2>2 DEF AnswersAreTrue, IsAnswer
<1>7. Once' /\ Complete'
  BY <1>4, ListStays DEF history
<1>8. FirstLoad'
  BY <1>2, <1>3, <1>4 DEF IInv, FirstLoad, Loads, list
<1>9. FitsTokens'
  <2>1. \A q \in Loads' : q \in Loads \/ (r \in Loads /\ q = n)
    BY <1>2, <1>3 DEF Loads
  <2>2. \A q \in Loads : q \in Loads' \/ (q = r /\ n \in Loads')
    BY <1>2, <1>3 DEF Loads
  <2> SUFFICES ASSUME ~overtaken, ~isInitialLoad PROVE FitsTokens'
    BY <1>4 DEF FitsTokens, history
  <2>3. CASE base.filters.token = filters.tokens /\ \A s \in Loads : s.no < base.no
    BY <1>3, <1>4, <2>1, <2>3 DEF FitsTokens, history
  <2>4. ASSUME NEW q \in Loads, Canonical(q.ask.filters.token) = filters.tokens, base.no < q.no,
               \A s \in Loads : s = q \/ s.no < q.no
        PROVE  FitsTokens'
    <3>1. CASE q = r
      <4>1. n \in Loads' /\ \A s \in Loads' : s = n \/ s.no < n.no
        BY <1>2, <1>3, <2>1, <2>2, <2>4, <3>1 DEF Loads
      <4> QED BY <1>3, <1>4, <2>4, <3>1, <4>1 DEF FitsTokens, history
    <3>2. CASE q # r
      <4>1. q \in Loads' /\ \A s \in Loads' : s = q \/ s.no < q.no
        BY <1>3, <2>1, <2>2, <2>4, <3>2
      <4> QED BY <1>4, <2>4, <4>1 DEF FitsTokens, history
    <3> QED BY <3>1, <3>2
  <2> QED BY <2>3, <2>4 DEF IInv, FitsTokens
<1> QED BY <1>5, <1>6, <1>7, <1>8, <1>9 DEF IInv

-----------------------------------------------------------------------------
(* Steps that ask.                                                         *)

\* A request is the newest of all.
IsNewRequest(n, kind, f, after) ==
  /\ n = [no |-> n.no, kind |-> n.kind, ask |-> n.ask, at |-> n.at, answer |-> n.answer]
  /\ n.no = issued + 1 /\ n.kind = kind /\ n.ask.filters.token = f.tokens
  /\ n.ask.after = after /\ n.at = "sent" /\ IsQuery(n.ask.filters)
  /\ requests' = requests \union {n} /\ issued' = issued + 1 /\ issued \in Nat
  /\ isLoading' = TRUE
  /\ \A r \in requests : r.no \in 1..issued

LEMMA SendFacts ==
  ASSUME IInv, NEW kind, NEW f, NEW after, Send(kind, f, after)
  PROVE  IsNewRequest(NewRequest(kind, f, after), kind, f, after)
BY DEF IsNewRequest, Send, NewRequest, ApiFilters, IsQuery, IInv, TypeOK

\* The list asks for the tokens it is to show, or for more.
LEMMA AskStep ==
  ASSUME IInv, NEW kind, NEW after \in 0..stored, Send(kind, filters', after),
         kind = (IF after = 0 THEN "load" ELSE "more"), ~isInitialLoad,
         UNCHANGED <<server, list, isInitialLoad, base, whole, heard>>,
         overtaken' \in BOOLEAN,
         IsFilter(filters'),
         kind = "more" => UNCHANGED <<filters, overtaken>>
  PROVE  IInv'
<1> DEFINE n == NewRequest(kind, filters', after)
<1>1. /\ n = [no |-> n.no, kind |-> n.kind, ask |-> n.ask, at |-> n.at, answer |-> n.answer]
      /\ n.no = issued + 1 /\ n.kind = kind /\ n.ask.filters.token = filters'.tokens
      /\ n.ask.after = after /\ n.at = "sent" /\ IsQuery(n.ask.filters)
      /\ requests' = requests \union {n} /\ issued' = issued + 1 /\ issued \in Nat
      /\ isLoading' = TRUE
      /\ \A r \in requests : r.no \in 1..issued
  <2>1. IsNewRequest(n, kind, filters', after)
    BY SendFacts
  <2> HIDE DEF n
  <2> QED BY <2>1 DEF IsNewRequest
<1> HIDE DEF n
<1>2. TypeOK'
  <2>1. \A q \in requests' :
          /\ q = [no |-> q.no, kind |-> q.kind, ask |-> q.ask, at |-> q.at, answer |-> q.answer]
          /\ q.no \in 1..issued' /\ q.ask.after \in 0..stored
          /\ q.kind = (IF q.ask.after = 0 THEN "load" ELSE "more")
          /\ q.at \in {"sent", "read", "answered"}
          /\ IsQuery(q.ask.filters)
    BY <1>1 DEF IInv, TypeOK
  <2>2. base.no \in 0..issued'
    BY <1>1 DEF IInv, TypeOK
  <2> QED BY <1>1, <2>1, <2>2 DEF IInv, TypeOK, server, list
<1>3. AnswersAreTrue'
  BY <1>1 DEF IInv, AnswersAreTrue, IsAnswer, server
<1>4. Once' /\ Complete'
  BY ListStays
<1>5. FirstLoad'
  BY DEF FirstLoad
<1>6. FitsTokens'
  <2>1. CASE kind = "load"
    <3>1. n \in Loads' /\ base.no < n.no /\ \A s \in Loads' : s = n \/ s.no < n.no
      BY <1>1, <2>1 DEF Loads, IInv, TypeOK
    <3>2. Canonical(n.ask.filters.token) = filters'.tokens
      BY <1>1 DEF IsFilter
    <3> QED BY <1>1, <3>1, <3>2 DEF FitsTokens
  <2>2. CASE kind = "more"
    <3>1. Loads' = Loads
      BY <1>1, <2>2 DEF Loads
    <3> QED BY <2>2, <3>1 DEF IInv, FitsTokens
  <2> QED BY <2>1, <2>2
<1> QED BY <1>2, <1>3, <1>4, <1>5, <1>6 DEF IInv

\* The tokens change: with a reload, or none under the first load.
LEMMA TokensStep ==
  ASSUME IInv, Reload(filters'), IsFilter(filters'),
         UNCHANGED <<server, list, isInitialLoad, base, whole, heard>>
  PROVE  IInv'
<1>1. CASE isInitialLoad
  <2>1. UNCHANGED <<requests, issued, isLoading, overtaken>>
    BY <1>1 DEF Reload
  <2>2. TypeOK' /\ AnswersAreTrue'
    BY <2>1 DEF IInv, TypeOK, AnswersAreTrue, IsAnswer, server, list
  <2>3. FirstLoad' /\ FitsTokens'
    BY <1>1, <2>1 DEF IInv, FirstLoad, FitsTokens, Loads, list
  <2> QED BY <2>2, <2>3, ListStays DEF IInv
<1>2. CASE ~isInitialLoad
  <2>1. Send("load", filters', 0) /\ overtaken' = FALSE /\ 0 \in 0..stored
    BY <1>2 DEF Reload, IInv, TypeOK
  <2> QED BY <1>2, <2>1, AskStep
<1> QED BY <1>1, <1>2 DEF IInv, TypeOK

\* All tokens and none of them are one selection.
LEMMA CanonicalFacts ==
  ASSUME NEW T
  PROVE  Canonical(Canonical(T)) = Canonical(T)
BY DEF Canonical

LEMMA SelectStep ==
  ASSUME IInv, ToggleAll \/ \E t \in Tokens : Toggle(t)
  PROVE  IInv'
<1>1. filters = [tokens |-> filters.tokens, term |-> filters.term, odd |-> filters.odd]
  BY DEF IInv, TypeOK, IsFilter
<1>2. ASSUME NEW T, Canonical(T) = T, filters' = [filters EXCEPT !.tokens = T]
      PROVE  IsFilter(filters')
  <2>1. filters' = [tokens |-> T, term |-> filters.term, odd |-> filters.odd]
    BY <1>1, <1>2
  <2> QED BY <1>2, <2>1 DEF IsFilter
<1>3. CASE ToggleAll
  <2>1. Canonical({}) = {}
    BY DEF Canonical
  <2> QED BY <1>2, <1>3, <2>1, TokensStep DEF ToggleAll
<1>4. ASSUME NEW t \in Tokens, Toggle(t) PROVE IInv'
  <2>1. PICK T : filters' = [filters EXCEPT !.tokens = Canonical(T)]
    BY <1>4 DEF Toggle
  <2>2. IsFilter(filters')
    BY <1>2, <2>1, CanonicalFacts
  <2> QED BY <1>4, <2>2, TokensStep DEF Toggle
<1> QED BY <1>3, <1>4

LEMMA LoadMoreStep ==
  ASSUME IInv, LoadMore
  PROVE  IInv'
<1>1. /\ Send("more", filters', lastId) /\ lastId \in 0..stored /\ lastId # 0
      /\ UNCHANGED <<server, list, filters, isInitialLoad, history>>
  BY DEF LoadMore, IInv, TypeOK
<1>2. ~isInitialLoad /\ overtaken \in BOOLEAN /\ IsFilter(filters')
  BY <1>1 DEF IInv, FirstLoad, TypeOK
<1> QED BY <1>1, <1>2, AskStep DEF history

\* One load, with nothing in the list.
LEMMA FreshFacts ==
  ASSUME NEW f, NEW q, Fresh(f), IsFilter(f), IsQuery(q), stored' =< Len(Rows),
         stored' \in Nat \ {0}, feed' = <<>>, isLoading' = TRUE, issued' \in Nat \ {0},
         requests' = {[no |-> issued', kind |-> "load",
                       ask |-> [filters |-> q, after |-> 0],
                       at |-> "sent", answer |-> NoAnswer]},
         \A e \in redis' : e.ask.after \in Nat /\ IsAnswer(e.ask, e.answer)'
  PROVE  IInv'
<1>1. <<>> \in Seq(Nat) /\ Len(<<>>) = 0 /\ 0 \in 0..stored'
  OBVIOUS
<1>2. base'.no = 0 /\ base'.upTo = 0
  BY DEF Fresh, NoBase
<1>3. TypeOK'
  <2>1. \A b \in {hasMore', isInitialLoad', isLoading', whole', overtaken'} : b \in BOOLEAN
    BY DEF Fresh
  <2> QED BY <1>1, <1>2, <2>1 DEF Fresh, TypeOK
<1>4. AnswersAreTrue'
  BY DEF AnswersAreTrue
<1>5. Once'
  <2>1. transactions' = <<>> /\ recent' = <<>>
    BY DEF Fresh
  <2>2. IsInjective(<<>>)
    <3>1. DOMAIN <<>> = {}
      OBVIOUS
    <3> QED BY <3>1 DEF IsInjective
  <2> QED BY <1>1, <2>1, <2>2 DEF Once
<1>6. Complete'
  BY DEF Fresh, Complete, ListIsComplete
<1>7. FirstLoad' /\ FitsTokens'
  BY DEF Fresh, FirstLoad, FitsTokens, Loads
<1> QED BY <1>3, <1>4, <1>5, <1>6, <1>7 DEF IInv

LEMMA OpenAgainStep ==
  ASSUME IInv, OpenAgain
  PROVE  IInv'
<1> DEFINE f == OutUrl(InUrl(filters))
           q == ApiFilters(InUrl(filters))
<1>1. filters = [tokens |-> filters.tokens, term |-> filters.term, odd |-> filters.odd]
  BY DEF IInv, TypeOK, IsFilter
<1>2. IsFilter(f) /\ IsQuery(q)
  <2> DEFINE T == FromUrl(UrlTokens(filters.tokens))
  <2>1. InUrl(filters) = [tokens |-> T, term |-> filters.term, odd |-> filters.odd]
    BY <1>1 DEF InUrl
  <2> HIDE DEF T
  <2>2. f = [tokens |-> Canonical(T), term |-> filters.term, odd |-> filters.odd]
    BY <2>1 DEF OutUrl
  <2> QED BY <2>2, CanonicalFacts DEF IsFilter, IsQuery, ApiFilters
<1> HIDE DEF f, q
<1>3. /\ Fresh(f) /\ issued' = issued + 1
      /\ requests' = {[no |-> issued + 1, kind |-> "load", ask |-> [filters |-> q, after |-> 0],
                       at |-> "sent", answer |-> NoAnswer]}
      /\ isLoading' = TRUE /\ feed' = <<>> /\ UNCHANGED <<stored, redis>>
  BY DEF OpenAgain, NewRequest, f, q
<1>4. /\ stored' \in Nat \ {0} /\ stored' =< Len(Rows) /\ issued' \in Nat \ {0}
      /\ \A e \in redis' : e.ask.after \in Nat /\ IsAnswer(e.ask, e.answer)'
  BY <1>3 DEF IInv, TypeOK, AnswersAreTrue, IsAnswer
<1> QED BY <1>2, <1>3, <1>4, FreshFacts

-----------------------------------------------------------------------------
(* Steps that change the list.                                             *)

\* A row put before the others, and the list cut.
IsPush(c, h, s, n) ==
  /\ c \in Seq(Nat)
  /\ Len(c) = IF Len(s) + 1 < n THEN Len(s) + 1 ELSE n
  /\ \A k \in 1..Len(c) : c[k] = IF k = 1 THEN h ELSE s[k - 1]

LEMMA PushFacts ==
  ASSUME NEW h \in Nat, NEW s \in Seq(Nat), NEW n \in Nat, n > 0
  PROVE  IsPush(FirstOf(<<h>> \o s, n), h, s, n)
<1> DEFINE c == <<h>> \o s
<1>1. Len(s) \in Nat
  BY ByIndex
<1>2. c \in Seq(Nat) /\ Len(c) = Len(s) + 1
  OBVIOUS
<1>3. \A k \in 1..Len(c) : c[k] = IF k = 1 THEN h ELSE s[k - 1]
  BY <1>1
<1> HIDE DEF c
<1>4. /\ FirstOf(c, n) \in Seq(Nat)
      /\ Len(FirstOf(c, n)) = IF Len(c) < n THEN Len(c) ELSE n
      /\ \A k \in 1..Len(FirstOf(c, n)) : FirstOf(c, n)[k] = c[k]
  BY <1>2, FirstOfProperties
<1>5. \A k \in 1..Len(FirstOf(c, n)) : k \in 1..Len(c)
  BY <1>1, <1>2, <1>4
<1>6. /\ FirstOf(c, n) \in Seq(Nat)
      /\ Len(FirstOf(c, n)) = IF Len(s) + 1 < n THEN Len(s) + 1 ELSE n
      /\ \A k \in 1..Len(FirstOf(c, n)) : FirstOf(c, n)[k] = IF k = 1 THEN h ELSE s[k - 1]
  BY <1>2, <1>3, <1>4, <1>5
<1> QED BY <1>6 DEF c, IsPush

LEMMA DeliverStep ==
  ASSUME IInv, Deliver
  PROVE  IInv'
<1> DEFINE h == Head(feed)
<1>1. /\ feed # <<>> /\ feed' = Tail(feed)
      /\ UNCHANGED <<stored, redis, requests, issued, hasMore, lastId, filters, isInitialLoad,
                     isLoading, base, overtaken>>
      /\ heard' = IF whole THEN heard \union {h} ELSE {}
  BY DEF Deliver
<1>2. h \in Nat /\ feed' \in Seq(Nat) /\ transactions \in Seq(Nat) /\ recent \in Seq(Nat)
  BY <1>1, HeadTailProperties DEF IInv, TypeOK
<1>3. AnswersAreTrue' /\ FirstLoad' /\ FitsTokens'
  BY <1>1 DEF IInv, AnswersAreTrue, IsAnswer, FirstLoad, FitsTokens, Loads
<1>4. CASE IsDuplicate(h)
  <2>1. UNCHANGED <<transactions, recent, whole>> /\ h \in ToSet(transactions)
    BY <1>4 DEF Deliver, IsDuplicate
  <2>2. TypeOK'
    BY <1>1, <1>2, <2>1 DEF IInv, TypeOK
  <2>3. Once'
    BY <2>1 DEF IInv, Once
  <2>4. Complete'
    BY <1>1, <2>1 DEF IInv, Complete, ListIsComplete
  <2> QED BY <1>3, <2>2, <2>3, <2>4 DEF IInv
<1>5. CASE ~IsDuplicate(h)
  <2>1. /\ transactions' = FirstOf(<<h>> \o transactions, MaxKept)
        /\ recent' = FirstOf(<<h>> \o recent, MaxRecent)
        /\ whole' = (whole /\ Len(transactions) < MaxKept)
        /\ h \notin ToSet(transactions)
    BY <1>5 DEF Deliver, IsDuplicate
  <2>2. MaxKept \in Nat /\ MaxKept > 0 /\ MaxRecent \in Nat /\ MaxRecent > 0 /\ MaxRecent =< MaxKept
    BY SizeFacts
  <2>3. /\ transactions' \in Seq(Nat)
        /\ Len(transactions') = IF Len(transactions) + 1 < MaxKept THEN Len(transactions) + 1
                                                                  ELSE MaxKept
        /\ \A k \in 1..Len(transactions') : transactions'[k] = IF k = 1 THEN h ELSE transactions[k - 1]
    <3>1. IsPush(FirstOf(<<h>> \o transactions, MaxKept), h, transactions, MaxKept)
      BY <1>2, <2>2, PushFacts
    <3>2. IsPush(transactions', h, transactions, MaxKept)
      BY <2>1, <3>1
    <3> QED BY <3>2, Zenon DEF IsPush
  <2>4. /\ recent' \in Seq(Nat)
        /\ Len(recent') = IF Len(recent) + 1 < MaxRecent THEN Len(recent) + 1 ELSE MaxRecent
        /\ \A k \in 1..Len(recent') : recent'[k] = IF k = 1 THEN h ELSE recent[k - 1]
    <3>1. IsPush(FirstOf(<<h>> \o recent, MaxRecent), h, recent, MaxRecent)
      BY <1>2, <2>2, PushFacts
    <3>2. IsPush(recent', h, recent, MaxRecent)
      BY <2>1, <3>1
    <3> QED BY <3>2, Zenon DEF IsPush
  <2>5. /\ Len(transactions) \in Nat /\ Len(recent) \in Nat /\ Len(recent) =< Len(transactions)
        /\ \A i \in 1..Len(recent) : recent[i] = transactions[i]
        /\ \A j, k \in 1..Len(transactions) : transactions[j] = transactions[k] => j = k
        /\ \A k \in 1..Len(transactions) : transactions[k] # h
    BY <1>2, <2>1, ByIndex DEF IInv, Once
  <2> HIDE DEF h
  <2>6. whole' \in BOOLEAN
    BY <2>1
  <2>7. TypeOK'
    BY <1>1, <1>2, <2>3, <2>4, <2>6 DEF IInv, TypeOK
  <2>8. Once'
    <3>1. IsInjective(transactions')
      <4>1. ASSUME NEW j \in 1..Len(transactions'), NEW k \in 1..Len(transactions'),
                   transactions'[j] = transactions'[k]
            PROVE  j = k
        <5>1. /\ j # 1 => j - 1 \in 1..Len(transactions)
              /\ k # 1 => k - 1 \in 1..Len(transactions)
          <6>1. Len(transactions') =< Len(transactions) + 1 /\ Len(transactions') \in Nat
            BY <2>2, <2>3, <2>5
          <6>2. j \in 1..Len(transactions') /\ k \in 1..Len(transactions')
            OBVIOUS
          <6>3. Len(transactions) \in Nat
            BY <2>5
          <6> QED BY <6>1, <6>2, <6>3
        <5>2. CASE j = 1 \/ k = 1
          <6>1. /\ transactions'[j] = IF j = 1 THEN h ELSE transactions[j - 1]
                /\ transactions'[k] = IF k = 1 THEN h ELSE transactions[k - 1]
            BY <2>3
          <6>2. /\ j # 1 => transactions[j - 1] # h
                /\ k # 1 => transactions[k - 1] # h
            BY <2>5, <5>1
          <6> QED BY <4>1, <5>2, <6>1, <6>2
        <5>3. CASE j # 1 /\ k # 1
          <6>1. j - 1 = k - 1
            BY <2>3, <2>5, <4>1, <5>1, <5>3
          <6> QED BY <6>1
        <5> QED BY <5>2, <5>3
      <4>2. IsInjective(transactions') <=>
              \A j, k \in 1..Len(transactions') : transactions'[j] = transactions'[k] => j = k
        BY <2>3, ByIndex
      <4> QED BY <4>1, <4>2
    <3>2. Len(recent') =< Len(transactions')
      BY <2>2, <2>3, <2>4, <2>5
    <3>3. ASSUME NEW i \in 1..Len(recent') PROVE recent'[i] = transactions'[i]
      <4>1. i \in 1..Len(transactions') /\ (i # 1 => i - 1 \in 1..Len(recent))
        <5>1. Len(recent') =< Len(recent) + 1 /\ Len(recent') \in Nat
          BY <2>2, <2>4, <2>5
        <5>2. Len(transactions') \in Nat /\ Len(recent) \in Nat
          BY <2>2, <2>3, <2>5
        <5> QED BY <3>2, <5>1, <5>2
      <4> QED BY <2>3, <2>4, <2>5, <4>1
    <3> QED BY <3>1, <3>2, <3>3 DEF Once
  <2>9. Complete'
    <3> SUFFICES ASSUME whole' PROVE Complete'
      BY DEF Complete, ListIsComplete
    <3>1. whole /\ Len(transactions') = Len(transactions) + 1
      <4>1. whole /\ Len(transactions) < MaxKept
        BY <2>1
      <4>2. MaxKept \in Nat /\ Len(transactions) \in Nat
        BY <2>2, <2>5
      <4>3. Len(transactions) + 1 =< MaxKept
        BY <4>1, <4>2
      <4>4. Len(transactions') = IF Len(transactions) + 1 < MaxKept THEN Len(transactions) + 1
                                                                    ELSE MaxKept
        BY <2>3
      <4>5. Len(transactions') = Len(transactions) + 1
        BY <4>2, <4>3, <4>4
      <4> QED BY <4>1, <4>5
    <3>2. ASSUME NEW x \in ToSet(transactions) PROVE x \in ToSet(transactions')
      <4>1. PICK k \in 1..Len(transactions) : transactions[k] = x
        BY <1>2, ByIndex
      <4>2. k + 1 \in 1..Len(transactions') /\ k + 1 # 1 /\ (k + 1) - 1 = k
        BY <2>5, <3>1
      <4>3. transactions'[k + 1] = x
        BY <2>3, <4>1, <4>2
      <4> QED BY <2>3, <4>2, <4>3, ByIndex
    <3>3. h \in ToSet(transactions')
      <4>1. 1 \in 1..Len(transactions') /\ transactions'[1] = h
        BY <2>3, <2>5, <3>1
      <4> QED BY <2>3, <4>1, ByIndex
    <3>4. heard' = heard \union {h}
      BY <1>1, <3>1
    <3>5. Complete /\ UNCHANGED <<base, lastId, hasMore>>
      BY <1>1 DEF IInv
    <3> QED BY <3>1, <3>2, <3>3, <3>4, <3>5 DEF Complete, ListIsComplete
  <2> QED BY <1>3, <2>7, <2>8, <2>9 DEF IInv
<1> QED BY <1>4, <1>5

\* A request that ends is one less.
LEMMA OneLess ==
  ASSUME IInv, NEW r \in requests, requests' = requests \ {r},
         UNCHANGED <<server, issued>>
  PROVE  /\ AnswersAreTrue'
         /\ Loads' = Loads \ {r}
         /\ \A q \in requests' :
              /\ q = [no |-> q.no, kind |-> q.kind, ask |-> q.ask, at |-> q.at, answer |-> q.answer]
              /\ q.no \in 1..issued /\ q.ask.after \in 0..stored
              /\ q.kind = (IF q.ask.after = 0 THEN "load" ELSE "more")
              /\ q.at \in {"sent", "read", "answered"}
          /\ IsQuery(q.ask.filters)
<1>1. AnswersAreTrue'
  BY DEF IInv, AnswersAreTrue, IsAnswer, server
<1>2. Loads' = Loads \ {r}
  BY DEF Loads
<1> QED BY <1>1, <1>2 DEF IInv, TypeOK

LEMMA ApplyMoreStep ==
  ASSUME IInv, NEW r \in requests, ApplyMore(r)
  PROVE  IInv'
<1> DEFINE ids == r.answer.ids
           N   == NewRows(ids)
           W   == Wanted(r.ask, r.answer.upTo)
           S   == Matching(base.filters, 1..base.upTo)
<1>1. /\ r.kind = "more" /\ r.at = "answered"
      /\ transactions' = transactions \o N /\ recent' = transactions'
      /\ hasMore' = r.answer.hasNext /\ lastId' = LastOr(ids, lastId)
      /\ isLoading' = FALSE /\ requests' = requests \ {r}
      /\ whole' = (whole /\ r.ask = [filters |-> base.filters, after |-> lastId])
      /\ UNCHANGED <<server, issued, filters, isInitialLoad, base, heard, overtaken>>
  BY DEF ApplyMore
<1>2. r.ask.after \in 1..stored /\ r.ask.after \in Nat /\ stored \in Nat /\ IsAnswer(r.ask, r.answer)
  BY <1>1 DEF IInv, TypeOK, AnswersAreTrue
<1>3. /\ r.answer.upTo \in Nat /\ r.answer.upTo =< stored /\ r.ask.after =< r.answer.upTo
      /\ ids \in Seq(Nat) /\ IsInjective(ids) /\ ToSet(ids) \subseteq W
      /\ r.answer.hasNext \in BOOLEAN
      /\ ids = <<>> => W = {} /\ ~r.answer.hasNext
      /\ ids # <<>> =>
           /\ Last(ids) \in W
           /\ \A x \in W : x \in ToSet(ids) \/ x < Last(ids)
           /\ r.answer.hasNext <=> \E x \in W : x < Last(ids)
  BY <1>2, AnswerFacts
<1>4. N \in Seq(Nat) /\ IsInjective(N) /\ ToSet(N) = ToSet(ids) \ ToSet(transactions)
  BY <1>3, NewRowsFacts
<1>5. W \subseteq 1..stored
  <2>1. W \subseteq 1..r.answer.upTo
    BY <1>3, WantedFacts
  <2> HIDE DEF W
  <2> QED BY <1>2, <1>3, <2>1
<1>6. transactions \in Seq(Nat) /\ IsInjective(transactions)
  BY DEF IInv, TypeOK, Once
<1> HIDE DEF ids, N, W
<1>7. /\ transactions' \in Seq(Nat) /\ IsInjective(transactions')
      /\ ToSet(transactions') = ToSet(transactions) \union ToSet(N)
  <2>1. Len(transactions) \in Nat /\ Len(N) \in Nat
    BY <1>4, <1>6, ByIndex
  <2>2. /\ transactions' \in Seq(Nat) /\ Len(transactions') = Len(transactions) + Len(N)
        /\ \A k \in 1..Len(transactions') :
             transactions'[k] = IF k =< Len(transactions) THEN transactions[k]
                                                          ELSE N[k - Len(transactions)]
    BY <1>1, <1>4, <1>6, <2>1, ConcatProperties
  <2>3. /\ \A x : x \in ToSet(transactions) <=> \E k \in 1..Len(transactions) : transactions[k] = x
        /\ \A x : x \in ToSet(N) <=> \E k \in 1..Len(N) : N[k] = x
        /\ \A x : x \in ToSet(transactions') <=> \E k \in 1..Len(transactions') : transactions'[k] = x
        /\ \A j, k \in 1..Len(transactions) : transactions[j] = transactions[k] => j = k
        /\ \A j, k \in 1..Len(N) : N[j] = N[k] => j = k
    BY <1>4, <1>6, <2>2, ByIndex
  <2>4. ASSUME NEW k \in 1..Len(transactions')
        PROVE  \/ /\ k \in 1..Len(transactions) /\ transactions'[k] = transactions[k]
                  /\ transactions'[k] \in ToSet(transactions)
               \/ /\ k - Len(transactions) \in 1..Len(N)
                  /\ transactions'[k] = N[k - Len(transactions)]
                  /\ transactions'[k] \in ToSet(N)
    <3>1. CASE k =< Len(transactions)
      <4>1. k \in 1..Len(transactions)
        BY <2>1, <3>1
      <4> QED BY <2>2, <2>3, <3>1, <4>1
    <3>2. CASE ~(k =< Len(transactions))
      <4>1. k - Len(transactions) \in 1..Len(N)
        BY <2>1, <2>2, <3>2
      <4> QED BY <2>2, <2>3, <3>2, <4>1
    <3> QED BY <3>1, <3>2
  <2>5. \A x : ~(x \in ToSet(transactions) /\ x \in ToSet(N))
    BY <1>4
  <2>6. ASSUME NEW j \in 1..Len(transactions'), NEW k \in 1..Len(transactions'),
               transactions'[j] = transactions'[k]
        PROVE  j = k
    <3>1. CASE j \in 1..Len(transactions) /\ k \in 1..Len(transactions)
      BY <2>1, <2>2, <2>3, <2>6, <3>1
    <3>2. CASE ~(j \in 1..Len(transactions)) /\ ~(k \in 1..Len(transactions))
      <4>1. j - Len(transactions) = k - Len(transactions)
        BY <2>3, <2>4, <2>6, <3>2
      <4> QED BY <2>1, <2>2, <4>1
    <3>3. CASE ~(j \in 1..Len(transactions) <=> k \in 1..Len(transactions))
      <4>1. ASSUME NEW i \in 1..Len(transactions') 
            PROVE  i \in 1..Len(transactions) <=> transactions'[i] \in ToSet(transactions)
        <5>1. CASE i \in 1..Len(transactions)
          <6>1. i =< Len(transactions)
            BY <2>1, <5>1
          <6> QED BY <2>2, <2>3, <5>1, <6>1
        <5>2. CASE ~(i \in 1..Len(transactions))
          BY <2>4, <2>5, <5>2
        <5> QED BY <5>1, <5>2
      <4> QED BY <2>6, <3>3, <4>1
    <3> QED BY <3>1, <3>2, <3>3
  <2>7. IsInjective(transactions')
    <3>1. IsInjective(transactions') <=>
            \A j, k \in 1..Len(transactions') : transactions'[j] = transactions'[k] => j = k
      BY <2>2, ByIndex
    <3> QED BY <2>6, <3>1
  <2>8. ASSUME NEW x \in ToSet(transactions) PROVE x \in ToSet(transactions')
    <3>1. PICK k \in 1..Len(transactions) : transactions[k] = x
      BY <2>3
    <3>2. k \in 1..Len(transactions') /\ k =< Len(transactions)
      BY <2>1, <2>2
    <3> QED BY <2>2, <2>3, <3>1, <3>2
  <2>9. ASSUME NEW x \in ToSet(N) PROVE x \in ToSet(transactions')
    <3>1. PICK k \in 1..Len(N) : N[k] = x
      BY <2>3
    <3>2. /\ k + Len(transactions) \in 1..Len(transactions')
          /\ ~(k + Len(transactions) =< Len(transactions))
          /\ (k + Len(transactions)) - Len(transactions) = k
      BY <2>1, <2>2
    <3>3. transactions'[k + Len(transactions)] = x
      BY <2>2, <3>1, <3>2
    <3> QED BY <2>3, <3>2, <3>3
  <2>10. ASSUME NEW x \in ToSet(transactions') PROVE x \in ToSet(transactions) \union ToSet(N)
    BY <2>3, <2>4
  <2> QED BY <2>2, <2>7, <2>8, <2>9, <2>10
<1>8. /\ lastId \in 0..stored /\ lastId' \in 0..stored
      /\ ids = <<>> => lastId' = lastId
      /\ ids # <<>> => lastId' = Last(ids)
  BY <1>1, <1>2, <1>3, <1>5 DEF LastOr, IInv, TypeOK
<1>9. TypeOK'
  <2>1. \A q \in requests' :
          /\ q = [no |-> q.no, kind |-> q.kind, ask |-> q.ask, at |-> q.at, answer |-> q.answer]
          /\ q.no \in 1..issued /\ q.ask.after \in 0..stored
          /\ q.kind = (IF q.ask.after = 0 THEN "load" ELSE "more")
          /\ q.at \in {"sent", "read", "answered"}
          /\ IsQuery(q.ask.filters)
    BY <1>1, OneLess
  <2>2. \A b \in {hasMore', isInitialLoad', isLoading', whole', overtaken'} : b \in BOOLEAN
    BY <1>1, <1>3 DEF IInv, TypeOK
  <2> QED BY <1>1, <1>7, <1>8, <2>1, <2>2 DEF IInv, TypeOK, server
<1>10. AnswersAreTrue' /\ Loads' = Loads
  BY <1>1, OneLess DEF Loads
<1>11. Once'
  <2>1. Len(transactions') \in Nat
    BY <1>7, ByIndex
  <2> QED BY <1>1, <1>7, <2>1 DEF Once
<1>12. FirstLoad' /\ FitsTokens'
  <2>1. ~isInitialLoad
    BY <1>1 DEF IInv, FirstLoad, Loads
  <2> QED BY <1>1, <1>10, <2>1 DEF IInv, FirstLoad, FitsTokens
<1>13. Complete'
  <2> SUFFICES ASSUME whole' PROVE Complete'
    BY DEF Complete, ListIsComplete
  <2>1. whole /\ r.ask = [filters |-> base.filters, after |-> lastId]
    BY <1>1
  <2>2. r.ask.filters = base.filters /\ r.ask.after = lastId
    BY <2>1
  <2>3. /\ lastId =< base.upTo /\ {i \in S : i >= lastId} \subseteq ToSet(transactions)
        /\ heard \subseteq ToSet(transactions)
        /\ hasMore <=> \E i \in S : i < lastId
    BY <2>1 DEF IInv, Complete, ListIsComplete
  <2>4. base.upTo \in Nat /\ lastId \in Nat /\ lastId > 0 /\ lastId =< r.answer.upTo
    <3>1. base.upTo \in 0..stored
      BY DEF IInv, TypeOK
    <3> QED BY <1>2, <1>3, <2>2, <3>1
  <2>5. W = {i \in S : i < lastId}
    BY <1>3, <2>2, <2>3, <2>4 DEF W, Wanted, Matching
  <2>6. S' = S /\ S \subseteq Nat
    BY <1>1 DEF Matching
  <2> HIDE DEF S
  <2>7. /\ lastId' =< base.upTo /\ {i \in S : i >= lastId'} \subseteq ToSet(transactions')
        /\ hasMore' <=> \E i \in S : i < lastId'
    <3>1. CASE ids = <<>>
      BY <1>1, <1>3, <1>7, <1>8, <2>3, <2>5, <3>1
    <3>2. CASE ids # <<>>
      <4>1. /\ lastId' \in W /\ (\A x \in W : x \in ToSet(ids) \/ x < lastId')
            /\ (hasMore' <=> \E x \in W : x < lastId') /\ lastId' \in Nat
        BY <1>1, <1>3, <1>5, <1>8, <3>2
      <4>2. lastId' < lastId
        BY <2>5, <4>1
      <4>3. \A x \in W : x \in ToSet(transactions) \union ToSet(N) \/ x < lastId'
        BY <1>4, <4>1
      <4>4. ToSet(transactions) \union ToSet(N) \subseteq ToSet(transactions')
        BY <1>7
      <4>5. /\ {i \in S : i >= lastId'} \subseteq ToSet(transactions')
            /\ hasMore' <=> \E i \in S : i < lastId'
        <5>1. \A i \in S : i \in Nat /\ (i < lastId => i \in W)
          BY <2>5, <2>6
        <5>2. ASSUME NEW i \in S, i >= lastId' PROVE i \in ToSet(transactions')
          <6>1. CASE i >= lastId
            BY <2>3, <4>4, <6>1
          <6>2. CASE i < lastId
            <7>1. i \in W /\ ~(i < lastId')
              BY <4>1, <5>1, <5>2, <6>2
            <7> QED BY <4>3, <4>4, <7>1
          <6> QED BY <2>4, <5>1, <6>1, <6>2
        <5>3. (\E x \in W : x < lastId') => \E i \in S : i < lastId'
          BY <2>5
        <5>4. (\E i \in S : i < lastId') => \E x \in W : x < lastId'
          BY <2>4, <4>1, <4>2, <5>1
        <5> QED BY <4>1, <5>2, <5>3, <5>4, Zenon
      <4>6. lastId' =< base.upTo
        BY <2>3, <2>4, <4>1, <4>2
      <4> QED BY <4>5, <4>6
    <3> QED BY <3>1, <3>2
  <2>8. heard' \subseteq ToSet(transactions')
    BY <1>1, <1>7, <2>3
  <2>9. base' = base /\ S = Matching(base.filters, 1..base.upTo)
    BY <1>1 DEF S
  <2> QED BY <2>7, <2>8, <2>9 DEF Complete, ListIsComplete
<1> QED BY <1>9, <1>10, <1>11, <1>12, <1>13 DEF IInv

\* To name every token and to name none select the same rows.
LEMMA SelectsAsOne ==
  ASSUME NEW q, IsQuery(q), NEW S, S \subseteq 1..Len(Rows)
  PROVE  Matching(AsOne(q), S) = Matching(q, S)
<1>1. AsOne(q) = [token |-> Canonical(q.token), from |-> q.from, to |-> q.to, odd |-> q.odd]
  BY DEF AsOne, IsQuery
<1>2. ASSUME NEW i \in S PROVE Selects(AsOne(q), Rows[i]) <=> Selects(q, Rows[i])
  <2>1. Rows[i].token \in Tokens
    BY TokenAssumption
  <2> QED BY <1>1, <2>1 DEF Selects, Canonical
<1> QED BY <1>2 DEF Matching

\* The first page begins the list anew.
LEMMA ApplyLoadStep ==
  ASSUME IInv, NEW r \in requests, ApplyLoad(r)
  PROVE  IInv'
<1> DEFINE ids == r.answer.ids
           W   == Wanted(r.ask, r.answer.upTo)
<1>1. /\ r.kind = "load" /\ r.at = "answered"
      /\ transactions' = ids /\ recent' = FirstOf(ids, MaxRecent)
      /\ hasMore' = r.answer.hasNext /\ lastId' = LastOr(ids, 0)
      /\ isInitialLoad' = FALSE /\ isLoading' = FALSE /\ requests' = requests \ {r}
      /\ base' = [no |-> r.no, filters |-> AsOne(r.ask.filters), upTo |-> r.answer.upTo]
      /\ whole' = TRUE /\ heard' = {}
      /\ UNCHANGED <<server, issued, filters>>
  BY DEF ApplyLoad
<1>2. /\ overtaken' = \/ overtaken \/ r.no < base.no
                      \/ isInitialLoad /\ Canonical(r.ask.filters.token) # filters.tokens
  BY DEF ApplyLoad
<1>3. /\ r.ask.after = 0 /\ r.ask.after \in Nat /\ r.no \in 1..issued /\ stored \in Nat /\ IsAnswer(r.ask, r.answer)
      /\ issued \in Nat
  BY <1>1 DEF IInv, TypeOK, AnswersAreTrue
<1>4. /\ r.answer.upTo \in Nat /\ r.answer.upTo =< stored
      /\ ids \in Seq(Nat) /\ IsInjective(ids) /\ ToSet(ids) \subseteq W
      /\ r.answer.hasNext \in BOOLEAN
      /\ ids = <<>> => W = {} /\ ~r.answer.hasNext
      /\ ids # <<>> =>
           /\ Last(ids) \in W
           /\ \A x \in W : x \in ToSet(ids) \/ x < Last(ids)
           /\ r.answer.hasNext <=> \E x \in W : x < Last(ids)
  BY <1>3, AnswerFacts
<1>5. W \subseteq 1..r.answer.upTo /\ W = Matching(r.ask.filters, 1..r.answer.upTo)
  <2>1. {i \in 1..r.answer.upTo : r.ask.after > 0 => i < r.ask.after} = 1..r.answer.upTo
    BY <1>3
  <2>2. W \subseteq 1..r.answer.upTo
    BY <1>4, WantedFacts
  <2> QED BY <2>1, <2>2 DEF Wanted
<1> HIDE DEF ids, W
<1>6. /\ lastId' \in 0..r.answer.upTo /\ lastId' \in 0..stored
      /\ ids = <<>> => lastId' = 0
      /\ ids # <<>> => lastId' = Last(ids)
  BY <1>1, <1>3, <1>4, <1>5 DEF LastOr
<1>7. /\ recent' \in Seq(Nat) /\ Len(recent') =< Len(ids)
      /\ \A k \in 1..Len(recent') : recent'[k] = ids[k]
  <2>1. MaxRecent \in Nat /\ Len(ids) \in Nat
    BY <1>4, SizeFacts, ByIndex
  <2> QED BY <1>1, <1>4, <2>1, FirstOfProperties
<1>8. TypeOK'
  <2>1. \A q \in requests' :
          /\ q = [no |-> q.no, kind |-> q.kind, ask |-> q.ask, at |-> q.at, answer |-> q.answer]
          /\ q.no \in 1..issued /\ q.ask.after \in 0..stored
          /\ q.kind = (IF q.ask.after = 0 THEN "load" ELSE "more")
          /\ q.at \in {"sent", "read", "answered"}
          /\ IsQuery(q.ask.filters)
    BY <1>1, OneLess
  <2>2. base'.no \in 0..issued /\ base'.upTo \in 0..stored
    BY <1>1, <1>3, <1>4
  <2>3. \A b \in {hasMore', isInitialLoad', isLoading', whole', overtaken'} : b \in BOOLEAN
    BY <1>1, <1>2, <1>4
  <2> QED BY <1>1, <1>4, <1>6, <1>7, <2>1, <2>2, <2>3 DEF IInv, TypeOK, server
<1>9. AnswersAreTrue' /\ Loads' = Loads \ {r}
  BY <1>1, OneLess
<1>10. Once'
  BY <1>1, <1>4, <1>7 DEF Once
<1>11. Complete'
  <2>1. /\ lastId' =< r.answer.upTo /\ {i \in W : i >= lastId'} \subseteq ToSet(ids)
        /\ hasMore' <=> \E i \in W : i < lastId'
    <3>1. CASE ids = <<>>
      BY <1>1, <1>4, <1>6, <3>1
    <3>2. CASE ids # <<>>
      <4>1. /\ lastId' \in W /\ (\A x \in W : x \in ToSet(ids) \/ x < lastId')
            /\ (hasMore' <=> \E x \in W : x < lastId') /\ lastId' \in Nat
        BY <1>1, <1>4, <1>6, <3>2
      <4>2. \A i \in W : i \in Nat
        BY <1>5
      <4>3. ASSUME NEW i \in W, i >= lastId' PROVE i \in ToSet(ids)
        <5>1. ~(i < lastId')
          BY <4>1, <4>2, <4>3
        <5> QED BY <4>1, <5>1
      <4>4. lastId' =< r.answer.upTo /\ {i \in W : i >= lastId'} \subseteq ToSet(ids)
        BY <1>4, <1>6, <4>3
      <4> QED BY <4>1, <4>4, Zenon
    <3> QED BY <3>1, <3>2
  <2>2. W = Matching(base'.filters, 1..base'.upTo) /\ base'.upTo = r.answer.upTo
    <3>1. /\ base'.filters = AsOne(r.ask.filters) /\ base'.upTo = r.answer.upTo
          /\ IsQuery(r.ask.filters) /\ 1..r.answer.upTo \subseteq 1..Len(Rows)
      <4>1. stored =< Len(Rows) /\ IsQuery(r.ask.filters)
        BY DEF IInv, TypeOK
      <4> QED BY <1>1, <1>3, <1>4, <4>1, SizeFacts
    <3>2. Matching(AsOne(r.ask.filters), 1..r.answer.upTo) =
            Matching(r.ask.filters, 1..r.answer.upTo)
      BY <3>1, SelectsAsOne
    <3> QED BY <1>5, <3>1, <3>2
  <2>3. heard' \subseteq ToSet(transactions') /\ transactions' = ids
    BY <1>1
  <2> QED BY <2>1, <2>2, <2>3 DEF Complete, ListIsComplete
<1>12. FirstLoad'
  BY <1>1 DEF FirstLoad
<1>13. FitsTokens'
  <2> SUFFICES ASSUME ~overtaken' PROVE FitsTokens'
    BY DEF FitsTokens
  <2>1. ~overtaken /\ ~(r.no < base.no) /\ (isInitialLoad => Canonical(r.ask.filters.token) = filters.tokens)
    BY <1>2
  <2>2. base'.no = r.no /\ base'.filters.token = Canonical(r.ask.filters.token) /\ filters' = filters
    <3>1. AsOne(r.ask.filters).token = Canonical(r.ask.filters.token)
      <4>1. IsQuery(r.ask.filters)
        BY DEF IInv, TypeOK
      <4> QED BY <4>1 DEF IsQuery, AsOne
    <3> QED BY <1>1, <3>1
  <2>3. r \in Loads /\ \A q \in Loads : q.no \in 1..issued
    BY <1>1 DEF Loads, IInv, TypeOK
  <2>4. CASE isInitialLoad
    <3>1. Loads' = {}
      BY <1>9, <2>4 DEF IInv, FirstLoad, Loads
    <3> QED BY <2>1, <2>2, <2>4, <3>1 DEF FitsTokens
  <2>5. CASE ~isInitialLoad
    <3>1. \/ \E q \in Loads : /\ Canonical(q.ask.filters.token) = filters.tokens /\ base.no < q.no
                              /\ \A s \in Loads : s = q \/ s.no < q.no
          \/ base.filters.token = filters.tokens /\ \A s \in Loads : s.no < base.no
      BY <2>1, <2>5 DEF IInv, FitsTokens
    <3>2. ASSUME NEW q \in Loads, Canonical(q.ask.filters.token) = filters.tokens,
                 \A s \in Loads : s = q \/ s.no < q.no
          PROVE  FitsTokens'
      <4>1. CASE q = r
        BY <1>9, <2>2, <3>2, <4>1 DEF FitsTokens
      <4>2. CASE q # r
        <5>1. q \in Loads' /\ base'.no < q.no /\ \A s \in Loads' : s = q \/ s.no < q.no
          BY <1>9, <2>2, <2>3, <3>2, <4>2
        <5> QED BY <2>2, <3>2, <5>1 DEF FitsTokens
      <4> QED BY <4>1, <4>2
    <3> QED BY <2>1, <2>3, <3>1, <3>2
  <2> QED BY <2>4, <2>5
<1> QED BY <1>8, <1>9, <1>10, <1>11, <1>12, <1>13 DEF IInv

LEMMA FailStep ==
  ASSUME IInv, NEW r \in requests, Fail(r)
  PROVE  IInv'
<1>1. /\ requests' = requests \ {r} /\ isLoading' = FALSE /\ isInitialLoad' = FALSE
      /\ overtaken' = (overtaken \/ r.kind = "load")
      /\ UNCHANGED <<server, issued, list, filters, base, whole, heard>>
  BY DEF Fail, LoadingAfter
<1>2. AnswersAreTrue' /\ Loads' = Loads \ {r}
  BY <1>1, OneLess
<1>3. TypeOK'
  <2>1. \A q \in requests' :
          /\ q = [no |-> q.no, kind |-> q.kind, ask |-> q.ask, at |-> q.at, answer |-> q.answer]
          /\ q.no \in 1..issued /\ q.ask.after \in 0..stored
          /\ q.kind = (IF q.ask.after = 0 THEN "load" ELSE "more")
          /\ q.at \in {"sent", "read", "answered"}
          /\ IsQuery(q.ask.filters)
    BY <1>1, OneLess
  <2>2. \A b \in {hasMore', isInitialLoad', isLoading', whole', overtaken'} : b \in BOOLEAN
    BY <1>1 DEF IInv, TypeOK, list
  <2> QED BY <1>1, <2>1, <2>2 DEF IInv, TypeOK, server, list
<1>4. Once' /\ Complete'
  BY <1>1, ListStays
<1>5. FirstLoad'
  BY <1>1 DEF FirstLoad
<1>6. FitsTokens'
  <2>1. CASE r.kind = "load"
    BY <1>1, <2>1 DEF FitsTokens
  <2>2. CASE r.kind # "load"
    <3>1. Loads' = Loads /\ ~isInitialLoad
      BY <1>2, <2>2 DEF IInv, FirstLoad, Loads
    <3> QED BY <1>1, <2>2, <3>1 DEF IInv, FitsTokens
  <2> QED BY <2>1, <2>2
<1> QED BY <1>2, <1>3, <1>4, <1>5, <1>6 DEF IInv

-----------------------------------------------------------------------------
LEMMA InvariantInit ==
  ASSUME Init
  PROVE  IInv
<1>1. <<>> \in Seq(Nat) /\ Len(<<>>) = 0 /\ ToSet(<<>>) = {} /\ IsInjective(<<>>)
  BY DEF ToSet, IsInjective
<1> DEFINE n == [no |-> 1, kind |-> "load", 
                 ask |-> [filters |-> ApiFilters(InUrl(filters)), after |-> 0],
                 at |-> "sent", answer |-> NoAnswer]
<1>2. /\ stored = 1 /\ redis = {} /\ feed = <<>> /\ requests = {n} /\ issued = 1
      /\ filters = [tokens |-> {}, term |-> NoTerm, odd |-> FALSE]
      /\ transactions = <<>> /\ recent = <<>> /\ hasMore = TRUE /\ lastId = 0
      /\ isInitialLoad = TRUE /\ isLoading = TRUE
      /\ base = NoBase(filters) /\ whole = FALSE /\ heard = {} /\ overtaken = FALSE
  BY DEF Init
<1>3. /\ n = [no |-> n.no, kind |-> n.kind, ask |-> n.ask, at |-> n.at, answer |-> n.answer]
      /\ n.no = 1 /\ n.kind = "load" /\ n.ask.after = 0 /\ n.at = "sent"
      /\ IsQuery(n.ask.filters)
  BY DEF IsQuery, ApiFilters
<1>4. base.no = 0 /\ base.upTo = 0
  BY <1>2 DEF NoBase
<1>5. IsFilter(filters)
  BY <1>2 DEF IsFilter, Canonical
<1> HIDE DEF n
<1>6. TypeOK
  <2>1. \A b \in {hasMore, isInitialLoad, isLoading, whole, overtaken} : b \in BOOLEAN
    BY <1>2
  <2>2. \A r \in requests :
          /\ r = [no |-> r.no, kind |-> r.kind, ask |-> r.ask, at |-> r.at, answer |-> r.answer]
          /\ r.no \in 1..issued /\ r.ask.after \in 0..stored
          /\ r.kind = (IF r.ask.after = 0 THEN "load" ELSE "more")
          /\ r.at \in {"sent", "read", "answered"}
          /\ IsQuery(r.ask.filters)
    BY <1>2, <1>3
  <2>3. stored \in Nat \ {0} /\ stored =< Len(Rows) /\ issued \in Nat /\ lastId \in 0..stored
    BY <1>2, SizeFacts
  <2>4. base.no \in 0..issued /\ base.upTo \in 0..stored
    BY <1>2, <1>4
  <2> QED BY <1>1, <1>2, <1>5, <2>1, <2>2, <2>3, <2>4 DEF TypeOK
<1>7. AnswersAreTrue /\ Once /\ Complete
  BY <1>1, <1>2, <1>3 DEF AnswersAreTrue, Once, Complete, ListIsComplete
<1>8. FirstLoad /\ FitsTokens
  BY <1>2, <1>3 DEF FirstLoad, FitsTokens, Loads
<1> QED BY <1>6, <1>7, <1>8 DEF IInv

LEMMA InvariantStep ==
  ASSUME IInv, [Next]_vars
  PROVE  IInv'
<1>1. CASE Save \/ Disconnect \/ ErrorMessage \/ \E f \in Filters : Refine(f)
  BY <1>1, QuietStep
<1>2. CASE Deliver
  BY <1>2, DeliverStep
<1>3. ASSUME NEW r \in requests, Serve(r) \/ Receive(r) \/ Fail(r) PROVE IInv'
  BY <1>3, ServeStep, ApplyLoadStep, ApplyMoreStep, FailStep DEF Receive
<1>4. CASE ToggleAll \/ \E t \in Tokens : Toggle(t)
  BY <1>4, SelectStep
<1>5. CASE LoadMore
  BY <1>5, LoadMoreStep
<1>6. CASE OpenAgain
  BY <1>6, OpenAgainStep
<1>7. CASE UNCHANGED vars
  <2>1. UNCHANGED <<stored, redis, feed, requests, issued, filters, isInitialLoad, isLoading,
                    list, history>>
    BY <1>7 DEF vars, server
  <2>2. TypeOK' /\ AnswersAreTrue' /\ FirstLoad' /\ FitsTokens'
    BY <2>1 DEF IInv, TypeOK, AnswersAreTrue, IsAnswer, FirstLoad, FitsTokens, Loads, list, history
  <2>3. Once' /\ Complete'
    BY <2>1, ListStays DEF history
  <2> QED BY <2>2, <2>3 DEF IInv
<1> QED BY <1>1, <1>2, <1>3, <1>4, <1>5, <1>6, <1>7 DEF Next

\* Every answer, in flight or cached, is the page the table had when it was read;
\* the list, its recent rows and the last load fit those answers.
THEOREM ListInvariant == Spec => []IInv
<1>1. Init => IInv
  BY InvariantInit
<1>2. IInv /\ [Next]_vars => IInv'
  BY InvariantStep
<1> QED BY <1>1, <1>2, PTL DEF Spec

\* Pages join up, with the messages since, and the next one is offered just when a
\* row is missing (getTransactionsCursor, SET_INITIAL_DATA, LOAD_MORE_DATA,
\* ADD_TRANSACTION).
THEOREM PagesJoinUp == Spec => []ListIsComplete
<1>1. IInv => ListIsComplete
  BY DEF IInv, Complete
<1> QED BY <1>1, ListInvariant, PTL

\* No row is listed twice, and the recent ones are part of the list (the hash checks
\* of ADD_TRANSACTION and LOAD_MORE_DATA).
THEOREM NoRowTwice == Spec => []ListedOnce
<1>1. IInv => ListedOnce
  <2> SUFFICES ASSUME IInv PROVE ListedOnce
    OBVIOUS
  <2>1. /\ transactions \in Seq(Nat) /\ recent \in Seq(Nat) /\ IsInjective(transactions)
        /\ Len(recent) =< Len(transactions)
        /\ \A i \in 1..Len(recent) : recent[i] = transactions[i]
    BY DEF IInv, TypeOK, Once
  <2>2. /\ Len(recent) \in Nat /\ Len(transactions) \in Nat
        /\ \A x : x \in ToSet(transactions) <=> \E k \in 1..Len(transactions) : transactions[k] = x
        /\ \A x : x \in ToSet(recent) <=> \E k \in 1..Len(recent) : recent[k] = x
        /\ \A j, k \in 1..Len(transactions) : transactions[j] = transactions[k] => j = k
    BY <2>1, ByIndex
  <2>3. \A k \in 1..Len(recent) : k \in 1..Len(transactions)
    BY <2>1, <2>2
  <2>4. ToSet(recent) \subseteq ToSet(transactions)
    BY <2>1, <2>2, <2>3
  <2>5. \A j, k \in 1..Len(recent) : recent[j] = recent[k] => j = k
    BY <2>1, <2>2, <2>3
  <2>6. IsInjective(recent)
    BY <2>1, <2>5, ByIndex
  <2> QED BY <2>1, <2>4, <2>6 DEF ListedOnce
<1> QED BY <1>1, ListInvariant, PTL

\* With nothing under way the list was loaded for the tokens selected, unless a load
\* was overtaken (the effect on the tokens, SET_INITIAL_DATA, SET_TOKEN_FILTER).
THEOREM ListFollowsTokens == Spec => []ListFitsTokens
<1>1. IInv => ListFitsTokens
  <2> SUFFICES ASSUME IInv, requests = {}, ~overtaken PROVE base.filters.token = filters.tokens
    BY DEF ListFitsTokens
  <2>1. Loads = {} /\ ~isInitialLoad
    BY DEF Loads, IInv, FirstLoad
  <2> QED BY <2>1 DEF IInv, FitsTokens
<1> QED BY <1>1, ListInvariant, PTL
=============================================================================
