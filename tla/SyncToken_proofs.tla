-------------------------- MODULE SyncToken_proofs --------------------------
(***************************************************************************)
(* The import and its hand-over for every chain, table, chunk and page     *)
(* size.  The import goes through the blocks of a token in order and the   *)
(* scanner through those of all of them, so what lies behind either one is *)
(* settled, whatever is still requested or waiting to be saved.            *)
(***************************************************************************)
EXTENDS SyncToken, SequenceTheorems, FiniteSetTheorems, TLAPS

BlockRange == [from : Int, to : Int]

TypeOK ==
  /\ head \in Blocks /\ endBlock \in Blocks /\ chunkStart \in Int
  /\ pc \in {"idle", "resume", "fetch", "save", "done"}
  /\ syncAll \in BOOLEAN
  /\ todo \in Seq(Tokens) /\ ranges \in Seq(BlockRange)
  /\ \A S \in {fetched, toSave, rows, truncated, passedOver} : S \subseteq Transfers
  /\ status \in 0..MaxBlock /\ scanned \in 0..MaxBlock /\ handedOver \in 0..MaxBlock

Covered(t, b) == \A x \in Of(t) : x.block =< b => Settled(x)

\* The token and the chunk a run is at.
AtWork ==
  /\ pc \in {"resume", "fetch", "save"} => todo # <<>>
  /\ pc = "done" => todo = <<>>
  /\ pc = "fetch" => ranges # <<>>
  /\ (pc # "fetch" => fetched = {}) /\ (pc # "save" => toSave = {})
  /\ pc \in {"fetch", "save"} => chunkStart =< endBlock

InChunk(x) == x.block =< ChunkEnd(chunkStart)

\* Nothing of another token or of a later chunk is under way.
WithinChunk ==
  pc \in {"fetch", "save"} =>
    /\ \A i \in 1..Len(ranges) : ranges[i].to =< ChunkEnd(chunkStart)
    /\ \A x \in fetched \cup toSave : x.token = Token /\ InChunk(x)
    /\ \A x \in toSave : x.valid

\* What was done before: earlier runs for all tokens, earlier tokens, earlier chunks.
PassedIsSettled ==
  /\ \A t \in Tokens : Covered(t, status)
  /\ pc # "idle" /\ syncAll =>
       \A t \in Tokens : (\A i \in 1..Len(todo) : todo[i] # t) => Covered(t, endBlock)
  /\ pc \in {"fetch", "save"} => Covered(Token, chunkStart - 1)

\* The chunk: each of its transfers is to be requested, fetched or to be saved.
ChunkIsWhole ==
  /\ pc = "fetch" =>
       \A x \in Of(Token) : InChunk(x) =>
         Settled(x) \/ x \in fetched \/ \E i \in 1..Len(ranges) : x.block \in ranges[i].from..ranges[i].to
  /\ pc = "save" => \A x \in Of(Token) : InChunk(x) => Settled(x) \/ x \in toSave

\* As long as only the import writes, a row comes after all before it of its token.
RowsInOrder ==
  handedOver = 0 =>
    \A r \in rows, x \in Transfers :
      x.token = r.token /\ x.valid /\ x.block < r.block => Settled(x)

\* The scanner stores whole blocks from where it took over.
ScannedIsStored ==
  /\ scanned = 0 <=> handedOver = 0
  /\ handedOver =< scanned
  /\ \A x \in Transfers : x.valid /\ handedOver < x.block /\ x.block =< scanned /\ 0 < handedOver => Stored(x)

IInv == /\ TypeOK /\ AtWork /\ WithinChunk /\ PassedIsSettled /\ ChunkIsWhole
        /\ RowsInOrder /\ ScannedIsStored /\ ResumeLosesOneBlock
-----------------------------------------------------------------------------
(* What a step leaves as it was.                                           *)

HistoryGrows == rows \subseteq rows' /\ truncated \subseteq truncated' /\ passedOver \subseteq passedOver'

\* What is settled stays settled.
LEMMA SettledGrows ==
  ASSUME HistoryGrows, NEW x
  PROVE  (Stored(x) => Stored(x)') /\ (Settled(x) => Settled(x)')
BY DEF HistoryGrows, Stored, Settled

\* The import's side of the invariant, through a step that is none of the program.
LEMMA WorkStays ==
  ASSUME IInv, HistoryGrows, UNCHANGED <<pc, work, status>>
  PROVE  AtWork' /\ WithinChunk' /\ PassedIsSettled' /\ ChunkIsWhole'
<1>1. \A x : Settled(x) => Settled(x)'
  BY SettledGrows
<1> USE DEF work
<1>2. AtWork' /\ WithinChunk'
  BY DEF IInv, AtWork, WithinChunk, InChunk, ChunkEnd, Token
<1>3. PassedIsSettled'
  BY <1>1 DEF IInv, PassedIsSettled, Covered, Of, Token
<1>4. ChunkIsWhole'
  BY <1>1 DEF IInv, ChunkIsWhole, InChunk, ChunkEnd, Of, Token
<1> QED BY <1>2, <1>3, <1>4

\* The table's side, through a step that writes no row and starts no scanner.
LEMMA TableStays ==
  ASSUME IInv, HistoryGrows, UNCHANGED <<rows, scanned, handedOver>>
  PROVE  /\ RowsInOrder' /\ ScannedIsStored'
         /\ UNCHANGED passedOver => ResumeLosesOneBlock'
<1>1. \A x : (Settled(x) => Settled(x)') /\ (Stored(x) => Stored(x)')
  BY SettledGrows
<1>2. RowsInOrder' /\ ScannedIsStored'
  BY <1>1 DEF IInv, RowsInOrder, ScannedIsStored
<1>3. UNCHANGED passedOver => ResumeLosesOneBlock'
  BY <1>1 DEF IInv, ResumeLosesOneBlock, HistoryGrows
<1> QED BY <1>2, <1>3

\* A set of numbers has a first one.
LEMMA FirstPosition ==
  ASSUME NEW T, T \subseteq Nat, T # {}
  PROVE  \E m \in T : \A k \in T : ~(k < m)
<1>1. PICK m \in T : \A k \in T : <<k, m>> \notin OpToRel(<, Nat)
  BY WFMin, NatLessThanWellFounded, Zenon
<1>2. \A k \in T : <<k, m>> \in Nat \X Nat
  OBVIOUS
<1> QED BY <1>1, <1>2, Zenon DEF OpToRel

\* createMany with skipDuplicates: of each hash the first, so that every row given to
\* it is in the table afterwards.
LEMMA InsertStores ==
  ASSUME NEW S, S \subseteq Transfers, rows' = rows \cup Insert(S), NEW x \in S
  PROVE  Stored(x)'
<1>1. CASE Stored(x)
  BY <1>1 DEF Stored
<1>2. CASE ~Stored(x)
  <2> DEFINE Same == {y \in S : y.hash = x.hash}
             Places == {y.pos : y \in Same}
  <2>1. Places \subseteq Nat /\ Places # {}
    BY TransferAssumption
  <2>2. PICK m \in Places : \A k \in Places : ~(k < m)
    BY <2>1, FirstPosition
  <2>3. PICK y \in Same : y.pos = m
    OBVIOUS
  <2>4. ASSUME NEW z \in S, z.hash = y.hash PROVE y.pos =< z.pos
    <3>1. z \in Same /\ z.pos \in Places
      BY <2>3, <2>4
    <3>2. m \in Nat /\ z.pos \in Nat
      BY <2>1, <3>1
    <3> HIDE DEF Same, Places
    <3> QED BY <2>2, <2>3, <3>1, <3>2
  <2>5. y \in Insert(S)
    BY <1>2, <2>3, <2>4 DEF Insert, Stored
  <2> QED BY <2>5 DEF Stored
<1> QED BY <1>1, <1>2

\* A page, or a batch, holds all before what it holds.
LEMMA FirstIsInitial ==
  ASSUME NEW n \in Nat, NEW S, S \subseteq Transfers, NEW y \in First(n, S), NEW x \in S,
         x.pos < y.pos
  PROVE  x \in First(n, S)
<1> DEFINE Before(z) == {w \in S : w.pos < z.pos}
<1>1. S \subseteq Transfers /\ y \in S
  BY DEF First
<1>2. Before(x) \in SUBSET Before(y)
  <2> SUFFICES ASSUME NEW w \in S, w.pos < x.pos PROVE w.pos < y.pos
    OBVIOUS
  <2> QED BY <1>1, TransferAssumption
<1>3. IsFiniteSet(Before(y))
  <2>1. Before(y) \in SUBSET Transfers
    BY <1>1
  <2> QED BY <2>1, FS_Subset, TransferAssumption
<1>4. /\ Cardinality(Before(x)) =< Cardinality(Before(y))
      /\ Cardinality(Before(x)) \in Nat /\ Cardinality(Before(y)) \in Nat
  <2>1. IsFiniteSet(Before(x)) /\ Cardinality(Before(x)) =< Cardinality(Before(y))
    BY <1>2, <1>3, FS_Subset
  <2> QED BY <2>1, <1>3, FS_CardinalityType
<1>5. Cardinality(Before(y)) < n
  BY DEF First
<1>6. Cardinality(Before(x)) < n
  <2> HIDE DEF Before
  <2> QED BY <1>4, <1>5
<1> QED BY <1>6 DEF First

-----------------------------------------------------------------------------
(* The loop of streamTokenTransfers.                                       *)

LEMMA ConfigFacts ==
  /\ \A b \in Blocks : b \in Int /\ 1 =< b /\ b =< MaxBlock
  /\ MaxBlock \in Int /\ ChunkSize \in Int /\ 1 =< ChunkSize
  /\ MinRange \in Int /\ 1 =< MinRange /\ PageLimit \in Nat /\ SaveSize \in Nat
  /\ \A t \in Tokens : Deployment[t] \in Blocks
<1>1. /\ MaxBlock \in Int /\ ChunkSize \in Int /\ 1 =< ChunkSize
      /\ MinRange \in Int /\ 1 =< MinRange /\ PageLimit \in Nat /\ SaveSize \in Nat
  BY ConfigAssumption
<1>2. \A b \in Blocks : b \in Int /\ 1 =< b /\ b =< MaxBlock
  BY <1>1 DEF Blocks
<1>3. \A t \in Tokens : Deployment[t] \in Blocks
  BY TokenAssumption
<1> QED BY <1>1, <1>2, <1>3

\* The tokens behind the current one.
LEMMA TailTokens ==
  ASSUME NEW s \in Seq(Tokens), s # <<>>
  PROVE  /\ s[1] \in Tokens /\ Tail(s) \in Seq(Tokens)
         /\ Len(s) > 1 => Tail(s) # <<>>
         /\ ~(Len(s) > 1) => Tail(s) = <<>>
         /\ \A t : (\A i \in 1..Len(Tail(s)) : Tail(s)[i] # t) =>
                     t = s[1] \/ \A i \in 1..Len(s) : s[i] # t
<1>1. /\ s[1] \in Tokens /\ Tail(s) \in Seq(Tokens)
      /\ Len(Tail(s)) = Len(s) - 1 /\ Len(s) \in Nat /\ Len(s) >= 1
      /\ \A i \in 1..Len(Tail(s)) : Tail(s)[i] = s[i + 1]
  BY HeadTailProperties, EmptySeq, LenProperties, ElementOfSeq
<1>2. (Len(s) > 1 => Tail(s) # <<>>) /\ (~(Len(s) > 1) => Tail(s) = <<>>)
  <2>1. Tail(s) = <<>> <=> Len(Tail(s)) = 0
    BY <1>1, EmptySeq
  <2> QED BY <1>1, <2>1
<1>3. ASSUME NEW t, \A i \in 1..Len(Tail(s)) : Tail(s)[i] # t, NEW j \in 1..Len(s), s[j] = t
      PROVE  t = s[1]
  <2>1. CASE j = 1
    BY <1>3, <2>1
  <2>2. CASE j # 1
    <3>1. j - 1 \in 1..Len(Tail(s)) /\ (j - 1) + 1 = j
      BY <1>1, <2>2
    <3> QED BY <1>1, <1>3, <3>1
  <2> QED BY <2>1, <2>2
<1> QED BY <1>1, <1>2, <1>3

\* The next chunk, the next token or the end, with nothing fetched or to be saved.
LEMMA GoToTyped ==
  ASSUME TypeOK, todo # <<>>, NEW start \in Int, GoTo(start)
  PROVE  /\ chunkStart' \in Int /\ pc' \in {"fetch", "resume", "done"}
         /\ todo' \in Seq(Tokens) /\ ranges' \in Seq(BlockRange)
<1>1. ChunkEnd(start) \in Int
  BY ConfigFacts DEF TypeOK, ChunkEnd
<1>2. [from |-> start, to |-> ChunkEnd(start)] \in BlockRange
  BY <1>1 DEF BlockRange
<1>3. <<[from |-> start, to |-> ChunkEnd(start)]>> \in Seq(BlockRange) /\ <<>> \in Seq(BlockRange)
  BY <1>2
<1> QED BY <1>3, TailTokens DEF GoTo, TypeOK

\* When all before start is settled, the loop may go on from there.
LEMMA GoToCovers ==
  ASSUME IInv, todo # <<>>, pc # "idle", NEW start \in Int, GoTo(start), HistoryGrows,
         fetched' = {}, toSave' = {}, UNCHANGED <<endBlock, syncAll, status>>,
         \A x \in Of(Token) : x.block < start => Settled(x)'
  PROVE  AtWork' /\ WithinChunk' /\ PassedIsSettled' /\ ChunkIsWhole'
<1>1. \A x : Settled(x) => Settled(x)'
  BY SettledGrows
<1>2. endBlock \in Int /\ chunkStart' \in Int /\ todo \in Seq(Tokens) /\ Token \in Tokens
  BY GoToTyped, ConfigFacts, TailTokens DEF IInv, TypeOK, Token
<1>3. \A x \in Transfers : x.block \in Int
  BY TransferAssumption, ConfigFacts
<1>4. \A t \in Tokens : Covered(t, status)'
  BY <1>1 DEF IInv, PassedIsSettled, Covered, Of
<1>5. CASE start =< endBlock
  <2>1. /\ pc' = "fetch" /\ chunkStart' = start /\ todo' = todo
        /\ ranges' = <<[from |-> start, to |-> ChunkEnd(start)]>>
    BY <1>2, <1>5 DEF GoTo
  <2>2. /\ ranges' # <<>> /\ 1 \in 1..Len(ranges') /\ ranges'[1].from = start
        /\ \A i \in 1..Len(ranges') : ranges'[i].to = ChunkEnd(start)
    BY <2>1
  <2>3. ChunkEnd(chunkStart)' = ChunkEnd(start) /\ ChunkEnd(start) \in Int /\ Token' = Token
    BY <1>2, <2>1, ConfigFacts DEF ChunkEnd, Token
  <2>4. AtWork'
    BY <1>5, <2>1, <2>2 DEF AtWork
  <2>5. WithinChunk'
    BY <2>2, <2>3 DEF WithinChunk
  <2>6. PassedIsSettled'
    <3>1. Covered(Token, chunkStart - 1)'
      BY <1>2, <1>3, <2>1, <2>3 DEF Covered, Of
    <3>2. syncAll => \A t \in Tokens : (\A i \in 1..Len(todo) : todo[i] # t) => Covered(t, endBlock)'
      BY <1>1 DEF IInv, PassedIsSettled, Covered, Of
    <3> QED BY <1>4, <2>1, <3>1, <3>2 DEF PassedIsSettled
  <2>7. ChunkIsWhole'
    <3>1. ASSUME NEW x \in Of(Token), InChunk(x)'
          PROVE  Settled(x)' \/ x.block \in ranges'[1].from..ranges'[1].to
      <4>1. x.block \in Int /\ x.block =< ChunkEnd(start)
        BY <1>3, <2>3, <3>1 DEF InChunk, Of
      <4> QED BY <1>2, <2>2, <2>3, <4>1
    <3> QED BY <2>1, <2>2, <2>3, <3>1 DEF ChunkIsWhole, Of
  <2> QED BY <2>4, <2>5, <2>6, <2>7
<1>6. CASE start > endBlock
  <2>1. pc' = (IF Len(todo) > 1 THEN "resume" ELSE "done") /\ todo' = Tail(todo)
    BY <1>2, <1>6 DEF GoTo
  <2>2. AtWork'
    BY <1>2, <2>1, TailTokens DEF AtWork
  <2>3. ASSUME syncAll, NEW t \in Tokens, \A i \in 1..Len(todo') : todo'[i] # t
        PROVE  Covered(t, endBlock)'
    <3>1. CASE t = Token
      BY <1>2, <1>3, <1>6, <3>1 DEF Covered, Of
    <3>2. CASE \A i \in 1..Len(todo) : todo[i] # t
      BY <1>1, <2>3, <3>2 DEF IInv, PassedIsSettled, Covered, Of
    <3> QED BY <1>2, <2>1, <2>3, <3>1, <3>2, TailTokens DEF Token
  <2>4. pc' \notin {"fetch", "save"}
    BY <2>1
  <2>5. PassedIsSettled'
    BY <1>4, <2>3, <2>4 DEF PassedIsSettled
  <2>6. WithinChunk' /\ ChunkIsWhole'
    BY <2>4 DEF WithinChunk, ChunkIsWhole
  <2> QED BY <2>2, <2>5, <2>6
<1> QED BY <1>2, <1>5, <1>6

-----------------------------------------------------------------------------
(* The program's steps.                                                    *)

LEMMA StartStep ==
  ASSUME IInv, NEW all \in BOOLEAN, NEW t \in Tokens, Start(all, t)
  PROVE  IInv'
<1>1. HistoryGrows /\ \A x : Settled(x) => Settled(x)'
  <2>1. HistoryGrows
    BY DEF Start, HistoryGrows, history
  <2> QED BY <2>1, SettledGrows
<1>2. todo' \in Seq(Tokens) /\ todo' # <<>>
  BY TokenAssumption DEF Start
<1>3. TypeOK'
  BY <1>2 DEF IInv, TypeOK, Start, history
<1>4. AtWork' /\ WithinChunk' /\ ChunkIsWhole'
  BY <1>2 DEF Start, IInv, AtWork, WithinChunk, ChunkIsWhole
<1>5. PassedIsSettled'
  <2>1. \A u \in Tokens : Covered(u, status)'
    BY <1>1 DEF Start, IInv, PassedIsSettled, Covered, Of
  <2>2. syncAll' => \A u \in Tokens : ~\A i \in 1..Len(todo') : todo'[i] # u
    BY TokenAssumption DEF Start
  <2>3. pc' = "resume"
    BY DEF Start
  <2> QED BY <2>1, <2>2, <2>3 DEF PassedIsSettled
<1>6. RowsInOrder' /\ ScannedIsStored' /\ ResumeLosesOneBlock'
  BY <1>1, TableStays DEF Start, history
<1> QED BY <1>3, <1>4, <1>5, <1>6 DEF IInv

\* A transfer is not older than the deployment of its token: a run that begins there
\* passes over nothing; one that begins after the last row passes over what is of
\* the block of that row.
LEMMA ResumePassesOver ==
  ASSUME IInv, pc = "resume", handedOver = 0, NEW start \in StartBlocks,
         NEW x \in Of(Token), x.block < start, ~Settled(x)
  PROVE  \E r \in rows : r.token = x.token /\ r.block = x.block
<1>1. x \in Transfers /\ x.token = Token /\ x.valid /\ x.block \in Int /\ x.block >= Deployment[Token]
  BY TransferAssumption, ConfigFacts DEF Of
<1>2. Deployment[Token] \in Int
  BY ConfigFacts, TailTokens DEF IInv, AtWork, TypeOK, Token
<1>3. PICK b \in Blocks : IsLast(b, OfToken) /\ start = b + 1
  BY <1>1, <1>2 DEF StartBlocks, After
<1>4. PICK r \in rows : r.token = Token /\ r.block = b
  BY <1>3 DEF IsLast, OfToken
<1>5. ~(x.block < r.block)
  BY <1>1, <1>4 DEF IInv, RowsInOrder
<1> QED BY <1>1, <1>3, <1>4, <1>5, ConfigFacts

LEMMA ResumeStep ==
  ASSUME IInv, Resume
  PROVE  IInv'
<1>1. PICK start \in StartBlocks :
        /\ passedOver' = passedOver \cup {x \in Of(Token) : x.block < start /\ ~Stored(x)}
        /\ GoTo(start)
  BY DEF Resume
<1>2. /\ pc = "resume" /\ todo # <<>> /\ todo \in Seq(Tokens) /\ Token \in Tokens
      /\ fetched = {} /\ toSave = {}
  BY TailTokens DEF Resume, IInv, AtWork, TypeOK, Token
<1>3. start \in Int
  BY <1>2, ConfigFacts DEF StartBlocks, After
<1>4. HistoryGrows
  BY <1>1 DEF Resume, HistoryGrows
<1>5. \A x : (Settled(x) => Settled(x)') /\ (Stored(x) => Stored(x)')
  BY <1>4, SettledGrows
<1>6. TypeOK'
  <2>1. /\ chunkStart' \in Int /\ pc' \in {"fetch", "resume", "done"}
        /\ todo' \in Seq(Tokens) /\ ranges' \in Seq(BlockRange)
    BY <1>1, <1>2, <1>3, GoToTyped DEF IInv
  <2>2. passedOver' \subseteq Transfers
    BY <1>1 DEF IInv, TypeOK, Of
  <2> QED BY <2>1, <2>2 DEF IInv, TypeOK, Resume
<1>7. AtWork' /\ WithinChunk' /\ PassedIsSettled' /\ ChunkIsWhole'
  <2>1. \A x \in Of(Token) : x.block < start => Settled(x)'
    BY <1>1, <1>5 DEF Settled
  <2> QED BY <1>1, <1>2, <1>3, <1>4, <2>1, GoToCovers DEF Resume
<1>8. RowsInOrder' /\ ScannedIsStored'
  BY <1>4, TableStays DEF Resume
<1>9. ResumeLosesOneBlock'
  <2> SUFFICES ASSUME handedOver = 0, NEW x \in passedOver'
               PROVE  (Stored(x) \/ x \in truncated \/ \E r \in rows : r.token = x.token /\ r.block = x.block)'
    BY DEF Resume, ResumeLosesOneBlock
  <2> DEFINE Held == Stored(x) \/ x \in truncated \/ \E r \in rows : r.token = x.token /\ r.block = x.block
  <2>1. CASE x \in passedOver
    BY <2>1 DEF IInv, ResumeLosesOneBlock, Resume, Stored
  <2>2. CASE x \notin passedOver
    <3>1. x \in Of(Token) /\ x.block < start
      BY <1>1, <2>2
    <3>2. ~Settled(x) => Held
      BY <1>2, <3>1, ResumePassesOver
    <3>3. Held
      BY <2>2, <3>2 DEF Settled
    <3> QED BY <3>3 DEF Resume, Stored
  <2> QED BY <2>1, <2>2
<1> QED BY <1>6, <1>7, <1>8, <1>9 DEF IInv

\* What an answer leaves of the chunk: to be requested, or it is at hand.
LEMMA AnswerKeeps ==
  ASSUME IInv, Answer, HistoryGrows
  PROVE  LET got == fetched \cup First(PageLimit, In(Token, ranges[1].from, ranges[1].to)) IN
         /\ Len(ranges) \in Nat /\ Len(ranges) >= 1 /\ ranges[1] \in BlockRange
         /\ ranges[1].to =< ChunkEnd(chunkStart)
         /\ \A x \in got : x \in Transfers /\ x.token = Token /\ InChunk(x)
         /\ \A x \in Of(Token) : InChunk(x) =>
              \/ Settled(x)' \/ x \in got
              \/ \E i \in 2..Len(ranges) : x.block \in ranges[i].from..ranges[i].to
<1> DEFINE all == In(Token, ranges[1].from, ranges[1].to)
           got == fetched \cup First(PageLimit, all)
<1>1. /\ pc = "fetch" /\ ranges # <<>> /\ ranges \in Seq(BlockRange)
      /\ truncated' = truncated \cup (all \ First(PageLimit, all))
  BY DEF Answer, IInv, AtWork, TypeOK
<1>2. Len(ranges) \in Nat /\ Len(ranges) >= 1 /\ ranges[1] \in BlockRange
  BY <1>1, EmptySeq, LenProperties, ElementOfSeq
<1>3. ranges[1].to =< ChunkEnd(chunkStart)
  BY <1>1, <1>2 DEF IInv, WithinChunk
<1>4. ChunkEnd(chunkStart) \in Int /\ ranges[1].to \in Int /\ ranges[1].from \in Int
  BY <1>2, ConfigFacts DEF IInv, TypeOK, ChunkEnd, BlockRange
<1>5. \A x \in all : x \in Transfers /\ x.token = Token /\ InChunk(x)
  BY <1>3, <1>4, TransferAssumption, ConfigFacts DEF In, InChunk
<1>6. \A x \in got : x \in Transfers /\ x.token = Token /\ InChunk(x)
  BY <1>1, <1>5 DEF First, IInv, WithinChunk, TypeOK
<1>7. ASSUME NEW x \in Of(Token), InChunk(x)
      PROVE  \/ Settled(x)' \/ x \in got
             \/ \E i \in 2..Len(ranges) : x.block \in ranges[i].from..ranges[i].to
  <2>1. \/ Settled(x) \/ x \in fetched
        \/ \E i \in 1..Len(ranges) : x.block \in ranges[i].from..ranges[i].to
    BY <1>1, <1>7 DEF IInv, ChunkIsWhole
  <2>2. CASE Settled(x)
    BY <2>2, SettledGrows
  <2>3. CASE x.block \in ranges[1].from..ranges[1].to
    <3>1. x \in all
      BY <2>3 DEF In, Of
    <3> QED BY <1>1, <3>1 DEF Settled
  <2>4. ASSUME NEW i \in 1..Len(ranges), x.block \in ranges[i].from..ranges[i].to, i # 1
        PROVE  \E j \in 2..Len(ranges) : x.block \in ranges[j].from..ranges[j].to
    <3>1. i \in 2..Len(ranges)
      BY <1>2, <2>4
    <3> QED BY <2>4, <3>1
  <2> QED BY <2>1, <2>2, <2>3, <2>4
<1> HIDE DEF got, all
<1>8. /\ Len(ranges) \in Nat /\ Len(ranges) >= 1 /\ ranges[1] \in BlockRange
      /\ ranges[1].to =< ChunkEnd(chunkStart)
      /\ \A x \in got : x \in Transfers /\ x.token = Token /\ InChunk(x)
      /\ \A x \in Of(Token) : InChunk(x) =>
           \/ Settled(x)' \/ x \in got
           \/ \E i \in 2..Len(ranges) : x.block \in ranges[i].from..ranges[i].to
  BY <1>2, <1>3, <1>6, <1>7
<1> QED BY <1>8 DEF got, all

LEMMA AnswerStep ==
  ASSUME IInv, Answer
  PROVE  IInv'
<1> DEFINE all  == In(Token, ranges[1].from, ranges[1].to)
           got  == fetched \cup First(PageLimit, all)
           kept == {x \in got : x.valid}
<1>1. HistoryGrows
  BY DEF Answer, HistoryGrows
<1>2. /\ pc = "fetch" /\ todo # <<>> /\ ranges # <<>> /\ ranges \in Seq(BlockRange) /\ toSave = {}
      /\ truncated' = truncated \cup (all \ First(PageLimit, all))
      /\ UNCHANGED <<head, syncAll, endBlock, rows, status, scanned, handedOver, passedOver>>
  BY DEF Answer, IInv, AtWork, TypeOK
<1>3. /\ Len(ranges) \in Nat /\ Len(ranges) >= 1 /\ ranges[1] \in BlockRange
      /\ \A x \in got : x \in Transfers /\ x.token = Token /\ InChunk(x)
      /\ \A x \in Of(Token) : InChunk(x) =>
           \/ Settled(x)' \/ x \in got
           \/ \E i \in 2..Len(ranges) : x.block \in ranges[i].from..ranges[i].to
  BY <1>1, AnswerKeeps
<1>4. truncated' \subseteq Transfers
  BY <1>2 DEF IInv, TypeOK, In
<1>5. chunkStart \in Int /\ endBlock \in Int /\ ChunkEnd(chunkStart) \in Int
  BY ConfigFacts DEF IInv, TypeOK, ChunkEnd
<1>6. \A x : Settled(x) => Settled(x)'
  BY <1>1, SettledGrows
<1>7. RowsInOrder' /\ ScannedIsStored' /\ ResumeLosesOneBlock'
  BY <1>1, <1>2, TableStays
<1>8. \/ /\ Len(ranges) > 1
         /\ ranges' = Tail(ranges) /\ fetched' = got
         /\ UNCHANGED <<pc, todo, chunkStart, toSave>>
      \/ /\ Len(ranges) = 1 /\ kept # {}
         /\ pc' = "save" /\ toSave' = kept
         /\ ranges' = <<>> /\ fetched' = {}
         /\ UNCHANGED <<todo, chunkStart>>
      \/ /\ Len(ranges) = 1 /\ kept = {}
         /\ GoTo(NextChunk)
         /\ fetched' = {} /\ UNCHANGED toSave
  BY DEF Answer
<1>9. ASSUME UNCHANGED <<todo, chunkStart>>, pc' \in {"fetch", "save"}
      PROVE  /\ PassedIsSettled' /\ ChunkEnd(chunkStart)' = ChunkEnd(chunkStart)
             /\ Token' = Token /\ \A x : InChunk(x)' <=> InChunk(x)
  <2>1. Token' = Token /\ ChunkEnd(chunkStart)' = ChunkEnd(chunkStart)
    BY <1>2, <1>9 DEF Token, ChunkEnd
  <2>2. \A x : InChunk(x)' <=> InChunk(x)
    BY <2>1 DEF InChunk
  <2>3. PassedIsSettled'
    BY <1>2, <1>6, <1>9, <2>1 DEF IInv, PassedIsSettled, Covered, Of
  <2> QED BY <2>1, <2>2, <2>3
<1> HIDE DEF got, all
<1>10. CASE /\ Len(ranges) > 1
            /\ ranges' = Tail(ranges) /\ fetched' = got
            /\ UNCHANGED <<pc, todo, chunkStart, toSave>>
  <2>1. /\ Tail(ranges) \in Seq(BlockRange) /\ Len(Tail(ranges)) = Len(ranges) - 1
        /\ \A i \in 1..Len(Tail(ranges)) : Tail(ranges)[i] = ranges[i + 1]
    BY <1>2, HeadTailProperties
  <2>2. ranges' # <<>>
    BY <1>3, <1>10, <2>1, EmptySeq
  <2>3. \A i \in 2..Len(ranges) : i - 1 \in 1..Len(ranges') /\ ranges'[i - 1] = ranges[i]
    BY <1>3, <1>10, <2>1
  <2>4. \A i \in 1..Len(ranges') : i + 1 \in 1..Len(ranges) /\ ranges'[i] = ranges[i + 1]
    BY <1>3, <1>10, <2>1
  <2>5. TypeOK'
    BY <1>2, <1>3, <1>4, <1>10, <2>1 DEF IInv, TypeOK
  <2>6. AtWork'
    BY <1>2, <1>10, <2>2 DEF IInv, AtWork
  <2>7. WithinChunk'
    BY <1>2, <1>3, <1>9, <1>10, <2>4 DEF IInv, WithinChunk
  <2>8. ChunkIsWhole'
    <3> SUFFICES ASSUME NEW x \in Of(Token), InChunk(x)
                 PROVE  Settled(x)' \/ x \in fetched'
                        \/ \E i \in 1..Len(ranges') : x.block \in ranges'[i].from..ranges'[i].to
      BY <1>2, <1>9, <1>10 DEF ChunkIsWhole, Of
    <3> QED BY <1>3, <1>10, <2>3
  <2> QED BY <1>2, <1>7, <1>9, <1>10, <2>5, <2>6, <2>7, <2>8 DEF IInv
<1>11. CASE /\ Len(ranges) = 1 /\ kept # {}
            /\ pc' = "save" /\ toSave' = kept
            /\ ranges' = <<>> /\ fetched' = {}
            /\ UNCHANGED <<todo, chunkStart>>
  <2>1. <<>> \in Seq(BlockRange) /\ Len(<<>>) = 0
    OBVIOUS
  <2>2. TypeOK'
    BY <1>2, <1>3, <1>4, <1>11, <2>1 DEF IInv, TypeOK
  <2>3. AtWork'
    BY <1>2, <1>11 DEF IInv, AtWork
  <2>4. WithinChunk'
    BY <1>3, <1>9, <1>11 DEF WithinChunk
  <2>5. ChunkIsWhole'
    BY <1>3, <1>9, <1>11 DEF ChunkIsWhole, Of
  <2> QED BY <1>7, <1>9, <1>11, <2>2, <2>3, <2>4, <2>5 DEF IInv
<1>12. CASE /\ Len(ranges) = 1 /\ kept = {}
            /\ GoTo(NextChunk)
            /\ fetched' = {} /\ UNCHANGED toSave
  <2>1. NextChunk \in Int
    BY <1>5 DEF NextChunk
  <2>2. TypeOK'
    BY <1>2, <1>4, <1>12, <2>1, GoToTyped DEF IInv, TypeOK
  <2>3. \A x \in Of(Token) : x.block < NextChunk => Settled(x)'
    <3> SUFFICES ASSUME NEW x \in Of(Token), x.block < NextChunk PROVE Settled(x)'
      OBVIOUS
    <3>1. x.block \in Int /\ x.valid
      BY TransferAssumption, ConfigFacts DEF Of
    <3>2. InChunk(x)
      BY <1>5, <3>1 DEF NextChunk, InChunk
    <3>3. x \notin got
      BY <1>12, <3>1
    <3> QED BY <1>3, <1>12, <3>2, <3>3
  <2>4. AtWork' /\ WithinChunk' /\ PassedIsSettled' /\ ChunkIsWhole'
    BY <1>1, <1>2, <1>12, <2>1, <2>3, GoToCovers
  <2> QED BY <1>7, <2>2, <2>4 DEF IInv
<1> QED BY <1>8, <1>10, <1>11, <1>12

\* Two halves are asked for in place of a range.
LEMMA SplitStep ==
  ASSUME IInv, Split
  PROVE  IInv'
<1> DEFINE r   == ranges[1]
           mid == (r.from + r.to) \div 2
           lo  == [from |-> r.from, to |-> mid]
           hi  == [from |-> mid + 1, to |-> r.to]
<1>1. /\ pc = "fetch" /\ ranges # <<>> /\ ranges \in Seq(BlockRange)
      /\ r.to - r.from + 1 > MinRange
      /\ ranges' = <<lo, hi>> \o Tail(ranges)
      /\ UNCHANGED <<head, pc, syncAll, todo, endBlock, chunkStart, fetched, toSave, rows, status,
                     scanned, handedOver, truncated, passedOver>>
  BY DEF Split, After, history, IInv, AtWork, TypeOK
<1>2. /\ Len(ranges) \in Nat /\ Len(ranges) >= 1 /\ r \in BlockRange
      /\ Tail(ranges) \in Seq(BlockRange) /\ Len(Tail(ranges)) = Len(ranges) - 1
      /\ \A i \in 1..Len(Tail(ranges)) : Tail(ranges)[i] = ranges[i + 1]
  BY <1>1, EmptySeq, LenProperties, ElementOfSeq, HeadTailProperties
<1>3. r.from \in Int /\ r.to \in Int /\ mid \in Int /\ mid < r.to
  BY <1>1, <1>2, ConfigFacts DEF BlockRange
<1>4. lo \in BlockRange /\ hi \in BlockRange
  <2> HIDE DEF r, mid
  <2> QED BY <1>3 DEF BlockRange
<1>5. /\ ranges' \in Seq(BlockRange) /\ Len(ranges') = Len(ranges) + 1
      /\ ranges'[1] = lo /\ ranges'[2] = hi
      /\ \A i \in 3..Len(ranges') : ranges'[i] = ranges[i - 1] /\ i - 1 \in 2..Len(ranges)
  <2> HIDE DEF lo, hi
  <2>1. <<lo, hi>> \in Seq(BlockRange) /\ Len(<<lo, hi>>) = 2
    BY <1>4
  <2>2. /\ ranges' \in Seq(BlockRange) /\ Len(ranges') = 2 + Len(Tail(ranges))
        /\ \A i \in 1..Len(ranges') :
             ranges'[i] = IF i =< 2 THEN <<lo, hi>>[i] ELSE Tail(ranges)[i - 2]
    BY <1>1, <1>2, <2>1, ConcatProperties
  <2> QED BY <1>2, <2>2
<1>6. HistoryGrows /\ \A x : Settled(x)' <=> Settled(x)
  BY <1>1 DEF HistoryGrows, Settled, Stored
<1>7. ChunkEnd(chunkStart)' = ChunkEnd(chunkStart) /\ Token' = Token /\ ChunkEnd(chunkStart) \in Int
  BY <1>1, ConfigFacts DEF ChunkEnd, Token, IInv, TypeOK
<1>8. TypeOK' /\ RowsInOrder' /\ ScannedIsStored' /\ ResumeLosesOneBlock'
  BY <1>1, <1>5, <1>6, TableStays DEF IInv, TypeOK
<1>9. AtWork' /\ PassedIsSettled'
  <2>1. ranges' # <<>>
    BY <1>2, <1>5, EmptySeq
  <2>2. AtWork'
    BY <1>1, <2>1 DEF IInv, AtWork
  <2> QED BY <1>1, <1>6, <2>2 DEF IInv, PassedIsSettled, Covered, Of, Token
<1>10. WithinChunk'
  <2>1. \A i \in 1..Len(ranges) : ranges[i].to =< ChunkEnd(chunkStart)
    BY <1>1 DEF IInv, WithinChunk
  <2>2. lo.to =< ChunkEnd(chunkStart) /\ hi.to =< ChunkEnd(chunkStart)
    <3>1. r.to =< ChunkEnd(chunkStart)
      BY <1>2, <2>1
    <3> HIDE DEF r, mid
    <3> QED BY <1>3, <1>7, <3>1
  <2>3. ASSUME NEW i \in 1..Len(ranges') PROVE ranges'[i].to =< ChunkEnd(chunkStart)
    <3>1. i = 1 \/ i = 2 \/ i \in 3..Len(ranges')
      BY <1>2, <1>5
    <3> HIDE DEF lo, hi
    <3>2. \A j \in 2..Len(ranges) : ranges[j].to =< ChunkEnd(chunkStart)
      BY <2>1
    <3> QED BY <1>5, <2>2, <3>1, <3>2
  <2> QED BY <1>1, <1>7, <2>3 DEF IInv, WithinChunk, InChunk
<1>11. ChunkIsWhole'
  <2> SUFFICES ASSUME NEW x \in Of(Token), InChunk(x), NEW i \in 1..Len(ranges),
                      x.block \in ranges[i].from..ranges[i].to
               PROVE  \E j \in 1..Len(ranges') : x.block \in ranges'[j].from..ranges'[j].to
    BY <1>1, <1>6, <1>7 DEF IInv, ChunkIsWhole, InChunk, Of
  <2>1. x.block \in Int
    BY TransferAssumption, ConfigFacts DEF Of
  <2>2. CASE i = 1
    <3>1. x.block \in lo.from..lo.to \/ x.block \in hi.from..hi.to
      <4>1. x.block \in r.from..r.to
        BY <2>2
      <4> HIDE DEF r, mid
      <4> QED BY <1>3, <2>1, <4>1
    <3>2. 1 \in 1..Len(ranges') /\ 2 \in 1..Len(ranges')
      BY <1>2, <1>5
    <3> HIDE DEF lo, hi
    <3> QED BY <1>5, <3>1, <3>2
  <2>3. CASE i # 1
    <3>1. i + 1 \in 3..Len(ranges') /\ (i + 1) - 1 = i
      BY <1>2, <1>5, <2>3
    <3>2. ranges'[i + 1] = ranges[i] /\ i + 1 \in 1..Len(ranges')
      BY <1>2, <1>5, <3>1
    <3> QED BY <3>2
  <2> QED BY <2>2, <2>3
<1> QED BY <1>8, <1>9, <1>10, <1>11 DEF IInv

\* A batch is what comes first of what the chunk still has to save.
LEMMA SaveStep ==
  ASSUME IInv, Save
  PROVE  IInv'
<1>1. /\ pc = "save" /\ todo # <<>> /\ fetched = {}
      /\ rows' = rows \cup Insert(Batch) /\ toSave' = toSave \ Batch
      /\ UNCHANGED <<head, syncAll, endBlock, fetched, status, scanned, handedOver, truncated, passedOver>>
  BY DEF Save, history, IInv, AtWork
<1>2. /\ toSave \subseteq Transfers /\ Batch \subseteq toSave /\ Insert(Batch) \subseteq Batch
      /\ \A x \in toSave : x.token = Token /\ InChunk(x) /\ x.valid
  BY <1>1 DEF IInv, TypeOK, WithinChunk, Batch, First, Insert
<1>3. HistoryGrows /\ \A x : (Settled(x) => Settled(x)') /\ (Stored(x) => Stored(x)')
  <2>1. HistoryGrows
    BY <1>1 DEF HistoryGrows
  <2> QED BY <2>1, SettledGrows
<1>4. \A x \in Batch : Stored(x)'
  BY <1>1, <1>2, InsertStores
<1>5. chunkStart \in Int /\ endBlock \in Int /\ ChunkEnd(chunkStart) \in Int
  BY ConfigFacts DEF IInv, TypeOK, ChunkEnd
<1>6. \A x \in Of(Token) : InChunk(x) => Settled(x)' \/ x \in toSave'
  BY <1>1, <1>3, <1>4 DEF IInv, ChunkIsWhole, Settled
<1>7. ScannedIsStored' /\ ResumeLosesOneBlock'
  BY <1>1, <1>3 DEF IInv, ScannedIsStored, ResumeLosesOneBlock
<1>8. RowsInOrder'
  <2> SUFFICES ASSUME handedOver = 0, NEW r \in rows', NEW x \in Transfers,
                      x.token = r.token, x.valid, x.block < r.block
               PROVE  Settled(x)'
    BY <1>1 DEF RowsInOrder
  <2>1. CASE r \in rows
    BY <1>3, <2>1 DEF IInv, RowsInOrder
  <2>2. CASE r \notin rows
    <3>1. r \in Batch /\ r \in toSave /\ r \in Transfers /\ InChunk(r) /\ x \in Of(Token)
      BY <1>1, <1>2, <2>2 DEF Of
    <3>2. InChunk(x) /\ x.pos < r.pos
      BY <1>5, <3>1, TransferAssumption, ConfigFacts DEF InChunk
    <3>3. CASE x \in toSave'
      <4>1. x \in Batch
        BY <1>1, <1>2, <3>1, <3>2, <3>3, FirstIsInitial, ConfigFacts DEF Batch
      <4> QED BY <1>1, <3>3, <4>1
    <3> QED BY <1>6, <3>1, <3>2, <3>3
  <2> QED BY <2>1, <2>2
<1>9. CASE toSave' # {} /\ UNCHANGED <<pc, todo, chunkStart, ranges>>
  <2>1. TypeOK'
    BY <1>1, <1>2, <1>9 DEF IInv, TypeOK
  <2>2. AtWork'
    BY <1>1, <1>9 DEF IInv, AtWork
  <2>3. /\ Token' = Token /\ ChunkEnd(chunkStart)' = ChunkEnd(chunkStart)
        /\ \A x : InChunk(x)' <=> InChunk(x)
    BY <1>1, <1>9 DEF Token, ChunkEnd, InChunk
  <2>4. WithinChunk'
    BY <1>1, <1>2, <1>9, <2>3 DEF IInv, WithinChunk
  <2>5. PassedIsSettled'
    BY <1>1, <1>3, <1>9, <2>3 DEF IInv, PassedIsSettled, Covered, Of
  <2>6. ChunkIsWhole'
    BY <1>1, <1>6, <1>9, <2>3 DEF ChunkIsWhole, Of
  <2> QED BY <1>7, <1>8, <2>1, <2>2, <2>4, <2>5, <2>6 DEF IInv
<1>10. CASE toSave' = {} /\ GoTo(NextChunk)
  <2>1. NextChunk \in Int
    BY <1>5 DEF NextChunk
  <2>2. TypeOK'
    BY <1>1, <1>2, <1>10, <2>1, GoToTyped DEF IInv, TypeOK
  <2>3. \A x \in Of(Token) : x.block < NextChunk => Settled(x)'
    <3> SUFFICES ASSUME NEW x \in Of(Token), x.block < NextChunk PROVE Settled(x)'
      OBVIOUS
    <3>1. x.block \in Int
      BY TransferAssumption, ConfigFacts DEF Of
    <3>2. InChunk(x)
      BY <1>5, <3>1 DEF NextChunk, InChunk
    <3> QED BY <1>6, <1>10, <3>2
  <2>4. AtWork' /\ WithinChunk' /\ PassedIsSettled' /\ ChunkIsWhole'
    BY <1>1, <1>3, <1>10, <2>1, <2>3, GoToCovers
  <2> QED BY <1>7, <1>8, <2>2, <2>4 DEF IInv
<1> QED BY <1>9, <1>10 DEF Save

\* A run for all tokens ends with every token behind it.
LEMMA FinishStep ==
  ASSUME IInv, Finish
  PROVE  IInv'
<1>1. /\ pc = "done" /\ pc' = "idle" /\ todo = <<>>
      /\ status' = IF syncAll THEN endBlock ELSE status
      /\ UNCHANGED <<head, syncAll, todo, endBlock, chunkStart, ranges, fetched, toSave, rows, scanned,
                     handedOver, truncated, passedOver>>
  BY DEF Finish, WritesStatus, work, history, IInv, AtWork
<1>2. HistoryGrows /\ \A x : Settled(x)' <=> Settled(x)
  BY <1>1 DEF HistoryGrows, Settled, Stored
<1>3. TypeOK'
  BY <1>1, ConfigFacts DEF IInv, TypeOK, Blocks
<1>4. AtWork' /\ WithinChunk' /\ ChunkIsWhole'
  BY <1>1 DEF IInv, AtWork, WithinChunk, ChunkIsWhole
<1>5. PassedIsSettled'
  <2>1. syncAll => \A t \in Tokens : Covered(t, endBlock)
    <3>1. \A i \in 1..Len(todo) : FALSE
      BY <1>1
    <3> QED BY <1>1, <3>1 DEF IInv, PassedIsSettled
  <2> QED BY <1>1, <1>2, <2>1 DEF IInv, PassedIsSettled, Covered, Of
<1>6. RowsInOrder' /\ ScannedIsStored' /\ ResumeLosesOneBlock'
  BY <1>1, <1>2, TableStays
<1> QED BY <1>3, <1>4, <1>5, <1>6 DEF IInv

LEMMA ExitsStep ==
  ASSUME IInv, Exits
  PROVE  IInv'
<1>1. HistoryGrows /\ \A x : Settled(x)' <=> Settled(x)
  BY DEF Exits, HistoryGrows, Settled, Stored, history
<1>2. TypeOK'
  <2>1. <<>> \in Seq(BlockRange)
    OBVIOUS
  <2> QED BY <2>1 DEF Exits, IInv, TypeOK, history
<1>3. AtWork' /\ WithinChunk' /\ ChunkIsWhole'
  BY DEF Exits, IInv, AtWork, WithinChunk, ChunkIsWhole
<1>4. PassedIsSettled'
  BY <1>1 DEF Exits, IInv, PassedIsSettled, Covered, Of
<1>5. RowsInOrder' /\ ScannedIsStored' /\ ResumeLosesOneBlock'
  BY <1>1, TableStays DEF Exits, history
<1> QED BY <1>2, <1>3, <1>4, <1>5 DEF IInv
-----------------------------------------------------------------------------
(* The chain's and the scanner's steps.                                    *)

LEMMA NewBlockStep ==
  ASSUME IInv, NewBlock
  PROVE  IInv'
<1>1. HistoryGrows
  BY DEF NewBlock, HistoryGrows, history
<1>2. TypeOK'
  BY ConfigFacts DEF NewBlock, work, history, IInv, TypeOK, Blocks
<1>3. AtWork' /\ WithinChunk' /\ PassedIsSettled' /\ ChunkIsWhole'
  BY <1>1, WorkStays DEF NewBlock
<1>4. RowsInOrder' /\ ScannedIsStored' /\ ResumeLosesOneBlock'
  BY <1>1, TableStays DEF NewBlock, history
<1> QED BY <1>2, <1>3, <1>4 DEF IInv

LEMMA ScannerStartsStep ==
  ASSUME IInv, ScannerStarts
  PROVE  IInv'
<1>1. /\ scanned = 0 /\ scanned' \in Blocks /\ handedOver' = scanned'
      /\ UNCHANGED <<head, pc, work, rows, status, truncated, passedOver>>
  BY ConfigFacts DEF ScannerStarts
<1>2. HistoryGrows
  BY <1>1 DEF HistoryGrows
<1>3. scanned' \in Int /\ 1 =< scanned' /\ scanned' =< MaxBlock
  BY <1>1, ConfigFacts
<1>4. TypeOK'
  BY <1>1, <1>3, ConfigFacts DEF work, IInv, TypeOK
<1>5. AtWork' /\ WithinChunk' /\ PassedIsSettled' /\ ChunkIsWhole'
  BY <1>1, <1>2, WorkStays
<1>6. RowsInOrder' /\ ResumeLosesOneBlock'
  BY <1>1, <1>3 DEF RowsInOrder, ResumeLosesOneBlock
<1>7. ScannedIsStored'
  <2>1. ASSUME NEW x \in Transfers, handedOver' < x.block, x.block =< scanned' PROVE FALSE
    <3>1. x.block \in Int
      BY TransferAssumption, ConfigFacts
    <3> QED BY <1>1, <1>3, <2>1, <3>1
  <2> QED BY <1>1, <1>3, <2>1 DEF ScannedIsStored
<1> QED BY <1>4, <1>5, <1>6, <1>7 DEF IInv

LEMMA ScannerStoresStep ==
  ASSUME IInv, ScannerStores
  PROVE  IInv'
<1> DEFINE new == {x \in Transfers : x.valid /\ x.block = scanned'}
<1>1. /\ 0 < scanned /\ scanned < head /\ scanned' = scanned + 1
      /\ rows' = rows \cup Insert(new)
      /\ UNCHANGED <<head, pc, work, status, handedOver, truncated, passedOver>>
  BY DEF ScannerStores, history
<1>2. HistoryGrows /\ \A x : Stored(x) => Stored(x)'
  <2>1. HistoryGrows
    BY <1>1 DEF HistoryGrows
  <2> QED BY <2>1, SettledGrows
<1>3. scanned \in Int /\ handedOver \in Int /\ 0 < handedOver /\ scanned' =< MaxBlock
  BY <1>1, ConfigFacts DEF IInv, TypeOK, ScannedIsStored
<1>4. TypeOK'
  BY <1>1, <1>3, ConfigFacts DEF work, IInv, TypeOK, Insert
<1>5. AtWork' /\ WithinChunk' /\ PassedIsSettled' /\ ChunkIsWhole'
  BY <1>1, <1>2, WorkStays
<1>6. RowsInOrder' /\ ResumeLosesOneBlock'
  BY <1>1, <1>3 DEF RowsInOrder, ResumeLosesOneBlock
<1>7. ScannedIsStored'
  <2>1. \A x \in new : Stored(x)'
    BY <1>1, InsertStores
  <2>2. ASSUME NEW x \in Transfers, x.valid, handedOver < x.block, x.block =< scanned'
        PROVE  Stored(x)'
    <3>1. x.block \in Int
      BY TransferAssumption, ConfigFacts
    <3>2. x.block = scanned' \/ x.block =< scanned
      BY <1>1, <1>3, <2>2, <3>1
    <3> QED BY <1>2, <1>3, <2>1, <2>2, <3>2 DEF IInv, ScannedIsStored
  <2> QED BY <1>1, <1>3, <2>2 DEF IInv, ScannedIsStored
<1> QED BY <1>4, <1>5, <1>6, <1>7 DEF IInv
-----------------------------------------------------------------------------
LEMMA InvariantInit == Init => IInv
<1> SUFFICES ASSUME Init PROVE IInv
  OBVIOUS
<1>1. TypeOK
  <2>1. <<>> \in Seq(BlockRange) /\ <<>> \in Seq(Tokens) /\ 1 \in Blocks
    BY ConfigFacts, ConfigAssumption DEF Blocks
  <2>2. 0 \in 0..MaxBlock /\ 1 \in Int
    BY ConfigAssumption
  <2>3. \A S \in {fetched, toSave, rows, truncated, passedOver} : S = {}
    BY DEF Init
  <2> QED BY <2>1, <2>2, <2>3 DEF Init, TypeOK
<1>2. AtWork /\ WithinChunk /\ ChunkIsWhole
  BY DEF Init, AtWork, WithinChunk, ChunkIsWhole
<1>3. \A x \in Transfers : x.block \in Int /\ 1 =< x.block
  BY TransferAssumption, ConfigFacts
<1>4. PassedIsSettled
  BY <1>3 DEF Init, PassedIsSettled, Covered, Of
<1>5. RowsInOrder /\ ScannedIsStored /\ ResumeLosesOneBlock
  BY DEF Init, RowsInOrder, ScannedIsStored, ResumeLosesOneBlock
<1> QED BY <1>1, <1>2, <1>4, <1>5 DEF IInv

LEMMA InvariantStep ==
  ASSUME IInv, [Next]_vars
  PROVE  IInv'
<1>1. CASE UNCHANGED vars
  <2>1. HistoryGrows /\ TypeOK'
    BY <1>1 DEF vars, work, history, HistoryGrows, IInv, TypeOK
  <2>2. AtWork' /\ WithinChunk' /\ PassedIsSettled' /\ ChunkIsWhole'
    BY <1>1, <2>1, WorkStays DEF vars
  <2>3. RowsInOrder' /\ ScannedIsStored' /\ ResumeLosesOneBlock'
    BY <1>1, <2>1, TableStays DEF vars, history
  <2> QED BY <2>1, <2>2, <2>3 DEF IInv
<1>2. ASSUME NEW all \in BOOLEAN, NEW t \in Tokens, Start(all, t) PROVE IInv'
  BY <1>2, StartStep
<1>3. CASE Program
  BY <1>3, ResumeStep, AnswerStep, SplitStep, SaveStep, FinishStep DEF Program
<1>4. CASE Exits \/ NewBlock \/ ScannerStarts \/ ScannerStores
  BY <1>4, ExitsStep, NewBlockStep, ScannerStartsStep, ScannerStoresStep
<1> QED BY <1>1, <1>2, <1>3, <1>4 DEF Next

\* The invariant of the import, the table and the scanner together, whatever fails,
\* times out or is killed (streamTokenTransfers, saveTransactionsBatch).
THEOREM ImportInvariant == Spec => []IInv
BY InvariantInit, InvariantStep, PTL DEF Spec

\* What the import has passed is settled (streamTokenTransfers and the status row of
\* updateBlockProcessingStatus).
THEOREM PassedIsStored == Spec => []ImportIsWhole
<1>1. IInv => ImportIsWhole
  <2> SUFFICES ASSUME IInv, NEW t \in Tokens, NEW x \in Of(t), x.block =< Past(t) \/ x.block =< status
               PROVE  Settled(x)
    BY DEF ImportIsWhole
  <2>1. CASE x.block =< status
    BY <2>1 DEF IInv, PassedIsSettled, Covered
  <2>2. CASE Past(t) = chunkStart - 1 /\ t = Token /\ pc \in {"fetch", "save"}
    BY <2>1, <2>2 DEF IInv, PassedIsSettled, Covered
  <2>3. CASE Past(t) = endBlock /\ pc # "idle" /\ syncAll /\ \A i \in 1..Len(todo) : todo[i] # t
    BY <2>1, <2>3 DEF IInv, PassedIsSettled, Covered
  <2>4. \/ Past(t) = status
        \/ Past(t) = chunkStart - 1 /\ t = Token /\ pc \in {"fetch", "save"}
        \/ Past(t) = endBlock /\ pc # "idle" /\ syncAll /\ \A i \in 1..Len(todo) : todo[i] # t
    BY DEF Past
  <2> QED BY <2>1, <2>2, <2>3, <2>4
<1> QED BY <1>1, ImportInvariant, PTL

\* A resume after the last row skips only the rest of that row's block (syncToken).
THEOREM ResumeSkipsOneBlock == Spec => []ResumeLosesOneBlock
<1>1. IInv => ResumeLosesOneBlock
  BY DEF IInv
<1> QED BY <1>1, ImportInvariant, PTL

\* From an imported history the scanner goes on without a gap
\* (getLastProcessedBlockNumber).
THEOREM HandOverIsWhole == Spec => []HandOverWithoutGap
<1>1. IInv => HandOverWithoutGap
  <2> SUFFICES ASSUME IInv, 0 < handedOver, handedOver =< status,
                      NEW x \in Transfers, x.valid, x.block =< scanned
               PROVE  Settled(x)
    BY DEF HandOverWithoutGap
  <2>1. x.block \in Int /\ x \in Of(x.token) /\ x.token \in Tokens
    BY TransferAssumption, ConfigFacts DEF Of
  <2>2. CASE x.block =< status
    BY <2>1, <2>2 DEF IInv, PassedIsSettled, Covered
  <2>3. CASE handedOver < x.block
    BY <2>3 DEF IInv, ScannedIsStored, Settled
  <2>4. handedOver \in Int /\ status \in Int
    BY ConfigFacts DEF IInv, TypeOK
  <2> QED BY <2>1, <2>2, <2>3, <2>4
<1> QED BY <1>1, ImportInvariant, PTL

=============================================================================
