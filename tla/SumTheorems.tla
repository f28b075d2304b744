----------------------------- MODULE SumTheorems -----------------------------
(***************************************************************************)
(* Sums of natural numbers over finite sets (SumFunctionOnSet of the       *)
(* community modules): what one element, one grown value, a part or a      *)
(* partition of the set does to them.  The SUM and COUNT of the statements *)
(* and the averages of the scanner's statistics are reasoned about with it. *)
(***************************************************************************)
EXTENDS Integers, FiniteSetsExt, FiniteSetTheorems, WellFoundedInduction, TLAPS

-----------------------------------------------------------------------------
(* Finite sets.                                                            *)

\* The image of a finite set.
LEMMA ImageFinite ==
  ASSUME NEW S, IsFiniteSet(S), NEW f
  PROVE  IsFiniteSet({f[x] : x \in S}) /\ Cardinality({f[x] : x \in S}) =< Cardinality(S)
<1> DEFINE T == {f[x] : x \in S}
           g == [x \in S |-> f[x]]
<1>1. g \in Surjection(S, T)
  BY DEF Surjection
<1> QED BY <1>1, FS_Surjection

\* Of finite sets some is smallest.
LEMMA SmallestSubset ==
  ASSUME NEW S, IsFiniteSet(S), NEW F \in SUBSET SUBSET S, F # {}
  PROVE  \E m \in F : \A y \in F : y \subseteq m => y = m
<1>1. IsWellFoundedOn(StrictSubsetOrdering(S), SUBSET S)
  BY FS_StrictSubsetOrderingWellFounded, FS_FiniteSubsetsOfFinite
<1>2. PICK m \in F : \A y \in F : ~(<<y, m>> \in StrictSubsetOrdering(S))
  BY <1>1, WFMin
<1>3. ASSUME NEW y \in F, y \subseteq m, y # m PROVE <<y, m>> \in StrictSubsetOrdering(S)
  <2>1. <<y, m>> \in (SUBSET S) \X (SUBSET S)
    OBVIOUS
  <2> QED BY <1>3, <2>1 DEF StrictSubsetOrdering
<1>4. ASSUME NEW y \in F, y \subseteq m PROVE y = m
  BY <1>2, <1>3, <1>4
<1> QED BY <1>4

-----------------------------------------------------------------------------
(* Sums over finite sets.                                                  *)

\* The element a fold takes from a set, and what it leaves.
First(s) == CHOOSE x \in s : TRUE
Others(s) == s \ {First(s)}

\* What is left is smaller.
LEMMA FirstOfSet ==
  ASSUME NEW s, s # {}
  PROVE  First(s) \in s /\ Others(s) \in SUBSET s /\ Others(s) # s /\ s = Others(s) \cup {First(s)}
<1>1. First(s) \in s
  BY DEF First
<1> QED BY <1>1 DEF Others

\* What holds of the empty set, and of a set if of what a fold leaves of it, holds of every
\* subset of a finite one.
LEMMA SubsetInduction ==
  ASSUME NEW S, IsFiniteSet(S), NEW G \in SUBSET SUBSET S, {} \in G,
         \A s \in SUBSET S : s # {} /\ Others(s) \in G => s \in G
  PROVE  \A s \in SUBSET S : s \in G
<1> DEFINE F == (SUBSET S) \ G
<1>1. F \in SUBSET SUBSET S
  OBVIOUS
<1>2. ASSUME F # {} PROVE FALSE
  <2>1. PICK m \in F : \A y \in F : y \subseteq m => y = m
    <3> HIDE DEF F
    <3> QED BY <1>1, <1>2, SmallestSubset
  <2>2. m \in SUBSET S /\ m # {}
    BY <1>1, <2>1
  <2>3. Others(m) \in SUBSET S /\ Others(m) \subseteq m /\ Others(m) # m
    BY <2>2, FirstOfSet
  <2>4. Others(m) \in G
    BY <2>1, <2>3
  <2> QED BY <2>2, <2>4
<1> QED BY <1>2

\* One step of the fold, over what g says of the sets before, and the folds of a set.
SumStep(f, g, s) == IF s = {} THEN 0 ELSE f[First(s)] + g[Others(s)]
IsFold(f, S, g) == g = [s \in SUBSET S |-> SumStep(f, g, s)]
FoldOf(f, S) == CHOOSE g : IsFold(f, S, g)

\* What a fold says of a subset.
LEMMA FoldStep ==
  ASSUME NEW f, NEW S, NEW g, IsFold(f, S, g), NEW s \in SUBSET S
  PROVE  g[s] = SumStep(f, g, s)
<1> DEFINE h == [t \in SUBSET S |-> SumStep(f, g, t)]
<1>1. h[s] = SumStep(f, g, s)
  OBVIOUS
<1> HIDE DEF h
<1>2. g = h
  BY DEF IsFold, h
<1> QED BY <1>1, <1>2

\* Two folds agree where they sum the same values.
LEMMA FoldsAgree ==
  ASSUME NEW f, NEW h, NEW S, NEW R, NEW T, IsFiniteSet(T), T \subseteq S, T \subseteq R,
         \A x \in T : f[x] = h[x],
         NEW g, NEW k, IsFold(f, S, g), IsFold(h, R, k)
  PROVE  \A s \in SUBSET T : g[s] = k[s]
<1> DEFINE G == {s \in SUBSET T : g[s] = k[s]}
<1>1. \A s \in SUBSET T : g[s] = SumStep(f, g, s) /\ k[s] = SumStep(h, k, s)
  BY FoldStep
<1>2. {} \in G
  BY <1>1 DEF SumStep
<1>3. ASSUME NEW s \in SUBSET T, s # {}, Others(s) \in G PROVE s \in G
  <2>1. First(s) \in T
    BY <1>3, FirstOfSet
  <2> QED BY <1>1, <1>3, <2>1 DEF SumStep
<1>4. G \in SUBSET SUBSET T
  OBVIOUS
<1> HIDE DEF G
<1>5. \A s \in SUBSET T : s \in G
  BY <1>2, <1>3, <1>4, SubsetInduction
<1> QED BY <1>5 DEF G

\* A finite set has a fold: on each subset it is what the fold of the others yields.
LEMMA FoldExists ==
  ASSUME NEW f, NEW S, IsFiniteSet(S)
  PROVE  IsFold(f, S, FoldOf(f, S))
<1> DEFINE F == {T \in SUBSET S : ~IsFold(f, T, FoldOf(f, T))}
<1>1. ASSUME F # {} PROVE FALSE
  <2>1. F \in SUBSET SUBSET S
    OBVIOUS
  <2>2. PICK m \in F : \A y \in F : y \subseteq m => y = m
    <3> HIDE DEF F
    <3> QED BY <1>1, <2>1, SmallestSubset
  <2>3. \A T \in SUBSET m : T # m => IsFold(f, T, FoldOf(f, T))
    BY <2>2
  <2> DEFINE value(s) == IF s = {} THEN 0 ELSE f[First(s)] + FoldOf(f, Others(s))[Others(s)]
             g == [s \in SUBSET m |-> value(s)]
  <2>4. ASSUME NEW T \in SUBSET m, T # m PROVE FoldOf(f, T)[T] = value(T)
    <3>1. IsFold(f, T, FoldOf(f, T))
      BY <2>3, <2>4
    <3>2. FoldOf(f, T)[T] = SumStep(f, FoldOf(f, T), T)
      BY <3>1, FoldStep
    <3>3. ASSUME T # {} PROVE FoldOf(f, T)[Others(T)] = FoldOf(f, Others(T))[Others(T)]
      <4>1. Others(T) \in SUBSET T /\ Others(T) # m
        BY <2>4, <3>3, FirstOfSet
      <4>2. IsFold(f, Others(T), FoldOf(f, Others(T)))
        BY <2>3, <4>1
      <4>3. IsFiniteSet(Others(T))
        BY <2>2, <4>1, FS_Subset
      <4>4. \A s \in SUBSET Others(T) : FoldOf(f, T)[s] = FoldOf(f, Others(T))[s]
        BY <3>1, <4>1, <4>2, <4>3, FoldsAgree
      <4> QED BY <4>4
    <3> QED BY <3>2, <3>3 DEF SumStep
  <2>5. ASSUME NEW s \in SUBSET m PROVE value(s) = SumStep(f, g, s)
    <3>1. CASE s = {}
      BY <3>1 DEF SumStep
    <3>2. CASE s # {}
      <4>1. Others(s) \in SUBSET m /\ Others(s) # m
        BY <3>2, FirstOfSet
      <4>2. g[Others(s)] = FoldOf(f, Others(s))[Others(s)]
        BY <2>4, <4>1
      <4> HIDE DEF g
      <4> QED BY <3>2, <4>2 DEF SumStep
    <3> QED BY <3>1, <3>2
  <2>6. g = [s \in SUBSET m |-> SumStep(f, g, s)]
    <3> DEFINE h == [s \in SUBSET m |-> SumStep(f, g, s)]
    <3>1. \A s \in SUBSET m : g[s] = h[s]
      BY <2>5
    <3>2. g = [s \in SUBSET m |-> g[s]] /\ h = [s \in SUBSET m |-> h[s]]
      OBVIOUS
    <3> HIDE DEF g, h
    <3>3. g = h
      BY <3>1, <3>2
    <3> QED BY <3>3 DEF h
  <2> HIDE DEF g
  <2>7. IsFold(f, m, g)
    BY <2>6 DEF IsFold
  <2>8. IsFold(f, m, FoldOf(f, m))
    BY <2>7 DEF FoldOf
  <2> QED BY <2>2, <2>8
<1>2. S \in SUBSET S
  OBVIOUS
<1> QED BY <1>1, <1>2

\* The sum of the community modules, one element at a time.
LEMMA SumUnfolds ==
  ASSUME NEW f, NEW S, IsFiniteSet(S)
  PROVE  /\ SumFunctionOnSet(f, {}) = 0
         /\ S # {} => SumFunctionOnSet(f, S) = f[First(S)] + SumFunctionOnSet(f, Others(S))
<1>1. ASSUME NEW T PROVE SumFunctionOnSet(f, T) = FoldOf(f, T)[T]
  BY DEF SumFunctionOnSet, FoldFunctionOnSet, MapThenFoldSet, FoldOf, IsFold, SumStep, Others, First
<1>2. ASSUME NEW T, IsFiniteSet(T) PROVE FoldOf(f, T)[T] = SumStep(f, FoldOf(f, T), T)
  <2>1. IsFold(f, T, FoldOf(f, T)) /\ T \in SUBSET T
    BY <1>2, FoldExists
  <2> QED BY <2>1, FoldStep
<1>3. SumFunctionOnSet(f, {}) = 0
  BY <1>1, <1>2, FS_EmptySet DEF SumStep
<1>4. ASSUME S # {} PROVE SumFunctionOnSet(f, S) = f[First(S)] + SumFunctionOnSet(f, Others(S))
  <2>1. Others(S) \in SUBSET S
    BY <1>4, FirstOfSet
  <2>2. IsFiniteSet(Others(S))
    BY <2>1, FS_Subset
  <2>3. FoldOf(f, S)[Others(S)] = FoldOf(f, Others(S))[Others(S)]
    <3>1. IsFold(f, S, FoldOf(f, S)) /\ IsFold(f, Others(S), FoldOf(f, Others(S)))
      BY <2>2, FoldExists
    <3>2. \A s \in SUBSET Others(S) : FoldOf(f, S)[s] = FoldOf(f, Others(S))[s]
      BY <2>1, <2>2, <3>1, FoldsAgree
    <3> QED BY <3>2
  <2> QED BY <1>1, <1>2, <1>4, <2>3 DEF SumStep
<1> QED BY <1>3, <1>4

\* A sum of naturals is one, and zero only if they all are.
LEMMA SumOfNaturals ==
  ASSUME NEW f, NEW S, IsFiniteSet(S), \A x \in S : f[x] \in Nat
  PROVE  /\ SumFunctionOnSet(f, S) \in Nat
         /\ SumFunctionOnSet(f, S) = 0 <=> \A x \in S : f[x] = 0
<1> DEFINE Fine(s) == /\ SumFunctionOnSet(f, s) \in Nat
                      /\ SumFunctionOnSet(f, s) = 0 <=> \A x \in s : f[x] = 0
           G == {s \in SUBSET S : Fine(s)}
<1>1. {} \in G
  BY SumUnfolds, FS_EmptySet
<1>2. ASSUME NEW s \in SUBSET S, s # {}, Others(s) \in G PROVE s \in G
  <2>1. First(s) \in S /\ IsFiniteSet(s) /\ s = Others(s) \cup {First(s)}
    BY <1>2, FirstOfSet, FS_Subset
  <2>2. f[First(s)] \in Nat
    BY <2>1
  <2>3. SumFunctionOnSet(f, s) = f[First(s)] + SumFunctionOnSet(f, Others(s))
    BY <1>2, <2>1, SumUnfolds
  <2>4. /\ SumFunctionOnSet(f, Others(s)) \in Nat
        /\ SumFunctionOnSet(f, Others(s)) = 0 <=> \A x \in Others(s) : f[x] = 0
    BY <1>2
  <2>5. SumFunctionOnSet(f, s) \in Nat
    BY <2>2, <2>3, <2>4
  <2>6. SumFunctionOnSet(f, s) = 0 <=> f[First(s)] = 0 /\ SumFunctionOnSet(f, Others(s)) = 0
    BY <2>2, <2>3, <2>4
  <2>7. (\A x \in s : f[x] = 0) <=> f[First(s)] = 0 /\ \A x \in Others(s) : f[x] = 0
    BY <2>1
  <2> QED BY <2>4, <2>5, <2>6, <2>7
<1>3. G \in SUBSET SUBSET S
  OBVIOUS
<1> HIDE DEF G
<1>4. \A s \in SUBSET S : s \in G
  BY <1>1, <1>2, <1>3, SubsetInduction
<1> QED BY <1>4 DEF G

\* One value grows, and the sum of each set that holds it by as much.
LEMMA SumGrows ==
  ASSUME NEW f, NEW h, NEW S, IsFiniteSet(S), NEW y, NEW d \in Nat,
         \A x \in S : f[x] \in Nat,
         \A x \in S : h[x] = IF x = y THEN f[x] + d ELSE f[x]
  PROVE  SumFunctionOnSet(h, S) = SumFunctionOnSet(f, S) + IF y \in S THEN d ELSE 0
<1> DEFINE G == {s \in SUBSET S : SumFunctionOnSet(h, s) =
                                    SumFunctionOnSet(f, s) + IF y \in s THEN d ELSE 0}
<1>1. {} \in G
  BY SumUnfolds, FS_EmptySet
<1>2. ASSUME NEW s \in SUBSET S, s # {}, Others(s) \in G PROVE s \in G
  <2>1. First(s) \in S /\ IsFiniteSet(s) /\ s = Others(s) \cup {First(s)} /\ Others(s) \in SUBSET S
    BY <1>2, FirstOfSet, FS_Subset
  <2>2. /\ f[First(s)] \in Nat /\ h[First(s)] = IF First(s) = y THEN f[First(s)] + d ELSE f[First(s)]
    BY <2>1
  <2>3. /\ SumFunctionOnSet(f, s) = f[First(s)] + SumFunctionOnSet(f, Others(s))
        /\ SumFunctionOnSet(h, s) = h[First(s)] + SumFunctionOnSet(h, Others(s))
    BY <1>2, <2>1, SumUnfolds
  <2>4. SumFunctionOnSet(f, Others(s)) \in Nat
    <3>1. IsFiniteSet(Others(s)) /\ \A x \in Others(s) : f[x] \in Nat
      BY <2>1, FS_Subset
    <3> QED BY <3>1, SumOfNaturals
  <2>5. SumFunctionOnSet(h, Others(s)) = SumFunctionOnSet(f, Others(s)) + IF y \in Others(s) THEN d ELSE 0
    BY <1>2
  <2>6. First(s) \notin Others(s)
    BY DEF Others
  <2>7. CASE First(s) = y
    <3>1. y \in s /\ y \notin Others(s)
      BY <1>2, <2>6, <2>7, FirstOfSet
    <3> QED BY <2>2, <2>3, <2>4, <2>5, <2>7, <3>1
  <2>8. CASE First(s) # y
    <3>1. y \in s <=> y \in Others(s)
      BY <2>1, <2>8
    <3> QED BY <2>2, <2>3, <2>4, <2>5, <2>8, <3>1
  <2> QED BY <2>7, <2>8
<1>3. G \in SUBSET SUBSET S
  OBVIOUS
<1> HIDE DEF G
<1>4. \A s \in SUBSET S : s \in G
  BY <1>1, <1>2, <1>3, SubsetInduction
<1> QED BY <1>4 DEF G

-----------------------------------------------------------------------------
(* Sums and cardinalities.                                                  *)

\* As many pieces for each element as its value.
Pieces(f, S) == UNION {{x} \X (1 .. f[x]) : x \in S}

\* Disjoint sets add up.
LEMMA SizeOfUnion ==
  ASSUME NEW a, NEW b, IsFiniteSet(a), IsFiniteSet(b), a \cap b = {}
  PROVE  IsFiniteSet(a \cup b) /\ Cardinality(a \cup b) = Cardinality(a) + Cardinality(b)
<1>1. /\ IsFiniteSet(a \cup b)
      /\ Cardinality(a \cup b) = Cardinality(a) + Cardinality(b) - Cardinality(a \cap b)
  BY FS_Union
<1>2. Cardinality(a \cap b) = 0
  BY FS_EmptySet
<1>3. Cardinality(a) \in Nat /\ Cardinality(b) \in Nat
  BY FS_CardinalityType
<1> QED BY <1>1, <1>2, <1>3

\* A sum of naturals is the size of a set.
LEMMA SumOfPieces ==
  ASSUME NEW f, NEW S, IsFiniteSet(S), \A x \in S : f[x] \in Nat
  PROVE  IsFiniteSet(Pieces(f, S)) /\ SumFunctionOnSet(f, S) = Cardinality(Pieces(f, S))
<1> DEFINE Fine(s) == IsFiniteSet(Pieces(f, s)) /\ SumFunctionOnSet(f, s) = Cardinality(Pieces(f, s))
           G == {s \in SUBSET S : Fine(s)}
<1>1. {} \in G
  <2>1. Pieces(f, {}) = {}
    BY DEF Pieces
  <2>2. SumFunctionOnSet(f, {}) = 0
    BY SumUnfolds, FS_EmptySet
  <2> QED BY <2>1, <2>2, FS_EmptySet
<1>2. ASSUME NEW s \in SUBSET S, s # {}, Others(s) \in G PROVE s \in G
  <2> DEFINE x == First(s)
             new == {x} \X (1 .. f[x])
  <2>1. x \in S /\ IsFiniteSet(s) /\ s = Others(s) \cup {x} /\ x \notin Others(s)
    BY <1>2, FirstOfSet, FS_Subset DEF Others
  <2>2. f[x] \in Nat
    BY <2>1
  <2>3. SumFunctionOnSet(f, s) = f[x] + SumFunctionOnSet(f, Others(s))
    BY <1>2, <2>1, SumUnfolds
  <2>4. IsFiniteSet(Pieces(f, Others(s)))
        /\ SumFunctionOnSet(f, Others(s)) = Cardinality(Pieces(f, Others(s)))
    BY <1>2
  <2>5. IsFiniteSet(new) /\ Cardinality(new) = f[x]
    <3>1. 1 \in Int /\ f[x] \in Int
      BY <2>2
    <3>2. IsFiniteSet(1 .. f[x]) /\ Cardinality(1 .. f[x]) = IF 1 > f[x] THEN 0 ELSE f[x] - 1 + 1
      BY <3>1, FS_Interval, Zenon
    <3>3. IsFiniteSet({x}) /\ Cardinality({x}) = 1
      BY FS_Singleton, Zenon
    <3>4. IsFiniteSet(new) /\ Cardinality(new) = Cardinality({x}) * Cardinality(1 .. f[x])
      BY <3>2, <3>3, FS_Product, Zenon
    <3> HIDE DEF x, new
    <3> QED BY <2>2, <3>2, <3>3, <3>4
  <2>6. Pieces(f, s) = Pieces(f, Others(s)) \cup new
    <3> HIDE DEF x
    <3> QED BY <2>1 DEF Pieces
  <2>7. Pieces(f, Others(s)) \cap new = {}
    <3> HIDE DEF x
    <3> QED BY <2>1 DEF Pieces
  <2> HIDE DEF x, new
  <2>9. Cardinality(Pieces(f, Others(s))) \in Nat
    BY <2>4, FS_CardinalityType
  <2>8. IsFiniteSet(Pieces(f, s))
        /\ Cardinality(Pieces(f, s)) = Cardinality(Pieces(f, Others(s))) + Cardinality(new)
    BY <2>2, <2>4, <2>5, <2>6, <2>7, <2>9, SizeOfUnion
  <2> QED BY <2>2, <2>3, <2>4, <2>5, <2>8, <2>9
<1>3. G \in SUBSET SUBSET S
  OBVIOUS
<1> HIDE DEF G
<1>4. \A s \in SUBSET S : s \in G
  BY <1>1, <1>2, <1>3, SubsetInduction
<1> QED BY <1>4 DEF G

\* Values that agree, and values of zero, make no difference.
LEMMA SumsAgree ==
  ASSUME NEW f, NEW h, NEW S, NEW T, IsFiniteSet(S), T \subseteq S,
         \A x \in S : f[x] \in Nat, \A x \in T : h[x] = f[x], \A x \in S \ T : f[x] = 0
  PROVE  SumFunctionOnSet(h, T) = SumFunctionOnSet(f, S)
<1>1. Pieces(h, T) = Pieces(f, S)
  BY DEF Pieces
<1>2. IsFiniteSet(T) /\ \A x \in T : h[x] \in Nat
  BY FS_Subset
<1> QED BY <1>1, <1>2, SumOfPieces

\* A sum of ones counts.
LEMMA SumOfOnes ==
  ASSUME NEW f, NEW S, IsFiniteSet(S), \A x \in S : f[x] = 1
  PROVE  SumFunctionOnSet(f, S) = Cardinality(S)
<1> DEFINE p == [x \in S |-> <<x, 1>>]
<1>1. p \in Bijection(S, Pieces(f, S))
  <2>1. \A y \in Pieces(f, S) : \E x \in S : y = <<x, 1>>
    BY DEF Pieces
  <2>2. \A x \in S : <<x, 1>> \in Pieces(f, S)
    BY DEF Pieces
  <2> QED BY <2>1, <2>2 DEF Bijection, Injection, Surjection, IsInjective
<1>2. Cardinality(Pieces(f, S)) = Cardinality(S)
  BY <1>1, FS_Bijection DEF ExistsBijection
<1> QED BY <1>2, SumOfPieces

\* Sums add up.
LEMMA SumAdds ==
  ASSUME NEW f, NEW h, NEW k, NEW S, IsFiniteSet(S),
         \A x \in S : f[x] \in Nat /\ h[x] \in Nat /\ k[x] = f[x] + h[x]
  PROVE  SumFunctionOnSet(k, S) = SumFunctionOnSet(f, S) + SumFunctionOnSet(h, S)
<1> DEFINE G == {s \in SUBSET S : SumFunctionOnSet(k, s)
                                    = SumFunctionOnSet(f, s) + SumFunctionOnSet(h, s)}
<1>1. {} \in G
  <2>1. SumFunctionOnSet(f, {}) = 0 /\ SumFunctionOnSet(h, {}) = 0 /\ SumFunctionOnSet(k, {}) = 0
    BY SumUnfolds, FS_EmptySet
  <2> QED BY <2>1
<1>2. ASSUME NEW s \in SUBSET S, s # {}, Others(s) \in G PROVE s \in G
  <2>1. First(s) \in S /\ IsFiniteSet(s) /\ Others(s) \in SUBSET S
    BY <1>2, FirstOfSet, FS_Subset
  <2>2. /\ SumFunctionOnSet(f, s) = f[First(s)] + SumFunctionOnSet(f, Others(s))
        /\ SumFunctionOnSet(h, s) = h[First(s)] + SumFunctionOnSet(h, Others(s))
        /\ SumFunctionOnSet(k, s) = k[First(s)] + SumFunctionOnSet(k, Others(s))
    BY <1>2, <2>1, SumUnfolds
  <2>3. /\ SumFunctionOnSet(f, Others(s)) \in Nat /\ SumFunctionOnSet(h, Others(s)) \in Nat
        /\ f[First(s)] \in Nat /\ h[First(s)] \in Nat /\ k[First(s)] = f[First(s)] + h[First(s)]
    BY <2>1, SumOfNaturals, FS_Subset
  <2> QED BY <1>2, <2>2, <2>3
<1>3. G \in SUBSET SUBSET S
  OBVIOUS
<1> HIDE DEF G
<1>4. \A s \in SUBSET S : s \in G
  BY <1>1, <1>2, <1>3, SubsetInduction
<1> QED BY <1>4 DEF G

\* The part of a set that a key names.
Part(S, key, k) == {x \in S : key[x] = k}

\* The sums over the parts add up to the sum over the whole.
LEMMA SumByParts ==
  ASSUME NEW S, IsFiniteSet(S), NEW K, IsFiniteSet(K), NEW key, \A x \in S : key[x] \in K,
         NEW f, \A x \in S : f[x] \in Nat
  PROVE  SumFunctionOnSet([k \in K |-> SumFunctionOnSet(f, Part(S, key, k))], K)
           = SumFunctionOnSet(f, S)
<1> DEFINE sums(s) == [k \in K |-> SumFunctionOnSet(f, Part(s, key, k))]
           G == {s \in SUBSET S : SumFunctionOnSet(sums(s), K) = SumFunctionOnSet(f, s)}
<1>0. ASSUME NEW s \in SUBSET S, NEW k \in K
      PROVE  IsFiniteSet(Part(s, key, k)) /\ SumFunctionOnSet(f, Part(s, key, k)) \in Nat
  <2>1. Part(s, key, k) \in SUBSET S
    BY DEF Part
  <2>2. IsFiniteSet(Part(s, key, k)) /\ \A x \in Part(s, key, k) : f[x] \in Nat
    BY <2>1, FS_Subset
  <2> QED BY <2>2, SumOfNaturals
<1>1. {} \in G
  <2>1. \A k \in K : sums({})[k] = 0
    <3>1. \A k \in K : Part({}, key, k) = {}
      BY DEF Part
    <3> QED BY <3>1, SumUnfolds, FS_EmptySet
  <2>2. SumFunctionOnSet(sums({}), K) = 0
    <3> HIDE DEF sums
    <3>1. \A k \in K : sums({})[k] \in Nat
      BY <2>1
    <3> QED BY <2>1, <3>1, SumOfNaturals
  <2> QED BY <2>2, SumUnfolds, FS_EmptySet
<1>2. ASSUME NEW s \in SUBSET S, s # {}, Others(s) \in G PROVE s \in G
  <2> DEFINE x == First(s)
  <2>1. x \in S /\ IsFiniteSet(s) /\ s = Others(s) \cup {x} /\ x \notin Others(s)
        /\ Others(s) \in SUBSET S
    BY <1>2, FirstOfSet, FS_Subset DEF Others
  <2>2. f[x] \in Nat /\ key[x] \in K
    BY <2>1
  <2>3. SumFunctionOnSet(f, s) = f[x] + SumFunctionOnSet(f, Others(s))
        /\ SumFunctionOnSet(f, Others(s)) \in Nat
    BY <1>2, <2>1, SumUnfolds, SumOfNaturals, FS_Subset
  <2>4. ASSUME NEW k \in K
        PROVE  /\ sums(Others(s))[k] \in Nat
               /\ sums(s)[k] = IF k = key[x] THEN sums(Others(s))[k] + f[x] ELSE sums(Others(s))[k]
    <3>1. CASE k # key[x]
      <4>1. Part(s, key, k) = Part(Others(s), key, k)
        BY <2>1, <3>1 DEF Part
      <4> QED BY <1>0, <2>1, <3>1, <4>1
    <3>2. CASE k = key[x]
      <4> DEFINE p == Part(s, key, k)
                 o == Part(Others(s), key, k)
                 h == [y \in p |-> IF y = x THEN 0 ELSE f[y]]
      <4>1. p = o \cup {x} /\ x \notin o /\ x \in p
        BY <2>1, <3>2 DEF Part
      <4>2. IsFiniteSet(p) /\ IsFiniteSet(o) /\ p \subseteq S
        BY <1>0, <2>1 DEF Part
      <4>3. \A y \in p : h[y] \in Nat /\ f[y] = IF y = x THEN h[y] + f[x] ELSE h[y]
        BY <2>2, <4>2
      <4>4. \A y \in o : f[y] = h[y]
        BY <4>1
      <4>5. \A y \in p \ o : h[y] = 0
        BY <4>1
      <4> HIDE DEF p, o, h, x
      <4>6. SumFunctionOnSet(f, o) = SumFunctionOnSet(h, p)
        BY <4>1, <4>2, <4>3, <4>4, <4>5, SumsAgree
      <4>7. SumFunctionOnSet(f, p) = SumFunctionOnSet(h, p) + IF x \in p THEN f[x] ELSE 0
        <5> DEFINE d == f[x]
        <5>1. /\ d \in Nat /\ IsFiniteSet(p) /\ \A y \in p : h[y] \in Nat
              /\ \A y \in p : f[y] = IF y = x THEN h[y] + d ELSE h[y]
          BY <2>2, <4>2, <4>3
        <5> HIDE DEF d
        <5>2. SumFunctionOnSet(f, p) = SumFunctionOnSet(h, p) + IF x \in p THEN d ELSE 0
          BY <5>1, SumGrows
        <5> QED BY <5>2 DEF d
      <4>8. SumFunctionOnSet(f, o) \in Nat
        BY <1>0, <2>1 DEF o
      <4> QED BY <3>2, <4>1, <4>6, <4>7, <4>8 DEF p, o
    <3> QED BY <3>1, <3>2
  <2> HIDE DEF sums, x
  <2>5. SumFunctionOnSet(sums(s), K) = SumFunctionOnSet(sums(Others(s)), K) + f[x]
    <3> DEFINE d == f[x]
               at == key[x]
               old == sums(Others(s))
               new == sums(s)
    <3>1. /\ d \in Nat /\ at \in K /\ \A k \in K : old[k] \in Nat
          /\ \A k \in K : new[k] = IF k = at THEN old[k] + d ELSE old[k]
      BY <2>2, <2>4
    <3> HIDE DEF d, at, old, new
    <3>2. SumFunctionOnSet(new, K) = SumFunctionOnSet(old, K) + IF at \in K THEN d ELSE 0
      BY <3>1, SumGrows
    <3>3. SumFunctionOnSet(new, K) = SumFunctionOnSet(old, K) + d
      BY <3>1, <3>2
    <3> QED BY <3>3 DEF d, old, new
  <2>6. SumFunctionOnSet(sums(Others(s)), K) = SumFunctionOnSet(f, Others(s))
    BY <1>2
  <2> QED BY <2>2, <2>3, <2>5, <2>6
<1>3. G \in SUBSET SUBSET S
  OBVIOUS
<1>5. S \in SUBSET S
  OBVIOUS
<1> HIDE DEF G
<1>4. \A s \in SUBSET S : s \in G
  BY <1>1, <1>2, <1>3, SubsetInduction
<1> QED BY <1>4, <1>5 DEF G

\* Larger values give a larger sum.
LEMMA SumIsMonotone ==
  ASSUME NEW f, NEW h, NEW S, IsFiniteSet(S),
         \A x \in S : f[x] \in Nat /\ h[x] \in Nat /\ f[x] =< h[x]
  PROVE  /\ SumFunctionOnSet(f, S) \in Nat /\ SumFunctionOnSet(h, S) \in Nat
         /\ SumFunctionOnSet(f, S) =< SumFunctionOnSet(h, S)
<1> DEFINE d == [x \in S |-> h[x] - f[x]]
<1>1. \A x \in S : f[x] \in Nat /\ d[x] \in Nat /\ h[x] = f[x] + d[x]
  OBVIOUS
<1> HIDE DEF d
<1>2. SumFunctionOnSet(h, S) = SumFunctionOnSet(f, S) + SumFunctionOnSet(d, S)
  BY <1>1, SumAdds
<1>3. /\ SumFunctionOnSet(f, S) \in Nat /\ SumFunctionOnSet(h, S) \in Nat
      /\ SumFunctionOnSet(d, S) \in Nat
  BY <1>1, SumOfNaturals
<1> QED BY <1>2, <1>3

\* On S, k is c times f.
IsScaled(k, c, f, S) == \A x \in S : f[x] \in Nat /\ k[x] = c * f[x]

\* A factor comes out of a sum.
LEMMA SumScales ==
  ASSUME NEW f, NEW k, NEW S, IsFiniteSet(S), NEW c \in Nat, IsScaled(k, c, f, S)
  PROVE  SumFunctionOnSet(k, S) = c * SumFunctionOnSet(f, S)
<1>0. \A x \in S : f[x] \in Nat /\ k[x] = c * f[x]
  BY DEF IsScaled
<1> DEFINE G == {s \in SUBSET S : SumFunctionOnSet(k, s) = c * SumFunctionOnSet(f, s)}
<1>1. {} \in G
  <2>1. SumFunctionOnSet(f, {}) = 0 /\ SumFunctionOnSet(k, {}) = 0
    BY SumUnfolds, FS_EmptySet
  <2> QED BY <2>1
<1>2. ASSUME NEW s \in SUBSET S, s # {}, Others(s) \in G PROVE s \in G
  <2>1. First(s) \in S /\ IsFiniteSet(s) /\ Others(s) \in SUBSET S
    BY <1>2, FirstOfSet, FS_Subset
  <2>2. /\ SumFunctionOnSet(f, s) = f[First(s)] + SumFunctionOnSet(f, Others(s))
        /\ SumFunctionOnSet(k, s) = k[First(s)] + SumFunctionOnSet(k, Others(s))
    BY <1>2, <2>1, SumUnfolds
  <2>3. /\ SumFunctionOnSet(f, Others(s)) \in Nat
        /\ f[First(s)] \in Nat /\ k[First(s)] = c * f[First(s)]
    BY <1>0, <2>1, SumOfNaturals, FS_Subset
  <2>4. SumFunctionOnSet(k, Others(s)) = c * SumFunctionOnSet(f, Others(s))
    BY <1>2
  <2>5. ASSUME NEW a \in Nat, NEW b \in Nat PROVE c * (a + b) = c * a + c * b
    OBVIOUS
  <2>6. SumFunctionOnSet(k, s) = c * SumFunctionOnSet(f, s)
    BY <2>2, <2>3, <2>4, <2>5
  <2> QED BY <2>6
<1>3. G \in SUBSET SUBSET S
  OBVIOUS
<1> HIDE DEF G
<1>4. \A s \in SUBSET S : s \in G
  BY <1>1, <1>2, <1>3, SubsetInduction
<1> QED BY <1>4 DEF G

\* The sizes of the parts add up to the size of the whole.
LEMMA SizesByParts ==
  ASSUME NEW S, IsFiniteSet(S), NEW K, IsFiniteSet(K), NEW key, \A x \in S : key[x] \in K,
         NEW c, \A k \in K : c[k] = Cardinality(Part(S, key, k))
  PROVE  SumFunctionOnSet(c, K) = Cardinality(S)
<1> DEFINE ones == [x \in S |-> 1]
           sums == [k \in K |-> SumFunctionOnSet(ones, Part(S, key, k))]
<1>1. \A x \in S : ones[x] = 1 /\ ones[x] \in Nat
  OBVIOUS
<1> HIDE DEF ones
<1>2. SumFunctionOnSet(sums, K) = SumFunctionOnSet(ones, S)
  BY <1>1, SumByParts
<1>3. \A k \in K : c[k] = sums[k] /\ sums[k] \in Nat
  <2> SUFFICES ASSUME NEW k \in K PROVE c[k] = sums[k] /\ sums[k] \in Nat
    OBVIOUS
  <2>1. IsFiniteSet(Part(S, key, k)) /\ \A x \in Part(S, key, k) : ones[x] = 1
    BY <1>1, FS_Subset DEF Part
  <2>2. SumFunctionOnSet(ones, Part(S, key, k)) = Cardinality(Part(S, key, k))
        /\ Cardinality(Part(S, key, k)) \in Nat
    BY <2>1, SumOfOnes, FS_CardinalityType
  <2> QED BY <2>2
<1> HIDE DEF sums
<1>4. SumFunctionOnSet(c, K) = SumFunctionOnSet(sums, K)
  BY <1>3, SumsAgree
<1>5. SumFunctionOnSet(ones, S) = Cardinality(S)
  BY <1>1, SumOfOnes
<1> QED BY <1>2, <1>4, <1>5
=============================================================================
