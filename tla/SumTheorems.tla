---------------------------- MODULE SumTheorems ----------------------------
(***************************************************************************)
(* What a sum over a finite set is, whatever order the fold of             *)
(* SumFunctionOnSet takes the elements in: the supply, the votes and the   *)
(* counts of slots are such sums.                                          *)
(* And what any other fold over a finite set is.                           *)
(***************************************************************************)
EXTENDS Integers, FiniteSets, Functions, FiniteSetTheorems, WellFoundedInduction, TLAPS

(* Induction over the subsets of a finite set, for the set G of those with *)
(* a property.                                                             *)
LEMMA SubsetInduction ==
    ASSUME NEW S, IsFiniteSet(S), NEW G,
           \A t \in SUBSET S : (\A u \in SUBSET t : u # t => u \in G) => t \in G
    PROVE  S \in G
<1> DEFINE F == (SUBSET S) \ G
<1>1. IsWellFoundedOn(StrictSubsetOrdering(S), FiniteSubsetsOf(S))
  BY FS_StrictSubsetOrderingWellFounded
<1>2. F \subseteq FiniteSubsetsOf(S)
  BY FS_FiniteSubsetsOfFinite
<1>3. F # {} => \E t \in F : \A u \in F : ~(<<u, t>> \in StrictSubsetOrdering(S))
  <2> HIDE DEF F
  <2> QED
    BY <1>1, <1>2, WFMin
<1>4. ASSUME NEW t \in F, \A u \in F : ~(<<u, t>> \in StrictSubsetOrdering(S))
      PROVE  FALSE
  <2>1. \A u \in SUBSET t : u # t => u \in G
    BY <1>4 DEF StrictSubsetOrdering
  <2> QED
    BY <2>1
<1> QED
  BY <1>3, <1>4

(* A finite set of integers has a greatest element, unless it is empty.    *)
LEMMA GreatestElement ==
    ASSUME NEW S \in SUBSET Int, IsFiniteSet(S), S # {}
    PROVE  \E m \in S : \A k \in S : k <= m
<1> DEFINE G == {s \in SUBSET S : s # {} => \E m \in s : \A k \in s : k <= m}
<1>1. ASSUME NEW t \in SUBSET S, \A u \in SUBSET t : u # t => u \in G
      PROVE  t \in G
  <2>1. ASSUME t # {} PROVE \E m \in t : \A k \in t : k <= m
    <3>1. PICK x \in t : TRUE
      BY <2>1
    <3>2. t \ {x} \in G
      BY <1>1, <3>1
    <3>3. CASE t \ {x} = {}
      BY <3>1, <3>3
    <3>4. CASE t \ {x} # {}
      <4>1. PICK m \in t \ {x} : \A k \in t \ {x} : k <= m
        BY <3>2, <3>4
      <4>2. m \in Int /\ x \in Int /\ \A k \in t : k \in Int
        OBVIOUS
      <4>3. CASE x <= m
        BY <4>1, <4>2, <4>3
      <4>4. CASE m <= x
        <5>1. \A k \in t : k <= x
          BY <4>1, <4>2, <4>4
        <5> QED
          BY <5>1
      <4> QED
        BY <4>2, <4>3, <4>4
    <3> QED
      BY <3>3, <3>4
  <2> QED
    BY <2>1
<1>2. S \in G
  <2> HIDE DEF G
  <2> QED
    BY <1>1, SubsetInduction
<1> QED
  BY <1>2

-----------------------------------------------------------------------------
some(s) == CHOOSE x \in s : TRUE

(* g is the function that the fold of a sum of f builds on the subsets.    *)
Folds(g, f, S) ==
  g = [s \in SUBSET S |-> IF s = {} THEN 0 ELSE f[some(s)] + g[s \ {some(s)}]]

fold(f, S) == CHOOSE g : Folds(g, f, S)

(* A sum is a value of this function.                                      *)
LEMMA SumIsFold ==
    ASSUME NEW f, NEW S
    PROVE  SumFunctionOnSet(f, S) = fold(f, S)[S]
BY DEF SumFunctionOnSet, FoldFunctionOnSet, MapThenFoldSet, Folds, fold, some

(* There is at most one such function ...                                  *)
LEMMA FoldUnique ==
    ASSUME NEW f, NEW S, IsFiniteSet(S), NEW g, NEW h, Folds(g, f, S), Folds(h, f, S)
    PROVE  g = h
<1> DEFINE G(T) == {s \in SUBSET T : \A u \in SUBSET s : g[u] = h[u]}
<1>1. ASSUME NEW t \in SUBSET S, \A u \in SUBSET t : u # t => u \in G(S)
      PROVE  t \in G(S)
  <2>1. ASSUME NEW u \in SUBSET t, u # t PROVE g[u] = h[u]
    BY <1>1, <2>1
  <2>2. CASE t = {}
    BY <2>1, <2>2 DEF Folds
  <2>3. CASE t # {}
    <3>1. some(t) \in t
      BY <2>3 DEF some
    <3>2. g[t \ {some(t)}] = h[t \ {some(t)}]
      BY <2>1, <3>1
    <3>3. g[t] = f[some(t)] + g[t \ {some(t)}] /\ h[t] = f[some(t)] + h[t \ {some(t)}]
      BY <2>3 DEF Folds
    <3> QED
      BY <2>1, <3>2, <3>3
  <2> QED
    BY <2>2, <2>3
<1>2. S \in G(S)
  <2> HIDE DEF G
  <2> QED
    BY <1>1, SubsetInduction
<1> QED
  BY <1>2 DEF Folds

(* ... its restriction to the subsets of a subset is such a function ...   *)
LEMMA FoldRestricted ==
    ASSUME NEW f, NEW S, NEW T \in SUBSET S, NEW g, Folds(g, f, S)
    PROVE  Folds([s \in SUBSET T |-> g[s]], f, T)
<1>1. ASSUME NEW s \in SUBSET T, s # {} PROVE s \ {some(s)} \in SUBSET T
  OBVIOUS
<1> QED
  BY <1>1 DEF Folds

(* ... so on a subset the functions of a set and of the subset agree ...   *)
LEMMA FoldOnSubset ==
    ASSUME NEW f, NEW S, IsFiniteSet(S), NEW T \in SUBSET S,
           Folds(fold(f, S), f, S), Folds(fold(f, T), f, T)
    PROVE  fold(f, S)[T] = fold(f, T)[T]
<1>1. Folds([u \in SUBSET T |-> fold(f, S)[u]], f, T)
  BY FoldRestricted
<1>2. [u \in SUBSET T |-> fold(f, S)[u]] = fold(f, T)
  BY <1>1, FoldUnique, FS_Subset
<1> QED
  BY <1>2

(* ... and there is one for every finite set.                              *)
LEMMA FoldExists ==
    ASSUME NEW f, NEW S, IsFiniteSet(S)
    PROVE  Folds(fold(f, S), f, S)
<1> DEFINE G == {s \in SUBSET S : Folds(fold(f, s), f, s)}
<1>1. ASSUME NEW t \in SUBSET S, \A u \in SUBSET t : u # t => u \in G
      PROVE  t \in G
  <2> DEFINE rest(s) == s \ {some(s)}
             g == [s \in SUBSET t |-> IF s = {} THEN 0
                                      ELSE f[some(s)] + fold(f, rest(s))[rest(s)]]
  <2>1. ASSUME NEW s \in SUBSET t, s # t PROVE Folds(fold(f, s), f, s)
    BY <1>1, <2>1
  <2>2. ASSUME NEW s \in SUBSET t, s # {}
        PROVE  rest(s) \in SUBSET s /\ rest(s) \in SUBSET t /\ rest(s) # t
    BY <2>2 DEF some
  <2>3. ASSUME NEW s \in SUBSET t, s # t PROVE fold(f, s)[s] = g[s]
    <3>1. CASE s = {}
      BY <2>1, <2>3, <3>1 DEF Folds
    <3>2. CASE s # {}
      <4>1. Folds(fold(f, s), f, s) /\ Folds(fold(f, rest(s)), f, rest(s))
        BY <2>1, <2>2, <2>3, <3>2
      <4>2. fold(f, s)[rest(s)] = fold(f, rest(s))[rest(s)]
        <5>1. IsFiniteSet(s) /\ rest(s) \in SUBSET s
          BY <2>2, <3>2, FS_Subset
        <5> HIDE DEF rest
        <5> QED
          BY <4>1, <5>1, FoldOnSubset
      <4>3. fold(f, s)[s] = f[some(s)] + fold(f, s)[rest(s)]
        BY <3>2, <4>1 DEF Folds
      <4> QED
        BY <3>2, <4>2, <4>3
    <3> QED
      BY <3>1, <3>2
  <2>4. Folds(g, f, t)
    BY <2>2, <2>3 DEF Folds
  <2> QED
    BY <2>4 DEF fold
<1>2. S \in G
  <2> HIDE DEF G
  <2> QED
    BY <1>1, SubsetInduction
<1> QED
  BY <1>2

-----------------------------------------------------------------------------
(* The sum over no element.                                                *)
LEMMA SumEmpty ==
    ASSUME NEW f
    PROVE  SumFunctionOnSet(f, {}) = 0
<1>1. Folds(fold(f, {}), f, {})
  BY FoldExists, FS_EmptySet
<1> QED
  BY <1>1, SumIsFold DEF Folds

(* The sum without the element that the fold takes first.                  *)
LEMMA SumChosen ==
    ASSUME NEW f, NEW S, IsFiniteSet(S), S # {}
    PROVE  /\ some(S) \in S
           /\ SumFunctionOnSet(f, S) = f[some(S)] + SumFunctionOnSet(f, S \ {some(S)})
<1> DEFINE r == S \ {some(S)}
<1>1. some(S) \in S /\ r \in SUBSET S
  BY DEF some
<1>2. Folds(fold(f, S), f, S) /\ Folds(fold(f, r), f, r)
  BY FoldExists, FS_Subset
<1>3. fold(f, S)[S] = f[some(S)] + fold(f, S)[r]
  BY <1>2 DEF Folds
<1>4. fold(f, S)[r] = fold(f, r)[r]
  <2> HIDE DEF r
  <2> QED
    BY <1>1, <1>2, FoldOnSubset
<1> QED
  BY <1>1, <1>3, <1>4, SumIsFold

(* A sum of integers is an integer.                                        *)
LEMMA SumType ==
    ASSUME NEW f, NEW S, IsFiniteSet(S), \A x \in S : f[x] \in Int
    PROVE  SumFunctionOnSet(f, S) \in Int
<1> DEFINE G == {s \in SUBSET S : SumFunctionOnSet(f, s) \in Int}
<1>1. ASSUME NEW t \in SUBSET S, \A u \in SUBSET t : u # t => u \in G
      PROVE  t \in G
  <2>1. CASE t = {}
    BY <2>1, SumEmpty
  <2>2. CASE t # {}
    <3>1. /\ some(t) \in t
          /\ SumFunctionOnSet(f, t) = f[some(t)] + SumFunctionOnSet(f, t \ {some(t)})
      BY <2>2, SumChosen, FS_Subset
    <3>2. SumFunctionOnSet(f, t \ {some(t)}) \in Int
      BY <1>1, <3>1
    <3> QED
      BY <3>1, <3>2
  <2> QED
    BY <2>1, <2>2
<1>2. S \in G
  <2> HIDE DEF G
  <2> QED
    BY <1>1, SubsetInduction
<1> QED
  BY <1>2

(* Any element may be taken out of a sum first.                            *)
LEMMA SumRemove ==
    ASSUME NEW f, NEW S, IsFiniteSet(S), \A x \in S : f[x] \in Int, NEW a \in S
    PROVE  SumFunctionOnSet(f, S) = f[a] + SumFunctionOnSet(f, S \ {a})
<1> DEFINE sum(s) == SumFunctionOnSet(f, s)
           Any(s) == \A e \in s : sum(s) = f[e] + sum(s \ {e})
           G == {s \in SUBSET S : Any(s)}
<1>1. ASSUME NEW t \in SUBSET S, \A u \in SUBSET t : u # t => u \in G
      PROVE  t \in G
  <2> DEFINE c == some(t)
  <2>1. ASSUME NEW e \in t PROVE sum(t) = f[e] + sum(t \ {e})
    <3>1. c \in t /\ sum(t) = f[c] + sum(t \ {c})
      BY SumChosen, FS_Subset
    <3>2. CASE c = e
      BY <3>1, <3>2
    <3>3. CASE c # e
      <4> DEFINE r == sum((t \ {e}) \ {c})
      <4>1. Any(t \ {c}) /\ Any(t \ {e})
        BY <1>1, <3>1
      <4>2. sum(t \ {c}) = f[e] + sum((t \ {c}) \ {e})
        BY <3>3, <4>1
      <4>3. sum(t \ {e}) = f[c] + r
        BY <3>1, <3>3, <4>1
      <4>4. (t \ {c}) \ {e} = (t \ {e}) \ {c}
        OBVIOUS
      <4>5. sum(t) = f[c] + (f[e] + r)
        BY <3>1, <4>2, <4>4
      <4>6. r \in Int /\ f[c] \in Int /\ f[e] \in Int
        BY <3>1, SumType, FS_Subset
      <4> HIDE DEF r, c, sum, Any, G
      <4>7. f[c] + (f[e] + r) = f[e] + (f[c] + r)
        BY <4>6
      <4> QED
        BY <4>3, <4>5, <4>7
    <3> QED
      BY <3>2, <3>3
  <2> QED
    BY <2>1
<1>2. S \in G
  <2> HIDE DEF G
  <2> QED
    BY <1>1, SubsetInduction
<1> QED
  BY <1>2

(* A sum depends only on the values at the elements of its set.            *)
LEMMA SumAgrees ==
    ASSUME NEW S, IsFiniteSet(S), NEW f, NEW g, \A x \in S : f[x] = g[x]
    PROVE  SumFunctionOnSet(f, S) = SumFunctionOnSet(g, S)
<1> DEFINE G == {s \in SUBSET S : SumFunctionOnSet(f, s) = SumFunctionOnSet(g, s)}
<1>1. ASSUME NEW t \in SUBSET S, \A u \in SUBSET t : u # t => u \in G
      PROVE  t \in G
  <2>1. CASE t = {}
    BY <2>1, SumEmpty
  <2>2. CASE t # {}
    <3>1. /\ some(t) \in t
          /\ SumFunctionOnSet(f, t) = f[some(t)] + SumFunctionOnSet(f, t \ {some(t)})
          /\ SumFunctionOnSet(g, t) = g[some(t)] + SumFunctionOnSet(g, t \ {some(t)})
      BY <2>2, SumChosen, FS_Subset
    <3>2. SumFunctionOnSet(f, t \ {some(t)}) = SumFunctionOnSet(g, t \ {some(t)})
      BY <1>1, <3>1
    <3> QED
      BY <3>1, <3>2
  <2> QED
    BY <2>1, <2>2
<1>2. S \in G
  <2> HIDE DEF G
  <2> QED
    BY <1>1, SubsetInduction
<1> QED
  BY <1>2

(* When one value changes, the sum changes by the same amount.             *)
LEMMA SumUpdate ==
    ASSUME NEW S, IsFiniteSet(S), NEW f, NEW g, NEW e \in S,
           \A x \in S : f[x] \in Int /\ g[x] \in Int,
           \A x \in S \ {e} : g[x] = f[x]
    PROVE  SumFunctionOnSet(g, S) = SumFunctionOnSet(f, S) + (g[e] - f[e])
<1>1. /\ SumFunctionOnSet(f, S) = f[e] + SumFunctionOnSet(f, S \ {e})
      /\ SumFunctionOnSet(g, S) = g[e] + SumFunctionOnSet(g, S \ {e})
  BY SumRemove
<1>2. /\ SumFunctionOnSet(f, S \ {e}) = SumFunctionOnSet(g, S \ {e})
      /\ SumFunctionOnSet(f, S \ {e}) \in Int
  BY SumAgrees, SumType, FS_Subset
<1> QED
  BY <1>1, <1>2

(* The same for the sum over the whole domain of a function.               *)
LEMMA SumFunctionUpdate ==
    ASSUME NEW S, IsFiniteSet(S), NEW f \in [S -> Int], NEW g \in [S -> Int], NEW e \in S,
           \A x \in S \ {e} : g[x] = f[x]
    PROVE  SumFunction(g) = SumFunction(f) + (g[e] - f[e])
BY SumUpdate DEF SumFunction

(* A sum of zeros.                                                         *)
LEMMA SumZero ==
    ASSUME NEW f, NEW S, IsFiniteSet(S), \A x \in S : f[x] = 0
    PROVE  SumFunctionOnSet(f, S) = 0
<1> DEFINE G == {s \in SUBSET S : SumFunctionOnSet(f, s) = 0}
<1>1. ASSUME NEW t \in SUBSET S, \A u \in SUBSET t : u # t => u \in G
      PROVE  t \in G
  <2>1. CASE t = {}
    BY <2>1, SumEmpty
  <2>2. CASE t # {}
    <3>1. /\ some(t) \in t
          /\ SumFunctionOnSet(f, t) = f[some(t)] + SumFunctionOnSet(f, t \ {some(t)})
      BY <2>2, SumChosen, FS_Subset
    <3>2. SumFunctionOnSet(f, t \ {some(t)}) = 0
      BY <1>1, <3>1
    <3> QED
      BY <3>1, <3>2
  <2> QED
    BY <2>1, <2>2
<1>2. S \in G
  <2> HIDE DEF G
  <2> QED
    BY <1>1, SubsetInduction
<1> QED
  BY <1>2

(* The sum of two functions.                                               *)
LEMMA SumAdd ==
    ASSUME NEW S, IsFiniteSet(S), NEW f, NEW g, NEW h,
           \A x \in S : f[x] \in Int /\ g[x] \in Int /\ h[x] = f[x] + g[x]
    PROVE  SumFunctionOnSet(h, S) = SumFunctionOnSet(f, S) + SumFunctionOnSet(g, S)
<1> DEFINE G == {s \in SUBSET S :
                   SumFunctionOnSet(h, s) = SumFunctionOnSet(f, s) + SumFunctionOnSet(g, s)}
<1>1. ASSUME NEW t \in SUBSET S, \A u \in SUBSET t : u # t => u \in G
      PROVE  t \in G
  <2>1. CASE t = {}
    BY <2>1, SumEmpty
  <2>2. CASE t # {}
    <3> DEFINE x == some(t)
               r == t \ {x}
    <3>1. /\ x \in t
          /\ SumFunctionOnSet(f, t) = f[x] + SumFunctionOnSet(f, r)
          /\ SumFunctionOnSet(g, t) = g[x] + SumFunctionOnSet(g, r)
          /\ SumFunctionOnSet(h, t) = h[x] + SumFunctionOnSet(h, r)
      BY <2>2, SumChosen, FS_Subset
    <3>2. SumFunctionOnSet(h, r) = SumFunctionOnSet(f, r) + SumFunctionOnSet(g, r)
      BY <1>1, <3>1
    <3>3. /\ SumFunctionOnSet(f, r) \in Int /\ SumFunctionOnSet(g, r) \in Int
          /\ f[x] \in Int /\ g[x] \in Int /\ h[x] = f[x] + g[x]
      BY <3>1, SumType, FS_Subset
    <3> HIDE DEF x, r
    <3>4. SumFunctionOnSet(h, t) = SumFunctionOnSet(f, t) + SumFunctionOnSet(g, t)
      BY <3>1, <3>2, <3>3
    <3> QED
      BY <3>4
  <2> QED
    BY <2>1, <2>2
<1>2. S \in G
  <2> HIDE DEF G
  <2> QED
    BY <1>1, SubsetInduction
<1> QED
  BY <1>2

(* A finite set is counted class by class, when c gives each of its        *)
(* elements a class.                                                       *)
LEMMA SumClasses ==
    ASSUME NEW M, IsFiniteSet(M), NEW D, IsFiniteSet(D), NEW c, \A m \in M : c[m] \in D
    PROVE  SumFunctionOnSet([d \in D |-> Cardinality({m \in M : c[m] = d})], D) = Cardinality(M)
<1> DEFINE n == [d \in D |-> Cardinality({m \in M : c[m] = d})]
           among(T) == {m \in M : c[m] \in T}
           G == {T \in SUBSET D : SumFunctionOnSet(n, T) = Cardinality(among(T))}
<1>1. ASSUME NEW t \in SUBSET D, \A u \in SUBSET t : u # t => u \in G
      PROVE  t \in G
  <2>1. CASE t = {}
    BY <2>1, SumEmpty, FS_EmptySet
  <2>2. CASE t # {}
    <3> DEFINE x == some(t)
               A == {m \in M : c[m] = x}
               B == among(t \ {x})
    <3>1. x \in t /\ SumFunctionOnSet(n, t) = n[x] + SumFunctionOnSet(n, t \ {x})
      BY <2>2, SumChosen, FS_Subset
    <3>2. SumFunctionOnSet(n, t \ {x}) = Cardinality(B)
      BY <1>1, <3>1
    <3>3. n[x] = Cardinality(A)
      BY <3>1
    <3>4. among(t) = A \cup B /\ A \cap B = {}
      BY <3>1
    <3>5. IsFiniteSet(A) /\ IsFiniteSet(B)
      BY FS_Subset
    <3>6. Cardinality(A) \in Nat /\ Cardinality(B) \in Nat /\ Cardinality({}) = 0
      BY <3>5, FS_CardinalityType, FS_EmptySet
    <3> HIDE DEF A, B, x, n
    <3>7. Cardinality(A \cup B) = Cardinality(A) + Cardinality(B)
      <4>1. Cardinality(A \cup B) = Cardinality(A) + Cardinality(B) - Cardinality(A \cap B)
        BY <3>5, FS_Union
      <4>2. Cardinality(A \cap B) = 0
        BY <3>4, <3>6, Zenon
      <4> QED
        BY <3>6, <4>1, <4>2
    <3> QED
      BY <3>1, <3>2, <3>3, <3>4, <3>7
  <2> QED
    BY <2>1, <2>2
<1>2. D \in G
  <2> HIDE DEF G
  <2> QED
    BY <1>1, SubsetInduction
<1>3. among(D) = M
  OBVIOUS
<1> QED
  BY <1>2, <1>3
-----------------------------------------------------------------------------
(* A fold that steps through a finite set, in the order in which ch takes  *)
(* the last element off: g has the result for every subset.                *)
IsFold(g, S, ch, step, b) ==
  g = [s \in SUBSET S |-> IF s = {} THEN b ELSE step[ch[s]][g[s \ {ch[s]}]]]

Takes(ch, S) == \A s \in SUBSET S : s # {} => ch[s] \in s

(* The folds over a set and over a subset agree on the subset.             *)
LEMMA FoldRestrictable ==
    ASSUME NEW S, NEW T \in SUBSET S, IsFiniteSet(T), NEW ch, NEW step, NEW b, NEW g, NEW h,
           IsFold(g, S, ch, step, b), IsFold(h, T, ch, step, b), Takes(ch, T)
    PROVE  g[T] = h[T]
<1> DEFINE G == {s \in SUBSET T : g[s] = h[s]}
<1>1. ASSUME NEW t \in SUBSET T, \A u \in SUBSET t : u # t => u \in G
      PROVE  t \in G
  <2>0. t \in SUBSET S
    OBVIOUS
  <2>1. CASE t = {}
    BY <2>0, <2>1 DEF IsFold
  <2>2. CASE t # {}
    <3> DEFINE x == ch[t]
               r == t \ {x}
    <3>1. r \in SUBSET t /\ r # t
      BY <2>2 DEF Takes
    <3>2. g[r] = h[r]
      BY <1>1, <3>1
    <3>3. g[t] = step[x][g[r]] /\ h[t] = step[x][h[r]]
      BY <2>0, <2>2 DEF IsFold
    <3> QED
      BY <3>2, <3>3
  <2> QED
    BY <2>1, <2>2
<1>2. T \in G
  <2> HIDE DEF G
  <2> QED
    BY <1>1, SubsetInduction
<1> QED
  BY <1>2

(* A fold exists over every finite set, when each step stays in a set V.   *)
LEMMA FoldOver ==
    ASSUME NEW S, IsFiniteSet(S), NEW V, NEW b \in V, NEW step \in [S -> [V -> V]],
           NEW ch, Takes(ch, S)
    PROVE  \E g \in [SUBSET S -> V] : IsFold(g, S, ch, step, b)
<1> DEFINE Good(s) == \E g \in [SUBSET s -> V] : IsFold(g, s, ch, step, b)
           fo(s) == CHOOSE g \in [SUBSET s -> V] : IsFold(g, s, ch, step, b)
           rest(s) == s \ {ch[s]}
           G == {s \in SUBSET S : Good(s)}
<1>1. ASSUME NEW s, Good(s) PROVE fo(s) \in [SUBSET s -> V] /\ IsFold(fo(s), s, ch, step, b)
  BY <1>1
<1> HIDE DEF fo
<1>2. ASSUME NEW t \in SUBSET S, \A u \in SUBSET t : u # t => u \in G
      PROVE  t \in G
  <2> DEFINE g == [s \in SUBSET t |-> IF s = {} THEN b ELSE step[ch[s]][fo(rest(s))[rest(s)]]]
  <2>1. ASSUME NEW s \in SUBSET t, s # t
        PROVE  fo(s) \in [SUBSET s -> V] /\ IsFold(fo(s), s, ch, step, b)
    BY <1>1, <1>2, <2>1
  <2>2. ASSUME NEW s \in SUBSET t, s # {}
        PROVE  rest(s) \in SUBSET s /\ rest(s) \in SUBSET t /\ rest(s) # t /\ ch[s] \in s
    BY <2>2 DEF Takes
  <2>3. ASSUME NEW s \in SUBSET t, s # t PROVE fo(s)[s] = g[s]
    <3>1. CASE s = {}
      <4>1. fo(s)[s] = b
        BY <2>1, <2>3, <3>1 DEF IsFold
      <4> QED
        BY <3>1, <4>1
    <3>2. CASE s # {}
      <4>1. /\ fo(s) \in [SUBSET s -> V] /\ IsFold(fo(s), s, ch, step, b)
            /\ fo(rest(s)) \in [SUBSET rest(s) -> V] /\ IsFold(fo(rest(s)), rest(s), ch, step, b)
        BY <2>1, <2>2, <2>3, <3>2
      <4>2. fo(s)[rest(s)] = fo(rest(s))[rest(s)]
        <5>1. IsFiniteSet(rest(s)) /\ rest(s) \in SUBSET (s \cap rest(s)) /\ Takes(ch, rest(s))
          BY <2>2, <3>2, FS_Subset DEF Takes
        <5> DEFINE r == rest(s)
                   f == fo(s)
                   h == fo(r)
        <5>2. /\ IsFold(f, s, ch, step, b) /\ h \in [SUBSET r -> V] /\ IsFold(h, r, ch, step, b)
              /\ IsFiniteSet(r) /\ r \in SUBSET (s \cap r) /\ Takes(ch, r)
          BY <4>1, <5>1
        <5> HIDE DEF r, f, h
        <5>3. f[r] = h[r]
          BY <5>2, FoldRestrictable
        <5> QED
          BY <5>3 DEF f, h, r
      <4>3. fo(s)[s] = step[ch[s]][fo(s)[rest(s)]]
        BY <3>2, <4>1 DEF IsFold
      <4>4. g[s] = step[ch[s]][fo(rest(s))[rest(s)]]
        BY <3>2
      <4> QED
        BY <4>2, <4>3, <4>4
    <3> QED
      BY <3>1, <3>2
  <2>4. IsFold(g, t, ch, step, b)
    <3>1. ASSUME NEW s \in SUBSET t, s # {} PROVE g[s] = step[ch[s]][g[s \ {ch[s]}]]
      <4>1. g[s] = step[ch[s]][fo(rest(s))[rest(s)]]
        BY <3>1
      <4>2. rest(s) \in SUBSET t /\ rest(s) # t
        BY <2>2, <3>1
      <4>3. fo(rest(s))[rest(s)] = g[rest(s)]
        BY <2>3, <4>2
      <4> QED
        BY <4>1, <4>3
    <3>2. \A s \in SUBSET t : s = {} => g[s] = b
      OBVIOUS
    <3>3. g = [s \in SUBSET t |-> g[s]]
      OBVIOUS
    <3> HIDE DEF g
    <3> QED
      BY <3>1, <3>2, <3>3 DEF IsFold
  <2>5. ASSUME NEW s \in SUBSET t PROVE g[s] \in V
    <3>1. CASE s = {}
      BY <3>1
    <3>2. CASE s # {}
      <4>1. ch[s] \in S /\ rest(s) \in SUBSET t /\ rest(s) # t
        BY <2>2, <3>2
      <4>2. fo(rest(s))[rest(s)] \in V
        <5>1. fo(rest(s)) \in [SUBSET rest(s) -> V]
          BY <2>1, <4>1
        <5> HIDE DEF rest
        <5> QED
          BY <5>1
      <4> HIDE DEF rest
      <4> QED
        BY <3>2, <4>1, <4>2
    <3> QED
      BY <3>1, <3>2
  <2>6. g \in [SUBSET t -> V]
    BY <2>5
  <2> HIDE DEF g
  <2> QED
    BY <2>4, <2>6
<1>3. S \in G
  <2> HIDE DEF G
  <2> QED
    BY <1>2, SubsetInduction
<1> QED
  BY <1>3

=============================================================================
