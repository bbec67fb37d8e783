-------------------------------- MODULE Sums --------------------------------
(***************************************************************************)
(* Facts about SumFunctionOnSet of the community modules, for sums over    *)
(* any finite set.  Each is proved by looking at a smallest set for which  *)
(* it would fail (Smallest), since the fold that defines a sum recurses    *)
(* over sets.                                                              *)
(***************************************************************************)
EXTENDS Integers, Functions, FiniteSets, FiniteSetTheorems, TLAPS

\* Of any finite sets, one has none of the others strictly within it.
LEMMA Smallest ==
    ASSUME NEW S, IsFiniteSet(S), NEW B \in SUBSET SUBSET S, B # {}
    PROVE  \E M \in B : \A T \in B : T \subseteq M => T = M
<1>1. B \subseteq FiniteSubsetsOf(S)
  BY FS_Subset DEF FiniteSubsetsOf
<1>2. IsWellFoundedOn(StrictSubsetOrdering(S), FiniteSubsetsOf(S))
  BY FS_StrictSubsetOrderingWellFounded
<1>3. PICK M \in B : \A T \in B : ~(<<T, M>> \in StrictSubsetOrdering(S))
  BY <1>1, <1>2, WFMin
<1> QED BY <1>3 DEF StrictSubsetOrdering

-----------------------------------------------------------------------------
(* The fold. *)

Pick(s) == CHOOSE x \in s : TRUE

IsFold(g, f, S) ==
    g = [s \in SUBSET S |-> IF s = {} THEN 0 ELSE f[Pick(s)] + g[s \ {Pick(s)}]]

FoldOf(f, S) == CHOOSE g : IsFold(g, f, S)

\* A sum is the fold of its set.
LEMMA SumIsFold == ASSUME NEW f, NEW S PROVE SumFunctionOnSet(f, S) = FoldOf(f, S)[S]
BY Zenon DEF SumFunctionOnSet, FoldFunctionOnSet, MapThenFoldSet, FoldOf, IsFold, Pick

\* Pick takes a member.
LEMMA PickIn == ASSUME NEW s, s # {} PROVE Pick(s) \in s
BY DEF Pick

\* Two functions that satisfy the recursion of the fold agree wherever both are defined: else take
\* a smallest set on which they differ.
LEMMA FoldUnique ==
    ASSUME NEW f, NEW S, NEW T \in SUBSET S, IsFiniteSet(T),
           NEW g, NEW h, IsFold(g, f, S), IsFold(h, f, T)
    PROVE  \A s \in SUBSET T : g[s] = h[s]
<1> DEFINE B == {s \in SUBSET T : g[s] # h[s]}
<1>1. SUFFICES ASSUME B # {} PROVE FALSE
  OBVIOUS
<1>2. PICK M \in B : \A s \in B : s \subseteq M => s = M
  <2> B \in SUBSET SUBSET T
    OBVIOUS
  <2> HIDE DEF B
  <2> QED BY <1>1, Smallest
<1>3. M # {}
  BY <1>2 DEF IsFold
<1>4. Pick(M) \in M
  BY <1>3, PickIn
<1>5. g[M \ {Pick(M)}] = h[M \ {Pick(M)}]
  BY <1>2, <1>4
<1>6. g[M] = f[Pick(M)] + g[M \ {Pick(M)}] /\ h[M] = f[Pick(M)] + h[M \ {Pick(M)}]
  BY <1>2, <1>3 DEF IsFold
<1> QED BY <1>2, <1>5, <1>6

\* There is such a function on a finite set: else take a smallest set without one.
LEMMA FoldExists ==
    ASSUME NEW f, NEW S, IsFiniteSet(S)
    PROVE  IsFold(FoldOf(f, S), f, S)
<1> DEFINE Has(s) == IsFold(FoldOf(f, s), f, s)
           B == {s \in SUBSET S : ~Has(s)}
<1>1. SUFFICES ASSUME B # {} PROVE FALSE
  OBVIOUS
<1>2. PICK M \in B : \A s \in B : s \subseteq M => s = M
  <2> B \in SUBSET SUBSET S
    OBVIOUS
  <2> HIDE DEF B
  <2> QED BY <1>1, Smallest
<1>3. ASSUME NEW s \in SUBSET M, s # M PROVE Has(s)
  BY <1>2, <1>3
<1>4. ASSUME NEW g, IsFold(g, f, M) PROVE FALSE
  BY <1>2, <1>4 DEF FoldOf
<1> DEFINE x == Pick(M)
           h == [s \in SUBSET M |->
                   IF s = {} THEN 0
                   ELSE IF s = M THEN f[x] + FoldOf(f, M \ {x})[M \ {x}] ELSE FoldOf(f, s)[s]]
<1>5. ASSUME NEW s \in SUBSET M
      PROVE  h[s] = IF s = {} THEN 0 ELSE f[Pick(s)] + h[s \ {Pick(s)}]
  <2> DEFINE y == Pick(s)
             r == s \ {y}
  <2>1. CASE s = {}
    BY <2>1
  <2>2. CASE s # {}
    <3>1. y \in s /\ r \in SUBSET M /\ r # M /\ r # s
      BY <2>2, PickIn
    <3>2. h[r] = FoldOf(f, r)[r]
      <4>1. CASE r = {}
        <5>1. Has(r)
          BY <1>3, <3>1
        <5>2. FoldOf(f, r)[r] = 0
          BY <4>1, <5>1 DEF IsFold
        <5> QED BY <3>1, <4>1, <5>2
      <4>2. CASE r # {}
        BY <3>1, <4>2
      <4> QED BY <4>1, <4>2
    <3>3. CASE s = M
      BY <2>2, <3>2, <3>3
    <3>4. CASE s # M
      <4>1. Has(s) /\ Has(r)
        BY <1>3, <3>1, <3>4
      <4>2. IsFiniteSet(r)
        BY <1>2, <3>1, FS_Subset
      <4>3. FoldOf(f, s)[r] = FoldOf(f, r)[r]
        BY <4>1, <4>2, <3>1, FoldUnique
      <4>4. FoldOf(f, s)[s] = f[y] + FoldOf(f, s)[r]
        <5> HIDE DEF y
        <5>1. FoldOf(f, s) = [t \in SUBSET s |-> IF t = {} THEN 0
                               ELSE f[Pick(t)] + FoldOf(f, s)[t \ {Pick(t)}]]
          BY <4>1 DEF IsFold
        <5> QED BY <2>2, <5>1 DEF y
      <4> QED BY <2>2, <3>2, <3>4, <4>3, <4>4
    <3> QED BY <3>3, <3>4
  <2> QED BY <2>1, <2>2
<1>6. IsFold(h, f, M)
  <2> DEFINE k == [s \in SUBSET M |-> IF s = {} THEN 0 ELSE f[Pick(s)] + h[s \ {Pick(s)}]]
  <2>1. \A s \in SUBSET M : h[s] = k[s]
    BY <1>5
  <2>2. h = k
    BY <2>1
  <2> QED BY <2>2 DEF IsFold
<1> QED BY <1>4, <1>6
\* The sum over a set adds what it picks first to the sum over the others.
LEMMA SumStep ==
    ASSUME NEW f, NEW S, IsFiniteSet(S), S # {}
    PROVE  SumFunctionOnSet(f, S) = f[Pick(S)] + SumFunctionOnSet(f, S \ {Pick(S)})
<1> DEFINE r == S \ {Pick(S)}
           g == FoldOf(f, S)
<1>1. Pick(S) \in S /\ r \in SUBSET S /\ IsFiniteSet(r)
  BY PickIn, FS_Subset
<1>2. IsFold(g, f, S) /\ IsFold(FoldOf(f, r), f, r)
  BY <1>1, FoldExists
<1>3. g[r] = FoldOf(f, r)[r]
  <2> HIDE DEF g, r
  <2> QED BY <1>1, <1>2, FoldUnique
<1>4. g[S] = f[Pick(S)] + g[r]
  <2> HIDE DEF g
  <2> QED BY <1>2 DEF IsFold
<1> QED BY <1>3, <1>4, SumIsFold

-----------------------------------------------------------------------------
(* What the proofs use. *)

\* The sum over no element.
LEMMA SumEmpty == ASSUME NEW f PROVE SumFunctionOnSet(f, {}) = 0
<1>1. IsFold(FoldOf(f, {}), f, {})
  BY FoldExists, FS_EmptySet
<1>2. FoldOf(f, {})[{}] = 0
  BY <1>1 DEF IsFold
<1> QED BY <1>2, SumIsFold

\* A finite sum of integers is an integer.
LEMMA SumType ==
    ASSUME NEW f, NEW S, IsFiniteSet(S), \A x \in S : f[x] \in Int
    PROVE  SumFunctionOnSet(f, S) \in Int
<1> DEFINE B == {s \in SUBSET S : SumFunctionOnSet(f, s) \notin Int}
<1>1. SUFFICES ASSUME B # {} PROVE FALSE
  OBVIOUS
<1>2. PICK M \in B : \A s \in B : s \subseteq M => s = M
  <2> B \in SUBSET SUBSET S
    OBVIOUS
  <2> HIDE DEF B
  <2> QED BY <1>1, Smallest
<1>3. M # {}
  <2>1. SumFunctionOnSet(f, {}) \in Int
    BY SumEmpty
  <2> QED BY <1>2, <2>1
<1>4. Pick(M) \in M /\ IsFiniteSet(M)
  BY <1>2, <1>3, PickIn, FS_Subset
<1>5. SumFunctionOnSet(f, M \ {Pick(M)}) \in Int
  BY <1>2, <1>4
<1>6. SumFunctionOnSet(f, M) = f[Pick(M)] + SumFunctionOnSet(f, M \ {Pick(M)})
  BY <1>3, <1>4, SumStep
<1> QED BY <1>2, <1>4, <1>5, <1>6

\* A sum depends on no value outside its set.
LEMMA SumCongruence ==
    ASSUME NEW f, NEW g, NEW S, IsFiniteSet(S), \A x \in S : f[x] = g[x]
    PROVE  SumFunctionOnSet(f, S) = SumFunctionOnSet(g, S)
<1> DEFINE B == {s \in SUBSET S : SumFunctionOnSet(f, s) # SumFunctionOnSet(g, s)}
<1>1. SUFFICES ASSUME B # {} PROVE FALSE
  OBVIOUS
<1>2. PICK M \in B : \A s \in B : s \subseteq M => s = M
  <2> B \in SUBSET SUBSET S
    OBVIOUS
  <2> HIDE DEF B
  <2> QED BY <1>1, Smallest
<1>3. M # {}
  BY <1>2, SumEmpty
<1>4. Pick(M) \in M /\ IsFiniteSet(M)
  BY <1>2, <1>3, PickIn, FS_Subset
<1>5. SumFunctionOnSet(f, M \ {Pick(M)}) = SumFunctionOnSet(g, M \ {Pick(M)})
  BY <1>2, <1>4
<1>6. /\ SumFunctionOnSet(f, M) = f[Pick(M)] + SumFunctionOnSet(f, M \ {Pick(M)})
      /\ SumFunctionOnSet(g, M) = g[Pick(M)] + SumFunctionOnSet(g, M \ {Pick(M)})
  BY <1>3, <1>4, SumStep
<1> QED BY <1>2, <1>4, <1>5, <1>6

\* Any element can be taken out first.
LEMMA SumRemove ==
    ASSUME NEW f, NEW S, IsFiniteSet(S), \A x \in S : f[x] \in Int, NEW y \in S
    PROVE  SumFunctionOnSet(f, S) = f[y] + SumFunctionOnSet(f, S \ {y})
<1> DEFINE Bad(s) == \E x \in s : SumFunctionOnSet(f, s) # f[x] + SumFunctionOnSet(f, s \ {x})
           B == {s \in SUBSET S : Bad(s)}
<1>1. SUFFICES ASSUME B # {} PROVE FALSE
  OBVIOUS
<1>2. PICK M \in B : \A s \in B : s \subseteq M => s = M
  <2> B \in SUBSET SUBSET S
    OBVIOUS
  <2> HIDE DEF B
  <2> QED BY <1>1, Smallest
<1>3. PICK x \in M : SumFunctionOnSet(f, M) # f[x] + SumFunctionOnSet(f, M \ {x})
  BY <1>2
<1> DEFINE p == Pick(M)
<1>4. p \in M /\ IsFiniteSet(M) /\ M \in SUBSET S
  BY <1>2, <1>3, PickIn, FS_Subset
<1>5. SumFunctionOnSet(f, M) = f[p] + SumFunctionOnSet(f, M \ {p})
  BY <1>3, <1>4, SumStep
<1>6. x # p
  BY <1>3, <1>5
<1> HIDE DEF p
<1>7. ~Bad(M \ {p}) /\ ~Bad(M \ {x})
  BY <1>2, <1>3, <1>4
<1>8. SumFunctionOnSet(f, M \ {p}) = f[x] + SumFunctionOnSet(f, (M \ {p}) \ {x})
  BY <1>3, <1>6, <1>7
<1>9. SumFunctionOnSet(f, M \ {x}) = f[p] + SumFunctionOnSet(f, (M \ {x}) \ {p})
  BY <1>4, <1>6, <1>7
<1>10. (M \ {p}) \ {x} = (M \ {x}) \ {p}
  OBVIOUS
<1>11. SumFunctionOnSet(f, (M \ {p}) \ {x}) \in Int
  BY <1>4, FS_Subset, SumType
<1>12. f[x] \in Int /\ f[p] \in Int
  BY <1>3, <1>4
<1> QED BY <1>3, <1>5, <1>8, <1>9, <1>10, <1>11, <1>12

\* One summand more,
LEMMA SumAdd ==
    ASSUME NEW f, NEW S, IsFiniteSet(S), \A x \in S : f[x] \in Int,
           NEW y, y \notin S, f[y] \in Int
    PROVE  SumFunctionOnSet(f, S \cup {y}) = f[y] + SumFunctionOnSet(f, S)
<1>1. IsFiniteSet(S \cup {y}) /\ (S \cup {y}) \ {y} = S
  BY FS_AddElement
<1> DEFINE T == S \cup {y}
<1>2. IsFiniteSet(T) /\ y \in T /\ T \ {y} = S /\ \A x \in T : f[x] \in Int
  BY <1>1
<1> HIDE DEF T
<1>3. SumFunctionOnSet(f, T) = f[y] + SumFunctionOnSet(f, T \ {y})
  BY <1>2, SumRemove
<1> QED BY <1>2, <1>3 DEF T

\* The sums over two disjoint sets add up.
LEMMA SumUnion ==
    ASSUME NEW f, NEW S, NEW T, IsFiniteSet(S), IsFiniteSet(T), S \cap T = {},
           \A x \in S \cup T : f[x] \in Int
    PROVE  SumFunctionOnSet(f, S \cup T) = SumFunctionOnSet(f, S) + SumFunctionOnSet(f, T)
<1> DEFINE Bad(s) == SumFunctionOnSet(f, S \cup s)
                       # SumFunctionOnSet(f, S) + SumFunctionOnSet(f, s)
           B == {s \in SUBSET T : Bad(s)}
<1>1. SUFFICES ASSUME B # {} PROVE FALSE
  OBVIOUS
<1>2. PICK M \in B : \A s \in B : s \subseteq M => s = M
  <2> B \in SUBSET SUBSET T
    OBVIOUS
  <2> HIDE DEF B
  <2> QED BY <1>1, Smallest
<1>3. M \in SUBSET T /\ Bad(M)
  BY <1>2
<1>4. SumFunctionOnSet(f, S) \in Int
  BY SumType
<1>5. M # {}
  <2> SUFFICES ASSUME M = {} PROVE FALSE
    OBVIOUS
  <2>1. S \cup M = S /\ SumFunctionOnSet(f, M) = 0
    BY SumEmpty
  <2> QED BY <1>3, <1>4, <2>1
<1>6. PICK x \in M : TRUE
  BY <1>5
<1> DEFINE R == M \ {x}
<1>7. ~Bad(R)
  BY <1>2, <1>6
<1>8. /\ IsFiniteSet(M) /\ IsFiniteSet(R) /\ IsFiniteSet(S \cup R)
      /\ S \cup M = (S \cup R) \cup {x} /\ x \notin S \cup R /\ f[x] \in Int
      /\ \A y \in S \cup R : f[y] \in Int
      /\ \A y \in M : f[y] \in Int
  <2>1. IsFiniteSet(M) /\ IsFiniteSet(R)
    BY <1>3, FS_Subset
  <2>2. IsFiniteSet(S \cup R)
    BY <2>1, FS_Union
  <2> QED BY <1>3, <1>6, <2>1, <2>2
<1>9. SumFunctionOnSet(f, M) = f[x] + SumFunctionOnSet(f, R)
  BY <1>6, <1>8, SumRemove
<1> DEFINE U == S \cup R
<1>10. SumFunctionOnSet(f, U \cup {x}) = f[x] + SumFunctionOnSet(f, U)
  <2>1. IsFiniteSet(U) /\ x \notin U /\ \A y \in U : f[y] \in Int
    BY <1>8
  <2> HIDE DEF U
  <2> QED BY <1>8, <2>1, SumAdd
<1>11. SumFunctionOnSet(f, R) \in Int
  <2> HIDE DEF R
  <2>1. \A y \in R : f[y] \in Int
    BY <1>8
  <2> QED BY <1>8, <2>1, SumType
<1>12. SumFunctionOnSet(f, S \cup M) = f[x] + SumFunctionOnSet(f, U)
  BY <1>8, <1>10
<1>13. SumFunctionOnSet(f, U) = SumFunctionOnSet(f, S) + SumFunctionOnSet(f, R)
  BY <1>7
<1>14. SumFunctionOnSet(f, S \cup M) # SumFunctionOnSet(f, S) + SumFunctionOnSet(f, M)
  BY <1>3
<1> HIDE DEF U, R
<1> QED BY <1>4, <1>8, <1>9, <1>11, <1>12, <1>13, <1>14

IsAffine(g, f, S, a, c) ==
    /\ a \in Int /\ c \in Int
    /\ \A x \in S : f[x] \in Int /\ g[x] = a * f[x] + c

\* A multiple of each value, and a constant for each.
LEMMA SumAffine ==
    ASSUME NEW f, NEW g, NEW S, IsFiniteSet(S), NEW a, NEW c, IsAffine(g, f, S, a, c)
    PROVE  SumFunctionOnSet(g, S) = a * SumFunctionOnSet(f, S) + Cardinality(S) * c
<1> DEFINE F(s) == SumFunctionOnSet(f, s)
           G(s) == SumFunctionOnSet(g, s)
           Bad(s) == G(s) # a * F(s) + Cardinality(s) * c
           B == {s \in SUBSET S : Bad(s)}
<1>0. a \in Int /\ c \in Int /\ \A x \in S : f[x] \in Int /\ g[x] = a * f[x] + c
  BY DEF IsAffine
<1>1. SUFFICES ASSUME B # {} PROVE FALSE
  OBVIOUS
<1>2. PICK M \in B : \A s \in B : s \subseteq M => s = M
  <2> B \in SUBSET SUBSET S
    OBVIOUS
  <2> HIDE DEF B
  <2> QED BY <1>1, Smallest
<1>3. M \in SUBSET S /\ Bad(M) /\ IsFiniteSet(M)
  BY <1>2, FS_Subset
<1>4. M # {}
  <2> SUFFICES ASSUME M = {} PROVE FALSE
    OBVIOUS
  <2>1. F(M) = 0 /\ G(M) = 0 /\ Cardinality(M) = 0
    BY SumEmpty, FS_EmptySet
  <2> QED BY <1>0, <1>3, <2>1
<1>5. PICK x \in M : TRUE
  BY <1>4
<1> DEFINE R == M \ {x}
           n == Cardinality(R)
<1>6. ~Bad(R)
  BY <1>2, <1>5
<1>7. n \in Nat /\ Cardinality(M) = n + 1 /\ IsFiniteSet(R)
  <2>1. IsFiniteSet(R) /\ Cardinality(R) = Cardinality(M) - 1
    BY <1>3, <1>5, FS_RemoveElement
  <2>2. Cardinality(M) \in Nat /\ Cardinality(R) \in Nat
    BY <1>3, <2>1, FS_CardinalityType
  <2> QED BY <2>1, <2>2
<1>8. /\ \A y \in M : f[y] \in Int /\ g[y] \in Int
      /\ f[x] \in Int /\ g[x] = a * f[x] + c
  BY <1>0, <1>3, <1>5
<1>9. F(M) = f[x] + F(R) /\ G(M) = g[x] + G(R)
  BY <1>3, <1>5, <1>8, SumRemove
<1>10. F(R) \in Int
  <2>1. \A y \in R : f[y] \in Int
    BY <1>8
  <2> HIDE DEF R
  <2> QED BY <1>7, <2>1, SumType
<1>11. G(R) = a * F(R) + n * c
  BY <1>6
<1>12. G(M) # a * F(M) + (n + 1) * c
  BY <1>3, <1>7
<1>13. a * (f[x] + F(R)) = a * f[x] + a * F(R) /\ (n + 1) * c = n * c + c
  BY <1>0, <1>7, <1>8, <1>10
<1>14. a * f[x] \in Int /\ a * F(R) \in Int /\ n * c \in Int
  BY <1>0, <1>7, <1>8, <1>10
<1> HIDE DEF R, n, F, G
<1> QED BY <1>0, <1>8, <1>9, <1>11, <1>12, <1>13, <1>14

Moved(S, m) == {m + i : i \in S}

AreMoved(f, g, S, m) ==
    /\ S \subseteq Int /\ m \in Int
    /\ \A i \in S : f[i] \in Int /\ g[m + i] = f[i]

\* The same values at places moved by m have the same sum.
LEMMA SumShift ==
    ASSUME NEW f, NEW g, NEW S, IsFiniteSet(S), NEW m, AreMoved(f, g, S, m)
    PROVE  SumFunctionOnSet(f, S) = SumFunctionOnSet(g, Moved(S, m))
<1> DEFINE Bad(s) == ~(/\ IsFiniteSet(Moved(s, m))
                       /\ SumFunctionOnSet(f, s) = SumFunctionOnSet(g, Moved(s, m)))
           B == {s \in SUBSET S : Bad(s)}
<1>1. SUFFICES ASSUME B # {} PROVE FALSE
  OBVIOUS
<1>2. PICK M \in B : \A s \in B : s \subseteq M => s = M
  <2> B \in SUBSET SUBSET S
    OBVIOUS
  <2> HIDE DEF B
  <2> QED BY <1>1, Smallest
<1>3. M \in SUBSET S /\ Bad(M) /\ IsFiniteSet(M)
  BY <1>2, FS_Subset
<1>4. M # {}
  <2> SUFFICES ASSUME M = {} PROVE FALSE
    OBVIOUS
  <2>1. Moved(M, m) = {} /\ SumFunctionOnSet(f, M) = 0 /\ SumFunctionOnSet(g, Moved(M, m)) = 0
    BY SumEmpty DEF Moved
  <2> QED BY <1>3, <2>1, FS_EmptySet
<1>5. PICK x \in M : TRUE
  BY <1>4
<1> DEFINE R == M \ {x}
<1>6. IsFiniteSet(Moved(R, m)) /\ SumFunctionOnSet(f, R) = SumFunctionOnSet(g, Moved(R, m))
  BY <1>2, <1>5
<1>7. Moved(M, m) = Moved(R, m) \cup {m + x} /\ m + x \notin Moved(R, m)
  BY <1>3, <1>5 DEF Moved, AreMoved
<1>8. g[m + x] = f[x] /\ f[x] \in Int /\ \A y \in Moved(R, m) : g[y] \in Int
  BY <1>3, <1>5 DEF Moved, AreMoved
<1>9. SumFunctionOnSet(f, M) = f[x] + SumFunctionOnSet(f, R)
  <2>1. IsFiniteSet(M) /\ x \in M /\ \A y \in M : f[y] \in Int
    BY <1>3, <1>5 DEF AreMoved
  <2> QED BY <2>1, SumRemove
<1> DEFINE T == Moved(R, m)
<1>10. SumFunctionOnSet(g, T \cup {m + x}) = g[m + x] + SumFunctionOnSet(g, T)
  <2>1. IsFiniteSet(T) /\ m + x \notin T /\ g[m + x] \in Int /\ \A y \in T : g[y] \in Int
    BY <1>6, <1>7, <1>8
  <2> HIDE DEF T
  <2> QED BY <2>1, SumAdd
<1>11. IsFiniteSet(T \cup {m + x})
  BY <1>6, FS_AddElement
<1> QED BY <1>3, <1>6, <1>7, <1>8, <1>9, <1>10, <1>11

\* A non-empty set of naturals has a least member.
LEMMA Least ==
    ASSUME NEW B \in SUBSET Nat, B # {}
    PROVE  \E m \in B : \A n \in B : m <= n
<1>1. PICK k \in B : TRUE
  OBVIOUS
<1> DEFINE C == {S \in SUBSET (1..k) : \E i \in B : i <= k /\ S = 1..i}
<1>2. 1..k \in C /\ C \in SUBSET SUBSET (1..k) /\ IsFiniteSet(1..k)
  BY <1>1, FS_Interval
<1>3. PICK M \in C : \A T \in C : T \subseteq M => T = M
  <2> DEFINE S == 1..k
  <2>1. C \in SUBSET SUBSET S /\ IsFiniteSet(S) /\ C # {}
    BY <1>2
  <2> HIDE DEF C, S
  <2> QED BY <2>1, Smallest
<1>4. PICK m \in B : m <= k /\ M = 1..m
  BY <1>3
<1>5. ASSUME NEW n \in B, n < m PROVE FALSE
  <2>1. 1..n \in C /\ 1..n \subseteq M
    BY <1>4, <1>5
  <2>2. 1..n = 1..m
    BY <1>3, <1>4, <2>1
  <2>3. m \in 1..m /\ m \notin 1..n
    BY <1>5
  <2> QED BY <2>2, <2>3
<1> QED BY <1>5

Mapped(b, S) == {b[x] : x \in S}

AreMapped(f, g, S, b) ==
    /\ \A x \in S : f[x] \in Int /\ g[b[x]] = f[x]
    /\ \A x, y \in S : b[x] = b[y] => x = y

\* The same values at other places, one for each, are as many and have the same sum.
LEMMA SumBijection ==
    ASSUME NEW f, NEW g, NEW S, IsFiniteSet(S), NEW b, AreMapped(f, g, S, b)
    PROVE  /\ IsFiniteSet(Mapped(b, S)) /\ Cardinality(Mapped(b, S)) = Cardinality(S)
           /\ SumFunctionOnSet(f, S) = SumFunctionOnSet(g, Mapped(b, S))
<1> DEFINE Bad(s) == ~(/\ IsFiniteSet(Mapped(b, s)) /\ Cardinality(Mapped(b, s)) = Cardinality(s)
                       /\ SumFunctionOnSet(f, s) = SumFunctionOnSet(g, Mapped(b, s)))
           B == {s \in SUBSET S : Bad(s)}
<1>1. SUFFICES ASSUME B # {} PROVE FALSE
  OBVIOUS
<1>2. PICK M \in B : \A s \in B : s \subseteq M => s = M
  <2> B \in SUBSET SUBSET S
    OBVIOUS
  <2> HIDE DEF B
  <2> QED BY <1>1, Smallest
<1>3. M \in SUBSET S /\ Bad(M) /\ IsFiniteSet(M)
  BY <1>2, FS_Subset
<1>4. M # {}
  <2> SUFFICES ASSUME M = {} PROVE FALSE
    OBVIOUS
  <2>1. Mapped(b, M) = {} /\ SumFunctionOnSet(f, M) = 0 /\ SumFunctionOnSet(g, Mapped(b, M)) = 0
    BY SumEmpty DEF Mapped
  <2> QED BY <1>3, <2>1, FS_EmptySet
<1>5. PICK x \in M : TRUE
  BY <1>4
<1> DEFINE R == M \ {x}
           T == Mapped(b, R)
<1>6. /\ IsFiniteSet(T) /\ Cardinality(T) = Cardinality(R)
      /\ SumFunctionOnSet(f, R) = SumFunctionOnSet(g, T)
  BY <1>2, <1>5
<1>7. Mapped(b, M) = T \cup {b[x]} /\ b[x] \notin T
  BY <1>3, <1>5 DEF Mapped, AreMapped
<1>8. g[b[x]] = f[x] /\ f[x] \in Int /\ \A y \in T : g[y] \in Int
  BY <1>3, <1>5 DEF Mapped, AreMapped
<1>9. SumFunctionOnSet(f, M) = f[x] + SumFunctionOnSet(f, R)
  <2>1. IsFiniteSet(M) /\ x \in M /\ \A y \in M : f[y] \in Int
    BY <1>3, <1>5 DEF AreMapped
  <2> QED BY <2>1, SumRemove
<1>10. Cardinality(M) = Cardinality(R) + 1
  <2>1. IsFiniteSet(R) /\ Cardinality(R) = Cardinality(M) - 1
    BY <1>3, <1>5, FS_RemoveElement
  <2>2. Cardinality(M) \in Nat /\ Cardinality(R) \in Nat
    BY <1>3, <2>1, FS_CardinalityType
  <2> QED BY <2>1, <2>2
<1> HIDE DEF T
<1>11. SumFunctionOnSet(g, T \cup {b[x]}) = g[b[x]] + SumFunctionOnSet(g, T)
  BY <1>6, <1>7, <1>8, SumAdd
<1>12. IsFiniteSet(T \cup {b[x]}) /\ Cardinality(T \cup {b[x]}) = Cardinality(T) + 1
  BY <1>6, <1>7, FS_AddElement
<1> QED BY <1>3, <1>6, <1>7, <1>8, <1>9, <1>10, <1>11, <1>12

Union(L, S) == UNION {L[x] : x \in S}

AreCounts(c, L, S) ==
    /\ \A x \in S : IsFiniteSet(L[x]) /\ c[x] = Cardinality(L[x])
    /\ \A x, y \in S : x # y => L[x] \cap L[y] = {}

\* Sets that have nothing in common are together as many as each adds.
LEMMA SumOfCardinalities ==
    ASSUME NEW c, NEW L, NEW S, IsFiniteSet(S), AreCounts(c, L, S)
    PROVE  IsFiniteSet(Union(L, S)) /\ SumFunctionOnSet(c, S) = Cardinality(Union(L, S))
<1> DEFINE Bad(s) == ~(IsFiniteSet(Union(L, s)) /\ SumFunctionOnSet(c, s) = Cardinality(Union(L, s)))
           B == {s \in SUBSET S : Bad(s)}
<1>1. SUFFICES ASSUME B # {} PROVE FALSE
  OBVIOUS
<1>2. PICK M \in B : \A s \in B : s \subseteq M => s = M
  <2> B \in SUBSET SUBSET S
    OBVIOUS
  <2> HIDE DEF B
  <2> QED BY <1>1, Smallest
<1>3. M \in SUBSET S /\ Bad(M) /\ IsFiniteSet(M)
  BY <1>2, FS_Subset
<1>4. M # {}
  <2> SUFFICES ASSUME M = {} PROVE FALSE
    OBVIOUS
  <2>1. Union(L, M) = {} /\ SumFunctionOnSet(c, M) = 0
    BY SumEmpty DEF Union
  <2> QED BY <1>3, <2>1, FS_EmptySet
<1>5. PICK x \in M : TRUE
  BY <1>4
<1> DEFINE R == M \ {x}
           U == Union(L, R)
<1>6. IsFiniteSet(U) /\ SumFunctionOnSet(c, R) = Cardinality(U)
  BY <1>2, <1>5
<1>7. Union(L, M) = U \cup L[x] /\ U \cap L[x] = {}
  BY <1>3, <1>5 DEF Union, AreCounts
<1>8. SumFunctionOnSet(c, M) = c[x] + SumFunctionOnSet(c, R)
  <2>1. \A y \in M : c[y] \in Int
    BY <1>3, FS_CardinalityType DEF AreCounts
  <2> QED BY <1>3, <1>5, <2>1, SumRemove
<1>9. IsFiniteSet(L[x]) /\ c[x] = Cardinality(L[x])
  BY <1>3, <1>5 DEF AreCounts
<1> HIDE DEF U
<1>10. IsFiniteSet(U \cup L[x]) /\ Cardinality(U \cup L[x]) = Cardinality(U) + Cardinality(L[x])
  <2>1. /\ IsFiniteSet(U \cup L[x])
        /\ Cardinality(U \cup L[x]) = Cardinality(U) + Cardinality(L[x]) - Cardinality({})
    BY <1>6, <1>7, <1>9, FS_Union
  <2>2. Cardinality({}) = 0 /\ Cardinality(U) \in Nat /\ Cardinality(L[x]) \in Nat
    BY <1>6, <1>9, FS_EmptySet, FS_CardinalityType
  <2> QED BY <2>1, <2>2
<1>11. Cardinality(U) \in Nat /\ Cardinality(L[x]) \in Nat
  BY <1>6, <1>9, FS_CardinalityType
<1> QED BY <1>3, <1>6, <1>7, <1>8, <1>9, <1>10, <1>11
=============================================================================
