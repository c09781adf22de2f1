------------------------------- MODULE SetSums ------------------------------
(***************************************************************************)
(* Facts about SumFunctionOnSet(f, S), the sum of f[x] for x in a finite   *)
(* set S.  The operator is a fold: the value it computes does not depend   *)
(* on the order in which the fold takes the elements.  Each induction on   *)
(* S is a search for a smallest counterexample.                            *)
(***************************************************************************)
EXTENDS Functions, FiniteSetTheorems, WellFoundedInduction, TLAPS

\* A set of naturals that has a member has a least one.
LEMMA LeastNatural ==
    ASSUME NEW T \in SUBSET Nat, T # {}
    PROVE  \E n \in T : \A m \in T : n <= m
  <1> DEFINE R == OpToRel(<, Nat)
  <1>1. IsWellFoundedOn(R, Nat)
    BY NatLessThanWellFounded
  <1>2. \A x, y \in Nat : <<y, x>> \in R <=> y < x
    BY DEF OpToRel
  <1> HIDE DEF R
  <1>3. PICK n \in T : \A m \in T : ~ (<<m, n>> \in R)
    BY <1>1, WFMin
  <1>4. \A m \in T : n <= m
    <2>1. TAKE m \in T
    <2>2. ~ (m < n)
      BY <1>2, <1>3
    <2>3. QED
      BY <2>2
  <1>5. QED
    BY <1>4

\* A family of subsets of a finite set that has a member has one that holds
\* no other of them.
LEMMA SmallestSubset ==
    ASSUME NEW S, IsFiniteSet(S), NEW B \in SUBSET SUBSET S, B # {}
    PROVE  \E s \in B : \A t \in B : t \subseteq s => t = s
  <1> DEFINE Sizes == {Cardinality(s) : s \in B}
  <1>1. \A s \in B : IsFiniteSet(s) /\ Cardinality(s) \in Nat
    BY FS_Subset, FS_CardinalityType
  <1>2. Sizes \in SUBSET Nat /\ Sizes # {}
    BY <1>1
  <1> HIDE DEF Sizes
  <1>3. PICK n \in Sizes : \A m \in Sizes : n <= m
    BY <1>2, LeastNatural
  <1>4. PICK s \in B : n = Cardinality(s)
    BY DEF Sizes
  <1>5. ASSUME NEW t \in B, t \subseteq s
        PROVE  t = s
    <2>1. Cardinality(s) <= Cardinality(t)
      BY <1>3, <1>4 DEF Sizes
    <2>2. Cardinality(t) \in Nat /\ Cardinality(s) \in Nat /\ IsFiniteSet(s)
      BY <1>1
    <2>3. Cardinality(t) <= Cardinality(s) /\ (Cardinality(t) = Cardinality(s) => t = s)
      BY <1>5, <2>2, FS_Subset
    <2>4. QED
      BY <2>1, <2>2, <2>3
  <1>6. QED
    BY <1>5

-----------------------------------------------------------------------------

Pick(s) == CHOOSE x \in s : TRUE

\* g gives each subset of S its sum.
SumsOf(g, f, S) ==
    g = [s \in SUBSET S |-> IF s = {} THEN 0 ELSE f[Pick(s)] + g[s \ {Pick(s)}]]

LEMMA SumsAreUnique ==
    ASSUME NEW S, IsFiniteSet(S), NEW f, NEW g, NEW h, SumsOf(g, f, S), SumsOf(h, f, S)
    PROVE  g = h
  <1> DEFINE B == {s \in SUBSET S : g[s] # h[s]}
  <1>1. B = {}
    <2>1. SUFFICES ASSUME B # {}
                   PROVE  FALSE
      OBVIOUS
    <2>2. PICK s \in B : \A t \in B : t \subseteq s => t = s
      <3>1. B \in SUBSET SUBSET S
        OBVIOUS
      <3> HIDE DEF B
      <3>2. QED
        BY <2>1, <3>1, SmallestSubset
    <2>3. g[s] = IF s = {} THEN 0 ELSE f[Pick(s)] + g[s \ {Pick(s)}]
      BY DEF SumsOf
    <2>4. h[s] = IF s = {} THEN 0 ELSE f[Pick(s)] + h[s \ {Pick(s)}]
      BY DEF SumsOf
    <2>5. s # {} => Pick(s) \in s
      BY DEF Pick
    <2>6. s # {} => g[s \ {Pick(s)}] = h[s \ {Pick(s)}]
      BY <2>2, <2>5
    <2>7. QED
      BY <2>3, <2>4, <2>6
  <1>2. \A s \in SUBSET S : g[s] = h[s]
    BY <1>1
  <1> HIDE DEF B
  <1>3. g = [s \in SUBSET S |-> g[s]] /\ h = [s \in SUBSET S |-> h[s]]
    BY DEF SumsOf
  <1>4. QED
    BY <1>2, <1>3

LEMMA SumsExist ==
    ASSUME NEW S, IsFiniteSet(S), NEW f, \A x \in S : f[x] \in Int
    PROVE  \E g \in [SUBSET S -> Int] : SumsOf(g, f, S)
  <1> DEFINE Up(n) == {s \in SUBSET S : Cardinality(s) <= n}
             Value(g, s) == IF s = {} THEN 0 ELSE f[Pick(s)] + g[s \ {Pick(s)}]
             Part(n, g) == /\ g \in [Up(n) -> Int]
                           /\ \A s \in Up(n) : g[s] = Value(g, s)
             B == {n \in Nat : ~ \E g : Part(n, g)}
  <1>1. \A s \in SUBSET S : IsFiniteSet(s) /\ Cardinality(s) \in Nat
    BY FS_Subset, FS_CardinalityType
  <1>2. \A s \in SUBSET S : s # {} =>
            /\ Pick(s) \in s /\ f[Pick(s)] \in Int
            /\ s \ {Pick(s)} \in SUBSET S
            /\ Cardinality(s \ {Pick(s)}) = Cardinality(s) - 1
    <2>1. TAKE s \in SUBSET S
    <2>2. HAVE s # {}
    <2>3. Pick(s) \in s
      BY <2>2 DEF Pick
    <2>4. Cardinality(s \ {Pick(s)}) = Cardinality(s) - 1
      BY <1>1, <2>3, FS_RemoveElement
    <2>5. QED
      BY <2>3, <2>4
  <1>3. 0 \notin B
    <2> DEFINE g == [s \in Up(0) |-> 0]
    <2>1. \A s \in Up(0) : s = {}
      BY <1>1, FS_EmptySet
    <2>2. Part(0, g)
      BY <2>1
    <2>3. QED
      BY <2>2
  <1>4. ASSUME NEW n \in Nat, n # 0, n - 1 \notin B
        PROVE  n \notin B
    <2>1. n - 1 \in Nat
      BY <1>4
    <2>2. PICK g : Part(n - 1, g)
      BY <1>4, <2>1
    <2> DEFINE h == [s \in Up(n) |-> Value(g, s)]
    <2>3. \A s \in Up(n) : s # {} => s \ {Pick(s)} \in Up(n - 1)
      BY <1>1, <1>2
    <2>4. \A s \in Up(n) : Value(g, s) \in Int
      BY <1>2, <2>2, <2>3
    <2>5. \A s \in Up(n - 1) : s \in Up(n) /\ h[s] = g[s]
      BY <1>1, <2>2
    <2>6. \A s \in Up(n) : Value(h, s) = Value(g, s)
      <3> HIDE DEF h, Up
      <3>1. QED
        BY <2>3, <2>5
    <2>7. Part(n, h)
      <3>1. h \in [Up(n) -> Int]
        BY <2>4
      <3>2. \A s \in Up(n) : h[s] = Value(g, s)
        OBVIOUS
      <3>3. QED
        BY <2>6, <3>1, <3>2
    <2>8. QED
      BY <2>7
  <1>5. B = {}
    <2>1. SUFFICES ASSUME B # {}
                   PROVE  FALSE
      OBVIOUS
    <2>2. B \in SUBSET Nat
      OBVIOUS
    <2> HIDE DEF B
    <2>3. PICK n \in B : \A m \in B : n <= m
      BY <2>1, <2>2, LeastNatural
    <2>4. n \in Nat /\ n # 0
      BY <1>3, <2>2, <2>3
    <2>5. n - 1 \notin B
      BY <2>2, <2>3, <2>4
    <2>6. QED
      BY <1>4, <2>3, <2>4, <2>5
  <1>6. PICK g : Part(Cardinality(S), g)
    BY <1>1, <1>5
  <1>7. Up(Cardinality(S)) = SUBSET S
    BY <1>1, FS_Subset
  <1>8. g \in [SUBSET S -> Int] /\ \A s \in SUBSET S : g[s] = Value(g, s)
    BY <1>6, <1>7
  <1>9. SumsOf(g, f, S)
    BY <1>8 DEF SumsOf
  <1>10. QED
    BY <1>8, <1>9

-----------------------------------------------------------------------------

\* The sums of the subsets of S.
Sums(f, S) == CHOOSE g \in [SUBSET S -> Int] : SumsOf(g, f, S)

LEMMA SumsAre ==
    ASSUME NEW S, IsFiniteSet(S), NEW f, \A x \in S : f[x] \in Int
    PROVE  /\ Sums(f, S) \in [SUBSET S -> Int]
           /\ SumsOf(Sums(f, S), f, S)
  BY SumsExist DEF Sums

\* The fold computes the sums, of S and of each of its subsets.
LEMMA SumsAreTheFold ==
    ASSUME NEW S, IsFiniteSet(S), NEW f, \A x \in S : f[x] \in Int,
           NEW T \in SUBSET S
    PROVE  SumFunctionOnSet(f, T) = Sums(f, S)[T]
  <1> DEFINE g == Sums(f, S)
             r == [s \in SUBSET T |-> g[s]]
  <1>1. SumsOf(g, f, S)
    BY SumsAre
  <1>2. SumsOf(r, f, T)
    <2>1. \A s \in SUBSET T :
              g[s] = IF s = {} THEN 0 ELSE f[Pick(s)] + g[s \ {Pick(s)}]
      BY <1>1 DEF SumsOf
    <2>2. \A s \in SUBSET T : s \ {Pick(s)} \in SUBSET T
      OBVIOUS
    <2>3. QED
      BY <2>1, <2>2 DEF SumsOf
  <1>3. \A h : SumsOf(h, f, T) => h = r
    <2> HIDE DEF r
    <2>1. IsFiniteSet(T)
      BY FS_Subset
    <2>2. QED
      BY <1>2, <2>1, SumsAreUnique
  <1>4. SumFunctionOnSet(f, T) = r[T]
    <2> HIDE DEF r
    <2>1. QED
      BY <1>2, <1>3
      DEF SumFunctionOnSet, FoldFunctionOnSet, MapThenFoldSet, SumsOf, Pick
  <1>5. QED
    BY <1>4

LEMMA SumOfNone ==
    ASSUME NEW f
    PROVE  SumFunctionOnSet(f, {}) = 0
  <1>1. IsFiniteSet({})
    BY FS_EmptySet
  <1>2. SumsOf(Sums(f, {}), f, {}) /\ SumFunctionOnSet(f, {}) = Sums(f, {})[{}]
    BY <1>1, SumsAre, SumsAreTheFold
  <1>3. QED
    BY <1>2 DEF SumsOf

LEMMA SumIsInt ==
    ASSUME NEW S, IsFiniteSet(S), NEW f, \A x \in S : f[x] \in Int
    PROVE  SumFunctionOnSet(f, S) \in Int
  <1>1. Sums(f, S) \in [SUBSET S -> Int] /\ SumFunctionOnSet(f, S) = Sums(f, S)[S]
    BY SumsAre, SumsAreTheFold
  <1>2. QED
    BY <1>1

\* Any element may be taken out of the sum first.
LEMMA SumWithout ==
    ASSUME NEW S, IsFiniteSet(S), NEW f, \A x \in S : f[x] \in Int, NEW y \in S
    PROVE  SumFunctionOnSet(f, S) = f[y] + SumFunctionOnSet(f, S \ {y})
  <1> DEFINE g == Sums(f, S)
  <1>1. /\ g \in [SUBSET S -> Int] /\ SumsOf(g, f, S)
        /\ \A T \in SUBSET S : SumFunctionOnSet(f, T) = g[T]
    BY SumsAre, SumsAreTheFold
  <1> HIDE DEF g
  <1>2. \A T \in SUBSET S : g[T] = IF T = {} THEN 0 ELSE f[Pick(T)] + g[T \ {Pick(T)}]
    BY <1>1 DEF SumsOf
  <1> DEFINE B == {T \in SUBSET S : \E z \in T : g[T] # f[z] + g[T \ {z}]}
  <1>3. B = {}
    <2>1. SUFFICES ASSUME B # {}
                   PROVE  FALSE
      OBVIOUS
    <2>2. B \in SUBSET SUBSET S
      OBVIOUS
    <2>3. PICK T \in B : \A t \in B : t \subseteq T => t = T
      <3> HIDE DEF B
      <3>1. QED
        BY <2>1, <2>2, SmallestSubset
    <2>4. PICK z \in T : g[T] # f[z] + g[T \ {z}]
      OBVIOUS
    <2> DEFINE p == Pick(T)
    <2>5. p \in T
      BY <2>4 DEF Pick
    <2>6. T \in SUBSET S /\ g[T] = f[p] + g[T \ {p}]
      BY <1>2, <2>4
    <2> HIDE DEF p
    <2>7. z # p
      BY <2>4, <2>6
    <2>8. g[T \ {p}] = f[z] + g[(T \ {p}) \ {z}]
      <3>1. T \ {p} \in SUBSET S /\ T \ {p} \subseteq T /\ T \ {p} # T /\ z \in T \ {p}
        BY <2>4, <2>5, <2>6, <2>7
      <3>2. T \ {p} \notin B
        BY <2>3, <3>1
      <3>3. QED
        BY <3>1, <3>2
    <2>9. g[T \ {z}] = f[p] + g[(T \ {z}) \ {p}]
      BY <2>3, <2>4, <2>5, <2>6, <2>7
    <2>10. (T \ {p}) \ {z} = (T \ {z}) \ {p}
      OBVIOUS
    <2>11. f[z] \in Int /\ f[p] \in Int /\ g[(T \ {z}) \ {p}] \in Int
      BY <1>1, <2>4, <2>5, <2>6
    <2>12. g[T] = f[p] + (f[z] + g[(T \ {z}) \ {p}])
      BY <2>6, <2>8, <2>10
    <2>13. g[T] # f[z] + (f[p] + g[(T \ {z}) \ {p}])
      BY <2>4, <2>9
    <2>14. QED
      BY <2>11, <2>12, <2>13
  <1>4. g[S] = f[y] + g[S \ {y}]
    BY <1>3
  <1>5. QED
    BY <1>1, <1>4

\* Functions that agree on S have the same sum over S.
LEMMA SumsAgree ==
    ASSUME NEW S, IsFiniteSet(S), NEW f, NEW h,
           \A x \in S : f[x] \in Int /\ h[x] = f[x]
    PROVE  SumFunctionOnSet(h, S) = SumFunctionOnSet(f, S)
  <1> DEFINE g == Sums(f, S)
  <1>1. /\ g \in [SUBSET S -> Int] /\ SumsOf(g, f, S)
        /\ \A T \in SUBSET S : SumFunctionOnSet(f, T) = g[T]
    BY SumsAre, SumsAreTheFold
  <1> HIDE DEF g
  <1>2. \A x \in S : h[x] \in Int
    OBVIOUS
  <1> DEFINE k == Sums(h, S)
  <1>3. /\ k \in [SUBSET S -> Int] /\ SumsOf(k, h, S)
        /\ \A T \in SUBSET S : SumFunctionOnSet(h, T) = k[T]
    BY <1>2, SumsAre, SumsAreTheFold
  <1> HIDE DEF k
  <1>4. \A T \in SUBSET S : T # {} => Pick(T) \in S
    BY DEF Pick
  <1>5. SumsOf(k, f, S)
    BY <1>3, <1>4 DEF SumsOf
  <1>6. k = g
    BY <1>1, <1>5, SumsAreUnique
  <1>7. QED
    BY <1>1, <1>3, <1>6

\* What one changed summand changes.
LEMMA SumChange ==
    ASSUME NEW S, IsFiniteSet(S), NEW f, NEW h, NEW y \in S,
           \A x \in S : f[x] \in Int, h[y] \in Int,
           \A x \in S \ {y} : h[x] = f[x]
    PROVE  SumFunctionOnSet(h, S) = SumFunctionOnSet(f, S) + (h[y] - f[y])
  <1>1. IsFiniteSet(S \ {y})
    BY FS_RemoveElement
  <1>2. SumFunctionOnSet(f, S) = f[y] + SumFunctionOnSet(f, S \ {y})
    BY SumWithout
  <1>3. \A x \in S : h[x] \in Int
    OBVIOUS
  <1>4. SumFunctionOnSet(h, S) = h[y] + SumFunctionOnSet(h, S \ {y})
    BY <1>3, SumWithout
  <1>5. SumFunctionOnSet(h, S \ {y}) = SumFunctionOnSet(f, S \ {y})
    BY <1>1, SumsAgree
  <1>6. SumFunctionOnSet(f, S \ {y}) \in Int
    BY <1>1, SumIsInt
  <1>7. QED
    BY <1>2, <1>4, <1>5, <1>6

\* Summands that are zero may be left out.
LEMMA SumOfTheRest ==
    ASSUME NEW S, IsFiniteSet(S), NEW T \in SUBSET S, NEW f, \A x \in S : f[x] \in Int,
           \A x \in S \ T : f[x] = 0
    PROVE  SumFunctionOnSet(f, S) = SumFunctionOnSet(f, T)
  <1> DEFINE B == {U \in SUBSET S : T \subseteq U /\
                      SumFunctionOnSet(f, U) # SumFunctionOnSet(f, T)}
  <1>1. B = {}
    <2>1. SUFFICES ASSUME B # {}
                   PROVE  FALSE
      OBVIOUS
    <2>2. B \in SUBSET SUBSET S
      OBVIOUS
    <2>3. PICK U \in B : \A u \in B : u \subseteq U => u = U
      <3> HIDE DEF B
      <3>1. QED
        BY <2>1, <2>2, SmallestSubset
    <2>4. PICK y \in U : y \notin T
      OBVIOUS
    <2>5. IsFiniteSet(U) /\ IsFiniteSet(U \ {y})
      BY FS_Subset
    <2>6. SumFunctionOnSet(f, U) = f[y] + SumFunctionOnSet(f, U \ {y})
      BY <2>5, SumWithout
    <2>7. f[y] = 0 /\ SumFunctionOnSet(f, U \ {y}) \in Int
      BY <2>4, <2>5, SumIsInt
    <2>8. SumFunctionOnSet(f, U \ {y}) = SumFunctionOnSet(f, T)
      BY <2>3, <2>4
    <2>9. QED
      BY <2>6, <2>7, <2>8
  <1>2. QED
    BY <1>1

\* A sum of smaller summands is not larger.
LEMMA SumsAtMost ==
    ASSUME NEW S, IsFiniteSet(S), NEW f, NEW h,
           \A x \in S : f[x] \in Int /\ h[x] \in Int /\ f[x] <= h[x]
    PROVE  SumFunctionOnSet(f, S) <= SumFunctionOnSet(h, S)
  <1> DEFINE B == {T \in SUBSET S : ~ (SumFunctionOnSet(f, T) <= SumFunctionOnSet(h, T))}
  <1>1. B = {}
    <2>1. SUFFICES ASSUME B # {}
                   PROVE  FALSE
      OBVIOUS
    <2>2. B \in SUBSET SUBSET S
      OBVIOUS
    <2>3. PICK T \in B : \A t \in B : t \subseteq T => t = T
      <3> HIDE DEF B
      <3>1. QED
        BY <2>1, <2>2, SmallestSubset
    <2>4. T # {}
      BY SumOfNone
    <2>5. PICK y \in T : TRUE
      BY <2>4
    <2>6. IsFiniteSet(T) /\ IsFiniteSet(T \ {y})
      BY FS_Subset
    <2>7. \A x \in T : f[x] \in Int /\ h[x] \in Int
      OBVIOUS
    <2>8. /\ SumFunctionOnSet(f, T) = f[y] + SumFunctionOnSet(f, T \ {y})
          /\ SumFunctionOnSet(h, T) = h[y] + SumFunctionOnSet(h, T \ {y})
      BY <2>6, <2>7, SumWithout
    <2>9. SumFunctionOnSet(f, T \ {y}) \in Int /\ SumFunctionOnSet(h, T \ {y}) \in Int
      BY <2>6, <2>7, SumIsInt
    <2>10. SumFunctionOnSet(f, T \ {y}) <= SumFunctionOnSet(h, T \ {y})
      BY <2>3, <2>5
    <2>11. f[y] \in Int /\ h[y] \in Int /\ f[y] <= h[y]
      OBVIOUS
    <2>12. ~ (SumFunctionOnSet(f, T) <= SumFunctionOnSet(h, T))
      OBVIOUS
    <2>13. QED
      BY <2>8, <2>9, <2>10, <2>11, <2>12
  <1>2. QED
    BY <1>1

=============================================================================
