------------------------------- MODULE Lemmas -------------------------------
(***************************************************************************)
(* What the proofs share.  First the forms of induction they use, in which *)
(* a set takes the place of the predicate, the existence of recursive      *)
(* functions, and what can be said of the sums of FiniteSetsExt, whose     *)
(* recursive definition takes the elements of a set in an arbitrary order. *)
(* Then the facts about reachability, frontiers and the choice of a        *)
(* traversal that every application of EdgeMap needs.  The proofs about    *)
(* modules that do not extend EdgeMap cite the first part only.            *)
(***************************************************************************)
EXTENDS EdgeMap, FiniteSetsExt, FiniteSetTheorems, FunctionTheorems,
        WellFoundedInduction, TLAPS

\* A set that holds 0, and n + 1 with each n, holds every natural number: the
\* least number outside it would have a predecessor in it.
LEMMA SetInduction ==
  ASSUME NEW S, 0 \in S, \A n \in Nat : n \in S => n + 1 \in S
  PROVE  \A n \in Nat : n \in S
<1> DEFINE T == Nat \ S
<1> SUFFICES ASSUME T # {} PROVE FALSE
  OBVIOUS
<1>1. PICK n \in T : \A k \in T : ~ (<<k, n>> \in OpToRel(<, Nat))
  <2>1. T \subseteq Nat
    OBVIOUS
  <2> HIDE DEF T
  <2> QED BY <2>1, WFMin, NatLessThanWellFounded
<1>2. \A k \in T : ~(k < n)
  BY <1>1 DEF OpToRel
<1>3. n - 1 \in Nat /\ n - 1 < n /\ (n - 1) + 1 = n
  OBVIOUS
<1> QED BY <1>2, <1>3

\* The same up to a bound.
LEMMA BoundedInduction ==
  ASSUME NEW n \in Nat, NEW S, 0 \in S,
         \A k \in 0 .. n - 1 : k \in S => k + 1 \in S
  PROVE  \A k \in 0 .. n : k \in S
<1> DEFINE T == {k \in Nat : k <= n => k \in S}
<1>1. 0 \in T
  OBVIOUS
<1>2. \A k \in Nat : k \in T => k + 1 \in T
  OBVIOUS
<1>3. \A k \in Nat : k \in T
  <2> HIDE DEF T
  <2> QED BY <1>1, <1>2, SetInduction
<1> QED BY <1>3

\* f is the recursive function on 0 .. n that is a at 0 and whose every further
\* value g makes of the value before.
Iterates(f, n, a, g) == f[0] = a /\ \A k \in 1 .. n : f[k] = g[f[k - 1]]
IteratesIn(T, n, a, g) == \E f \in [0 .. n -> T] : Iterates(f, n, a, g)

\* Such a function exists.
LEMMA RecursionExists ==
  ASSUME NEW n \in Nat, NEW T, NEW a \in T, NEW g \in [T -> T]
  PROVE  IteratesIn(T, n, a, g)
<1> DEFINE Follows(f, j) == f[0] = a /\ \A k \in 1 .. j : f[k] = g[f[k - 1]]
           S == {j \in Nat : \E f \in [0 .. j -> T] : Follows(f, j)}
<1>1. 0 \in S
  <2> DEFINE h == [k \in 0 .. 0 |-> a]
  <2>1. h \in [0 .. 0 -> T] /\ Follows(h, 0)
    OBVIOUS
  <2> QED BY <2>1
<1>2. ASSUME NEW j \in Nat, j \in S PROVE j + 1 \in S
  <2>1. PICK f \in [0 .. j -> T] : Follows(f, j)
    BY <1>2
  <2> DEFINE h == [k \in 0 .. j + 1 |-> IF k = j + 1 THEN g[f[j]] ELSE f[k]]
  <2>2. f[j] \in T /\ g[f[j]] \in T
    BY <2>1
  <2>3. h \in [0 .. j + 1 -> T]
    BY <2>1, <2>2
  <2>4. h[0] = f[0] /\ h[j + 1] = g[f[j]] /\ \A k \in 0 .. j : h[k] = f[k]
    OBVIOUS
  <2>5. ASSUME NEW k \in 1 .. j + 1 PROVE h[k] = g[h[k - 1]]
    <3> HIDE DEF h
    <3>1. CASE k = j + 1
      BY <3>1, <2>4
    <3>2. CASE k \in 1 .. j
      <4>1. k - 1 \in 0 .. j /\ k \in 0 .. j
        BY <3>2
      <4>2. h[k] = f[k] /\ h[k - 1] = f[k - 1]
        BY <4>1, <2>4
      <4> QED BY <3>2, <4>2, <2>1
    <3> QED BY <3>1, <3>2
  <2>6. Follows(h, j + 1)
    BY <2>1, <2>4, <2>5
  <2> HIDE DEF h, Follows
  <2> QED BY <2>3, <2>6
<1>3. n \in S
  <2> HIDE DEF S
  <2> QED BY <1>1, <1>2, SetInduction
<1> QED BY <1>3 DEF IteratesIn, Iterates

\* A property of the empty set that a set inherits from its subsets with one
\* element less holds for every finite set.
LEMMA SubsetInduction ==
  ASSUME NEW S, IsFiniteSet(S), NEW P, {} \in P,
         \A T \in SUBSET S : T # {} /\ (\A x \in T : T \ {x} \in P) => T \in P
  PROVE  \A T \in SUBSET S : T \in P
<1> DEFINE Sizes == {n \in Nat : \A T \in SUBSET S : Cardinality(T) = n => T \in P}
<1>1. \A T \in SUBSET S : IsFiniteSet(T) /\ Cardinality(T) \in Nat
  BY FS_Subset, FS_CardinalityType
<1>2. 0 \in Sizes
  BY <1>1, FS_EmptySet
<1>3. ASSUME NEW n \in Nat, n \in Sizes PROVE n + 1 \in Sizes
  <2> SUFFICES ASSUME NEW T \in SUBSET S, Cardinality(T) = n + 1 PROVE T \in P
    OBVIOUS
  <2>1. T # {}
    <3>1. T = {} => Cardinality(T) = 0
      BY FS_EmptySet
    <3> QED BY <3>1
  <2>2. ASSUME NEW x \in T PROVE T \ {x} \in P
    <3>1. Cardinality(T \ {x}) = n
      BY <1>1, FS_RemoveElement
    <3> QED BY <3>1, <1>3
  <2> QED BY <2>1, <2>2
<1>4. \A n \in Nat : n \in Sizes
  <2> HIDE DEF Sizes
  <2> QED BY <1>2, <1>3, SetInduction
<1> QED BY <1>1, <1>4

-----------------------------------------------------------------------------
(***************************************************************************)
(* Sums.  MapThenSumSet is a recursive function on the subsets of a set,   *)
(* defined by a choice of the next element.                                *)
(***************************************************************************)
Total(f, S) == MapThenSumSet(LAMBDA x : f[x], S)

\* The element that the recursion takes from a set.
pick(T) == CHOOSE x \in T : TRUE

\* The recursive function behind MapThenSumSet, and where it adds up numbers.
Sums(f, S, it) ==
  it = [T \in SUBSET S |-> IF T = {} THEN 0 ELSE f[pick(T)] + it[T \ {pick(T)}]]

IsSummable(f, S) == IsFiniteSet(S) /\ \A x \in S : f[x] \in Int

\* There is such a function: its value at T is the one after as many steps as T
\* has elements.
LEMMA SumsExists ==
  ASSUME NEW f, NEW S, IsSummable(f, S)
  PROVE  \E it : Sums(f, S, it)
<1> DEFINE R == [SUBSET S -> Int]
           zero == [T \in SUBSET S |-> 0]
           step(it) == [T \in SUBSET S |->
                          IF T = {} THEN 0 ELSE f[pick(T)] + it[T \ {pick(T)}]]
           g == [it \in R |-> step(it)]
           n == Cardinality(S)
<1>1. \A T \in SUBSET S : T # {} => pick(T) \in T /\ f[pick(T)] \in Int
  BY DEF pick, IsSummable
<1>2. g \in [R -> R]
  <2> SUFFICES ASSUME NEW it \in R PROVE step(it) \in R
    OBVIOUS
  <2>1. ASSUME NEW T \in SUBSET S, T # {} PROVE f[pick(T)] + it[T \ {pick(T)}] \in Int
    <3>1. it[T \ {pick(T)}] \in Int
      OBVIOUS
    <3> QED BY <1>1, <2>1, <3>1
  <2> QED BY <2>1
<1>3. zero \in R /\ n \in Nat
  BY FS_CardinalityType DEF IsSummable
<1>4. PICK F \in [0 .. n -> R] : F[0] = zero /\ \A k \in 1 .. n : F[k] = g[F[k - 1]]
  <2> HIDE DEF R, zero, g, n
  <2>1. IteratesIn(R, n, zero, g)
    BY <1>2, <1>3, RecursionExists
  <2> QED BY <2>1 DEF IteratesIn, Iterates
<1> DEFINE it == [T \in SUBSET S |-> F[Cardinality(T)][T]]
<1>5. ASSUME NEW T \in SUBSET S
      PROVE  it[T] = IF T = {} THEN 0 ELSE f[pick(T)] + it[T \ {pick(T)}]
  <2>1. CASE T = {}
    <3>1. Cardinality(T) = 0 /\ F[0][T] = 0
      BY <2>1, <1>4, FS_EmptySet
    <3> QED BY <2>1, <3>1
  <2>2. CASE T # {}
    <3> DEFINE k == Cardinality(T)
               U == T \ {pick(T)}
    <3>1. k \in 1 .. n /\ Cardinality(U) = k - 1 /\ U \in SUBSET S
      <4>1. IsFiniteSet(T) /\ k <= n /\ k \in Nat /\ k # 0
        BY <2>2, <1>3, FS_Subset, FS_CardinalityType, FS_EmptySet DEF IsSummable
      <4>2. Cardinality(U) = k - 1
        BY <2>2, <1>1, <4>1, FS_RemoveElement
      <4> QED BY <4>1, <4>2, <1>3
    <3>2. F[k] = step(F[k - 1])
      <4>1. F[k - 1] \in R /\ F[k] = g[F[k - 1]]
        <5> HIDE DEF R, g, zero
        <5> QED BY <3>1, <1>3, <1>4
      <4> HIDE DEF R, step
      <4> QED BY <4>1
    <3>3. F[k][T] = f[pick(T)] + F[k - 1][U]
      BY <3>2, <2>2
    <3> QED BY <3>1, <3>3, <2>2
  <2> QED BY <2>1, <2>2
<1>6. Sums(f, S, it)
  BY <1>5 DEF Sums
<1> QED BY <1>6

\* Two such functions agree where their summands do.
LEMMA SumsUnique ==
  ASSUME NEW f, NEW S, IsSummable(f, S), NEW it, Sums(f, S, it),
         NEW h, NEW U, U \subseteq S, NEW jt, Sums(h, U, jt),
         \A x \in U : h[x] = f[x]
  PROVE  \A T \in SUBSET U : it[T] = jt[T] /\ it[T] \in Int
<1> DEFINE P == {T \in SUBSET U : it[T] = jt[T] /\ it[T] \in Int}
<1>1. IsFiniteSet(U)
  BY FS_Subset DEF IsSummable
<1>2. {} \in P
  BY DEF Sums
<1>3. ASSUME NEW T \in SUBSET U, T # {}, \A x \in T : T \ {x} \in P PROVE T \in P
  <2>1. pick(T) \in T /\ f[pick(T)] \in Int /\ h[pick(T)] = f[pick(T)]
    BY <1>3 DEF pick, IsSummable
  <2>2. /\ it[T] = f[pick(T)] + it[T \ {pick(T)}]
        /\ jt[T] = h[pick(T)] + jt[T \ {pick(T)}]
    BY <1>3 DEF Sums
  <2>3. T \ {pick(T)} \in P
    BY <2>1, <1>3
  <2> QED BY <2>1, <2>2, <2>3
<1>4. \A T \in SUBSET U : T \in P
  <2> HIDE DEF P
  <2> QED BY <1>1, <1>2, <1>3, SubsetInduction
<1> QED BY <1>4

\* A sum is the value of any of them.
LEMMA TotalIsSum ==
  ASSUME NEW f, NEW S, IsSummable(f, S), NEW it, Sums(f, S, it),
         NEW T \in SUBSET S
  PROVE  Total(f, T) = it[T] /\ it[T] \in Int
<1> DEFINE jt == CHOOSE x : Sums(f, T, x)
<1>1. IsSummable(f, T)
  BY FS_Subset DEF IsSummable
<1>2. Sums(f, T, jt)
  <2> HIDE DEF Sums
  <2> QED BY <1>1, SumsExists
<1>3. it[T] = jt[T] /\ it[T] \in Int
  <2> HIDE DEF jt
  <2> QED BY <1>2, SumsUnique
<1>4. Total(f, T) = jt[T]
  BY DEF Total, MapThenSumSet, MapThenFoldSet, Sums, pick
<1> QED BY <1>3, <1>4

\* Whatever element is taken out first, its summand is what it adds.
LEMMA TotalRemove ==
  ASSUME NEW f, NEW S, IsSummable(f, S), NEW y \in S
  PROVE  Total(f, S) = Total(f, S \ {y}) + f[y]
<1>1. PICK it : Sums(f, S, it)
  BY SumsExists
<1>2. \A T \in SUBSET S : Total(f, T) = it[T] /\ it[T] \in Int
  BY <1>1, TotalIsSum
<1> DEFINE P == {T \in SUBSET S : \A x \in T : it[T] = it[T \ {x}] + f[x]}
<1>3. {} \in P
  OBVIOUS
<1>4. ASSUME NEW T \in SUBSET S, T # {}, \A x \in T : T \ {x} \in P PROVE T \in P
  <2> DEFINE p == pick(T)
  <2>1. p \in T
    BY <1>4 DEF pick
  <2>2. it[T] = f[p] + it[T \ {p}]
    BY <1>1, <1>4 DEF Sums
  <2>3. \A x \in T : f[x] \in Int
    BY DEF IsSummable
  <2> HIDE DEF p
  <2>4. ASSUME NEW x \in T PROVE it[T] = it[T \ {x}] + f[x]
    <3>1. CASE x = p
      BY <2>1, <2>2, <2>3, <3>1, <1>2
    <3>2. CASE x # p
      <4>1. (T \ {p}) \ {x} = (T \ {x}) \ {p}
        OBVIOUS
      <4>2. it[T \ {p}] = it[(T \ {p}) \ {x}] + f[x]
        BY <3>2, <2>1, <1>4
      <4>3. it[T \ {x}] = it[(T \ {p}) \ {x}] + f[p]
        BY <3>2, <2>1, <1>4, <4>1
      <4>4. it[(T \ {p}) \ {x}] \in Int
        BY <1>2
      <4> QED BY <2>1, <2>2, <2>3, <4>2, <4>3, <4>4
    <3> QED BY <3>1, <3>2
  <2> QED BY <2>4
<1>5. \A T \in SUBSET S : T \in P
  <2> HIDE DEF P
  <2>1. IsFiniteSet(S)
    BY DEF IsSummable
  <2> QED BY <2>1, <1>3, <1>4, SubsetInduction
<1>6. it[S] = it[S \ {y}] + f[y]
  BY <1>5
<1> QED BY <1>2, <1>6

\* An element that is added adds its summand.
LEMMA TotalAdd ==
  ASSUME NEW f, NEW S, NEW x, x \notin S, IsSummable(f, S \union {x})
  PROVE  /\ Total(f, S \union {x}) = Total(f, S) + f[x]
         /\ Total(f, S) \in Int /\ Total(f, S \union {x}) \in Int
<1>1. PICK it : Sums(f, S \union {x}, it)
  BY SumsExists
<1>2. (S \union {x}) \ {x} = S
  OBVIOUS
<1> QED BY <1>1, <1>2, TotalIsSum, TotalRemove

\* A sum without summands is zero.
LEMMA TotalEmpty == \A f : Total(f, {}) = 0
<1> SUFFICES ASSUME NEW f PROVE Total(f, {}) = 0
  OBVIOUS
<1>1. IsSummable(f, {})
  BY FS_EmptySet DEF IsSummable
<1>2. PICK it : Sums(f, {}, it)
  BY <1>1, SumsExists
<1>3. it[{}] = 0
  BY <1>2 DEF Sums
<1> QED BY <1>1, <1>2, <1>3, TotalIsSum

\* A sum of numbers is a number.
LEMMA TotalIsInt ==
  ASSUME NEW f, NEW S, IsSummable(f, S)
  PROVE  Total(f, S) \in Int
<1>1. PICK it : Sums(f, S, it)
  BY SumsExists
<1> QED BY <1>1, TotalIsSum

\* Equal summands have equal sums.
LEMMA TotalSame ==
  ASSUME NEW f, NEW h, NEW S, IsSummable(f, S), \A x \in S : h[x] = f[x]
  PROVE  Total(h, S) = Total(f, S)
<1>1. IsSummable(h, S)
  BY DEF IsSummable
<1>2. PICK it : Sums(f, S, it)
  BY SumsExists
<1>3. PICK jt : Sums(h, S, jt)
  BY <1>1, SumsExists
<1>4. it[S] = jt[S]
  BY <1>2, <1>3, SumsUnique
<1> QED BY <1>1, <1>2, <1>3, <1>4, TotalIsSum

\* When one summand changes, the sum changes by as much.
LEMMA TotalChange ==
  ASSUME NEW f, NEW h, NEW S, IsSummable(f, S), IsSummable(h, S), NEW y \in S,
         \A x \in S \ {y} : h[x] = f[x]
  PROVE  Total(h, S) = Total(f, S) + (h[y] - f[y])
<1>1. IsSummable(f, S \ {y})
  BY FS_Subset DEF IsSummable
<1>2. Total(h, S \ {y}) = Total(f, S \ {y}) /\ Total(f, S \ {y}) \in Int
  BY <1>1, TotalSame, TotalIsInt
<1>3. f[y] \in Int /\ h[y] \in Int
  BY DEF IsSummable
<1> QED BY <1>2, <1>3, TotalRemove

\* When one summand grows by one, so does the sum.
LEMMA TotalIncrement ==
  \A f, h, S : \A y \in S :
    /\ IsSummable(f, S) /\ IsSummable(h, S)
    /\ h[y] = f[y] + 1 /\ \A x \in S \ {y} : h[x] = f[x]
    => Total(h, S) = Total(f, S) + 1
<1> SUFFICES ASSUME NEW f, NEW h, NEW S, NEW y \in S, IsSummable(f, S), IsSummable(h, S),
                    h[y] = f[y] + 1, \A x \in S \ {y} : h[x] = f[x]
             PROVE  Total(h, S) = Total(f, S) + 1
  OBVIOUS
<1>1. Total(h, S) = Total(f, S) + (h[y] - f[y])
  BY TotalChange
<1>2. f[y] \in Int /\ Total(f, S) \in Int
  BY TotalIsInt DEF IsSummable
<1> QED BY <1>1, <1>2

\* Larger summands have a larger sum.
LEMMA TotalMonotone ==
  ASSUME NEW f, NEW h, NEW S, IsSummable(f, S), IsSummable(h, S),
         \A x \in S : f[x] <= h[x]
  PROVE  Total(f, S) <= Total(h, S)
<1> DEFINE P == {T \in SUBSET S : Total(f, T) <= Total(h, T)}
<1>1. \A T \in SUBSET S : IsSummable(f, T) /\ IsSummable(h, T)
  BY FS_Subset DEF IsSummable
<1>2. {} \in P
  BY TotalEmpty
<1>3. ASSUME NEW T \in SUBSET S, T # {}, \A x \in T : T \ {x} \in P PROVE T \in P
  <2>1. PICK x \in T : TRUE
    BY <1>3
  <2>2. T \ {x} \in SUBSET S /\ Total(f, T \ {x}) <= Total(h, T \ {x})
    BY <1>3
  <2>3. /\ Total(f, T) = Total(f, T \ {x}) + f[x]
        /\ Total(h, T) = Total(h, T \ {x}) + h[x]
    BY <1>1, TotalRemove
  <2>4. Total(f, T \ {x}) \in Int /\ Total(h, T \ {x}) \in Int
    BY <1>1, <2>2, TotalIsInt
  <2>5. f[x] \in Int /\ h[x] \in Int /\ f[x] <= h[x]
    BY DEF IsSummable
  <2> QED BY <2>2, <2>3, <2>4, <2>5
<1>4. \A T \in SUBSET S : T \in P
  <2> HIDE DEF P
  <2>1. IsFiniteSet(S)
    BY DEF IsSummable
  <2> QED BY <2>1, <1>2, <1>3, SubsetInduction
<1> QED BY <1>4

\* The sum of equal numbers is a multiple of one of them.
LEMMA TotalConstant ==
  ASSUME NEW f, NEW S, IsFiniteSet(S), NEW c \in Int, \A x \in S : f[x] = c
  PROVE  Total(f, S) = Cardinality(S) * c
<1> DEFINE P == {T \in SUBSET S : Total(f, T) = Cardinality(T) * c}
<1>1. \A T \in SUBSET S : IsSummable(f, T) /\ IsFiniteSet(T) /\ Cardinality(T) \in Nat
  BY FS_Subset, FS_CardinalityType DEF IsSummable
<1>2. {} \in P
  BY TotalEmpty, FS_EmptySet
<1>3. ASSUME NEW T \in SUBSET S, T # {}, \A x \in T : T \ {x} \in P PROVE T \in P
  <2>1. PICK x \in T : TRUE
    BY <1>3
  <2> DEFINE k == Cardinality(T \ {x})
  <2>2. Total(f, T \ {x}) = k * c /\ k \in Nat
    BY <1>1, <1>3
  <2>3. Total(f, T) = Total(f, T \ {x}) + c
    BY <1>1, TotalRemove
  <2>4. Cardinality(T) = k + 1
    <3>1. Cardinality(T \ {x}) = Cardinality(T) - 1
      BY <1>1, FS_RemoveElement
    <3> QED BY <3>1, <1>1
  <2> HIDE DEF k
  <2>5. k * c + c = (k + 1) * c
    BY <2>2
  <2> QED BY <2>2, <2>3, <2>4, <2>5
<1>4. \A T \in SUBSET S : T \in P
  <2> HIDE DEF P
  <2> QED BY <1>2, <1>3, SubsetInduction
<1> QED BY <1>4

\* The sum over two parts of a set is the sum of their sums.
LEMMA TotalUnion ==
  ASSUME NEW f, NEW S, NEW U, IsSummable(f, S), IsSummable(f, U), S \intersect U = {}
  PROVE  Total(f, S \union U) = Total(f, S) + Total(f, U)
<1> DEFINE P == {T \in SUBSET U : Total(f, S \union T) = Total(f, S) + Total(f, T)}
<1>1. \A T \in SUBSET U : IsSummable(f, T) /\ IsSummable(f, S \union T)
  BY FS_Subset, FS_Union DEF IsSummable
<1>2. {} \in P
  <2>1. S \union {} = S
    OBVIOUS
  <2> QED BY <2>1, TotalEmpty, TotalIsInt
<1>3. ASSUME NEW T \in SUBSET U, T # {}, \A x \in T : T \ {x} \in P PROVE T \in P
  <2>1. PICK x \in T : TRUE
    BY <1>3
  <2>2. (S \union T) \ {x} = S \union (T \ {x})
    OBVIOUS
  <2>3. Total(f, S \union T) = Total(f, S \union (T \ {x})) + f[x]
    BY <1>1, <2>2, TotalRemove
  <2>4. Total(f, T) = Total(f, T \ {x}) + f[x]
    BY <1>1, TotalRemove
  <2>5. Total(f, S \union (T \ {x})) = Total(f, S) + Total(f, T \ {x})
    BY <1>3
  <2>6. Total(f, S) \in Int /\ Total(f, T \ {x}) \in Int /\ f[x] \in Int
    BY <1>1, TotalIsInt DEF IsSummable
  <2> QED BY <2>3, <2>4, <2>5, <2>6
<1>4. \A T \in SUBSET U : T \in P
  <2> HIDE DEF P
  <2>1. IsFiniteSet(U)
    BY DEF IsSummable
  <2> QED BY <2>1, <1>2, <1>3, SubsetInduction
<1> QED BY <1>4

\* A sum of natural numbers is one, and zero only if all of them are.
LEMMA TotalNat ==
  \A f, S : IsFiniteSet(S) /\ (\A x \in S : f[x] \in Nat) =>
    Total(f, S) \in Nat /\ (Total(f, S) = 0 <=> \A x \in S : f[x] = 0)
<1> SUFFICES ASSUME NEW f, NEW S, IsFiniteSet(S), \A x \in S : f[x] \in Nat
             PROVE  Total(f, S) \in Nat /\ (Total(f, S) = 0 <=> \A x \in S : f[x] = 0)
  OBVIOUS
<1> DEFINE P == {T \in SUBSET S : Total(f, T) \in Nat /\ (Total(f, T) = 0 <=> \A x \in T : f[x] = 0)}
<1>1. {} \in P
  BY TotalEmpty
<1>2. ASSUME NEW T \in SUBSET S, T # {}, \A x \in T : T \ {x} \in P PROVE T \in P
  <2>1. PICK x \in T : TRUE
    BY <1>2
  <2>2. IsSummable(f, T)
    BY FS_Subset DEF IsSummable
  <2>3. Total(f, T) = Total(f, T \ {x}) + f[x]
    BY <2>2, TotalRemove
  <2>4. T \ {x} \in P
    BY <1>2
  <2>5. /\ Total(f, T \ {x}) \in Nat
        /\ Total(f, T \ {x}) = 0 <=> \A y \in T \ {x} : f[y] = 0
    BY <2>4
  <2>6. f[x] \in Nat /\ ((\A y \in T : f[y] = 0) <=> f[x] = 0 /\ \A y \in T \ {x} : f[y] = 0)
    BY <2>1
  <2>7. Total(f, T) \in Nat
    BY <2>3, <2>5, <2>6
  <2>8. Total(f, T) = 0 <=> \A y \in T : f[y] = 0
    BY <2>3, <2>5, <2>6
  <2> QED BY <2>7, <2>8
<1>3. \A T \in SUBSET S : T \in P
  <2> HIDE DEF P
  <2> QED BY <1>1, <1>2, SubsetInduction
<1> QED BY <1>3

\* Summands that are zero can be left out.
LEMMA TotalRestrict ==
  \A f, S, U : IsSummable(f, S) /\ U \subseteq S /\ (\A x \in S \ U : f[x] = 0) =>
    Total(f, S) = Total(f, U)
<1> SUFFICES ASSUME NEW f, NEW S, NEW U, IsSummable(f, S), U \subseteq S,
                    \A x \in S \ U : f[x] = 0
             PROVE  Total(f, S) = Total(f, U)
  OBVIOUS
<1>1. IsSummable(f, U) /\ IsSummable(f, S \ U) /\ U \intersect (S \ U) = {} /\ U \union (S \ U) = S
  BY FS_Subset DEF IsSummable
<1>2. Total(f, S) = Total(f, U) + Total(f, S \ U)
  BY <1>1, TotalUnion
<1>3. Total(f, S \ U) = 0
  BY <1>1, TotalNat DEF IsSummable
<1>4. Total(f, U) \in Int
  BY <1>1, TotalIsInt
<1> QED BY <1>2, <1>3, <1>4

\* The sum of sums.
LEMMA TotalPlus ==
  \A f, g, k, S :
    IsSummable(g, S) /\ IsSummable(k, S) /\ (\A x \in S : f[x] = g[x] + k[x]) =>
      Total(f, S) = Total(g, S) + Total(k, S)
<1> SUFFICES ASSUME NEW f, NEW g, NEW k, NEW S, IsSummable(g, S), IsSummable(k, S),
                    \A x \in S : f[x] = g[x] + k[x]
             PROVE  Total(f, S) = Total(g, S) + Total(k, S)
  OBVIOUS
<1>1. IsSummable(f, S) /\ IsFiniteSet(S)
  BY DEF IsSummable
<1>2. \A T \in SUBSET S : IsSummable(f, T) /\ IsSummable(g, T) /\ IsSummable(k, T)
  BY <1>1, FS_Subset DEF IsSummable
<1> DEFINE P == {T \in SUBSET S : Total(f, T) = Total(g, T) + Total(k, T)}
<1>3. {} \in P
  BY TotalEmpty
<1>4. ASSUME NEW T \in SUBSET S, T # {}, \A x \in T : T \ {x} \in P PROVE T \in P
  <2>1. PICK x \in T : TRUE
    BY <1>4
  <2>2. /\ Total(f, T) = Total(f, T \ {x}) + f[x]
        /\ Total(g, T) = Total(g, T \ {x}) + g[x]
        /\ Total(k, T) = Total(k, T \ {x}) + k[x]
    BY <1>2, TotalRemove
  <2>3. /\ Total(f, T \ {x}) = Total(g, T \ {x}) + Total(k, T \ {x})
        /\ T \ {x} \in SUBSET S
    BY <1>4
  <2>4. Total(g, T \ {x}) \in Int /\ Total(k, T \ {x}) \in Int
    BY <1>2, <2>3, TotalIsInt
  <2>5. g[x] \in Int /\ k[x] \in Int /\ f[x] = g[x] + k[x]
    BY DEF IsSummable
  <2> QED BY <2>2, <2>3, <2>4, <2>5
<1>5. \A T \in SUBSET S : T \in P
  <2> HIDE DEF P
  <2> QED BY <1>1, <1>3, <1>4, SubsetInduction
<1> QED BY <1>5

\* The sum of multiples.
LEMMA TotalScale ==
  \A f, g, S : \A c \in Int :
    IsSummable(g, S) /\ (\A x \in S : f[x] = c * g[x]) => Total(f, S) = c * Total(g, S)
<1> SUFFICES ASSUME NEW f, NEW g, NEW S, NEW c \in Int, IsSummable(g, S),
                    \A x \in S : f[x] = c * g[x]
             PROVE  Total(f, S) = c * Total(g, S)
  OBVIOUS
<1>1. IsSummable(f, S) /\ IsFiniteSet(S)
  BY DEF IsSummable
<1>2. \A T \in SUBSET S : IsSummable(f, T) /\ IsSummable(g, T)
  BY <1>1, FS_Subset DEF IsSummable
<1> DEFINE P == {T \in SUBSET S : Total(f, T) = c * Total(g, T)}
<1>3. {} \in P
  BY TotalEmpty
<1>4. ASSUME NEW T \in SUBSET S, T # {}, \A x \in T : T \ {x} \in P PROVE T \in P
  <2>1. PICK x \in T : TRUE
    BY <1>4
  <2>2. /\ Total(f, T) = Total(f, T \ {x}) + f[x]
        /\ Total(g, T) = Total(g, T \ {x}) + g[x]
    BY <1>2, TotalRemove
  <2>3. /\ Total(f, T \ {x}) = c * Total(g, T \ {x})
        /\ T \ {x} \in SUBSET S
    BY <1>4
  <2>4. Total(g, T \ {x}) \in Int
    BY <1>2, <2>3, TotalIsInt
  <2>5. g[x] \in Int /\ f[x] = c * g[x]
    BY DEF IsSummable
  <2>6. \A a, b \in Int : c * (a + b) = c * a + c * b
    OBVIOUS
  <2> QED BY <2>2, <2>3, <2>4, <2>5, <2>6
<1>5. \A T \in SUBSET S : T \in P
  <2> HIDE DEF P
  <2> QED BY <1>1, <1>3, <1>4, SubsetInduction
<1> QED BY <1>5

\* A sum with one summand that is not zero.
LEMMA TotalSingle ==
  \A f, S : \A y \in S : IsSummable(f, S) /\ (\A x \in S \ {y} : f[x] = 0) => Total(f, S) = f[y]
<1> SUFFICES ASSUME NEW f, NEW S, NEW y \in S, IsSummable(f, S), \A x \in S \ {y} : f[x] = 0
             PROVE  Total(f, S) = f[y]
  OBVIOUS
<1>1. Total(f, S) = Total(f, S \ {y}) + f[y]
  BY TotalRemove
<1>2. Total(f, S \ {y}) = 0
  BY FS_Subset, TotalNat DEF IsSummable
<1> QED BY <1>1, <1>2 DEF IsSummable

\* h has a row for each element of A and a column, in t, for each element of B;
\* rows and cols are their sums.
DoubleSum(A, B, h, t, rows, cols) ==
  /\ IsFiniteSet(A) /\ IsFiniteSet(B)
  /\ \A x \in A : \A y \in B : h[x][y] \in Int /\ t[y][x] = h[x][y]
  /\ \A x \in A : rows[x] = Total(h[x], B)
  /\ \A y \in B : cols[y] = Total(t[y], A)

\* The order of two sums does not matter.
LEMMA TotalExchange ==
  \A A, B, h, t, rows, cols :
    DoubleSum(A, B, h, t, rows, cols) => Total(rows, A) = Total(cols, B)
<1> SUFFICES ASSUME NEW A, NEW B, NEW h, NEW t, NEW rows, NEW cols,
                    DoubleSum(A, B, h, t, rows, cols)
             PROVE  Total(rows, A) = Total(cols, B)
  OBVIOUS
<1> SUFFICES ASSUME IsFiniteSet(A), IsFiniteSet(B),
                    \A x \in A : \A y \in B : h[x][y] \in Int /\ t[y][x] = h[x][y],
                    \A x \in A : rows[x] = Total(h[x], B),
                    \A y \in B : cols[y] = Total(t[y], A)
             PROVE  Total(rows, A) = Total(cols, B)
  BY DEF DoubleSum
<1> DEFINE sums(T) == [y \in B |-> Total(t[y], T)]
           P == {T \in SUBSET A : Total(rows, T) = Total(sums(T), B)}
<1>1. \A x \in A : IsSummable(h[x], B)
  BY DEF IsSummable
<1>2. IsSummable(rows, A)
  <2>1. \A x \in A : rows[x] \in Int
    BY <1>1, TotalIsInt
  <2> QED BY <2>1 DEF IsSummable
<1>3. \A y \in B, T \in SUBSET A : IsSummable(t[y], T)
  BY FS_Subset DEF IsSummable
<1>4. \A T \in SUBSET A : IsSummable(rows, T) /\ IsSummable(sums(T), B)
                          /\ \A y \in B : sums(T)[y] = Total(t[y], T)
  <2> SUFFICES ASSUME NEW T \in SUBSET A
               PROVE  IsSummable(rows, T) /\ IsSummable(sums(T), B)
                      /\ \A y \in B : sums(T)[y] = Total(t[y], T)
    OBVIOUS
  <2>1. IsSummable(rows, T)
    BY <1>2, FS_Subset DEF IsSummable
  <2>2. \A y \in B : sums(T)[y] = Total(t[y], T)
    OBVIOUS
  <2>3. \A y \in B : Total(t[y], T) \in Int
    BY <1>3, TotalIsInt
  <2> HIDE DEF sums
  <2> QED BY <2>1, <2>2, <2>3 DEF IsSummable
<1> HIDE DEF sums
<1>5. {} \in P
  <2>1. \A y \in B : sums({})[y] = 0
    BY <1>4, TotalEmpty
  <2>2. Total(sums({}), B) = 0
    BY <2>1, TotalNat
  <2> QED BY <2>2, TotalEmpty
<1>6. ASSUME NEW T \in SUBSET A, T # {}, \A x \in T : T \ {x} \in P PROVE T \in P
  <2>1. PICK x \in T : TRUE
    BY <1>6
  <2> DEFINE U == T \ {x}
  <2>2. U \in SUBSET A /\ x \in A /\ Total(rows, U) = Total(sums(U), B)
    BY <1>6
  <2>3. Total(rows, T) = Total(rows, U) + Total(h[x], B)
    BY <1>4, TotalRemove
  <2>4. \A y \in B : sums(T)[y] = sums(U)[y] + h[x][y]
    <3> SUFFICES ASSUME NEW y \in B PROVE sums(T)[y] = sums(U)[y] + h[x][y]
      OBVIOUS
    <3>1. IsSummable(t[y], T)
      BY <1>3
    <3>2. Total(t[y], T) = Total(t[y], T \ {x}) + t[y][x]
      BY <3>1, TotalRemove
    <3> QED BY <1>4, <2>2, <3>2
  <2>5. Total(sums(T), B) = Total(sums(U), B) + Total(h[x], B)
    <3>1. IsSummable(sums(U), B) /\ IsSummable(h[x], B)
      BY <1>1, <1>4, <2>2
    <3> HIDE DEF U
    <3> QED BY <2>4, <3>1, TotalPlus
  <2> QED BY <2>2, <2>3, <2>5
<1>7. \A T \in SUBSET A : T \in P
  <2> HIDE DEF P
  <2> QED BY <1>5, <1>6, SubsetInduction
<1>8. Total(sums(A), B) = Total(cols, B)
  <2>1. IsSummable(sums(A), B) /\ \A y \in B : cols[y] = sums(A)[y]
    BY <1>4
  <2> QED BY <2>1, TotalSame
<1> QED BY <1>7, <1>8

\* A sum over a set is the sum of the sums over its classes, c[x] being the
\* class of x.
Classes(E, V, w, c, sums) ==
  /\ IsSummable(w, E) /\ IsFiniteSet(V)
  /\ \A x \in E : c[x] \in V
  /\ \A v \in V : sums[v] = Total(w, {x \in E : c[x] = v})

LEMMA TotalByClass ==
  \A E, V, w, c, sums : Classes(E, V, w, c, sums) => Total(sums, V) = Total(w, E)
<1> SUFFICES ASSUME NEW E, NEW V, NEW w, NEW c, NEW sums, Classes(E, V, w, c, sums)
             PROVE  Total(sums, V) = Total(w, E)
  OBVIOUS
<1> DEFINE h == [x \in E |-> [v \in V |-> IF c[x] = v THEN w[x] ELSE 0]]
           t == [v \in V |-> [x \in E |-> IF c[x] = v THEN w[x] ELSE 0]]
           class(v) == {x \in E : c[x] = v}
<1>1. IsFiniteSet(E) /\ IsFiniteSet(V) /\ \A x \in E : w[x] \in Int /\ c[x] \in V
  BY DEF Classes, IsSummable
<1>2. \A x \in E, v \in V : h[x][v] \in Int /\ t[v][x] = h[x][v]
  BY <1>1
<1>3. ASSUME NEW x \in E PROVE w[x] = Total(h[x], V)
  <2>1. /\ \A v \in V : h[x][v] \in Int
        /\ \A v \in V \ {c[x]} : h[x][v] = 0
        /\ c[x] \in V /\ h[x][c[x]] = w[x]
    BY <1>1
  <2> HIDE DEF h
  <2>2. IsSummable(h[x], V)
    BY <1>1, <2>1 DEF IsSummable
  <2> QED BY <2>1, <2>2, TotalSingle
<1>4. ASSUME NEW v \in V PROVE sums[v] = Total(t[v], E)
  <2>1. /\ \A x \in E : t[v][x] \in Int
        /\ \A x \in class(v) : t[v][x] = w[x]
        /\ \A x \in E \ class(v) : t[v][x] = 0
        /\ class(v) \subseteq E
    BY <1>1
  <2>2. sums[v] = Total(w, class(v))
    BY DEF Classes
  <2> HIDE DEF t, class
  <2>3. IsSummable(t[v], E) /\ IsSummable(w, class(v))
    BY <1>1, <2>1, FS_Subset DEF IsSummable
  <2>4. Total(t[v], E) = Total(t[v], class(v))
    BY <2>1, <2>3, TotalRestrict
  <2>5. Total(t[v], class(v)) = Total(w, class(v))
    BY <2>1, <2>3, TotalSame
  <2> QED BY <2>2, <2>4, <2>5
<1> HIDE DEF h, t
<1>5. DoubleSum(E, V, h, t, w, sums)
  BY <1>1, <1>2, <1>3, <1>4 DEF DoubleSum
<1> QED BY <1>5, TotalExchange

\* The absolute value of a sum is at most the sum of the absolute values.
abs(x) == IF x < 0 THEN -x ELSE x

LEMMA TotalAbs ==
  \A f, h, S : IsSummable(f, S) /\ (\A x \in S : h[x] = abs(f[x])) =>
    IsSummable(h, S) /\ abs(Total(f, S)) <= Total(h, S)
<1> SUFFICES ASSUME NEW f, NEW h, NEW S, IsSummable(f, S), \A x \in S : h[x] = abs(f[x])
             PROVE  IsSummable(h, S) /\ abs(Total(f, S)) <= Total(h, S)
  OBVIOUS
<1> DEFINE g == [x \in S |-> (-1) * f[x]]
<1>1. IsFiniteSet(S) /\ \A x \in S : f[x] \in Int /\ h[x] \in Int /\ f[x] <= h[x] /\ -f[x] <= h[x]
  BY DEF IsSummable, abs
<1>2. \A x \in S : g[x] = (-1) * f[x] /\ g[x] \in Int /\ g[x] <= h[x]
  BY <1>1
<1> HIDE DEF g
<1>3. IsSummable(h, S) /\ IsSummable(g, S)
  BY <1>1, <1>2 DEF IsSummable
<1>4. Total(f, S) <= Total(h, S) /\ Total(g, S) <= Total(h, S)
  BY <1>1, <1>2, <1>3, TotalMonotone
<1>5. Total(g, S) = (-1) * Total(f, S)
  BY <1>2, TotalScale
<1>6. Total(f, S) \in Int /\ Total(h, S) \in Int
  BY <1>3, TotalIsInt
<1> QED BY <1>3, <1>4, <1>5, <1>6 DEF abs

\* R orders S: strictly and totally.
Orders(R, S) ==
  /\ \A x \in S : <<x, x>> \notin R
  /\ \A x, y, z \in S : <<x, y>> \in R /\ <<y, z>> \in R => <<x, z>> \in R
  /\ \A x, y \in S : x = y \/ <<x, y>> \in R \/ <<y, x>> \in R

\* How many elements of S come before x.
before(R, S, x) == {y \in S : <<y, x>> \in R}
rank(R, S, x) == Cardinality(before(R, S, x))

\* A finite set that is not empty has a last element.
LEMMA LastExists ==
  ASSUME NEW R, NEW S, IsFiniteSet(S), Orders(R, S), S # {}
  PROVE  \E x \in S : \A y \in S \ {x} : <<y, x>> \in R
<1> DEFINE P == {T \in SUBSET S : T # {} => \E x \in T : \A y \in T \ {x} : <<y, x>> \in R}
<1>1. {} \in P
  OBVIOUS
<1>2. ASSUME NEW T \in SUBSET S, T # {}, \A x \in T : T \ {x} \in P PROVE T \in P
  <2>1. PICK z \in T : TRUE
    BY <1>2
  <2>2. CASE T \ {z} = {}
    BY <2>2
  <2>3. CASE T \ {z} # {}
    <3>1. PICK x \in T \ {z} : \A y \in (T \ {z}) \ {x} : <<y, x>> \in R
      BY <1>2, <2>3
    <3>2. CASE <<z, x>> \in R
      BY <3>1, <3>2
    <3>3. CASE <<x, z>> \in R
      <4>1. \A y \in T \ {z} : <<y, z>> \in R
        BY <3>1, <3>3 DEF Orders
      <4> QED BY <4>1
    <3> QED BY <3>2, <3>3 DEF Orders
  <2> QED BY <2>2, <2>3
<1>3. \A T \in SUBSET S : T \in P
  <2> HIDE DEF P
  <2> QED BY <1>1, <1>2, SubsetInduction
<1> QED BY <1>3

\* Every number below the size of a finite ordered set is the rank of one of
\* its elements.
LEMMA RankExists ==
  ASSUME NEW R, NEW S, IsFiniteSet(S), Orders(R, S), NEW j \in Nat, j < Cardinality(S)
  PROVE  \E x \in S : rank(R, S, x) = j
<1> DEFINE Ranked(T) == \A l \in Nat : l < Cardinality(T) => \E x \in T : rank(R, T, x) = l
           P == {T \in SUBSET S : Ranked(T)}
<1>1. {} \in P
  BY FS_EmptySet
<1>2. ASSUME NEW T \in SUBSET S, T # {}, \A x \in T : T \ {x} \in P PROVE T \in P
  <2>1. IsFiniteSet(T) /\ Orders(R, T)
    BY FS_Subset DEF Orders
  <2>2. PICK z \in T : \A y \in T \ {z} : <<y, z>> \in R
    BY <1>2, <2>1, LastExists
  <2>3. Cardinality(T \ {z}) = Cardinality(T) - 1 /\ Cardinality(T) \in Nat
    BY <2>1, FS_RemoveElement, FS_CardinalityType
  <2>4. before(R, T, z) = T \ {z}
    BY <2>1, <2>2 DEF before, Orders
  <2>5. \A x \in T \ {z} : before(R, T, x) = before(R, T \ {z}, x)
    BY <2>1, <2>2 DEF before, Orders
  <2>6. Ranked(T \ {z})
    BY <1>2
  <2> SUFFICES ASSUME NEW l \in Nat, l < Cardinality(T)
               PROVE  \E x \in T : rank(R, T, x) = l
    OBVIOUS
  <2>7. CASE l = Cardinality(T) - 1
    BY <2>3, <2>4, <2>7 DEF rank
  <2>8. CASE l < Cardinality(T) - 1
    <3>1. PICK x \in T \ {z} : rank(R, T \ {z}, x) = l
      BY <2>3, <2>6, <2>8
    <3> QED BY <2>5, <3>1 DEF rank
  <2> QED BY <2>3, <2>7, <2>8
<1>3. \A T \in SUBSET S : T \in P
  <2> HIDE DEF P
  <2> QED BY <1>1, <1>2, SubsetInduction
<1> QED BY <1>3

\* Ranks grow with the order and are below the size of the set.
LEMMA RankGrows ==
  ASSUME NEW R, NEW S, IsFiniteSet(S), Orders(R, S), NEW x \in S
  PROVE  /\ rank(R, S, x) \in Nat /\ rank(R, S, x) < Cardinality(S)
         /\ \A y \in S : <<x, y>> \in R => rank(R, S, x) < rank(R, S, y)
<1>1. ASSUME NEW T \in SUBSET S, before(R, S, x) \subseteq T, x \in T
      PROVE  rank(R, S, x) \in Nat /\ rank(R, S, x) < Cardinality(T)
  <2>1. IsFiniteSet(T) /\ Cardinality(T) \in Nat
    BY FS_Subset, FS_CardinalityType
  <2>2. x \notin before(R, S, x)
    BY DEF before, Orders
  <2>3. before(R, S, x) \in SUBSET T /\ before(R, S, x) # T
    BY <1>1, <2>2
  <2>4. IsFiniteSet(before(R, S, x))
    BY <2>1, <2>3, FS_Subset
  <2>5. Cardinality(before(R, S, x)) <= Cardinality(T)
    BY <2>1, <2>3, FS_Subset
  <2>6. Cardinality(before(R, S, x)) # Cardinality(T)
    BY <2>1, <2>3, FS_Subset
  <2> QED BY <2>1, <2>4, <2>5, <2>6, FS_CardinalityType DEF rank
<1>2. before(R, S, x) \subseteq S
  BY DEF before
<1>3. ASSUME NEW y \in S, <<x, y>> \in R PROVE rank(R, S, x) < rank(R, S, y)
  <2>1. before(R, S, x) \subseteq before(R, S, y) /\ x \in before(R, S, y)
    BY <1>3 DEF before, Orders
  <2>2. before(R, S, y) \subseteq S
    BY DEF before
  <2> QED BY <1>1, <2>1, <2>2 DEF rank
<1> QED BY <1>1, <1>2, <1>3

\* Only one element has a given rank.
LEMMA RankUnique ==
  ASSUME NEW R, NEW S, IsFiniteSet(S), Orders(R, S), NEW x \in S, NEW y \in S,
         rank(R, S, x) = rank(R, S, y)
  PROVE  x = y
<1>1. rank(R, S, x) \in Nat /\ rank(R, S, y) \in Nat
  BY RankGrows
<1>2. \A u, v \in S : <<u, v>> \in R => rank(R, S, u) < rank(R, S, v)
  BY RankGrows
<1>3. <<x, y>> \notin R /\ <<y, x>> \notin R
  BY <1>1, <1>2
<1> QED BY <1>3 DEF Orders

\* The size of an interval.
LEMMA Intervals ==
  \A a, b \in Int : /\ IsFiniteSet(a .. b)
                    /\ Cardinality(a .. b) = IF a > b THEN 0 ELSE b - a + 1
BY FS_Interval

\* A quotient, and what is left.
LEMMA Quotient ==
  ASSUME NEW a \in Nat, NEW b \in Nat, b # 0
  PROVE  a \div b \in Nat /\ b * (a \div b) <= a /\ a < b * (a \div b) + b
OBVIOUS

-----------------------------------------------------------------------------
\* The hypothesis of the applications whose plain updates must not meet in a
\* destination: graphs partitioned by source are never traversed as COO lists.
SafelyPartitioned == \A g \in Graphs : g.source => g.part_ver

\* A vertex reaches itself.
LEMMA ReachesSelf ==
  ASSUME NEW E, NEW v \in Vertex
  PROVE  Reaches(E, v, v)
BY DEF Reaches

\* Reachability extends along an edge.
LEMMA ReachesEdge ==
  ASSUME NEW E, NEW e \in E, NEW u, Reaches(E, u, src(e))
  PROVE  Reaches(E, u, dst(e))
BY DEF Reaches, Closed

\* Vertices compare as integers.
LEMMA VertexIsInt == \A v \in Vertex : v \in Int /\ v >= 0
BY SizeAssumption DEF Vertex

\* A stable labelling below the vertex numbers is minimal.
LEMMA StableIsMinimum ==
  ASSUME NEW E, \A e \in E : IsEdge(e),
         NEW l \in [Vertex -> Vertex],
         \A v \in Vertex : l[v] <= v,
         \A e \in E : l[dst(e)] <= l[src(e)]
  PROVE  \A u, v \in Vertex : Reaches(E, u, v) => l[v] <= u
<1> SUFFICES ASSUME NEW u \in Vertex, NEW v \in Vertex, Reaches(E, u, v)
             PROVE  l[v] <= u
  OBVIOUS
<1> DEFINE S == {x \in Vertex : l[x] <= u}
<1>1. Closed(E, S)
  <2> SUFFICES ASSUME NEW e \in E, src(e) \in S PROVE dst(e) \in S
    BY DEF Closed
  <2>1. dst(e) \in Vertex
    BY DEF IsEdge
  <2>2. l[dst(e)] <= l[src(e)] /\ l[src(e)] <= u
    OBVIOUS
  <2>3. l[dst(e)] \in Int /\ l[src(e)] \in Int /\ u \in Int
    BY <2>1, SizeAssumption DEF Vertex
  <2> QED BY <2>1, <2>2, <2>3
<1>2. u \in S
  OBVIOUS
<1>3. S \in SUBSET Vertex
  OBVIOUS
<1> QED BY <1>1, <1>2, <1>3 DEF Reaches

-----------------------------------------------------------------------------
\* A graph has finitely many edges between its vertices.
LEMMA GraphFacts ==
  ASSUME GA \in Graphs
  PROVE  /\ IsFiniteSet(GA.edges)
         /\ \A e \in GA.edges : e \in Edge /\ src(e) \in Vertex /\ dst(e) \in Vertex
BY GraphsAssumption, EdgeAssumption DEF IsEdge

\* The entries of a frontier form a finite set.
LEMMA SlotsFinite ==
  ASSUME NEW copies \in [Vertex -> Nat]
  PROVE  IsFiniteSet(Slots(copies))
<1> DEFINE f == [v \in Vertex |-> {v} \X (1 .. copies[v])]
           T == {{v} \X (1 .. copies[v]) : v \in Vertex}
<1>1. IsFiniteSet(Vertex)
  BY SizeAssumption, FS_Interval DEF Vertex
<1>2. f \in Surjection(Vertex, T)
  BY DEF Surjection
<1>3. IsFiniteSet(T)
  BY <1>1, <1>2, FS_Surjection
<1>4. ASSUME NEW X \in T PROVE IsFiniteSet(X)
  <2>1. PICK v \in Vertex : X = {v} \X (1 .. copies[v])
    OBVIOUS
  <2>2. copies[v] \in Int
    OBVIOUS
  <2>3. IsFiniteSet(1 .. copies[v])
    BY <2>2, FS_Interval
  <2>4. IsFiniteSet({v})
    BY FS_Singleton
  <2> QED BY <2>1, <2>3, <2>4, FS_Product
<1> QED BY <1>3, <1>4, FS_UNION DEF Slots

\* An entry for v exists exactly when v occurs in the frontier.
LEMMA SlotOf ==
  ASSUME NEW copies \in [Vertex -> Nat], NEW v \in Vertex
  PROVE  copies[v] > 0 <=> <<v, 1>> \in Slots(copies)
BY DEF Slots

\* d_m is zero exactly for a frontier without entries.
LEMMA CountZero ==
  ASSUME NEW copies \in [Vertex -> Nat]
  PROVE  /\ Count(copies) \in Nat
         /\ Count(copies) = 0 => \A v \in Vertex : copies[v] = 0
<1>1. Count(copies) \in Nat
  BY SlotsFinite, FS_CardinalityType DEF Count
<1>2. Count(copies) = 0 => Slots(copies) = {}
  BY SlotsFinite, FS_EmptySet DEF Count
<1>3. ASSUME NEW v \in Vertex, Slots(copies) = {} PROVE copies[v] = 0
  <2>1. copies[v] \in Nat /\ ~(copies[v] > 0)
    BY <1>3, SlotOf
  <2> QED BY <2>1
<1> QED BY <1>1, <1>2, <1>3

\* num_out_edges is zero only when no entry has an out-edge.
LEMMA OutEdgesZero ==
  ASSUME NEW copies \in [Vertex -> Nat], NEW E, IsFiniteSet(E)
  PROVE  /\ OutEdges(copies, E) \in Nat
         /\ OutEdges(copies, E) = 0 =>
              \A e \in E : src(e) \in Vertex => copies[src(e)] = 0
<1>1. IsFiniteSet(Slots(copies) \X E)
  BY SlotsFinite, FS_Product
<1>2. IsFiniteSet(OutPairs(copies, E))
  BY <1>1, FS_Subset DEF OutPairs
<1>3. OutEdges(copies, E) \in Nat
  BY <1>2, FS_CardinalityType DEF OutEdges
<1>4. ASSUME NEW e \in E, src(e) \in Vertex, copies[src(e)] # 0
      PROVE  OutPairs(copies, E) # {}
  <2>1. <<src(e), 1>> \in Slots(copies)
    BY <1>4, SlotOf
  <2>2. <<<<src(e), 1>>, e>> \in OutPairs(copies, E)
    BY <2>1 DEF OutPairs
  <2> QED BY <2>2
<1> QED BY <1>2, <1>3, <1>4, FS_EmptySet DEF OutEdges

\* The empty frontier has no entries and no out-edges.
LEMMA NoneFacts ==
  /\ None \in [Vertex -> Nat]
  /\ Count(None) = 0
  /\ \A E : OutEdges(None, E) = 0
<1>1. Slots(None) = {}
  BY DEF Slots, None
<1>2. Count(None) = 0
  BY <1>1, FS_EmptySet DEF Count
<1>3. ASSUME NEW E PROVE OutEdges(None, E) = 0
  BY <1>1, FS_EmptySet DEF OutEdges, OutPairs
<1> QED BY <1>2, <1>3 DEF None

-----------------------------------------------------------------------------
\* A frontier built from its entries has the right type and records.
LEMMA FrontierOfFacts ==
  ASSUME NEW r \in {"dense", "sparse"}, NEW copies \in [Vertex -> Nat],
         NEW E, IsFiniteSet(E)
  PROVE  frontierOf(r, copies, E) \in FrontierType
<1>1. Count(copies) \in Nat /\ OutEdges(copies, E) \in Nat
  BY CountZero, OutEdgesZero
<1> QED BY <1>1 DEF frontierOf, FrontierType

\* The bits frontier of the applications that start everywhere.
LEMMA BitsFacts ==
  ASSUME NEW E, IsFiniteSet(E)
  PROVE  bits(E) \in FrontierType
<1>1. Cardinality(E) \in Nat
  BY FS_CardinalityType
<1> QED BY <1>1, NoneFacts, SizeAssumption DEF bits, FrontierType

\* The empty frontier.
LEMMA EmptyFacts == empty \in FrontierType
BY NoneFacts DEF empty, FrontierType

\* There are three traversals, and COO is taken only without -v vertex.
LEMMA ModeFacts ==
  /\ Mode \in {"sparse", "coo", "csc"}
  /\ Mode = "coo" => ~GA.part_ver
BY DEF Mode

\* An empty frontier activates no vertex.
LEMMA EmptyIsInactive ==
  ASSUME EngineTypeOK, FrontierInv, isEmpty
  PROVE  Active = {}
<1>1. Frontier.copies \in [Vertex -> Nat]
  BY DEF EngineTypeOK, FrontierType
<1>2. Frontier.rep # "bits"
  BY SizeAssumption DEF FrontierInv, isEmpty
<1>3. \A v \in Vertex : Frontier.copies[v] = 0
  BY <1>1, <1>2, CountZero DEF FrontierInv, isEmpty
<1> QED BY <1>2, <1>3 DEF Active

\* A frontier that is not empty activates a vertex.
LEMMA NotEmptyIsActive ==
  ASSUME EngineTypeOK, FrontierInv, ~isEmpty
  PROVE  Active # {}
<1>1. Frontier.copies \in [Vertex -> Nat]
  BY DEF EngineTypeOK, FrontierType
<1>2. CASE Frontier.rep = "bits"
  BY <1>2, SizeAssumption DEF Active, Vertex
<1>3. CASE Frontier.rep # "bits"
  <2>1. SUFFICES ASSUME Active = {} PROVE FALSE
    OBVIOUS
  <2>2. \A v \in Vertex : Frontier.copies[v] = 0
    BY <1>1, <1>3, <2>1 DEF Active
  <2>3. Frontier.copies = None
    BY <1>1, <2>2 DEF None
  <2> QED BY <1>3, <2>3, NoneFacts DEF FrontierInv, isEmpty
<1> QED BY <1>2, <1>3

\* Marking a vertex keeps the types and counts it; nothing is unmarked.
LEMMA MarkedFacts ==
  ASSUME v1 \in [Vertex -> Nat], NEW d \in Vertex
  PROVE  /\ Marked(d) \in [Vertex -> Nat]
         /\ Marked(d)[d] > 0
         /\ \A v \in Vertex \ {d} : Marked(d)[v] = v1[v]
BY DEF Marked

\* When edgeMap returns early, no active vertex has an out-edge.
LEMMA NoOutEdgesFacts ==
  ASSUME EngineTypeOK, GA \in Graphs, FrontierInv, NoOutEdges
  PROVE  /\ \A e \in GA.edges : src(e) \notin Active
         /\ Active' = {}
         /\ EngineTypeOK'
         /\ FrontierInv'
<1>1. Frontier.copies \in [Vertex -> Nat]
  BY DEF EngineTypeOK, FrontierType
<1>2. ASSUME NEW e \in GA.edges PROVE src(e) \notin Active
  <2>1. CASE Frontier.rep = "bits"
    <3>1. Cardinality(GA.edges) = 0
      BY <2>1 DEF FrontierInv, NoOutEdges
    <3>2. GA.edges = {}
      BY <3>1, GraphFacts, FS_EmptySet
    <3> QED BY <3>2
  <2>2. CASE Frontier.rep # "bits"
    <3>1. OutEdges(Frontier.copies, GA.edges) = 0
      BY <2>2 DEF FrontierInv, NoOutEdges
    <3>2. Frontier.copies[src(e)] = 0
      BY <3>1, <1>1, GraphFacts, OutEdgesZero
    <3> QED BY <3>2, <2>2 DEF Active
  <2> QED BY <2>1, <2>2
<1>3. Frontier' = empty
  BY DEF NoOutEdges
<1>4. Active' = {}
  BY <1>3 DEF Active, empty, None
<1>5. FrontierInv'
  BY <1>3, NoneFacts DEF FrontierInv, empty, Count, OutEdges
<1>6. EngineTypeOK'
  BY <1>3, EmptyFacts DEF EngineTypeOK, NoOutEdges
<1> QED BY <1>2, <1>4, <1>5, <1>6

\* The jobs of a round are edges of active sources, and every such edge is
\* among them, in each of the three traversals.
LEMMA TraverseFacts ==
  ASSUME EngineTypeOK, GA \in Graphs, FrontierInv, Traverse
  PROVE  /\ EngineTypeOK'
         /\ FrontierInv'
         /\ Active' = Active
         /\ \A e \in GA.edges : src(e) \in Active => \E job \in todo' : job[2] = e
<1>1. Frontier.copies \in [Vertex -> Nat]
  BY DEF EngineTypeOK, FrontierType
<1>2. Jobs(Mode) \subseteq Nat \X GA.edges
  <2>1. CASE Mode = "sparse"
    <3>1. ASSUME NEW x \in OutPairs(Frontier.copies, GA.edges)
          PROVE  x[1][2] \in Nat /\ x[2] \in GA.edges
      BY <1>1 DEF OutPairs, Slots
    <3> QED BY <3>1, <2>1 DEF Jobs
  <2>2. CASE Mode # "sparse"
    BY <2>2 DEF Jobs
  <2> QED BY <2>1, <2>2
<1>3. EngineTypeOK'
  BY <1>2, ModeFacts, NoneFacts DEF EngineTypeOK, Traverse, TraverseOver
<1>4. FrontierInv' /\ Active' = Active
  BY DEF FrontierInv, Traverse, TraverseOver, Active
<1>5. ASSUME NEW e \in GA.edges, src(e) \in Active
      PROVE  \E job \in Jobs(Mode) : job[2] = e
  <2>1. CASE Mode # "sparse"
    <3>1. <<1, e>> \in Jobs(Mode)
      BY <2>1, <1>5 DEF Jobs
    <3> QED BY <3>1
  <2>2. CASE Mode = "sparse"
    <3>1. Frontier.rep # "bits"
      <4>1. SUFFICES ASSUME Frontier.rep = "bits" PROVE FALSE
        OBVIOUS
      <4>2. Count(Frontier.copies) = 0 /\ Frontier.d_m = N
        BY <4>1, NoneFacts DEF FrontierInv
      <4>3. toSparseAborts
        BY <4>1, <4>2, SizeAssumption DEF toSparseAborts
      <4> QED BY <4>3, <2>2 DEF Traverse, TraverseOver
    <3>2. Frontier.copies[src(e)] > 0 /\ src(e) \in Vertex
      BY <3>1, <1>5 DEF Active
    <3>3. <<src(e), 1>> \in Slots(Frontier.copies)
      BY <3>2, <1>1, SlotOf
    <3>4. <<<<src(e), 1>>, e>> \in OutPairs(Frontier.copies, GA.edges)
      BY <3>3 DEF OutPairs
    <3>5. <<1, e>> \in Jobs(Mode)
      BY <3>4, <2>2 DEF Jobs
    <3> QED BY <3>5
  <2> QED BY <2>1, <2>2
<1> QED BY <1>3, <1>4, <1>5 DEF Traverse, TraverseOver

\* Only edges of active sources are among the jobs of a round.
LEMMA JobsAreActive ==
  ASSUME EngineTypeOK, FrontierInv, Traverse
  PROVE  \A job \in todo' : src(job[2]) \in Active
<1>1. Frontier.copies \in [Vertex -> Nat] /\ todo' = Jobs(Mode)
  BY DEF EngineTypeOK, FrontierType, Traverse, TraverseOver
<1>2. CASE Mode # "sparse"
  BY <1>1, <1>2 DEF Jobs
<1>3. CASE Mode = "sparse"
  <2>1. Frontier.rep # "bits"
    BY <1>3, NoneFacts, SizeAssumption DEF FrontierInv, Traverse, TraverseOver, toSparseAborts
  <2>2. ASSUME NEW x \in OutPairs(Frontier.copies, GA.edges)
        PROVE  src(x[2]) \in Active
    <3>1. src(x[2]) = x[1][1] /\ x[1] \in Slots(Frontier.copies)
      BY DEF OutPairs
    <3>2. PICK v \in Vertex : x[1] \in {v} \X (1 .. Frontier.copies[v])
      BY <3>1 DEF Slots
    <3>3. x[1][1] = v /\ Frontier.copies[v] > 0
      BY <3>2, <1>1
    <3> QED BY <3>1, <3>3, <2>1 DEF Active
  <2>3. \A job \in todo' : \E x \in OutPairs(Frontier.copies, GA.edges) : job[2] = x[2]
    BY <1>1, <1>3 DEF Jobs
  <2> QED BY <2>2, <2>3
<1> QED BY <1>2, <1>3

\* The output of a round activates the vertices it marked.
LEMMA ReturnFacts ==
  ASSUME EngineTypeOK, GA \in Graphs, ReturnFromEdgeMap
  PROVE  /\ EngineTypeOK'
         /\ FrontierInv'
         /\ Active' = {v \in Vertex : v1[v] > 0}
<1> DEFINE r == IF mode = "sparse" THEN "sparse" ELSE "dense"
<1>1. v1 \in [Vertex -> Nat] /\ r \in {"dense", "sparse"}
  BY DEF EngineTypeOK
<1>2. Frontier' = frontierOf(r, v1, GA.edges) /\ GA' = GA
  BY DEF ReturnFromEdgeMap
<1>3. frontierOf(r, v1, GA.edges) \in FrontierType
  BY <1>1, GraphFacts, FrontierOfFacts
<1>4. EngineTypeOK'
  BY <1>2, <1>3, NoneFacts DEF EngineTypeOK, ReturnFromEdgeMap
<1>5. /\ Frontier'.rep = r /\ r # "bits"
      /\ Frontier'.copies = v1
      /\ Frontier'.numVertices = N
      /\ Frontier'.d_m = Count(v1)
      /\ Frontier'.num_out_edges = OutEdges(v1, GA.edges)
  BY <1>2 DEF frontierOf
<1>6. FrontierInv'
  BY <1>2, <1>5 DEF FrontierInv, Count, OutEdges
<1>7. Active' = {v \in Vertex : v1[v] > 0}
  BY <1>5 DEF Active
<1> QED BY <1>4, <1>6, <1>7

\* edgeMap does not abort on a frontier that is not empty and whose records
\* are up to date: a bits frontier is too large for the sparse traversal.
LEMMA EnterDoesNotAbort ==
  ASSUME EngineTypeOK, GA \in Graphs, FrontierInv, ~isEmpty
  PROVE  ~SizesDontMatch /\ ~BadValueOfM
<1>1. Frontier.d_m \in Nat /\ Frontier.d_m # 0
  BY DEF EngineTypeOK, FrontierType, isEmpty
<1>2. Frontier.numVertices = N
  BY <1>1 DEF FrontierInv
<1>3. ASSUME BadValueOfM PROVE FALSE
  <2>1. Frontier.rep = "bits"
    BY <1>3 DEF BadValueOfM, toSparseAborts, FrontierInv
  <2>2. work = N + GA_m /\ GA_m \in Nat
    BY <2>1, GraphFacts, FS_CardinalityType DEF FrontierInv, work, GA_m
  <2>3. \A a, k \in Nat : k > 0 => a \div k <= a
    OBVIOUS
  <2>4. GA_m \div SparseDiv <= GA_m /\ GA_m \div SparseDiv \in Int
    BY <2>2, <2>3, ThresholdAssumption
  <2>5. ~(work <= GA_m \div SparseDiv)
    BY <2>2, <2>4, SizeAssumption
  <2> QED BY <2>5, <1>3 DEF BadValueOfM, Mode
<1> QED BY <1>2, <1>3 DEF SizesDontMatch
=============================================================================
