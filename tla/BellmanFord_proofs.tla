------------------------ MODULE BellmanFord_proofs ------------------------
(***************************************************************************)
(* Proofs about BellmanFord, for every number of vertices, every set of    *)
(* graphs with integer weights, every partitioning and every pair of       *)
(* thresholds.  As for Components the one hypothesis is SafelyPartitioned: *)
(* plain updates of one destination must not run side by side.             *)
(***************************************************************************)
EXTENDS BellmanFord, Lemmas

-----------------------------------------------------------------------------
\* The least element of a set of numbers.
IsLeast(x, S) == x \in S /\ \A y \in S : x <= y

\* A finite set of integers that is not empty has a least element.
LEMMA LeastExists ==
  ASSUME NEW S \in SUBSET Int, IsFiniteSet(S), S # {}
  PROVE  \E x \in S : IsLeast(x, S)
<1> DEFINE P(n) == \A T \in SUBSET Int :
                     IsFiniteSet(T) /\ Cardinality(T) = n + 1 => \E x \in T : IsLeast(x, T)
           ns == {n \in Nat : P(n)}
<1>1. 0 \in ns
  <2> SUFFICES ASSUME NEW T \in SUBSET Int, IsFiniteSet(T), Cardinality(T) = 1
               PROVE  \E x \in T : IsLeast(x, T)
    OBVIOUS
  <2>1. PICK x : T = {x}
    BY FS_Singleton
  <2> QED BY <2>1 DEF IsLeast
<1>2. ASSUME NEW n \in Nat, n \in ns PROVE n + 1 \in ns
  <2> SUFFICES ASSUME NEW T \in SUBSET Int, IsFiniteSet(T), Cardinality(T) = (n + 1) + 1
               PROVE  \E x \in T : IsLeast(x, T)
    OBVIOUS
  <2>1. T # {}
    BY FS_EmptySet
  <2>2. PICK y \in T : TRUE
    BY <2>1
  <2> DEFINE U == T \ {y}
  <2>3. IsFiniteSet(U) /\ Cardinality(U) = n + 1
    BY <2>2, FS_RemoveElement
  <2>4. PICK x \in U : IsLeast(x, U)
    BY <2>3, <1>2
  <2>5. x \in Int /\ y \in Int
    OBVIOUS
  <2>6. IsLeast(x, T) \/ IsLeast(y, T)
    BY <2>4, <2>5 DEF IsLeast
  <2> QED BY <2>6 DEF IsLeast
<1>3. \A n \in Nat : n \in ns
  <2> HIDE DEF ns
  <2> QED BY <1>1, <1>2, SetInduction
<1>4. Cardinality(S) \in Nat /\ Cardinality(S) # 0
  BY FS_CardinalityType, FS_EmptySet
<1>5. Cardinality(S) - 1 \in Nat /\ (Cardinality(S) - 1) + 1 = Cardinality(S)
  BY <1>4
<1>6. Cardinality(S) - 1 \in ns
  BY <1>3, <1>5
<1> QED BY <1>5, <1>6

\* The edges of a graph have integer weights.
LEMMA WeightFacts ==
  ASSUME GA \in Graphs
  PROVE  \A e \in GA.edges : wgh(e) \in Int /\ src(e) \in Vertex /\ dst(e) \in Vertex
BY GraphFacts, LengthAssumption DEF wgh

\* The best of the walks to v is one of them.
LEMMA BestFacts ==
  ASSUME GA \in Graphs, NEW f \in [Vertex -> Int], NEW v \in Vertex
  PROVE  LET best == Least({f[v]} \union Extended(f, v))
         IN  /\ best \in Int /\ best <= f[v]
             /\ \A e \in GA.edges : dst(e) = v /\ f[src(e)] # Infinity =>
                                      best <= f[src(e)] + wgh(e)
             /\ \/ best = f[v]
                \/ \E e \in GA.edges : /\ dst(e) = v /\ f[src(e)] # Infinity
                                       /\ best = f[src(e)] + wgh(e)
<1> DEFINE E == {x \in GA.edges : dst(x) = v /\ f[src(x)] # Infinity}
           h == [e \in E |-> f[src(e)] + wgh(e)]
           S == {f[v]} \union Extended(f, v)
<1>1. IsFiniteSet(E)
  BY GraphFacts, FS_Subset
<1>2. h \in Surjection(E, Extended(f, v))
  BY DEF Surjection, Extended
<1>3. IsFiniteSet(Extended(f, v))
  <2> HIDE DEF E, h
  <2> QED BY <1>1, <1>2, FS_Surjection
<1>4. IsFiniteSet(S)
  BY <1>3, FS_Singleton, FS_Union
<1>5. S \in SUBSET Int /\ S # {}
  BY WeightFacts DEF Extended
<1>6. \E x \in S : \A y \in S : x <= y
  <2> HIDE DEF S
  <2>1. \E x \in S : IsLeast(x, S)
    BY <1>4, <1>5, LeastExists
  <2> QED BY <2>1 DEF IsLeast
<1>7. Least(S) \in S /\ \A y \in S : Least(S) <= y
  <2> HIDE DEF S
  <2> QED BY <1>6 DEF Least
<1>8. Least(S) \in Int
  BY <1>5, <1>7
<1>9. f[v] \in S /\ \A e \in E : f[src(e)] + wgh(e) \in S
  BY DEF Extended
<1>10. \A y \in S : y = f[v] \/ \E e \in E : y = f[src(e)] + wgh(e)
  BY DEF Extended
<1> HIDE DEF S
<1> QED BY <1>7, <1>8, <1>9, <1>10 DEF S

\* The lengths of the walks without edges.
NoWalk == [v \in Vertex |-> IF v = Start THEN 0 ELSE Infinity]

\* The equations of the recursive definition of Walks, which have a solution.
LEMMA WalksEquations ==
  ASSUME GA \in Graphs
  PROVE  /\ \A k \in 0 .. N : Walks[k] \in [Vertex -> Int]
         /\ Walks[0] = NoWalk
         /\ \A k \in 1 .. N : Walks[k] =
              [v \in Vertex |-> Least({Walks[k-1][v]} \union Extended(Walks[k-1], v))]
<1> DEFINE T == [Vertex -> Int]
           longer(f) == [v \in Vertex |-> Least({f[v]} \union Extended(f, v))]
           g == [f \in T |-> longer(f)]
           Is(f) == f = [k \in 0 .. N |-> IF k = 0 THEN NoWalk ELSE longer(f[k-1])]
<1>1. g \in [T -> T] /\ NoWalk \in T
  <2>1. \A f \in T : longer(f) \in T
    BY BestFacts
  <2>2. NoWalk \in T
    BY StartAssumption, LengthAssumption DEF NoWalk
  <2> HIDE DEF T, longer
  <2> QED BY <2>1, <2>2
<1>2. PICK f \in [0 .. N -> T] : f[0] = NoWalk /\ \A k \in 1 .. N : f[k] = g[f[k-1]]
  <2>1. N \in Nat
    BY SizeAssumption
  <2> HIDE DEF T, g
  <2>2. IteratesIn(T, N, NoWalk, g)
    BY <1>1, <2>1, RecursionExists
  <2> QED BY <2>2 DEF IteratesIn, Iterates
<1>3. \A k \in 1 .. N : g[f[k-1]] = longer(f[k-1])
  <2> SUFFICES ASSUME NEW k \in 1 .. N PROVE f[k-1] \in T
    OBVIOUS
  <2>1. k-1 \in 0 .. N
    BY SizeAssumption
  <2> HIDE DEF T
  <2> QED BY <2>1
<1>4. Is(f)
  <2>1. ASSUME NEW k \in 0 .. N
        PROVE  f[k] = IF k = 0 THEN NoWalk ELSE longer(f[k-1])
    <3>1. k # 0 => k \in 1 .. N
      OBVIOUS
    <3> HIDE DEF g, T, longer
    <3> QED BY <3>1, <1>2, <1>3
  <2>2. f = [k \in 0 .. N |-> f[k]]
    OBVIOUS
  <2> HIDE DEF g, T, longer
  <2> QED BY <2>1, <2>2
<1>5. Is(Walks)
  <2>1. Walks = CHOOSE h : Is(h)
    BY DEF Walks, NoWalk
  <2> HIDE DEF Is
  <2> QED BY <2>1, <1>4
<1>6. /\ Walks[0] = NoWalk
      /\ \A k \in 1 .. N : Walks[k] = longer(Walks[k-1])
  <2> HIDE DEF longer
  <2>1. ASSUME NEW k \in 0 .. N
        PROVE  Walks[k] = IF k = 0 THEN NoWalk ELSE longer(Walks[k-1])
    BY <1>5, Zenon
  <2>2. 0 \in 0 .. N /\ \A k \in 1 .. N : k \in 0 .. N /\ k # 0
    BY SizeAssumption
  <2> QED BY <2>1, <2>2
<1>7. \A k \in 0 .. N : Walks[k] \in T
  <2> DEFINE S == {k \in 0 .. N : Walks[k] \in T}
  <2>1. 0 \in S
    BY <1>1, <1>6, SizeAssumption
  <2>2. ASSUME NEW k \in 0 .. N-1, k \in S PROVE k + 1 \in S
    <3>1. Walks[k+1] = longer(Walks[k])
      <4>1. k + 1 \in 1 .. N /\ (k + 1) - 1 = k
        BY SizeAssumption
      <4> HIDE DEF longer
      <4> QED BY <4>1, <1>6
    <3>2. longer(Walks[k]) \in T
      BY <2>2, BestFacts
    <3>3. k + 1 \in 0 .. N
      BY SizeAssumption
    <3> HIDE DEF T, longer
    <3> QED BY <3>1, <3>2, <3>3
  <2>3. \A k \in 0 .. N : k \in S
    <3> HIDE DEF S
    <3> QED BY <2>1, <2>2, BoundedInduction, SizeAssumption
  <2> QED BY <2>3
<1> QED BY <1>6, <1>7

\* One more edge: no length grows, every edge is allowed for, and a length that
\* falls falls along an edge.
LEMMA WalksFacts ==
  ASSUME GA \in Graphs
  PROVE  /\ \A k \in 0 .. N, v \in Vertex : Walks[k][v] \in Int
         /\ \A v \in Vertex : Walks[0][v] = IF v = Start THEN 0 ELSE Infinity
         /\ \A k \in 1 .. N, v \in Vertex : Walks[k][v] <= Walks[k-1][v]
         /\ \A k \in 1 .. N, e \in GA.edges : Walks[k-1][src(e)] # Infinity =>
              Walks[k][dst(e)] <= Walks[k-1][src(e)] + wgh(e)
         /\ \A k \in 1 .. N, v \in Vertex :
              \/ Walks[k][v] = Walks[k-1][v]
              \/ \E e \in GA.edges : /\ dst(e) = v /\ Walks[k-1][src(e)] # Infinity
                                     /\ Walks[k][v] = Walks[k-1][src(e)] + wgh(e)
<1>1. \A k \in 0 .. N, v \in Vertex : Walks[k][v] \in Int
  BY WalksEquations
<1>2. \A v \in Vertex : Walks[0][v] = IF v = Start THEN 0 ELSE Infinity
  BY WalksEquations DEF NoWalk
<1>3. ASSUME NEW k \in 1 .. N, NEW v \in Vertex
      PROVE  /\ Walks[k][v] <= Walks[k-1][v]
             /\ \A e \in GA.edges : dst(e) = v /\ Walks[k-1][src(e)] # Infinity =>
                  Walks[k][v] <= Walks[k-1][src(e)] + wgh(e)
             /\ \/ Walks[k][v] = Walks[k-1][v]
                \/ \E e \in GA.edges : /\ dst(e) = v /\ Walks[k-1][src(e)] # Infinity
                                       /\ Walks[k][v] = Walks[k-1][src(e)] + wgh(e)
  <2>1. k-1 \in 0 .. N
    BY SizeAssumption
  <2>2. Walks[k-1] \in [Vertex -> Int]
    BY <2>1, WalksEquations
  <2>3. Walks[k][v] = Least({Walks[k-1][v]} \union Extended(Walks[k-1], v))
    BY WalksEquations
  <2> QED BY <2>2, <2>3, BestFacts
<1> QED BY <1>1, <1>2, <1>3, WeightFacts

\* The functions of the graph keep their values while the graph does.
LEMMA SameGraph ==
  ASSUME GA' = GA
  PROVE  /\ Walks' = Walks /\ NegativeCycle' = NegativeCycle
         /\ \A S : HoldsWalks(S)' <=> HoldsWalks(S)
BY DEF Walks, Extended, NegativeCycle, HoldsWalks

-----------------------------------------------------------------------------
(***************************************************************************)
(* Lengths that no edge can lower any more.                                *)
(***************************************************************************)
Stable ==
  \A e \in GA.edges : ShortestPathLen[src(e)] # Infinity =>
    ShortestPathLen[dst(e)] <= ShortestPathLen[src(e)] + wgh(e)

\* The lengths are integers up to Infinity.
Lengths ==
  /\ ShortestPathLen \in [Vertex -> Int]
  /\ \A v \in Vertex : ShortestPathLen[v] <= Infinity

\* Every length is that of a walk: it is in every set of pairs that holds the walks.
AchievedLengths ==
  \A S \in SUBSET (Vertex \X Int) : HoldsWalks(S) =>
    \A v \in Vertex : ShortestPathLen[v] < Infinity => <<v, ShortestPathLen[v]>> \in S

\* A set of vertices that holds Start, if its length is 0, and the end of each
\* tight edge that starts in it, holds every vertex that has a length: no walk
\* gets below the stable lengths, and only tight ones get down to them.
LEMMA TightSet ==
  ASSUME GA \in Graphs, Lengths, Stable, AchievedLengths,
         ShortestPathLen[Start] <= 0,
         NEW D, ShortestPathLen[Start] = 0 => Start \in D,
         \A e \in GA.edges :
           /\ src(e) \in D /\ ShortestPathLen[src(e)] # Infinity
           /\ ShortestPathLen[dst(e)] = ShortestPathLen[src(e)] + wgh(e)
           => dst(e) \in D
  PROVE  \A v \in Vertex : ShortestPathLen[v] < Infinity => v \in D
<1> DEFINE S == {p \in Vertex \X Int :
                   /\ ShortestPathLen[p[1]] <= p[2]
                   /\ ShortestPathLen[p[1]] = p[2] => p[1] \in D}
<1>1. \A v \in Vertex, x \in Int : <<v, x>> \in S <=>
        /\ ShortestPathLen[v] <= x /\ (ShortestPathLen[v] = x => v \in D)
  OBVIOUS
<1>2. \A v \in Vertex : ShortestPathLen[v] \in Int /\ ShortestPathLen[v] <= Infinity
  BY DEF Lengths
<1>3. HoldsWalks(S)
  <2> HIDE DEF S
  <2>1. <<Start, 0>> \in S
    BY <1>1, StartAssumption
  <2>2. ASSUME NEW e \in GA.edges, NEW x \in Int, <<src(e), x>> \in S, x < Infinity
        PROVE  <<dst(e), x + wgh(e)>> \in S
    <3> DEFINE u == src(e)
               v == dst(e)
    <3>1. u \in Vertex /\ v \in Vertex /\ wgh(e) \in Int /\ Infinity \in Int
      BY WeightFacts, LengthAssumption
    <3>2. ShortestPathLen[u] <= x /\ (ShortestPathLen[u] = x => u \in D)
      BY <2>2, <3>1, <1>1
    <3>3. ShortestPathLen[u] # Infinity
      BY <2>2, <3>1, <3>2, <1>2
    <3>4. ShortestPathLen[v] <= ShortestPathLen[u] + wgh(e)
      BY <3>3 DEF Stable
    <3>5. ShortestPathLen[v] <= x + wgh(e)
      BY <3>1, <3>2, <3>4, <1>2
    <3>6. ASSUME ShortestPathLen[v] = x + wgh(e) PROVE v \in D
      <4>1. ShortestPathLen[u] = x
        BY <3>1, <3>2, <3>4, <3>6, <1>2
      <4> QED BY <4>1, <3>2, <3>3, <3>6
    <3> QED BY <3>1, <3>5, <3>6, <1>1
  <2> QED BY <2>1, <2>2 DEF HoldsWalks
<1>4. S \in SUBSET (Vertex \X Int)
  OBVIOUS
<1> HIDE DEF S
<1> QED BY <1>1, <1>2, <1>3, <1>4 DEF AchievedLengths

\* More edges never make the best walk longer, and no length exceeds Infinity.
LEMMA WalksBound ==
  ASSUME GA \in Graphs
  PROVE  \A k \in 0 .. N, v \in Vertex : Walks[k][v] <= Infinity
<1> DEFINE S == {k \in 0 .. N : \A v \in Vertex : Walks[k][v] <= Infinity}
<1>1. 0 \in S
  BY WalksFacts, SizeAssumption, LengthAssumption
<1>2. ASSUME NEW k \in 0 .. N-1, k \in S PROVE k + 1 \in S
  <2>1. k + 1 \in 1 .. N /\ k + 1 \in 0 .. N /\ k \in 0 .. N /\ (k + 1) - 1 = k
    BY SizeAssumption
  <2>2. ASSUME NEW v \in Vertex PROVE Walks[k+1][v] <= Infinity
    <3>1. Walks[k+1][v] <= Walks[k][v] /\ Walks[k][v] <= Infinity
      BY <1>2, <2>1, WalksFacts
    <3>2. Walks[k+1][v] \in Int /\ Walks[k][v] \in Int /\ Infinity \in Int
      BY <2>1, WalksFacts, LengthAssumption
    <3> QED BY <3>1, <3>2
  <2> QED BY <2>1, <2>2
<1>3. \A k \in 0 .. N : k \in S
  <2> HIDE DEF S
  <2> QED BY <1>1, <1>2, BoundedInduction, SizeAssumption
<1> QED BY <1>3

\* Lengths that no edge can lower and that belong to walks are shortest: every
\* number of edges but the last settles another vertex, or all are settled.
LEMMA StableIsShortest ==
  ASSUME GA \in Graphs, Lengths, Stable, AchievedLengths, ShortestPathLen[Start] <= 0
  PROVE  ~NegativeCycle /\ ShortestPathLen = Walks[N-1]
<1> DEFINE L == ShortestPathLen
           D(k) == {v \in Vertex : Walks[k][v] = L[v]}
<1>1. \A v \in Vertex : L[v] \in Int /\ L[v] <= Infinity
  BY DEF Lengths
<1>2. \A k \in 0 .. N, v \in Vertex : Walks[k][v] \in Int /\ Walks[k][v] <= Infinity
  BY WalksFacts, WalksBound
<1>3. L[Start] = 0
  <2>1. SUFFICES ASSUME L[Start] # 0 PROVE FALSE
    OBVIOUS
  <2>2. L[Start] < Infinity
    BY <1>1, StartAssumption, LengthAssumption
  <2> DEFINE none == {v \in Vertex : FALSE}
  <2>3. \A v \in Vertex : v \notin none
    OBVIOUS
  <2>4. \A v \in Vertex : L[v] < Infinity => v \in none
    <3> HIDE DEF none
    <3> QED BY <2>1, <2>3, TightSet, WeightFacts
  <2> QED BY <2>2, <2>3, <2>4, StartAssumption
<1>4. \A k \in 0 .. N, v \in Vertex : L[v] <= Walks[k][v]
  <2> DEFINE S == {k \in 0 .. N : \A v \in Vertex : L[v] <= Walks[k][v]}
  <2>1. 0 \in S
    <3>1. \A v \in Vertex : Walks[0][v] = IF v = Start THEN 0 ELSE Infinity
      BY WalksFacts
    <3> QED BY <3>1, <1>1, <1>3, SizeAssumption
  <2>2. ASSUME NEW k \in 0 .. N-1, k \in S PROVE k + 1 \in S
    <3>1. k + 1 \in 1 .. N /\ k + 1 \in 0 .. N /\ k \in 0 .. N /\ (k + 1) - 1 = k
      BY SizeAssumption
    <3>2. ASSUME NEW v \in Vertex PROVE L[v] <= Walks[k+1][v]
      <4>1. CASE Walks[k+1][v] = Walks[k][v]
        BY <4>1, <2>2
      <4>2. CASE \E e \in GA.edges : /\ dst(e) = v /\ Walks[k][src(e)] # Infinity
                                     /\ Walks[k+1][v] = Walks[k][src(e)] + wgh(e)
        <5>1. PICK e \in GA.edges : /\ dst(e) = v /\ Walks[k][src(e)] # Infinity
                                    /\ Walks[k+1][v] = Walks[k][src(e)] + wgh(e)
          BY <4>2
        <5>2. wgh(e) \in Int /\ src(e) \in Vertex /\ Infinity \in Int
          BY WeightFacts, LengthAssumption
        <5>3. L[src(e)] <= Walks[k][src(e)] /\ Walks[k][src(e)] < Infinity
          BY <5>1, <5>2, <2>2, <3>1, <1>2
        <5>4. L[src(e)] # Infinity
          BY <5>2, <5>3, <3>1, <1>1, <1>2
        <5>5. L[v] <= L[src(e)] + wgh(e)
          BY <5>1, <5>4 DEF Stable
        <5> QED BY <5>1, <5>2, <5>3, <5>5, <3>1, <1>1, <1>2
      <4> QED BY <4>1, <4>2, <3>1, WalksFacts
    <3> QED BY <3>1, <3>2
  <2>3. \A k \in 0 .. N : k \in S
    <3> HIDE DEF S
    <3> QED BY <2>1, <2>2, BoundedInduction, SizeAssumption
  <2> QED BY <2>3
<1>5. ASSUME NEW k \in 0 .. N-1 PROVE D(k) \subseteq D(k+1)
  <2> SUFFICES ASSUME NEW v \in Vertex, Walks[k][v] = L[v] PROVE Walks[k+1][v] = L[v]
    OBVIOUS
  <2>1. k + 1 \in 1 .. N /\ k + 1 \in 0 .. N /\ k \in 0 .. N /\ (k + 1) - 1 = k
    BY SizeAssumption
  <2>2. Walks[k+1][v] <= Walks[k][v] /\ L[v] <= Walks[k+1][v]
    BY <2>1, <1>4, WalksFacts
  <2> QED BY <2>1, <2>2, <1>1, <1>2
<1>6. ASSUME NEW k \in 0 .. N-1, D(k+1) = D(k) PROVE D(k) = Vertex
  <2>1. k + 1 \in 1 .. N /\ k + 1 \in 0 .. N /\ k \in 0 .. N /\ (k + 1) - 1 = k
    BY SizeAssumption
  <2>2. Start \in D(k)
    <3>1. Start \in D(0)
      BY <1>3, WalksFacts, StartAssumption
    <3>2. \A j \in 0 .. N-1 : Start \in D(j)
      <4> DEFINE S == {j \in 0 .. N-1 : Start \in D(j)}
      <4>1. 0 \in S
        BY <3>1, SizeAssumption
      <4>2. ASSUME NEW j \in 0 .. (N-1) - 1, j \in S PROVE j + 1 \in S
        <5>1. j \in 0 .. N-1 /\ j + 1 \in 0 .. N-1
          BY SizeAssumption
        <5>2. Start \in D(j+1)
          BY <4>2, <5>1, <1>5
        <5> QED BY <5>1, <5>2
      <4>3. N-1 \in Nat
        BY SizeAssumption
      <4>4. \A j \in 0 .. N-1 : j \in S
        <5> HIDE DEF S
        <5> QED BY <4>1, <4>2, <4>3, BoundedInduction
      <4> QED BY <4>4
    <3> QED BY <3>2
  <2>3. ASSUME NEW e \in GA.edges, src(e) \in D(k), L[src(e)] # Infinity,
               L[dst(e)] = L[src(e)] + wgh(e)
        PROVE  dst(e) \in D(k)
    <3>1. src(e) \in Vertex /\ dst(e) \in Vertex
      BY WeightFacts
    <3>2. Walks[k+1][dst(e)] <= L[dst(e)]
      <4>1. Walks[k+1][dst(e)] <= Walks[k][src(e)] + wgh(e)
        BY <2>1, <2>3, WalksFacts
      <4> QED BY <4>1, <2>3
    <3>3. dst(e) \in D(k+1)
      BY <2>1, <3>1, <3>2, <1>1, <1>2, <1>4
    <3> QED BY <3>3, <1>6
  <2>4. \A v \in Vertex : L[v] < Infinity => v \in D(k)
    <3> HIDE DEF D
    <3> QED BY <2>2, <2>3, TightSet
  <2>5. \A v \in Vertex : ~(L[v] < Infinity) => Walks[k][v] = L[v]
    BY <2>1, <1>1, <1>2, <1>4, LengthAssumption
  <2> QED BY <2>4, <2>5
<1>7. \A k \in 0 .. N : IsFiniteSet(D(k)) /\ Cardinality(D(k)) \in Nat
  <2>1. IsFiniteSet(Vertex)
    BY SizeAssumption, FS_Interval DEF Vertex
  <2> QED BY <2>1, FS_Subset, FS_CardinalityType
<1>8. \A k \in 0 .. N-1 : D(k) = Vertex \/ k + 1 <= Cardinality(D(k))
  <2> DEFINE S == {k \in 0 .. N-1 : D(k) = Vertex \/ k + 1 <= Cardinality(D(k))}
  <2>1. 0 \in S
    <3>1. Start \in D(0)
      BY <1>3, WalksFacts, StartAssumption
    <3>2. 0 \in 0 .. N /\ 0 \in 0 .. N-1
      BY SizeAssumption
    <3>3. Cardinality(D(0)) \in Nat /\ Cardinality(D(0)) # 0
      <4> HIDE DEF D
      <4> QED BY <3>1, <3>2, <1>7, FS_EmptySet
    <3>4. 0 + 1 <= Cardinality(D(0))
      BY <3>3
    <3> HIDE DEF D
    <3> QED BY <3>2, <3>4
  <2>2. ASSUME NEW k \in 0 .. (N-1) - 1, k \in S PROVE k + 1 \in S
    <3>1. k \in 0 .. N-1 /\ k + 1 \in 0 .. N-1 /\ k \in 0 .. N /\ k + 1 \in 0 .. N
      BY SizeAssumption
    <3>2. D(k) \subseteq D(k+1) /\ D(k+1) \subseteq Vertex
      BY <3>1, <1>5
    <3> HIDE DEF D
    <3>3. CASE D(k) = Vertex
      BY <3>1, <3>2, <3>3
    <3>4. CASE D(k) # Vertex
      <4>1. D(k) # D(k+1)
        BY <3>1, <3>4, <1>6
      <4>2. Cardinality(D(k)) <= Cardinality(D(k+1)) /\ Cardinality(D(k)) # Cardinality(D(k+1))
        BY <3>1, <3>2, <4>1, <1>7, FS_Subset
      <4>3. k + 1 <= Cardinality(D(k)) /\ Cardinality(D(k)) \in Nat /\ Cardinality(D(k+1)) \in Nat
        BY <2>2, <3>1, <3>4, <1>7
      <4>4. (k + 1) + 1 <= Cardinality(D(k+1))
        BY <4>2, <4>3
      <4> QED BY <3>1, <4>4
    <3> QED BY <3>3, <3>4
  <2>3. N-1 \in Nat
    BY SizeAssumption
  <2>4. \A k \in 0 .. N-1 : k \in S
    <3> HIDE DEF S
    <3> QED BY <2>1, <2>2, <2>3, BoundedInduction
  <2> QED BY <2>4
<1>9. N-1 \in 0 .. N-1 /\ N-1 \in 0 .. N /\ N \in 0 .. N /\ (N-1) + 1 = N
  BY SizeAssumption
<1>10. D(N-1) = Vertex
  <2>1. IsFiniteSet(Vertex) /\ Cardinality(Vertex) = N
    BY SizeAssumption, FS_Interval DEF Vertex
  <2>2. D(N-1) \subseteq Vertex
    OBVIOUS
  <2> HIDE DEF D
  <2>3. Cardinality(D(N-1)) <= N /\ (Cardinality(D(N-1)) = N => D(N-1) = Vertex)
    BY <2>1, <2>2, FS_Subset
  <2>4. Cardinality(D(N-1)) \in Nat /\ (D(N-1) = Vertex \/ N <= Cardinality(D(N-1)))
    BY <1>7, <1>8, <1>9
  <2> QED BY <2>3, <2>4, SizeAssumption
<1>11. D(N) = Vertex
  BY <1>5, <1>9, <1>10
<1>12. Walks[N-1] = L /\ Walks[N] = L
  <2>1. Walks[N-1] \in [Vertex -> Int] /\ Walks[N] \in [Vertex -> Int]
    BY <1>9, WalksEquations
  <2>2. L \in [Vertex -> Int]
    BY DEF Lengths
  <2>3. \A v \in Vertex : Walks[N-1][v] = L[v] /\ Walks[N][v] = L[v]
    BY <1>10, <1>11
  <2> QED BY <2>1, <2>2, <2>3
<1> QED BY <1>12 DEF NegativeCycle

\* The best walk of more edges is no longer.
LEMMA WalksDecrease ==
  ASSUME GA \in Graphs
  PROVE  \A k \in 0 .. N, v \in Vertex : Walks[k][v] <= Walks[0][v]
<1> DEFINE S == {k \in 0 .. N : \A v \in Vertex : Walks[k][v] <= Walks[0][v]}
<1>0. 0 \in 0 .. N
  BY SizeAssumption
<1>1. 0 \in S
  BY <1>0, WalksFacts
<1>2. ASSUME NEW k \in 0 .. N-1, k \in S PROVE k + 1 \in S
  <2>1. k + 1 \in 1 .. N /\ k + 1 \in 0 .. N /\ k \in 0 .. N /\ (k + 1) - 1 = k
    BY SizeAssumption
  <2>2. ASSUME NEW v \in Vertex PROVE Walks[k+1][v] <= Walks[0][v]
    <3>1. Walks[k+1][v] <= Walks[k][v] /\ Walks[k][v] <= Walks[0][v]
      BY <1>2, <2>1, WalksFacts
    <3>2. Walks[k+1][v] \in Int /\ Walks[k][v] \in Int /\ Walks[0][v] \in Int
      BY <2>1, <1>0, WalksFacts
    <3> QED BY <3>1, <3>2
  <2> QED BY <2>1, <2>2
<1>3. \A k \in 0 .. N : k \in S
  <2> HIDE DEF S
  <2> QED BY <1>1, <1>2, BoundedInduction, SizeAssumption
<1> QED BY <1>3

-----------------------------------------------------------------------------
\* The invariant holds initially: the lengths are those of the empty walk.
LEMMA InitInv == Init => IInv
<1> SUFFICES ASSUME Init PROVE IInv
  OBVIOUS
<1> USE DEF Init, EngineInit
<1> DEFINE copies == [None EXCEPT ![Start] = 1]
<1>1. copies \in [Vertex -> Nat]
  BY NoneFacts, StartAssumption
<1>2. Frontier = frontierOf("sparse", copies, GA.edges)
  BY DEF create
<1>3. Frontier \in FrontierType
  BY <1>1, <1>2, GraphFacts, FrontierOfFacts
<1>4. Frontier.rep = "sparse" /\ Frontier.copies = copies /\ FrontierInv
  BY <1>2 DEF frontierOf, FrontierInv
<1>5. Active = {Start}
  BY <1>4, StartAssumption DEF Active, None
<1>6. TypeOK
  BY <1>3, NoneFacts, GraphsAssumption, LengthAssumption, SizeAssumption
     DEF TypeOK, EngineTypeOK
<1>7. \A v \in Vertex : ShortestPathLen[v] = Walks[0][v]
  BY WalksFacts
<1>8. \A v \in Vertex : ShortestPathLen[v] = IF v = Start THEN 0 ELSE Infinity
  OBVIOUS
<1>9. ReachInv
  BY <1>5, <1>8, LengthAssumption, StartAssumption DEF ReachInv, None
<1>10. MarkInv
  BY <1>1, <1>4, StartAssumption DEF MarkInv, None
<1>11. FixInv
  <2>1. N-1 \in 0 .. N /\ 0 # N
    BY SizeAssumption
  <2>2. \A v \in Vertex : Walks[N-1][v] <= ShortestPathLen[v]
    BY <2>1, <1>7, WalksDecrease
  <2> QED BY <2>1, <2>2 DEF FixInv
<1>12. Achieved
  BY <1>8, LengthAssumption DEF Achieved, HoldsWalks
<1>13. RoundBound
  BY <1>7, <1>8, LengthAssumption DEF RoundBound
<1>14. PendingIsActive
  BY <1>5, <1>8, WeightFacts DEF PendingIsActive
<1> QED BY <1>4, <1>6, <1>9, <1>10, <1>11, <1>12, <1>13, <1>14
        DEF IInv, NoAbort, RoundInv, RelaxInv, StrandInv, CacheInv, Shortest

-----------------------------------------------------------------------------
\* The ranges of the arrays and registers, and where they are in use.
LEMMA Ranges ==
  ASSUME IInv
  PROVE  /\ \A v \in Vertex : /\ ShortestPathLen[v] \in Int /\ v1[v] \in Nat
                              /\ Visited[v] \in {0, 1}
         /\ v1 \in [Vertex -> Nat] /\ ShortestPathLen \in [Vertex -> Int]
         /\ Visited \in [Vertex -> {0, 1}]
         /\ \A e \in GA.edges : wgh(e) \in Int /\ src(e) \in Vertex /\ dst(e) \in Vertex
         /\ \A job \in todo : job[1] \in Nat /\ job[2] \in GA.edges
         /\ \A st \in strand : /\ st.e \in GA.edges /\ st.newDist \in Int /\ st.k \in Nat
                               /\ st.at \in {"compare", "store"}
         /\ \A c \in cache : /\ c.d \in Vertex /\ c.shortestPathLen \in Int
                             /\ c.visited \in {0, 1}
         /\ round \in Nat /\ round \in 0 .. N
         /\ todo # {} \/ strand # {} \/ cache # {} => pc = "edges"
         /\ strand # {} => cache = {}
         /\ Infinity \in Int
BY WeightFacts, SizeAssumption, LengthAssumption DEF IInv, TypeOK, EngineTypeOK, RoundInv

\* What a step within a round leaves as it is.
LEMMA RoundFrame ==
  ASSUME IInv, pc = "edges", UNCHANGED <<pc, GA, Frontier, mode, round>>
  PROVE  /\ NoAbort' /\ (GA \in Graphs)' /\ FrontierInv' /\ RoundBound'
         /\ PendingIsActive' /\ Shortest'
         /\ Walks' = Walks /\ Atomic' = Atomic /\ ByDestination' = ByDestination
BY SameGraph DEF IInv, NoAbort, FrontierInv, RoundBound, PendingIsActive, Shortest,
   Atomic, ByDestination

\* Within a round the best walks bound the lengths of the sources, so an edge
\* stays relaxed if it stays so to what its source gives and more.
LEMMA RelaxStep ==
  ASSUME IInv, pc = "edges", UNCHANGED <<pc, GA, Frontier, mode, round>>,
         \A e \in GA.edges, y \in Int :
           Relaxed(e, y) /\ ShortestPathLen[src(e)] + wgh(e) <= y => Relaxed(e, y)',
         \A v \in Vertex : Lowered(v) => Lowered(v)',
         \A v \in Vertex : ShortestPathLen'[v] = ShortestPathLen[v] \/ Lowered(v)'
  PROVE  RelaxInv'
<1>1. Walks' = Walks
  BY RoundFrame
<1>2. round \in 0 .. N
  BY Ranges
<1>3. ASSUME NEW e \in GA.edges, Walks[round][src(e)] # Infinity
      PROVE  Relaxed(e, Walks[round][src(e)] + wgh(e))'
  <2>1. src(e) \in Vertex /\ wgh(e) \in Int /\ ShortestPathLen[src(e)] \in Int
    BY Ranges
  <2>2. Walks[round][src(e)] \in Int
    BY <1>2, <2>1, WalksFacts DEF IInv
  <2>3. ShortestPathLen[src(e)] <= Walks[round][src(e)]
    BY <2>1 DEF IInv, RoundInv
  <2>4. Relaxed(e, Walks[round][src(e)] + wgh(e))
    BY <1>3 DEF IInv, RelaxInv
  <2>5. ASSUME NEW y \in Int, y = Walks[round][src(e)] + wgh(e), Relaxed(e, y)
        PROVE  Relaxed(e, y)'
    BY <2>1, <2>2, <2>3, <2>5
  <2> QED BY <1>1, <2>1, <2>2, <2>4, <2>5
<1>4. ASSUME NEW e \in GA.edges, ShortestPathLen'[src(e)] # Infinity, ~Lowered(src(e))'
      PROVE  Relaxed(e, ShortestPathLen[src(e)] + wgh(e))'
  <2>1. src(e) \in Vertex /\ wgh(e) \in Int /\ ShortestPathLen[src(e)] \in Int
    BY Ranges
  <2>2. ShortestPathLen'[src(e)] = ShortestPathLen[src(e)] /\ ~Lowered(src(e))
    BY <1>4, <2>1
  <2>3. Relaxed(e, ShortestPathLen[src(e)] + wgh(e))
    BY <1>4, <2>2 DEF IInv, RelaxInv
  <2>4. ASSUME NEW y \in Int, y = ShortestPathLen[src(e)] + wgh(e), Relaxed(e, y)
        PROVE  Relaxed(e, y)'
    BY <2>1, <2>4
  <2> QED BY <2>1, <2>2, <2>3, <2>4
<1> QED BY <1>1, <1>3, <1>4 DEF RelaxInv

\* When every edge is relaxed to what the walks of k edges require, the lengths
\* are below those of k + 1 edges.
LEMMA BoundNext ==
  ASSUME IInv, NEW k \in 0 .. N-1,
         \A v \in Vertex : ShortestPathLen[v] <= Walks[k][v],
         \A e \in GA.edges : Walks[k][src(e)] # Infinity =>
           ShortestPathLen[dst(e)] <= Walks[k][src(e)] + wgh(e)
  PROVE  \A v \in Vertex : ShortestPathLen[v] <= Walks[k+1][v]
<1>1. k + 1 \in 1 .. N /\ k \in 0 .. N /\ (k + 1) - 1 = k
  BY SizeAssumption
<1> SUFFICES ASSUME NEW v \in Vertex PROVE ShortestPathLen[v] <= Walks[k+1][v]
  OBVIOUS
<1>2. CASE Walks[k+1][v] = Walks[k][v]
  BY <1>2
<1>3. CASE \E e \in GA.edges : /\ dst(e) = v /\ Walks[k][src(e)] # Infinity
                               /\ Walks[k+1][v] = Walks[k][src(e)] + wgh(e)
  BY <1>3
<1> QED BY <1>1, <1>2, <1>3, WalksFacts DEF IInv

\* The loop head: the edges of the active vertices become the jobs of the
\* round; without any, no edge is left to relax and the round is over.
LEMMA RoundStep ==
  ASSUME SafelyPartitioned, IInv, Round
  PROVE  IInv'
<1> USE DEF IInv
<1>1. /\ pc = "loop" /\ ~isEmpty /\ round # N
      /\ todo = {} /\ strand = {} /\ cache = {} /\ v1 = None
      /\ UNCHANGED <<ShortestPathLen, Visited, strand, cache>>
  BY DEF Round, RoundInv
<1>2. EngineTypeOK /\ round \in 0 .. N-1 /\ round \in 0 .. N
  BY <1>1, SizeAssumption DEF TypeOK
<1>3. \A v \in Vertex : ShortestPathLen[v] <= Walks[round][v]
  BY <1>1 DEF RoundBound
<1>4. ASSUME NEW e \in GA.edges, src(e) \notin Active
      PROVE  /\ ShortestPathLen[src(e)] # Infinity =>
                  ShortestPathLen[dst(e)] <= ShortestPathLen[src(e)] + wgh(e)
             /\ Walks[round][src(e)] # Infinity =>
                  ShortestPathLen[dst(e)] <= Walks[round][src(e)] + wgh(e)
  <2>1. /\ src(e) \in Vertex /\ dst(e) \in Vertex /\ wgh(e) \in Int /\ Infinity \in Int
        /\ ShortestPathLen[src(e)] \in Int /\ ShortestPathLen[dst(e)] \in Int
    BY Ranges
  <2>2. ShortestPathLen[src(e)] # Infinity =>
          ShortestPathLen[dst(e)] <= ShortestPathLen[src(e)] + wgh(e)
    BY <1>1, <1>4, <2>1 DEF PendingIsActive
  <2>3. Walks[round][src(e)] \in Int /\ Walks[round][src(e)] <= Infinity
    BY <1>2, <2>1, WalksFacts, WalksBound
  <2>4. ShortestPathLen[src(e)] <= Walks[round][src(e)]
    BY <1>3, <2>1
  <2> QED BY <2>1, <2>2, <2>3, <2>4
<1>5. CASE NoOutEdges
  <2>1. UNCHANGED <<pc, GA, mode, todo, v1>> /\ round' = round + 1 /\ Frontier' = empty
    BY <1>1, <1>5 DEF NoOutEdges, Round
  <2>2. /\ EngineTypeOK' /\ FrontierInv' /\ Active' = {}
        /\ \A e \in GA.edges : src(e) \notin Active
    BY <1>2, <1>5, NoOutEdgesFacts
  <2>3. TypeOK'
    BY <2>1, <2>2, <1>1, <1>2, SizeAssumption DEF TypeOK
  <2>4. \A v \in Vertex : ShortestPathLen[v] <= Walks[round+1][v]
    BY <2>2, <1>2, <1>3, <1>4, BoundNext
  <2>5. RoundBound' /\ PendingIsActive'
    <3>1. ASSUME NEW e \in GA.edges, ShortestPathLen[src(e)] # Infinity
          PROVE  ~(ShortestPathLen[dst(e)] > ShortestPathLen[src(e)] + wgh(e))
      BY <3>1, <2>2, <1>4, Ranges
    <3> QED BY <3>1, <2>1, <2>4, <1>1, SameGraph DEF RoundBound, PendingIsActive
  <2>6. MarkInv' /\ ReachInv' /\ RoundInv'
    BY <2>1, <2>2, <1>1 DEF MarkInv, ReachInv, RoundInv, empty, None
  <2>7. FixInv'
    BY <2>1, <2>2, <1>1, SameGraph DEF FixInv
  <2>8. Achieved'
    BY <2>1, <1>1, SameGraph DEF Achieved
  <2> QED BY <2>1, <2>2, <2>3, <2>5, <2>6, <2>7, <2>8, <1>1 DEF NoAbort, RelaxInv,
             StrandInv, CacheInv, Shortest
<1>6. CASE Traverse
  <2>1. /\ pc' = "edges" /\ mode' = Mode /\ v1' = None /\ UNCHANGED <<GA, Frontier, round>>
    BY <1>6 DEF Traverse, TraverseOver, Round
  <2>2. /\ EngineTypeOK' /\ FrontierInv' /\ Active' = Active
        /\ \A e \in GA.edges : src(e) \in Active => \E job \in todo' : job[2] = e
        /\ \A job \in todo' : src(job[2]) \in Active
    BY <1>2, <1>6, TraverseFacts, JobsAreActive
  <2>3. TypeOK'
    BY <2>1, <2>2, <1>1 DEF TypeOK
  <2>4. RoundInv'
    <3>1. mode' = "coo" => ~GA'.source
      BY <2>1, ModeFacts DEF SafelyPartitioned
    <3> QED BY <3>1, <2>1, <1>1, <1>2, <1>3, SizeAssumption, SameGraph DEF RoundInv
  <2>5. RelaxInv'
    <3>1. ASSUME NEW e \in GA.edges, NEW y,
                 src(e) \in Active \/ ShortestPathLen[dst(e)] <= y
          PROVE  Relaxed(e, y)'
      BY <3>1, <2>2, <1>1 DEF Relaxed
    <3>2. ASSUME NEW e \in GA.edges
          PROVE  /\ Walks[round][src(e)] # Infinity =>
                      Relaxed(e, Walks[round][src(e)] + wgh(e))'
                 /\ ShortestPathLen[src(e)] # Infinity =>
                      Relaxed(e, ShortestPathLen[src(e)] + wgh(e))'
      <4>1. Walks' = Walks /\ round' = round /\ ShortestPathLen' = ShortestPathLen
        BY <2>1, <1>1, SameGraph
      <4> QED BY <4>1, <3>1, <1>4
    <3> QED BY <3>2, <2>1, <1>1, SameGraph DEF RelaxInv
  <2>6. MarkInv' /\ ReachInv'
    <3>1. \A v \in Vertex : Visited[v] = 0
      BY <1>1 DEF MarkInv, None
    <3>2. \A v \in Active : v \in Vertex
      BY DEF Active
    <3> QED BY <3>1, <3>2, <2>1, <2>2, <1>1 DEF MarkInv, ReachInv, None
  <2>7. FixInv'
    BY <2>1, <1>1, SameGraph DEF FixInv
  <2>8. Achieved'
    BY <2>1, <1>1, SameGraph DEF Achieved
  <2> QED BY <2>1, <2>2, <2>3, <2>4, <2>5, <2>6, <2>7, <2>8, <1>1 DEF NoAbort,
             StrandInv, CacheInv, Shortest, RoundBound, PendingIsActive
<1> QED BY <1>1, <1>2, <1>5, <1>6, EnterDoesNotAbort DEF Round, EnterEdgeMap

\* A vertex still active after n rounds has a negative cycle behind it.
LEMMA NegativeWeightCycleStep ==
  ASSUME IInv, NegativeWeightCycle
  PROVE  IInv'
<1> USE DEF IInv
<1>1. /\ pc = "loop" /\ ~isEmpty /\ round = N /\ pc' = "done"
      /\ ShortestPathLen' = [v \in Vertex |-> -Infinity]
      /\ UNCHANGED <<GA, Frontier, mode, todo, v1, Visited, round, strand, cache>>
  BY DEF NegativeWeightCycle
<1>2. todo = {} /\ strand = {} /\ cache = {} /\ v1 = None
  BY <1>1 DEF RoundInv
<1>3. Active # {}
  BY <1>1, NotEmptyIsActive DEF TypeOK
<1>4. NegativeCycle
  BY <1>1, <1>3 DEF FixInv
<1>5. Shortest'
  BY <1>1, <1>4, SameGraph DEF Shortest
<1>6. TypeOK'
  BY <1>1, LengthAssumption DEF TypeOK, EngineTypeOK
<1>7. ReachInv' /\ MarkInv'
  BY <1>1, <1>2, LengthAssumption DEF ReachInv, MarkInv, None
<1> QED BY <1>1, <1>2, <1>5, <1>6, <1>7 DEF NoAbort, FrontierInv, RoundInv, RelaxInv,
           StrandInv, CacheInv, FixInv, Achieved, RoundBound, PendingIsActive,
           ByDestination

\* An empty frontier leaves lengths no edge can lower, which are shortest.
LEMMA DoneStep ==
  ASSUME IInv, Done
  PROVE  IInv'
<1> USE DEF IInv
<1>1. /\ pc = "loop" /\ pc' = "done" /\ isEmpty
      /\ UNCHANGED <<GA, Frontier, mode, todo, v1, ShortestPathLen, Visited, round,
                     strand, cache>>
  BY DEF Done, Finish
<1>2. Active = {}
  BY <1>1, EmptyIsInactive DEF TypeOK
<1>3. Stable
  <2> SUFFICES ASSUME NEW e \in GA.edges, ShortestPathLen[src(e)] # Infinity
               PROVE  ShortestPathLen[dst(e)] <= ShortestPathLen[src(e)] + wgh(e)
    BY DEF Stable
  <2>1. ~(ShortestPathLen[dst(e)] > ShortestPathLen[src(e)] + wgh(e))
    BY <1>1, <1>2 DEF PendingIsActive
  <2> QED BY <2>1, Ranges
<1>4. Lengths
  BY Ranges DEF Lengths, ReachInv
<1>5. AchievedLengths
  BY <1>1 DEF AchievedLengths, Achieved
<1>6. ShortestPathLen[Start] <= 0
  <2>1. ShortestPathLen[Start] <= Walks[round][Start]
    BY <1>1, StartAssumption DEF RoundBound
  <2>2. Walks[round][Start] <= Walks[0][Start] /\ Walks[0][Start] = 0
        /\ Walks[round][Start] \in Int
    BY Ranges, StartAssumption, WalksDecrease, WalksFacts
  <2> QED BY <2>1, <2>2, Ranges, StartAssumption
<1>7. Shortest'
  BY <1>1, <1>3, <1>4, <1>5, <1>6, StableIsShortest, SameGraph DEF Shortest
<1> QED BY <1>1, <1>7 DEF TypeOK, EngineTypeOK, NoAbort, FrontierInv, RoundInv, RelaxInv,
           ReachInv, MarkInv, StrandInv, CacheInv, FixInv, Achieved, RoundBound,
           PendingIsActive, ByDestination, Atomic

\* The end of a round: the output holds the vertices whose length has fallen.
LEMMA ReturnStep ==
  ASSUME IInv, Return
  PROVE  IInv'
<1> USE DEF IInv
<1>1. /\ pc = "edges" /\ todo = {} /\ strand = {} /\ cache = {}
      /\ pc' = "loop" /\ mode' = "none" /\ v1' = None /\ round' = round + 1
      /\ Visited' = [v \in Vertex |-> IF v1[v] > 0 THEN 0 ELSE Visited[v]]
      /\ UNCHANGED <<GA, todo, ShortestPathLen, strand, cache>>
  BY DEF Return, ReturnFromEdgeMap
<1>2. EngineTypeOK' /\ FrontierInv' /\ Active' = {v \in Vertex : v1[v] > 0}
  BY ReturnFacts DEF Return, TypeOK
<1>3. Frontier'.copies = v1
  BY DEF Return, ReturnFromEdgeMap, frontierOf
<1>4. round \in 0 .. N-1 /\ round + 1 \in 0 .. N /\ round \in 0 .. N
  BY <1>1, Ranges, SizeAssumption DEF RoundInv
<1>5. TypeOK'
  BY <1>1, <1>2, <1>4, Ranges DEF TypeOK
<1>6. ASSUME NEW e \in GA.edges
      PROVE  /\ Walks[round][src(e)] # Infinity =>
                  ShortestPathLen[dst(e)] <= Walks[round][src(e)] + wgh(e)
             /\ ShortestPathLen[src(e)] # Infinity /\ ~(v1[src(e)] > 0) =>
                  ShortestPathLen[dst(e)] <= ShortestPathLen[src(e)] + wgh(e)
  <2>1. \A y : Relaxed(e, y) => ShortestPathLen[dst(e)] <= y
    BY <1>1 DEF Relaxed
  <2>2. Lowered(src(e)) => v1[src(e)] > 0
    BY <1>1 DEF Lowered
  <2> QED BY <1>1, <2>1, <2>2 DEF RelaxInv
<1>7. \A v \in Vertex : ShortestPathLen[v] <= Walks[round+1][v]
  BY <1>1, <1>4, <1>6, BoundNext DEF RoundInv
<1>8. RoundBound'
  BY <1>1, <1>7, SameGraph DEF RoundBound
<1>9. PendingIsActive'
  <2> SUFFICES ASSUME NEW e \in GA.edges, ShortestPathLen[src(e)] # Infinity,
                      ShortestPathLen[dst(e)] > ShortestPathLen[src(e)] + wgh(e)
               PROVE  v1[src(e)] > 0
    BY <1>1, <1>2, Ranges DEF PendingIsActive
  <2>1. src(e) \in Vertex /\ dst(e) \in Vertex /\ wgh(e) \in Int
    BY Ranges
  <2>2. ~(ShortestPathLen[dst(e)] <= ShortestPathLen[src(e)] + wgh(e))
    BY <2>1, Ranges
  <2> QED BY <2>2, <1>6
<1>10. ReachInv'
  BY <1>1, <1>2 DEF ReachInv, None
<1>11. MarkInv'
  <2>1. \A v \in Vertex : Visited[v] = v1[v] /\ v1[v] <= 1 /\ v1[v] \in Nat
    BY <1>1, Ranges DEF MarkInv
  <2> QED BY <2>1, <1>1, <1>3 DEF MarkInv, None
<1>12. FixInv'
  <2>1. round + 1 = N => round = N-1
    BY <1>4, SizeAssumption
  <2> QED BY <2>1, <1>1, <1>2, SameGraph DEF FixInv, None
<1>13. Achieved'
  BY <1>1, SameGraph DEF Achieved
<1> QED BY <1>1, <1>2, <1>5, <1>8, <1>9, <1>10, <1>11, <1>12, <1>13 DEF NoAbort, RoundInv,
           RelaxInv, StrandInv, CacheInv, Shortest

-----------------------------------------------------------------------------
\* Two strands of one partition never run together, so two plain updates
\* never have the same destination.
LEMMA FreeMeansOther ==
  ASSUME RoundInv, ~Atomic, ~ByDestination,
         NEW e, NEW f \in running, Free(e, running)
  PROVE  dst(f) # dst(e)
BY DEF RoundInv, Atomic, ByDestination, Free, PartOf

\* A length below Infinity belongs to a walk, which each edge extends.
LEMMA NewDistFacts ==
  ASSUME IInv, pc = "edges", NEW job \in todo
  PROVE  LET e == job[2]
             newDist == ShortestPathLen[src(e)] + wgh(e)
         IN  /\ newDist \in Int
             /\ ~NegativeCycle => Walks[N-1][dst(e)] <= newDist
             /\ \A S \in SUBSET (Vertex \X Int) : HoldsWalks(S) => <<dst(e), newDist>> \in S
<1> USE DEF IInv
<1> DEFINE e == job[2]
           u == src(e)
           newDist == ShortestPathLen[u] + wgh(e)
<1>1. /\ e \in GA.edges /\ u \in Vertex /\ dst(e) \in Vertex /\ wgh(e) \in Int
      /\ ShortestPathLen[u] \in Int /\ Infinity \in Int
  BY Ranges
<1>2. ShortestPathLen[u] < Infinity
  BY DEF ReachInv
<1>3. ASSUME ~NegativeCycle PROVE Walks[N-1][dst(e)] <= newDist
  <2>1. N-1 \in 0 .. N /\ N \in 1 .. N /\ N \in 0 .. N
    BY SizeAssumption
  <2>2. Walks[N-1][u] \in Int /\ Walks[N-1][dst(e)] \in Int
    BY <1>1, <2>1, WalksFacts
  <2>3. Walks[N-1][u] <= ShortestPathLen[u]
    BY <1>1, <1>3 DEF FixInv
  <2>4. Walks[N-1][u] # Infinity
    BY <1>1, <1>2, <2>2, <2>3
  <2>5. Walks[N][dst(e)] <= Walks[N-1][u] + wgh(e)
    BY <1>1, <2>1, <2>4, WalksFacts
  <2>6. Walks[N] = Walks[N-1]
    BY <1>3 DEF NegativeCycle
  <2> QED BY <1>1, <2>2, <2>3, <2>5, <2>6
<1>4. ASSUME NEW S \in SUBSET (Vertex \X Int), HoldsWalks(S) PROVE <<dst(e), newDist>> \in S
  BY <1>1, <1>2, <1>4 DEF Achieved, HoldsWalks
<1> QED BY <1>1, <1>3, <1>4

\* A strand takes a job and reads the length of its source.
LEMMA ReadSourceStep ==
  ASSUME IInv, NEW job \in todo, ReadSource(job)
  PROVE  IInv'
<1> USE DEF IInv
<1> DEFINE e == job[2]
           d == dst(e)
           new == [k |-> job[1], e |-> e, at |-> "compare",
                   newDist |-> ShortestPathLen[src(e)] + wgh(e)]
<1>1. /\ pc = "edges" /\ ~ByDestination /\ todo' = todo \ {job} /\ Free(e, running)
      /\ strand' = strand \union {new}
      /\ UNCHANGED <<pc, GA, Frontier, mode, v1, ShortestPathLen, Visited, round, cache>>
  BY DEF ReadSource, Take
<1>2. /\ job[1] \in Nat /\ e \in GA.edges /\ new.newDist \in Int
      /\ ~NegativeCycle => Walks[N-1][d] <= new.newDist
      /\ \A S \in SUBSET (Vertex \X Int) : HoldsWalks(S) => <<d, new.newDist>> \in S
  BY <1>1, Ranges, NewDistFacts
<1>3. new.e = e /\ new.at = "compare" /\ new.newDist = ShortestPathLen[src(e)] + wgh(e)
      /\ new \in [k : Nat, e : GA.edges, at : {"compare", "store"}, newDist : Int]
  BY <1>2
<1>4. cache = {}
  BY <1>1 DEF RoundInv
<1> HIDE DEF new
<1>5. TypeOK'
  BY <1>1, <1>3 DEF TypeOK, EngineTypeOK
<1>6. RelaxInv'
  <2>1. ASSUME NEW x \in GA.edges, NEW y \in Int, Relaxed(x, y),
               ShortestPathLen[src(x)] + wgh(x) <= y
        PROVE  Relaxed(x, y)'
    <3>1. CASE x = e
      BY <3>1, <2>1, <1>1, <1>3 DEF Relaxed
    <3>2. CASE x # e
      BY <3>2, <2>1, <1>1 DEF Relaxed
    <3> QED BY <3>1, <3>2
  <2>2. \A v \in Vertex : Lowered(v) => Lowered(v)'
    BY <1>1 DEF Lowered
  <2> QED BY <1>1, <2>1, <2>2, RelaxStep
<1>7. StrandInv'
  <2>1. ~Atomic => \A st \in strand : dst(st.e) # d
    BY <1>1, FreeMeansOther DEF running
  <2> QED BY <1>1, <1>3, <2>1, RoundFrame DEF StrandInv
<1>8. RoundInv' /\ ReachInv' /\ MarkInv' /\ CacheInv'
  BY <1>1, <1>4, RoundFrame DEF RoundInv, ReachInv, MarkInv, CacheInv
<1>9. FixInv'
  BY <1>1, <1>2, <1>3, SameGraph DEF FixInv
<1>10. Achieved'
  BY <1>1, <1>2, <1>3, SameGraph DEF Achieved
<1> QED BY <1>1, <1>5, <1>6, <1>7, <1>8, <1>9, <1>10, RoundFrame

\* The comparison, with the write of writeMin if it is atomic.
LEMMA CompareStep ==
  ASSUME IInv, NEW st \in strand, Compare(st)
  PROVE  IInv'
<1> USE DEF IInv
<1> DEFINE d == dst(st.e)
           new == [st EXCEPT !.at = "store"]
           L == ShortestPathLen
<1>1. /\ pc = "edges" /\ st.at = "compare" /\ cache = {} /\ ~ByDestination
      /\ UNCHANGED <<pc, GA, Frontier, mode, todo, v1, Visited, round, cache>>
  BY Ranges DEF Compare, RoundInv
<1>2. /\ st.e \in GA.edges /\ st.newDist \in Int /\ d \in Vertex /\ L[d] \in Int
      /\ L \in [Vertex -> Int]
  BY Ranges
<1>3. new.e = st.e /\ new.newDist = st.newDist /\ new.at = "store"
      /\ new \in [k : Nat, e : GA.edges, at : {"compare", "store"}, newDist : Int]
  BY DEF TypeOK
<1>4. CASE ~Shorter(st)
  <2>1. strand' = strand \ {st} /\ L' = L
    BY <1>4 DEF Compare
  <2>2. L[d] <= st.newDist
    BY <1>2, <1>4 DEF Shorter
  <2>3. TypeOK'
    BY <1>1, <2>1 DEF TypeOK, EngineTypeOK
  <2>4. RelaxInv'
    <3>1. ASSUME NEW x \in GA.edges, NEW y \in Int, Relaxed(x, y)
          PROVE  Relaxed(x, y)'
      <4>1. CASE x = st.e /\ st.newDist <= y
        BY <4>1, <1>2, <2>1, <2>2 DEF Relaxed
      <4>2. CASE x # st.e \/ ~(st.newDist <= y)
        BY <4>2, <3>1, <1>1, <2>1 DEF Relaxed
      <4> QED BY <4>1, <4>2
    <3>2. \A v \in Vertex : Lowered(v) => Lowered(v)'
      BY <1>1, <2>1 DEF Lowered
    <3> QED BY <1>1, <2>1, <3>1, <3>2, RelaxStep
  <2>5. RoundInv' /\ ReachInv' /\ MarkInv' /\ CacheInv' /\ StrandInv'
    BY <1>1, <2>1, RoundFrame DEF RoundInv, ReachInv, MarkInv, CacheInv, StrandInv
  <2>6. FixInv' /\ Achieved'
    BY <1>1, <2>1, SameGraph DEF FixInv, Achieved
  <2> QED BY <1>1, <2>3, <2>4, <2>5, <2>6, RoundFrame
<1>5. CASE Shorter(st)
  <2>1. /\ strand' = (strand \ {st}) \union {new}
        /\ L' = IF Atomic THEN [L EXCEPT ![d] = st.newDist] ELSE L
    BY <1>5 DEF Compare
  <2>2. L[d] > st.newDist
    BY <1>5 DEF Shorter
  <2>3. /\ L' \in [Vertex -> Int] /\ \A v \in Vertex \ {d} : L'[v] = L[v]
        /\ Atomic => L'[d] = st.newDist
        /\ ~Atomic => L' = L
    BY <1>2, <2>1
  <2>4. \A v \in Vertex : L'[v] <= L[v] /\ L'[v] \in Int /\ L[v] \in Int
    BY <1>2, <2>2, <2>3
  <2> HIDE DEF new
  <2>5. TypeOK'
    BY <1>1, <1>3, <2>1, <2>3 DEF TypeOK, EngineTypeOK
  <2>6. RelaxInv'
    <3>1. ASSUME NEW x \in GA.edges, NEW y \in Int, Relaxed(x, y)
          PROVE  Relaxed(x, y)'
      <4>1. dst(x) \in Vertex
        BY Ranges
      <4>2. CASE L[dst(x)] <= y
        BY <4>1, <4>2, <2>4 DEF Relaxed
      <4>3. CASE \E z \in strand : z.e = x /\ z.newDist <= y
        BY <4>3, <1>3, <2>1 DEF Relaxed
      <4> QED BY <4>2, <4>3, <3>1, <1>1 DEF Relaxed
    <3>2. \A v \in Vertex : Lowered(v) => Lowered(v)'
      BY <1>1, <2>1 DEF Lowered
    <3>3. \A v \in Vertex : L'[v] = L[v] \/ Lowered(v)'
      BY <1>3, <2>1, <2>3 DEF Lowered
    <3> QED BY <1>1, <3>1, <3>2, <3>3, RelaxStep
  <2>7. ReachInv'
    <3>1. \A v \in Vertex : L[v] <= Infinity
      BY DEF ReachInv
    <3>2. \A job \in todo : src(job[2]) \in Vertex /\ L[src(job[2])] < Infinity
      BY Ranges DEF ReachInv
    <3>3. \A v \in Vertex : v1[v] > 0 => L[v] < Infinity
      BY <1>1 DEF ReachInv
    <3> QED BY <1>1, <2>4, <3>1, <3>2, <3>3, Ranges DEF ReachInv
  <2>8. StrandInv'
    <3>1. st.newDist < Infinity
      BY <1>2, <2>2, Ranges DEF ReachInv
    <3>2. ASSUME NEW z \in strand', z.at = "store"
          PROVE  /\ z.newDist < Infinity
                 /\ Atomic => L'[dst(z.e)] <= z.newDist
                 /\ ~Atomic => L'[dst(z.e)] > z.newDist
      <4>1. CASE z = new
        BY <4>1, <1>2, <1>3, <2>2, <2>3, <3>1
      <4>2. CASE z \in strand
        <5>1. dst(z.e) \in Vertex /\ z.newDist \in Int
          BY <4>2, Ranges
        <5> QED BY <4>2, <5>1, <3>2, <2>3, <2>4 DEF StrandInv
      <4> QED BY <4>1, <4>2, <2>1
    <3>3. ASSUME ~Atomic, NEW x \in strand', NEW y \in strand', dst(x.e) = dst(y.e)
          PROVE  x = y
      <4> DEFINE old(z) == IF z = new THEN st ELSE z
      <4>1. old(x) \in strand /\ old(y) \in strand /\ dst(old(x).e) = dst(old(y).e)
        BY <1>3, <2>1, <3>3
      <4>2. old(x) = old(y)
        BY <4>1, <3>3 DEF StrandInv
      <4> QED BY <4>2, <2>1
    <3> QED BY <3>2, <3>3, <1>1, RoundFrame DEF StrandInv
  <2>9. RoundInv'
    <3>1. \A v \in Vertex : L'[v] <= Walks[round][v]
      <4>1. \A v \in Vertex : L[v] <= Walks[round][v] /\ Walks[round][v] \in Int
        BY <1>1, Ranges, WalksFacts DEF RoundInv
      <4> QED BY <4>1, <2>4
    <3> QED BY <3>1, <1>1, RoundFrame DEF RoundInv
  <2>10. MarkInv' /\ CacheInv'
    BY <1>1 DEF MarkInv, CacheInv
  <2>11. FixInv'
    <3> SUFFICES ASSUME ~NegativeCycle
                 PROVE  /\ \A v \in Vertex : Walks[N-1][v] <= L'[v]
                        /\ \A z \in strand' : Walks[N-1][dst(z.e)] <= z.newDist
                        /\ round # N-1
      BY <1>1, SameGraph DEF FixInv
    <3>1. Walks[N-1][d] <= st.newDist
      BY <1>1 DEF FixInv
    <3>2. round # N-1
      <4>1. ASSUME round = N-1 PROVE FALSE
        <5>1. L[d] <= Walks[N-1][d] /\ Walks[N-1][d] \in Int
          BY <1>1, <1>2, <4>1, Ranges, WalksFacts DEF RoundInv
        <5> QED BY <5>1, <3>1, <2>2, <1>2
      <4> QED BY <4>1
    <3>3. \A v \in Vertex : Walks[N-1][v] <= L'[v]
      BY <3>1, <2>3, <1>1 DEF FixInv
    <3>4. \A z \in strand' : Walks[N-1][dst(z.e)] <= z.newDist
      BY <3>1, <2>1, <1>1, <1>3 DEF FixInv
    <3> QED BY <3>2, <3>3, <3>4
  <2>12. Achieved'
    <3> SUFFICES ASSUME NEW S \in SUBSET (Vertex \X Int), HoldsWalks(S)
                 PROVE  /\ \A v \in Vertex : L'[v] < Infinity => <<v, L'[v]>> \in S
                        /\ \A z \in strand' : <<dst(z.e), z.newDist>> \in S
      BY <1>1, SameGraph DEF Achieved
    <3>1. <<d, st.newDist>> \in S
      BY <1>1 DEF Achieved
    <3>2. \A v \in Vertex : L'[v] < Infinity => <<v, L'[v]>> \in S
      BY <3>1, <2>3, <1>1 DEF Achieved
    <3>3. \A z \in strand' : <<dst(z.e), z.newDist>> \in S
      BY <3>1, <2>1, <1>1, <1>3 DEF Achieved
    <3> QED BY <3>2, <3>3
  <2> QED BY <1>1, <2>5, <2>6, <2>7, <2>8, <2>9, <2>10, <2>11, <2>12, RoundFrame
<1> QED BY <1>4, <1>5
\* The store of update, or the CAS on Visited: the vertex enters the output.
LEMMA StoreStep ==
  ASSUME IInv, NEW st \in strand, Store(st)
  PROVE  IInv'
<1> USE DEF IInv
<1> DEFINE d == dst(st.e)
           L == ShortestPathLen
<1>1. /\ pc = "edges" /\ st.at = "store" /\ cache = {} /\ ~ByDestination
      /\ strand' = strand \ {st}
      /\ UNCHANGED <<pc, GA, Frontier, mode, todo, round, cache>>
  BY Ranges DEF Store, RoundInv
<1>2. /\ st.e \in GA.edges /\ st.newDist \in Int /\ d \in Vertex /\ L[d] \in Int
      /\ L \in [Vertex -> Int] /\ v1 \in [Vertex -> Nat] /\ Visited \in [Vertex -> {0, 1}]
      /\ Infinity \in Int
  BY Ranges
<1>3. L' = IF Atomic THEN L ELSE [L EXCEPT ![d] = st.newDist]
  BY DEF Store
<1>4. /\ st.newDist < Infinity
      /\ Atomic => L[d] <= st.newDist
      /\ ~Atomic => L[d] > st.newDist
  BY <1>1 DEF StrandInv
<1>5. /\ L' \in [Vertex -> Int] /\ \A v \in Vertex \ {d} : L'[v] = L[v]
      /\ L'[d] <= st.newDist
      /\ Atomic => L' = L
      /\ ~Atomic => L'[d] = st.newDist
  BY <1>2, <1>3, <1>4
<1>6. \A v \in Vertex : L'[v] <= L[v] /\ L'[v] \in Int /\ L[v] \in Int
  BY <1>2, <1>4, <1>5
<1>7. /\ Visited' \in [Vertex -> {0, 1}] /\ v1' \in [Vertex -> Nat]
      /\ Visited'[d] = 1 /\ v1'[d] = 1
      /\ \A v \in Vertex \ {d} : Visited'[v] = Visited[v] /\ v1'[v] = v1[v]
  <2>1. Visited' = [Visited EXCEPT ![d] = 1] /\ v1' = IF Visited[d] = 0 THEN Marked(d) ELSE v1
    BY DEF Store, Visit
  <2>2. Visited[d] = v1[d]
    BY <1>1, <1>2 DEF MarkInv
  <2> QED BY <2>1, <2>2, <1>2 DEF Marked
<1>8. TypeOK'
  BY <1>1, <1>5, <1>7 DEF TypeOK, EngineTypeOK
<1>9. RelaxInv'
  <2>1. ASSUME NEW x \in GA.edges, NEW y \in Int, Relaxed(x, y)
        PROVE  Relaxed(x, y)'
    <3>1. dst(x) \in Vertex
      BY Ranges
    <3>2. CASE L[dst(x)] <= y
      BY <3>1, <3>2, <1>6 DEF Relaxed
    <3>3. CASE x = st.e /\ st.newDist <= y
      BY <3>3, <1>2, <1>5 DEF Relaxed
    <3>4. CASE \E z \in strand \ {st} : z.e = x /\ z.newDist <= y
      BY <3>4, <1>1 DEF Relaxed
    <3> QED BY <3>2, <3>3, <3>4, <2>1, <1>1 DEF Relaxed
  <2>2. ASSUME NEW v \in Vertex, Lowered(v) PROVE Lowered(v)'
    BY <2>2, <1>1, <1>7 DEF Lowered
  <2>3. \A v \in Vertex : L'[v] = L[v] \/ Lowered(v)'
    BY <1>5, <1>7 DEF Lowered
  <2> QED BY <1>1, <2>1, <2>2, <2>3, RelaxStep
<1>10. ReachInv'
  <2>1. \A v \in Vertex : L[v] <= Infinity
    BY DEF ReachInv
  <2>2. \A job \in todo : src(job[2]) \in Vertex /\ L[src(job[2])] < Infinity
    BY Ranges DEF ReachInv
  <2>3. ASSUME NEW v \in Vertex, v1'[v] > 0 PROVE L'[v] < Infinity
    <3>1. CASE v = d
      BY <3>1, <1>2, <1>4, <1>5, <1>6
    <3>2. CASE v # d
      BY <3>2, <2>3, <1>1, <1>5, <1>7 DEF ReachInv
    <3> QED BY <3>1, <3>2
  <2> QED BY <1>1, <1>2, <1>6, <2>1, <2>2, <2>3 DEF ReachInv
<1>11. MarkInv'
  BY <1>1, <1>7 DEF MarkInv
<1>12. StrandInv'
  <2>1. ASSUME NEW z \in strand', z.at = "store"
        PROVE  /\ z.newDist < Infinity
               /\ Atomic => L'[dst(z.e)] <= z.newDist
               /\ ~Atomic => L'[dst(z.e)] > z.newDist
    <3>1. z \in strand /\ z # st /\ dst(z.e) \in Vertex
      BY <1>1, Ranges
    <3>2. ~Atomic => dst(z.e) # d
      BY <3>1 DEF StrandInv
    <3> QED BY <3>1, <3>2, <2>1, <1>5 DEF StrandInv
  <2> QED BY <2>1, <1>1, RoundFrame DEF StrandInv
<1>13. RoundInv'
  <2>1. \A v \in Vertex : L'[v] <= Walks[round][v]
    <3>1. \A v \in Vertex : L[v] <= Walks[round][v] /\ Walks[round][v] \in Int
      BY <1>1, Ranges, WalksFacts DEF RoundInv
    <3> QED BY <3>1, <1>6
  <2> QED BY <2>1, <1>1, RoundFrame DEF RoundInv
<1>14. CacheInv'
  BY <1>1 DEF CacheInv
<1>15. FixInv'
  <2>1. ~NegativeCycle => \A v \in Vertex : Walks[N-1][v] <= L'[v]
    BY <1>1, <1>5 DEF FixInv
  <2>2. ~NegativeCycle => round # N-1
    BY <1>1 DEF FixInv
  <2> QED BY <2>1, <2>2, <1>1, SameGraph DEF FixInv
<1>16. Achieved'
  <2> SUFFICES ASSUME NEW S \in SUBSET (Vertex \X Int), HoldsWalks(S)
               PROVE  \A v \in Vertex : L'[v] < Infinity => <<v, L'[v]>> \in S
    BY <1>1, SameGraph DEF Achieved
  <2>1. <<d, st.newDist>> \in S
    BY <1>1 DEF Achieved
  <2> QED BY <2>1, <1>1, <1>5 DEF Achieved
<1> QED BY <1>1, <1>8, <1>9, <1>10, <1>11, <1>12, <1>13, <1>14, <1>15, <1>16, RoundFrame

\* A destination of a CSC round gets its cache, the only one of its partition.
LEMMA CreateCacheStep ==
  ASSUME IInv, NEW v \in Vertex, CreateCache(v)
  PROVE  IInv'
<1> USE DEF IInv
<1> DEFINE new == [d |-> v, shortestPathLen |-> ShortestPathLen[v], visited |-> Visited[v]]
<1>1. /\ pc = "edges" /\ ByDestination /\ cache' = cache \union {new} /\ strand = {}
      /\ \A c \in cache : c.d # v
      /\ UNCHANGED <<pc, GA, Frontier, mode, todo, v1, ShortestPathLen, Visited,
                     round, strand>>
  BY DEF CreateCache, RoundInv
<1>2. /\ new.d = v /\ new.shortestPathLen = ShortestPathLen[v] /\ new.visited = Visited[v]
      /\ new \in [d : Vertex, shortestPathLen : Int, visited : {0, 1}]
  BY Ranges
<1> HIDE DEF new
<1>3. TypeOK'
  BY <1>1, <1>2 DEF TypeOK, EngineTypeOK
<1>4. RelaxInv'
  <2>1. \A x \in GA.edges, y \in Int : Relaxed(x, y) => Relaxed(x, y)'
    BY <1>1 DEF Relaxed
  <2>2. \A u \in Vertex : Lowered(u) => Lowered(u)'
    BY <1>1 DEF Lowered
  <2> QED BY <1>1, <2>1, <2>2, RelaxStep
<1>5. RoundInv' /\ ReachInv' /\ StrandInv'
  BY <1>1, RoundFrame DEF RoundInv, ReachInv, StrandInv
<1>6. MarkInv'
  <2>1. Visited[v] = v1[v]
    BY <1>1 DEF MarkInv
  <2> QED BY <2>1, <1>1, <1>2 DEF MarkInv
<1>7. CacheInv'
  <2>1. ShortestPathLen[v] <= ShortestPathLen[v]
    BY Ranges
  <2> QED BY <2>1, <1>1, <1>2 DEF CacheInv
<1>8. FixInv' /\ Achieved'
  BY <1>1, <1>2, SameGraph DEF FixInv, Achieved
<1> QED BY <1>1, <1>3, <1>4, <1>5, <1>6, <1>7, <1>8, RoundFrame
\* An edge operation on the cache of its destination.
LEMMA CachedUpdateStep ==
  ASSUME IInv, NEW c \in cache, NEW job \in todo, CachedUpdate(c, job)
  PROVE  IInv'
<1> USE DEF IInv
<1> DEFINE d == c.d
           L == ShortestPathLen
           e == job[2]
           newDist == L[src(e)] + wgh(e)
           lower == c.shortestPathLen > newDist
           new == [c EXCEPT !.shortestPathLen = newDist, !.visited = 1]
<1>1. /\ pc = "edges" /\ ByDestination /\ todo' = todo \ {job} /\ dst(e) = d /\ strand = {}
      /\ UNCHANGED <<pc, GA, Frontier, mode, ShortestPathLen, Visited, round, strand>>
  BY DEF CachedUpdate, Take, RoundInv
<1>2. /\ cache' = IF lower THEN (cache \ {c}) \union {new} ELSE cache
      /\ v1' = IF lower /\ c.visited = 0 THEN Marked(d) ELSE v1
  BY DEF CachedUpdate
<1>3. /\ newDist \in Int
      /\ ~NegativeCycle => Walks[N-1][d] <= newDist
      /\ \A S \in SUBSET (Vertex \X Int) : HoldsWalks(S) => <<d, newDist>> \in S
  BY <1>1, NewDistFacts
<1>4. /\ e \in GA.edges /\ d \in Vertex /\ L[d] \in Int /\ c.shortestPathLen \in Int
      /\ c.visited \in {0, 1} /\ v1 \in [Vertex -> Nat] /\ Infinity \in Int
  BY Ranges
<1>5. c.shortestPathLen <= L[d] /\ L[d] <= Infinity /\ c.visited = v1[d]
  BY <1>4 DEF CacheInv, ReachInv, MarkInv
<1>6. \A z \in cache : z.d = d => z = c
  BY DEF CacheInv
<1>7. /\ new.d = d /\ new.shortestPathLen = newDist /\ new.visited = 1
      /\ new \in [d : Vertex, shortestPathLen : Int, visited : {0, 1}]
  BY <1>3 DEF TypeOK
<1>8. CASE ~lower
  <2>1. cache' = cache /\ v1' = v1 /\ c.shortestPathLen <= newDist
    BY <1>2, <1>3, <1>4, <1>8
  <2>2. TypeOK'
    BY <1>1, <2>1 DEF TypeOK, EngineTypeOK
  <2>3. RelaxInv'
    <3>1. ASSUME NEW x \in GA.edges, NEW y \in Int, Relaxed(x, y), L[src(x)] + wgh(x) <= y
          PROVE  Relaxed(x, y)'
      <4>1. CASE x = e
        <5>1. newDist <= y => c.shortestPathLen <= y
          BY <2>1, <1>3, <1>4
        <5> QED BY <4>1, <5>1, <3>1, <1>1, <2>1 DEF Relaxed
      <4>2. CASE x # e
        BY <4>2, <3>1, <1>1, <2>1 DEF Relaxed
      <4> QED BY <4>1, <4>2
    <3>2. \A v \in Vertex : Lowered(v) => Lowered(v)'
      BY <1>1, <2>1 DEF Lowered
    <3> QED BY <1>1, <3>1, <3>2, RelaxStep
  <2>4. RoundInv' /\ ReachInv' /\ MarkInv' /\ StrandInv' /\ CacheInv'
    BY <1>1, <2>1, RoundFrame DEF RoundInv, ReachInv, MarkInv, StrandInv, CacheInv
  <2>5. FixInv' /\ Achieved'
    BY <1>1, <2>1, SameGraph DEF FixInv, Achieved
  <2> QED BY <1>1, <2>2, <2>3, <2>4, <2>5, RoundFrame
<1>9. CASE lower
  <2>1. cache' = (cache \ {c}) \union {new}
    BY <1>2, <1>9
  <2>2. /\ v1' \in [Vertex -> Nat] /\ v1'[d] = 1
        /\ \A v \in Vertex \ {d} : v1'[v] = v1[v]
    BY <1>1, <1>2, <1>4, <1>5, <1>9 DEF Marked, ByDestination
  <2>3. newDist < c.shortestPathLen
    BY <1>9
  <2> HIDE DEF new, newDist
  <2>4. TypeOK'
    BY <1>1, <1>7, <2>1, <2>2 DEF TypeOK, EngineTypeOK
  <2>5. RelaxInv'
    <3>1. ASSUME NEW x \in GA.edges, NEW y \in Int, Relaxed(x, y), L[src(x)] + wgh(x) <= y
          PROVE  Relaxed(x, y)'
      <4>1. CASE x = e
        BY <4>1, <3>1, <1>1, <1>7, <2>1 DEF Relaxed, newDist
      <4>2. CASE c.d = dst(x) /\ c.shortestPathLen <= y
        BY <4>2, <1>3, <1>4, <1>7, <2>1, <2>3 DEF Relaxed
      <4>3. CASE x # e /\ ~(c.d = dst(x) /\ c.shortestPathLen <= y)
        BY <4>3, <3>1, <1>1, <2>1 DEF Relaxed
      <4> QED BY <4>1, <4>2, <4>3
    <3>2. \A v \in Vertex : Lowered(v) => Lowered(v)'
      BY <1>1, <2>2 DEF Lowered
    <3> QED BY <1>1, <3>1, <3>2, RelaxStep
  <2>6. ReachInv'
    <3>1. newDist < Infinity
      BY <1>3, <1>4, <1>5, <2>3
    <3>2. ASSUME NEW v \in Vertex, v1'[v] > 0
          PROVE  L[v] < Infinity \/ \E z \in cache' : z.d = v /\ z.shortestPathLen < Infinity
      <4>1. CASE v = d
        BY <4>1, <3>1, <1>7, <2>1
      <4>2. CASE v # d
        BY <4>2, <3>2, <2>1, <2>2 DEF ReachInv
      <4> QED BY <4>1, <4>2
    <3> QED BY <3>2, <1>1 DEF ReachInv
  <2>7. MarkInv'
    BY <1>1, <1>6, <1>7, <2>1, <2>2, Ranges DEF MarkInv
  <2>8. RoundInv' /\ StrandInv'
    BY <1>1, RoundFrame DEF RoundInv, StrandInv
  <2>9. CacheInv'
    <3>1. newDist <= L[d]
      BY <1>3, <1>4, <1>5, <2>3
    <3> QED BY <3>1, <1>1, <1>6, <1>7, <2>1 DEF CacheInv
  <2>10. FixInv'
    <3>1. ASSUME ~NegativeCycle, round = N-1 PROVE FALSE
      <4>1. L[d] <= Walks[N-1][d] /\ Walks[N-1][d] \in Int
        BY <1>1, <1>4, <3>1, Ranges, WalksFacts DEF RoundInv
      <4> QED BY <4>1, <3>1, <1>3, <1>4, <1>5, <2>3
    <3> QED BY <3>1, <1>1, <1>3, <1>7, <2>1, SameGraph DEF FixInv
  <2>11. Achieved'
    BY <1>1, <1>3, <1>7, <2>1, SameGraph DEF Achieved
  <2> QED BY <1>1, <2>4, <2>5, <2>6, <2>7, <2>8, <2>9, <2>10, <2>11, RoundFrame
<1> QED BY <1>8, <1>9

\* The cache goes back to the shared arrays.
LEMMA CommitCacheStep ==
  ASSUME IInv, NEW c \in cache, CommitCache(c)
  PROVE  IInv'
<1> USE DEF IInv
<1> DEFINE d == c.d
           L == ShortestPathLen
<1>1. /\ pc = "edges" /\ ByDestination /\ strand = {} /\ cache' = cache \ {c}
      /\ Visited' = [Visited EXCEPT ![d] = c.visited]
      /\ L' = [L EXCEPT ![d] = c.shortestPathLen]
      /\ UNCHANGED <<pc, GA, Frontier, mode, todo, v1, round, strand>>
  BY Ranges DEF CommitCache, RoundInv
<1>2. /\ d \in Vertex /\ L \in [Vertex -> Int] /\ c.shortestPathLen \in Int
      /\ c.visited \in {0, 1} /\ Visited \in [Vertex -> {0, 1}] /\ Infinity \in Int
  BY Ranges
<1>3. /\ c.shortestPathLen <= L[d] /\ c.visited = v1[d]
      /\ c.visited = 0 => c.shortestPathLen = L[d]
  BY DEF CacheInv, MarkInv
<1>4. \A z \in cache : z.d = d => z = c
  BY DEF CacheInv
<1>5. /\ L' \in [Vertex -> Int] /\ L'[d] = c.shortestPathLen
      /\ \A v \in Vertex \ {d} : L'[v] = L[v]
      /\ Visited' \in [Vertex -> {0, 1}] /\ Visited'[d] = c.visited
      /\ \A v \in Vertex \ {d} : Visited'[v] = Visited[v]
  BY <1>1, <1>2
<1>6. \A v \in Vertex : L'[v] <= L[v] /\ L'[v] \in Int /\ L[v] \in Int
  BY <1>2, <1>3, <1>5
<1>7. TypeOK'
  BY <1>1, <1>5 DEF TypeOK, EngineTypeOK
<1>8. RelaxInv'
  <2>1. ASSUME NEW x \in GA.edges, NEW y \in Int, Relaxed(x, y)
        PROVE  Relaxed(x, y)'
    <3>1. dst(x) \in Vertex
      BY Ranges
    <3>2. CASE L[dst(x)] <= y
      BY <3>1, <3>2, <1>6 DEF Relaxed
    <3>3. CASE c.d = dst(x) /\ c.shortestPathLen <= y
      BY <3>3, <1>5 DEF Relaxed
    <3>4. CASE ~(L[dst(x)] <= y) /\ ~(c.d = dst(x) /\ c.shortestPathLen <= y)
      BY <3>4, <2>1, <1>1 DEF Relaxed
    <3> QED BY <3>2, <3>3, <3>4
  <2>2. \A v \in Vertex : Lowered(v) => Lowered(v)'
    BY <1>1 DEF Lowered
  <2>3. ASSUME NEW v \in Vertex, L'[v] # L[v] PROVE Lowered(v)'
    <3>1. v = d /\ c.visited = 1
      BY <2>3, <1>2, <1>3, <1>5
    <3> QED BY <3>1, <1>1, <1>3 DEF Lowered
  <2> QED BY <1>1, <2>1, <2>2, <2>3, RelaxStep
<1>9. ReachInv'
  <2>1. \A v \in Vertex : L[v] <= Infinity
    BY DEF ReachInv
  <2>2. \A job \in todo : src(job[2]) \in Vertex /\ L[src(job[2])] < Infinity
    BY Ranges DEF ReachInv
  <2>3. ASSUME NEW v \in Vertex, v1[v] > 0
        PROVE  L'[v] < Infinity \/ \E z \in cache' : z.d = v /\ z.shortestPathLen < Infinity
    <3>1. CASE L[v] < Infinity
      BY <3>1, <1>2, <1>6
    <3>2. CASE \E z \in cache : z.d = v /\ z.shortestPathLen < Infinity
      BY <3>2, <1>1, <1>5
    <3> QED BY <3>1, <3>2, <2>3 DEF ReachInv
  <2> QED BY <1>1, <1>2, <1>6, <2>1, <2>2, <2>3 DEF ReachInv
<1>10. MarkInv'
  BY <1>1, <1>3, <1>5 DEF MarkInv
<1>11. RoundInv'
  <2>1. \A v \in Vertex : L'[v] <= Walks[round][v]
    <3>1. \A v \in Vertex : L[v] <= Walks[round][v] /\ Walks[round][v] \in Int
      BY <1>1, Ranges, WalksFacts DEF RoundInv
    <3> QED BY <3>1, <1>6
  <2> QED BY <2>1, <1>1, RoundFrame DEF RoundInv
<1>12. CacheInv'
  <2>1. \A z \in cache' : z.d \in Vertex \ {d}
    BY <1>1, <1>4, Ranges
  <2> QED BY <2>1, <1>1, <1>5 DEF CacheInv
<1>13. StrandInv'
  BY <1>1 DEF StrandInv
<1>14. FixInv'
  BY <1>1, <1>5, SameGraph DEF FixInv
<1>15. Achieved'
  BY <1>1, <1>5, SameGraph DEF Achieved
<1> QED BY <1>1, <1>7, <1>8, <1>9, <1>10, <1>11, <1>12, <1>13, <1>14, <1>15, RoundFrame

-----------------------------------------------------------------------------
\* Every step preserves the invariant.
LEMMA StepInv ==
  ASSUME SafelyPartitioned, IInv, [Next]_vars
  PROVE  IInv'
<1>1. CASE Round
  BY <1>1, RoundStep
<1>2. CASE NegativeWeightCycle
  BY <1>2, NegativeWeightCycleStep
<1>3. CASE \E job \in todo : ReadSource(job)
  BY <1>3, ReadSourceStep
<1>4. CASE \E st \in strand : Compare(st) \/ Store(st)
  BY <1>4, CompareStep, StoreStep
<1>5. CASE \E v \in Vertex : CreateCache(v)
  BY <1>5, CreateCacheStep
<1>6. CASE \E c \in cache, job \in todo : CachedUpdate(c, job)
  BY <1>6, CachedUpdateStep
<1>7. CASE \E c \in cache : CommitCache(c)
  BY <1>7, CommitCacheStep
<1>8. CASE Return
  BY <1>8, ReturnStep
<1>9. CASE Done
  BY <1>9, DoneStep
<1>10. CASE UNCHANGED vars
  <2> USE <1>10 DEF vars
  <2>1. TypeOK' /\ NoAbort' /\ (GA \in Graphs)' /\ FrontierInv'
    BY DEF IInv, TypeOK, EngineTypeOK, NoAbort, FrontierInv
  <2>2. RoundInv' /\ ReachInv' /\ MarkInv' /\ StrandInv' /\ CacheInv'
    BY SameGraph DEF IInv, RoundInv, ReachInv, Active, MarkInv, StrandInv, CacheInv,
       Atomic, ByDestination
  <2>3. RelaxInv'
    <3>1. \A e \in GA.edges : \A y : Relaxed(e, y)' <=> Relaxed(e, y)
      BY DEF Relaxed
    <3>2. \A v \in Vertex : Lowered(v)' <=> Lowered(v)
      BY DEF Lowered
    <3>3. RelaxInv /\ Walks' = Walks
      BY SameGraph DEF IInv
    <3>4. \A e \in GA.edges : src(e) \in Vertex
      BY Ranges
    <3>5. UNCHANGED <<pc, GA, round, ShortestPathLen>>
      OBVIOUS
    <3> HIDE <1>10
    <3> QED BY <3>1, <3>2, <3>3, <3>4, <3>5 DEF RelaxInv
  <2>4. FixInv' /\ Achieved'
    BY SameGraph DEF IInv, FixInv, Active, Achieved
  <2>5. RoundBound' /\ PendingIsActive' /\ Shortest'
    BY SameGraph DEF IInv, RoundBound, PendingIsActive, Active, Shortest
  <2> QED BY <2>1, <2>2, <2>3, <2>4, <2>5 DEF IInv
<1>11. CASE Stopped
  BY <1>10, <1>11 DEF Stopped
<1> QED BY <1>1, <1>2, <1>3, <1>4, <1>5, <1>6, <1>7, <1>8, <1>9, <1>10, <1>11 DEF Next

(***************************************************************************)
(* The inductive invariant holds in every reachable state, for every       *)
(* graph, number of partitions, start vertex and schedule, provided the    *)
(* edge lists of the COO traversal are those of a build that partitions    *)
(* by destination.                                                         *)
(***************************************************************************)
THEOREM Invariance ==
  ASSUME SafelyPartitioned
  PROVE  Spec => []IInv
<1>1. IInv /\ [Next]_vars => IInv'
  BY StepInv
<1> QED BY <1>1, InitInv, PTL DEF Spec

\* Types are kept, the registers of the strands and the caches included.
THEOREM TypeCorrect ==
  ASSUME SafelyPartitioned
  PROVE  Spec => []TypeOK
<1>1. IInv => TypeOK
  BY DEF IInv
<1> QED BY <1>1, Invariance, PTL

\* No frontier sends edgeMap or toSparse to abort().
THEOREM RelaxationNeverAborts ==
  ASSUME SafelyPartitioned
  PROVE  Spec => []NoAbort
<1>1. IInv => NoAbort
  BY DEF IInv
<1> QED BY <1>1, Invariance, PTL

\* After k rounds every length is at most that of the best walk of k edges,
\* although the strands read lengths that others are lowering.
THEOREM RoundsBoundTheLengths ==
  ASSUME SafelyPartitioned
  PROVE  Spec => []RoundBound
<1>1. IInv => RoundBound
  BY DEF IInv
<1> QED BY <1>1, Invariance, PTL

\* At the loop head the source of an edge that can be relaxed is active; Visited
\* has let each vertex into the frontier once, and is clear.
THEOREM NoRelaxationIsForgotten ==
  ASSUME SafelyPartitioned
  PROVE  Spec => []RoundsHandOver
<1>1. IInv => PendingIsActive
  BY DEF IInv
<1>2. IInv => EachVertexOnce
  BY DEF IInv, RoundInv, MarkInv, None, EachVertexOnce
<1>3. IInv => RoundsHandOver
  BY <1>1, <1>2 DEF RoundsHandOver
<1> QED BY <1>3, Invariance, PTL

(***************************************************************************)
(* The program ends with the lengths of the shortest paths, or, exactly    *)
(* when a negative cycle can be reached, with -(INT_MAX/2) everywhere.     *)
(***************************************************************************)
THEOREM LengthsAreShortest ==
  ASSUME SafelyPartitioned
  PROVE  Spec => []Shortest
<1>1. IInv => Shortest
  BY DEF IInv
<1> QED BY <1>1, Invariance, PTL
=============================================================================
