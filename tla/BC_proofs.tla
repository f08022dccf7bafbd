------------------------------ MODULE BC_proofs ------------------------------
(***************************************************************************)
(* Proofs about BC, for every number of vertices, every set of graphs,     *)
(* every partitioning and every pair of thresholds.  As for Components,    *)
(* SafelyPartitioned is a hypothesis: plain additions to one destination   *)
(* must not run side by side.  It is the only one, but for the scores,     *)
(* which also need graphs that can be walked backwards (Transposable) and  *)
(* divisions without remainder (UnitIsExact).                              *)
(***************************************************************************)
EXTENDS BC, Lemmas

-----------------------------------------------------------------------------
(***************************************************************************)
(* Sums along edges, walks and distances.                                  *)
(***************************************************************************)
Into(E, v) == {e \in E : dst(e) = v}
\* The sum along some edges of the values of their sources.
SumOf(f, D) == Total([e \in D |-> f[src(e)]], D)

\* A sum along the edges of a graph is a natural number, zero only if all of
\* the values are.
LEMMA SumOfNat ==
  \A f, D : IsFiniteSet(D) /\ (\A e \in D : f[src(e)] \in Nat) =>
    SumOf(f, D) \in Nat /\ (SumOf(f, D) = 0 <=> \A e \in D : f[src(e)] = 0)
<1> SUFFICES ASSUME NEW f, NEW D, IsFiniteSet(D), \A e \in D : f[src(e)] \in Nat
             PROVE  SumOf(f, D) \in Nat /\ (SumOf(f, D) = 0 <=> \A e \in D : f[src(e)] = 0)
  OBVIOUS
<1> DEFINE h == [e \in D |-> f[src(e)]]
<1>1. \A e \in D : h[e] = f[src(e)]
  OBVIOUS
<1>2. SumOf(f, D) = Total(h, D)
  BY DEF SumOf
<1> HIDE DEF h
<1> QED BY <1>1, <1>2, TotalNat

\* One edge more adds the value of its source.
LEMMA SumOfAdd ==
  \A f, D, e : IsFiniteSet(D) /\ e \notin D /\ (\A x \in D \union {e} : f[src(x)] \in Nat) =>
    SumOf(f, D \union {e}) = SumOf(f, D) + f[src(e)]
<1> SUFFICES ASSUME NEW f, NEW D, NEW e, IsFiniteSet(D), e \notin D,
                    \A x \in D \union {e} : f[src(x)] \in Nat
             PROVE  SumOf(f, D \union {e}) = SumOf(f, D) + f[src(e)]
  OBVIOUS
<1> DEFINE C == D \union {e}
           h == [x \in C |-> f[src(x)]]
           k == [x \in D |-> f[src(x)]]
<1>1. \A x \in C : h[x] = f[src(x)]
  OBVIOUS
<1>2. \A x \in D : k[x] = f[src(x)]
  OBVIOUS
<1>3. SumOf(f, C) = Total(h, C) /\ SumOf(f, D) = Total(k, D)
  BY DEF SumOf
<1> HIDE DEF h, k
<1>4. IsSummable(h, C) /\ IsSummable(h, D) /\ e \notin D
  BY <1>1, FS_AddElement DEF IsSummable
<1>5. Total(h, C) = Total(h, D) + h[e]
  BY <1>4, TotalAdd
<1>6. \A x \in D : k[x] = h[x]
  BY <1>1, <1>2
<1>7. Total(k, D) = Total(h, D)
  BY <1>4, <1>6, TotalSame
<1> QED BY <1>1, <1>3, <1>5, <1>7

\* A sum depends on the values of the sources only.
LEMMA SumOfSame ==
  \A f, h, D : (\A e \in D : f[src(e)] = h[src(e)]) => SumOf(f, D) = SumOf(h, D)
<1> SUFFICES ASSUME NEW f, NEW h, NEW D, \A e \in D : f[src(e)] = h[src(e)]
             PROVE  SumOf(f, D) = SumOf(h, D)
  OBVIOUS
<1>1. [e \in D |-> f[src(e)]] = [e \in D |-> h[src(e)]]
  OBVIOUS
<1> QED BY <1>1 DEF SumOf

\* Edges whose sources are zero can be left out.
LEMMA SumOfRestrict ==
  \A f, D, C : /\ IsFiniteSet(D) /\ C \subseteq D
               /\ \A e \in D : f[src(e)] \in Nat
               /\ \A e \in D \ C : f[src(e)] = 0
               => SumOf(f, D) = SumOf(f, C)
<1> SUFFICES ASSUME NEW f, NEW D, NEW C, IsFiniteSet(D), C \subseteq D,
                    \A e \in D : f[src(e)] \in Nat, \A e \in D \ C : f[src(e)] = 0
             PROVE  SumOf(f, D) = SumOf(f, C)
  OBVIOUS
<1> DEFINE h == [x \in D |-> f[src(x)]]
           k == [x \in C |-> f[src(x)]]
<1>1. \A x \in D : h[x] = f[src(x)]
  OBVIOUS
<1>2. \A x \in C : k[x] = h[x]
  OBVIOUS
<1>3. SumOf(f, D) = Total(h, D) /\ SumOf(f, C) = Total(k, C)
  BY DEF SumOf
<1> HIDE DEF h, k
<1>4. IsSummable(h, D) /\ IsSummable(h, C)
  BY <1>1, FS_Subset DEF IsSummable
<1>5. Total(h, D) = Total(h, C)
  BY <1>1, <1>4, TotalRestrict
<1>6. Total(k, C) = Total(h, C)
  BY <1>2, <1>4, TotalSame
<1> QED BY <1>3, <1>5, <1>6

\* Extended is such a sum.
LEMMA ExtendedIsSum ==
  ASSUME GA \in Graphs
  PROVE  \A f, w : Extended(f, w) = SumOf(f, Into(GA.edges, w))
BY DEF Extended, SumOf, Into, Total, MapThenSumSet, MapThenFoldSet

\* It is a natural number, positive if and only if some edge leads on.
LEMMA ExtendedFacts ==
  ASSUME GA \in Graphs, NEW f \in [Vertex -> Nat], NEW w \in Vertex
  PROVE  /\ Extended(f, w) \in Nat
         /\ Extended(f, w) > 0 <=> \E e \in GA.edges : dst(e) = w /\ f[src(e)] > 0
<1>1. IsFiniteSet(Into(GA.edges, w)) /\ \A e \in Into(GA.edges, w) : f[src(e)] \in Nat
  BY GraphFacts, FS_Subset DEF Into
<1>2. /\ Extended(f, w) \in Nat
      /\ Extended(f, w) = 0 <=> \A e \in Into(GA.edges, w) : f[src(e)] = 0
  BY <1>1, ExtendedIsSum, SumOfNat
<1> QED BY <1>1, <1>2 DEF Into

\* The equations of the recursive definition of Walks, which have a solution.
LEMMA WalksEquations ==
  ASSUME GA \in Graphs
  PROVE  /\ \A k \in 0 .. N : Walks[k] \in [Vertex -> [Vertex -> Nat]]
         /\ \A u \in Vertex : Walks[0][u] = [Zero EXCEPT ![u] = 1]
         /\ \A k \in 1 .. N, u \in Vertex :
              Walks[k][u] = [w \in Vertex |-> Extended(Walks[k-1][u], w)]
<1> DEFINE R == [Vertex -> Nat]
           T == [Vertex -> R]
           none == [u \in Vertex |-> [Zero EXCEPT ![u] = 1]]
           further(f) == [w \in Vertex |-> Extended(f, w)]
           longer(f) == [u \in Vertex |-> further(f[u])]
           g == [f \in T |-> longer(f)]
           Is(f) == f = [k \in 0 .. N |->
                           [u \in Vertex |-> IF k = 0 THEN [Zero EXCEPT ![u] = 1]
                                             ELSE further(f[k-1][u])]]
<1>1. none \in T
  BY DEF Zero
<1>2. \A f \in R : further(f) \in R
  BY ExtendedFacts
<1>3. \A f \in T : longer(f) \in T
  <2> HIDE DEF R, further
  <2> QED BY <1>2
<1>4. g \in [T -> T]
  <2> HIDE DEF T, longer
  <2> QED BY <1>3
<1>5. PICK f \in [0 .. N -> T] : f[0] = none /\ \A k \in 1 .. N : f[k] = g[f[k-1]]
  <2>1. N \in Nat
    BY SizeAssumption
  <2> HIDE DEF T, g, none
  <2>2. IteratesIn(T, N, none, g)
    BY <1>1, <1>4, <2>1, RecursionExists
  <2> QED BY <2>2 DEF IteratesIn, Iterates
<1>6. \A k \in 1 .. N : g[f[k-1]] = longer(f[k-1])
  <2> SUFFICES ASSUME NEW k \in 1 .. N PROVE f[k-1] \in T
    OBVIOUS
  <2>1. k-1 \in 0 .. N
    BY SizeAssumption
  <2> HIDE DEF T
  <2> QED BY <2>1
<1>7. Is(f)
  <2>1. ASSUME NEW k \in 0 .. N
        PROVE  f[k] = [u \in Vertex |-> IF k = 0 THEN [Zero EXCEPT ![u] = 1]
                                        ELSE further(f[k-1][u])]
    <3>1. CASE k = 0
      BY <3>1, <1>5
    <3>2. CASE k # 0
      <4>1. k \in 1 .. N
        BY <3>2
      <4>2. f[k] = longer(f[k-1])
        <5> HIDE DEF g, longer, T, none
        <5> QED BY <4>1, <1>5, <1>6
      <4> HIDE DEF g, further, T
      <4> QED BY <4>2, <3>2
    <3> QED BY <3>1, <3>2
  <2>2. f = [k \in 0 .. N |-> f[k]]
    OBVIOUS
  <2> HIDE DEF g, T, further, none
  <2> QED BY <2>1, <2>2
<1>8. Is(Walks)
  <2>1. Walks = CHOOSE h : Is(h)
    BY DEF Walks
  <2> HIDE DEF Is
  <2> QED BY <2>1, <1>7
<1>9. ASSUME NEW k \in 0 .. N
      PROVE  Walks[k] = [u \in Vertex |-> IF k = 0 THEN [Zero EXCEPT ![u] = 1]
                                          ELSE further(Walks[k-1][u])]
  <2> HIDE DEF further
  <2> QED BY <1>8, Zenon
<1>10. Walks[0] = none
  BY <1>9, SizeAssumption
<1>11. \A k \in 1 .. N : Walks[k] = longer(Walks[k-1])
  <2> SUFFICES ASSUME NEW k \in 1 .. N PROVE Walks[k] = longer(Walks[k-1])
    OBVIOUS
  <2>1. k \in 0 .. N /\ k # 0
    BY SizeAssumption
  <2> HIDE DEF further
  <2> QED BY <2>1, <1>9
<1>12. \A k \in 0 .. N : Walks[k] \in T
  <2> DEFINE S == {k \in 0 .. N : Walks[k] \in T}
  <2>1. 0 \in S
    <3> HIDE DEF none, T
    <3> QED BY <1>1, <1>10, SizeAssumption
  <2>2. ASSUME NEW k \in 0 .. N-1, k \in S PROVE k + 1 \in S
    <3>1. k + 1 \in 1 .. N /\ (k + 1) - 1 = k /\ k + 1 \in 0 .. N
      BY SizeAssumption
    <3>2. Walks[k+1] = longer(Walks[k])
      <4> HIDE DEF longer
      <4> QED BY <3>1, <1>11
    <3>3. longer(Walks[k]) \in T
      <4> HIDE DEF longer, T
      <4> QED BY <2>2, <1>3
    <3> HIDE DEF T, longer
    <3>4. Walks[k+1] \in T
      BY <3>2, <3>3
    <3> QED BY <3>1, <3>4
  <2>3. \A k \in 0 .. N : k \in S
    <3> HIDE DEF S
    <3> QED BY <2>1, <2>2, BoundedInduction, SizeAssumption
  <2> QED BY <2>3
<1>13. \A u \in Vertex : Walks[0][u] = [Zero EXCEPT ![u] = 1]
  BY <1>10
<1>14. \A k \in 1 .. N, u \in Vertex : Walks[k][u] = further(Walks[k-1][u])
  <2> HIDE DEF further
  <2> QED BY <1>11
<1> QED BY <1>12, <1>13, <1>14

\* The numbers of walks.
LEMMA WalksFacts ==
  ASSUME GA \in Graphs
  PROVE  /\ \A k \in 0 .. N, u, w \in Vertex : Walks[k][u][w] \in Nat
         /\ \A u, w \in Vertex : Walks[0][u][w] = IF u = w THEN 1 ELSE 0
         /\ \A k \in 1 .. N, u, w \in Vertex :
              /\ Walks[k][u][w] = SumOf(Walks[k-1][u], Into(GA.edges, w))
              /\ Walks[k][u][w] > 0 <=>
                   \E e \in GA.edges : dst(e) = w /\ Walks[k-1][u][src(e)] > 0
<1>1. \A k \in 0 .. N, u, w \in Vertex : Walks[k][u][w] \in Nat
  BY WalksEquations
<1>2. \A u, w \in Vertex : Walks[0][u][w] = IF u = w THEN 1 ELSE 0
  BY WalksEquations DEF Zero
<1>3. ASSUME NEW k \in 1 .. N, NEW u \in Vertex, NEW w \in Vertex
      PROVE  /\ Walks[k][u][w] = SumOf(Walks[k-1][u], Into(GA.edges, w))
             /\ Walks[k][u][w] > 0 <=>
                  \E e \in GA.edges : dst(e) = w /\ Walks[k-1][u][src(e)] > 0
  <2>1. k-1 \in 0 .. N
    BY SizeAssumption
  <2>2. Walks[k-1][u] \in [Vertex -> Nat]
    BY <2>1, WalksEquations
  <2>3. Walks[k][u] = [x \in Vertex |-> Extended(Walks[k-1][u], x)]
    BY WalksEquations, Zenon
  <2>4. Walks[k][u][w] = Extended(Walks[k-1][u], w)
    BY <2>3
  <2> QED BY <2>2, <2>4, ExtendedFacts, ExtendedIsSum
<1> QED BY <1>1, <1>2, <1>3

\* The distance is the least number of edges of a walk.
LEMMA DistanceFacts ==
  ASSUME GA \in Graphs, NEW u \in Vertex, NEW w \in Vertex
  PROVE  LET d == Distance(Walks, u, w)
         IN  /\ d \in 0 .. N
             /\ d < N => Walks[d][u][w] > 0
             /\ \A k \in 0 .. N-1 : Walks[k][u][w] > 0 => d <= k
<1> DEFINE L == {k \in 0 .. N-1 : Walks[k][u][w] > 0}
           d == Distance(Walks, u, w)
<1>1. CASE L = {}
  <2>1. d = N
    BY <1>1 DEF Distance, Far
  <2>2. \A k \in 0 .. N-1 : ~(Walks[k][u][w] > 0)
    BY <1>1
  <2> QED BY <2>1, <2>2, SizeAssumption
<1>2. CASE L # {}
  <2>1. d = Min(L)
    BY <1>2 DEF Distance
  <2>2. L \in SUBSET Nat
    BY SizeAssumption
  <2>3. \E k \in L : \A j \in L : k <= j
    <3> HIDE DEF L
    <3> DEFINE S == {n \in Nat : \A k \in L : n <= k}
    <3>1. SUFFICES ASSUME \A k \in L : \E j \in L : ~(k <= j) PROVE FALSE
      OBVIOUS
    <3>2. 0 \in S
      BY <2>2
    <3>3. ASSUME NEW n \in Nat, n \in S PROVE n + 1 \in S
      <4>1. n \notin L
        BY <2>2, <3>1, <3>3
      <4> QED BY <2>2, <3>3, <4>1
    <3>4. \A n \in Nat : n \in S
      <4> HIDE DEF S
      <4> QED BY <3>2, <3>3, SetInduction
    <3>5. PICK k \in L : TRUE
      BY <1>2
    <3>6. k \in Nat /\ k + 1 \in Nat
      BY <2>2, <3>5
    <3>7. k + 1 \in S
      BY <3>4, <3>6
    <3> QED BY <3>5, <3>6, <3>7
  <2>4. d \in L /\ \A j \in L : d <= j
    <3> HIDE DEF L, d
    <3> QED BY <2>1, <2>3 DEF Min
  <2>5. d \in 0 .. N-1 /\ Walks[d][u][w] > 0
    BY <2>4
  <2>6. \A k \in 0 .. N-1 : Walks[k][u][w] > 0 => d <= k
    BY <2>4
  <2>7. d \in 0 .. N
    BY <2>5, SizeAssumption
  <2> QED BY <2>5, <2>6, <2>7
<1> QED BY <1>1, <1>2

\* A vertex is at distance 0 from itself alone.
LEMMA DistanceZero ==
  ASSUME GA \in Graphs, NEW u \in Vertex
  PROVE  \A w \in Vertex : Distance(Walks, u, w) = 0 <=> w = u
<1> SUFFICES ASSUME NEW w \in Vertex PROVE Distance(Walks, u, w) = 0 <=> w = u
  OBVIOUS
<1>1. /\ Distance(Walks, u, w) \in 0 .. N
      /\ Distance(Walks, u, w) < N => Walks[Distance(Walks, u, w)][u][w] > 0
      /\ \A k \in 0 .. N-1 : Walks[k][u][w] > 0 => Distance(Walks, u, w) <= k
  BY DistanceFacts
<1>2. 0 \in 0 .. N-1 /\ 0 < N
  BY SizeAssumption
<1>3. Walks[0][u][w] = IF u = w THEN 1 ELSE 0
  BY WalksFacts
<1> QED BY <1>1, <1>2, <1>3

\* An edge leads one further at most, and the last edge of a shortest walk
\* leads exactly one further.
LEMMA DistanceSteps ==
  ASSUME GA \in Graphs, NEW u \in Vertex
  PROVE  /\ \A e \in GA.edges : Distance(Walks, u, src(e)) < N =>
              Distance(Walks, u, dst(e)) <= Distance(Walks, u, src(e)) + 1
         /\ \A w \in Vertex : Distance(Walks, u, w) > 0 /\ Distance(Walks, u, w) < N =>
              \E e \in GA.edges : dst(e) = w /\
                Distance(Walks, u, src(e)) = Distance(Walks, u, w) - 1
<1> DEFINE d(w) == Distance(Walks, u, w)
<1>0. \A w \in Vertex : /\ d(w) \in 0 .. N
                        /\ d(w) < N => Walks[d(w)][u][w] > 0
                        /\ \A k \in 0 .. N-1 : Walks[k][u][w] > 0 => d(w) <= k
  BY DistanceFacts
<1> HIDE DEF d
<1>1. ASSUME NEW e \in GA.edges, d(src(e)) < N PROVE d(dst(e)) <= d(src(e)) + 1
  <2> DEFINE k == d(src(e)) + 1
  <2>1. src(e) \in Vertex /\ dst(e) \in Vertex
    BY GraphFacts
  <2>2. k \in 1 .. N /\ k - 1 = d(src(e))
    BY <1>0, <1>1, <2>1, SizeAssumption
  <2>3. Walks[k-1][u][src(e)] > 0
    BY <1>0, <1>1, <2>1, <2>2
  <2>4. Walks[k][u][dst(e)] > 0
    <3> HIDE DEF k
    <3> QED BY <2>1, <2>2, <2>3, WalksFacts
  <2> HIDE DEF k
  <2>5. CASE k = N
    BY <1>0, <2>1, <2>5 DEF k
  <2>6. CASE k # N
    <3>1. k \in 0 .. N-1
      BY <2>2, <2>6, SizeAssumption
    <3>2. d(dst(e)) <= k
      BY <1>0, <2>1, <2>4, <3>1
    <3> QED BY <3>2 DEF k
  <2> QED BY <2>5, <2>6
<1>2. ASSUME NEW w \in Vertex, d(w) > 0, d(w) < N
      PROVE  \E e \in GA.edges : dst(e) = w /\ d(src(e)) = d(w) - 1
  <2>1. d(w) \in 1 .. N /\ Walks[d(w)][u][w] > 0 /\ d(w) - 1 \in 0 .. N-1
    BY <1>0, <1>2, SizeAssumption
  <2>2. PICK e \in GA.edges : dst(e) = w /\ Walks[d(w) - 1][u][src(e)] > 0
    BY <2>1, WalksFacts
  <2>3. src(e) \in Vertex
    BY GraphFacts
  <2>4. d(src(e)) <= d(w) - 1 /\ d(src(e)) \in 0 .. N
    BY <1>0, <2>1, <2>2, <2>3
  <2>5. d(w) <= d(src(e)) + 1
    BY <1>1, <2>1, <2>2, <2>3, <2>4, SizeAssumption
  <2> QED BY <2>1, <2>2, <2>4, <2>5
<1> QED BY <1>1, <1>2 DEF d

\* The distance from Start, and the number of shortest paths.
dist(v) == Distance(Walks, Start, v)
sigma(v) == Walks[dist(v)][Start][v]

\* Walks to a vertex that is further away than k edges come, as their last
\* edge, from the vertices at distance k.
LEMMA NextCount ==
  ASSUME GA \in Graphs, NEW k \in 0 .. N-1, NEW v \in Vertex, dist(v) > k,
         NEW f, \A s \in Vertex : dist(s) = k => f[s] = sigma(s)
  PROVE  Walks[k+1][Start][v] = SumOf(f, {e \in GA.edges : dst(e) = v /\ dist(src(e)) = k})
<1> DEFINE D == Into(GA.edges, v)
           C == {e \in GA.edges : dst(e) = v /\ dist(src(e)) = k}
           h == Walks[k][Start]
<1>1. k + 1 \in 1 .. N /\ (k + 1) - 1 = k /\ k \in 0 .. N /\ k < N /\ k \in Nat
  BY SizeAssumption
<1>2. Walks[k+1][Start][v] = SumOf(h, D)
  BY <1>1, WalksFacts, StartAssumption
<1>3. IsFiniteSet(D) /\ C \subseteq D /\ \A e \in D : h[src(e)] \in Nat
  BY <1>1, GraphFacts, FS_Subset, WalksFacts, StartAssumption DEF Into
<1>4. ASSUME NEW e \in D \ C PROVE h[src(e)] = 0
  <2>1. e \in GA.edges /\ dst(e) = v /\ dist(src(e)) # k /\ src(e) \in Vertex
    BY GraphFacts DEF Into
  <2>2. dist(src(e)) \in 0 .. N /\ \A j \in 0 .. N-1 : Walks[j][Start][src(e)] > 0 => dist(src(e)) <= j
    BY <2>1, DistanceFacts, StartAssumption DEF dist
  <2>3. dist(v) \in 0 .. N
    BY DistanceFacts, StartAssumption DEF dist
  <2>4. dist(src(e)) < N => dist(v) <= dist(src(e)) + 1
    BY <2>1, DistanceSteps, StartAssumption DEF dist
  <2>5. dist(src(e)) > k
    BY <1>1, <2>1, <2>2, <2>3, <2>4, SizeAssumption
  <2>6. ~(h[src(e)] > 0)
    BY <1>1, <2>2, <2>5
  <2> QED BY <2>6, <1>3
<1>5. SumOf(h, D) = SumOf(h, C)
  <2> HIDE DEF h, D, C
  <2> QED BY <1>3, <1>4, SumOfRestrict
<1>6. ASSUME NEW e \in C PROVE h[src(e)] = f[src(e)]
  <2>1. dist(src(e)) = k /\ src(e) \in Vertex
    BY GraphFacts
  <2>2. f[src(e)] = sigma(src(e))
    BY <2>1
  <2> QED BY <2>1, <2>2 DEF sigma
<1>7. SumOf(h, C) = SumOf(f, C)
  <2> HIDE DEF h, C
  <2> QED BY <1>6, SumOfSame
<1> QED BY <1>2, <1>5, <1>7

-----------------------------------------------------------------------------
(***************************************************************************)
(* A round, in either phase.  An edge is pending while it is a job or a    *)
(* strand has it; the edges that are not have added the value of their     *)
(* source to their destination, in the array or in a cache.                *)
(***************************************************************************)
Pending(e) == <<1, e>> \in todo \/ \E st \in strand : st.e = e

\* The edges that have been added to a vertex in this round, and their sum.
Taken(v) == {e \in Edges : dst(e) = v /\ src(e) \in Active /\ ~Pending(e)}

Gathered(v) == SumOf(Array, Taken(v))

\* The vertices whose sums matter: in the backward phase edges lead to vertices
\* that were not reached, too.
Counts(v) == ~Visited[v] /\ (phase = "backward" => dist(v) < N)

\* Who has which edge: an edge that is pending is in one place, and plain
\* additions to a vertex do not meet.
HandInv ==
  /\ mode \in {"coo", "csc", "sparse"} /\ (mode = "coo" => ~GA.source)
  /\ todo \subseteq {1} \X {e \in Edges : src(e) \in Active}
  /\ strand \subseteq [k : {1}, e : Edges, oldV : Nat]
  /\ \A st \in strand : /\ src(st.e) \in Active /\ ~Visited[dst(st.e)]
                        /\ <<1, st.e>> \notin todo
                        /\ ~Atomic => st.oldV = Array[dst(st.e)]
  /\ \A s, t \in strand : s.e = t.e \/ (~Atomic /\ dst(s.e) = dst(t.e)) => s = t
  /\ cache \subseteq [d : Vertex, value : Nat]
  /\ \A c \in cache : ~Visited[c.d]
  /\ \A b, c \in cache : b.d = c.d => b = c
  /\ cache # {} => ByDestination
  /\ strand # {} => ~ByDestination

\* The sums so far.
SumInv ==
  \A v \in Vertex : Counts(v) =>
    /\ v \notin cached => Array[v] = Gathered(v)
    /\ \A c \in cache : c.d = v => c.value = Gathered(v)

\* In the forward phase the first addition to a vertex marks it.
MarkInv ==
  phase = "forward" =>
    /\ \A v \in Active : Array[v] > 0
    /\ \A v \in Vertex : v1[v] = IF ~Visited[v] /\ Gathered(v) > 0 THEN 1 ELSE 0

\* The invariant of a round.
RoundInv ==
  /\ Array \in [Vertex -> Nat] /\ v1 \in [Vertex -> Nat]
  /\ \A v \in Active : Visited[v]
  /\ HandInv /\ SumInv /\ MarkInv

\* The graph as it is turned now is as finite as the one that was loaded.
LEMMA EdgesFacts ==
  ASSUME GA \in Graphs
  PROVE  /\ IsFiniteSet(Edges)
         /\ \A e \in Edges : src(e) \in Vertex /\ dst(e) \in Vertex
<1> DEFINE h == [e \in GA.edges |-> reverse(e)]
<1>1. h \in Surjection(GA.edges, Reversed(GA.edges))
  BY DEF Surjection, Reversed
<1>2. IsFiniteSet(Reversed(GA.edges))
  BY <1>1, GraphFacts, FS_Surjection
<1>3. \A e \in Reversed(GA.edges) : src(e) \in Vertex /\ dst(e) \in Vertex
  BY GraphFacts DEF Reversed, reverse, src, dst
<1> QED BY <1>2, <1>3, GraphFacts DEF Edges

\* Distances are those of the graph as it was loaded.
LEMMA SameGraph ==
  ASSUME GA' = GA
  PROVE  Walks' = Walks /\ \A v : dist(v)' = dist(v) /\ sigma(v)' = sigma(v)
BY DEF Walks, Extended, dist, sigma, Distance, MapThenSumSet, MapThenFoldSet

\* What no step of a round changes.
LEMMA SameInRound ==
  ASSUME UNCHANGED unchangedInRound
  PROVE  /\ UNCHANGED <<GA, mode, Visited, phase>>
         /\ Edges' = Edges /\ Active' = Active /\ Atomic' = Atomic
         /\ ByDestination' = ByDestination
         /\ \A v : Counts(v)' = Counts(v)
<1>1. UNCHANGED <<GA, mode, Visited, phase, Frontier, transposed>>
  BY DEF unchangedInRound
<1>2. \A v : Counts(v)' = Counts(v)
  BY <1>1, SameGraph DEF Counts
<1> QED BY <1>1, <1>2 DEF Edges, Active, Atomic, ByDestination

\* The sums of a vertex: finite, and of natural numbers.
LEMMA GatheredFacts ==
  ASSUME GA \in Graphs, RoundInv
  PROVE  \A v : /\ IsFiniteSet(Taken(v))
                /\ \A e \in Taken(v) : Array[src(e)] \in Nat
                /\ Gathered(v) \in Nat
<1> SUFFICES ASSUME NEW v
             PROVE  /\ IsFiniteSet(Taken(v))
                    /\ \A e \in Taken(v) : Array[src(e)] \in Nat
                    /\ Gathered(v) \in Nat
  OBVIOUS
<1>1. IsFiniteSet(Taken(v))
  BY EdgesFacts, FS_Subset DEF Taken
<1>2. \A e \in Taken(v) : Array[src(e)] \in Nat
  BY EdgesFacts DEF Taken, RoundInv
<1> QED BY <1>1, <1>2, SumOfNat DEF Gathered

\* A sum stays the same while no edge into its vertex is taken and no active
\* vertex changes its value.
LEMMA SameSum ==
  ASSUME NEW v, Taken(v)' = Taken(v), \A u \in Active : Array'[u] = Array[u]
  PROVE  Gathered(v)' = Gathered(v)
<1>1. \A e \in Taken(v) : Array'[src(e)] = Array[src(e)]
  BY DEF Taken
<1>2. SumOf(Array', Taken(v)) = SumOf(Array, Taken(v))
  BY <1>1, SumOfSame
<1> QED BY <1>2 DEF Gathered

\* An edge that is taken adds the value of its source.
LEMMA TakenSum ==
  ASSUME GA \in Graphs, RoundInv, NEW e \in Edges, src(e) \in Active, Pending(e),
         Taken(dst(e))' = Taken(dst(e)) \union {e},
         \A u \in Active : Array'[u] = Array[u]
  PROVE  Gathered(dst(e))' = Gathered(dst(e)) + Array[src(e)]
<1> DEFINE D == Taken(dst(e))
<1>1. IsFiniteSet(D) /\ e \notin D /\ \A x \in D \union {e} : Array[src(x)] \in Nat
  BY GatheredFacts, EdgesFacts DEF Taken, RoundInv
<1>2. \A x \in D \union {e} : Array'[src(x)] = Array[src(x)]
  BY DEF Taken
<1> HIDE DEF D
<1>3. SumOf(Array', D \union {e}) = SumOf(Array, D \union {e})
  BY <1>2, SumOfSame
<1>4. SumOf(Array, D \union {e}) = SumOf(Array, D) + Array[src(e)]
  BY <1>1, SumOfAdd
<1> QED BY <1>3, <1>4 DEF Gathered, D

\* An assignment writes one entry of the array of the phase.
LEMMA AssignFacts ==
  ASSUME NEW d, NEW x, Assign(d, x), phase' = phase, phase \in {"forward", "backward"}
  PROVE  Array' = [Array EXCEPT ![d] = x]
BY DEF Assign, Array

\* What holds in every round.
InRound == GA \in Graphs /\ phase \in {"forward", "backward"} /\ pc = "edges"

\* A step that changes no array and takes no edge keeps the sums.
LEMMA QuietStep ==
  ASSUME InRound, RoundInv, UNCHANGED unchangedInRound,
         UNCHANGED <<NumPaths, Dependencies, v1, cache>>, HandInv',
         \A v \in Vertex : ~Visited[v] => Taken(v)' = Taken(v)
  PROVE  RoundInv'
<1>1. /\ UNCHANGED <<GA, mode, Visited, phase>> /\ Active' = Active
      /\ \A v : Counts(v)' = Counts(v)
  BY SameInRound
<1>2. Array' = Array /\ cached' = cached
  BY <1>1 DEF Array, cached
<1>3. \A v \in Vertex : ~Visited[v] => Gathered(v)' = Gathered(v)
  BY <1>2, SameSum
<1>4. SumInv'
  BY <1>1, <1>2, <1>3 DEF SumInv, RoundInv, Counts
<1>5. MarkInv'
  BY <1>1, <1>2, <1>3 DEF MarkInv, RoundInv
<1> QED BY <1>1, <1>2, <1>4, <1>5 DEF RoundInv

\* The edges into visited vertices are dropped.
LEMMA SkipVisitedStep ==
  ASSUME InRound, RoundInv, SkipVisited
  PROVE  RoundInv'
<1>1. /\ todo' = todo \ {job \in todo : Visited[dst(job[2])]}
      /\ UNCHANGED unchangedInRound
      /\ UNCHANGED <<NumPaths, Dependencies, v1, strand, cache>>
  BY DEF SkipVisited, cond, strands
<1>2. /\ UNCHANGED <<GA, mode, Visited, phase>> /\ Active' = Active /\ Edges' = Edges
      /\ Atomic' = Atomic /\ ByDestination' = ByDestination /\ Array' = Array
  BY <1>1, SameInRound DEF Array
<1>3. HandInv'
  BY <1>1, <1>2 DEF HandInv, RoundInv
<1>4. ASSUME NEW v \in Vertex, ~Visited[v] PROVE Taken(v)' = Taken(v)
  <2>1. \A e : dst(e) = v => (<<1, e>> \in todo' <=> <<1, e>> \in todo)
    BY <1>1, <1>4
  <2>2. \A e : dst(e) = v => (Pending(e)' <=> Pending(e))
    BY <1>1, <2>1 DEF Pending
  <2> QED BY <1>2, <2>2 DEF Taken
<1> QED BY <1>1, <1>3, <1>4, QuietStep

\* A strand takes a job: edges of the same partition wait for it.
LEMMA ReadOldStep ==
  ASSUME InRound, RoundInv, NEW job \in todo, ReadOld(job)
  PROVE  RoundInv'
<1> DEFINE e == job[2]
           new == [k |-> job[1], e |-> e, oldV |-> Array[dst(e)]]
<1>1. /\ ~ByDestination /\ todo' = todo \ {job} /\ ~Visited[dst(e)]
      /\ Free(e, running) /\ strand' = strand \union {new}
      /\ UNCHANGED unchangedInRound
      /\ UNCHANGED <<NumPaths, Dependencies, v1, cache>>
  BY DEF ReadOld, Take, cond
<1>2. /\ UNCHANGED <<GA, mode, Visited, phase>> /\ Active' = Active /\ Edges' = Edges
      /\ Atomic' = Atomic /\ ByDestination' = ByDestination /\ Array' = Array
  BY <1>1, SameInRound DEF Array
<1>3. job = <<1, e>> /\ e \in Edges /\ src(e) \in Active /\ dst(e) \in Vertex
  BY EdgesFacts DEF RoundInv, HandInv, InRound
<1>4. new \in [k : {1}, e : Edges, oldV : Nat] /\ new.e = e /\ new.oldV = Array[dst(e)]
  BY <1>3 DEF RoundInv
<1> HIDE DEF new
<1>5. ASSUME NEW st \in strand PROVE st.e # e /\ (~Atomic => dst(st.e) # dst(e))
  <2>1. st.e # e
    BY <1>3 DEF RoundInv, HandInv
  <2>2. ASSUME ~Atomic PROVE dst(st.e) # dst(e)
    <3>1. mode = "coo" /\ ~GA.source
      BY <1>1, <2>2 DEF RoundInv, HandInv, Atomic, ByDestination
    <3>2. PartOf(st.e) # PartOf(e)
      BY <1>1, <3>1 DEF Free, running
    <3> QED BY <3>1, <3>2 DEF PartOf
  <2> QED BY <2>1, <2>2
<1>6. HandInv'
  <2>1. strand' \subseteq [k : {1}, e : Edges, oldV : Nat]
    BY <1>1, <1>4 DEF RoundInv, HandInv
  <2>2. ASSUME NEW st \in strand'
        PROVE  /\ src(st.e) \in Active /\ ~Visited[dst(st.e)] /\ <<1, st.e>> \notin todo'
               /\ ~Atomic => st.oldV = Array[dst(st.e)]
    <3>1. CASE st \in strand
      BY <1>1, <3>1 DEF RoundInv, HandInv
    <3>2. CASE st = new
      BY <1>1, <1>3, <1>4, <3>2
    <3> QED BY <1>1, <3>1, <3>2
  <2>3. ASSUME NEW s \in strand', NEW t \in strand',
               s.e = t.e \/ (~Atomic /\ dst(s.e) = dst(t.e))
        PROVE  s = t
    <3>1. CASE s \in strand /\ t \in strand
      BY <2>3, <3>1 DEF RoundInv, HandInv
    <3>2. CASE s = new /\ t = new
      BY <3>2
    <3>3. CASE s = new /\ t \in strand
      BY <1>4, <1>5, <2>3, <3>3
    <3>4. CASE s \in strand /\ t = new
      BY <1>4, <1>5, <2>3, <3>4
    <3> QED BY <1>1, <3>1, <3>2, <3>3, <3>4
  <2>4. cache' # {} => ByDestination
    BY <1>1 DEF RoundInv, HandInv
  <2>5. todo' \subseteq {1} \X {x \in Edges : src(x) \in Active}
    BY <1>1 DEF RoundInv, HandInv
  <2> QED BY <1>1, <1>2, <2>1, <2>2, <2>3, <2>4, <2>5 DEF RoundInv, HandInv
<1>7. ASSUME NEW x PROVE Pending(x)' <=> Pending(x)
  <2>1. CASE x = e
    BY <1>1, <1>3, <1>4, <2>1 DEF Pending
  <2>2. CASE x # e
    BY <1>1, <1>3, <1>4, <2>2 DEF Pending
  <2> QED BY <2>1, <2>2
<1>8. \A v : Taken(v)' = Taken(v)
  BY <1>2, <1>7 DEF Taken
<1> QED BY <1>1, <1>6, <1>8, QuietStep

\* A CAS that fails reads the sum again.
LEMMA ReadAgainStep ==
  ASSUME InRound, RoundInv, NEW st \in strand, Atomic,
         strand' = (strand \ {st}) \union {[st EXCEPT !.oldV = Array[dst(st.e)]]},
         UNCHANGED unchangedInRound,
         UNCHANGED <<NumPaths, Dependencies, v1, todo, cache>>
  PROVE  RoundInv'
<1> DEFINE new == [st EXCEPT !.oldV = Array[dst(st.e)]]
<1>1. /\ UNCHANGED <<GA, mode, Visited, phase>> /\ Active' = Active /\ Edges' = Edges
      /\ Atomic' = Atomic /\ ByDestination' = ByDestination /\ Array' = Array
  BY SameInRound DEF Array
<1>2. st \in [k : {1}, e : Edges, oldV : Nat] /\ dst(st.e) \in Vertex
  BY EdgesFacts DEF RoundInv, HandInv, InRound
<1>3. new \in [k : {1}, e : Edges, oldV : Nat] /\ new.e = st.e
  BY <1>2 DEF RoundInv
<1> HIDE DEF new
<1>4. strand' = (strand \ {st}) \union {new}
  BY DEF new
<1>5. HandInv'
  <2>1. strand' \subseteq [k : {1}, e : Edges, oldV : Nat]
    BY <1>3, <1>4 DEF RoundInv, HandInv
  <2>2. ASSUME NEW s \in strand'
        PROVE  src(s.e) \in Active /\ ~Visited[dst(s.e)] /\ <<1, s.e>> \notin todo
    <3>1. PICK t \in strand : t.e = s.e
      BY <1>3, <1>4
    <3> QED BY <3>1 DEF RoundInv, HandInv
  <2>3. ASSUME NEW s \in strand', NEW t \in strand', s.e = t.e
        PROVE  s = t
    <3>1. \A x \in strand : x.e = st.e => x = st
      BY DEF RoundInv, HandInv
    <3>2. CASE s = new \/ t = new
      BY <1>3, <1>4, <2>3, <3>1, <3>2
    <3>3. CASE s # new /\ t # new
      BY <1>4, <2>3, <3>3 DEF RoundInv, HandInv
    <3> QED BY <3>2, <3>3
  <2> QED BY <1>1, <1>4, <2>1, <2>2, <2>3 DEF RoundInv, HandInv
<1>6. \A x : Pending(x)' <=> Pending(x)
  BY <1>3, <1>4 DEF Pending
<1>7. \A v : Taken(v)' = Taken(v)
  BY <1>1, <1>6 DEF Taken
<1> QED BY <1>5, <1>7, QuietStep

\* The marks after an addition: only the first one changes the output.
LEMMA AddedMarks ==
  ASSUME InRound, RoundInv, NEW e \in Edges, src(e) \in Active, ~Visited[dst(e)],
         UNCHANGED unchangedInRound,
         NEW x \in Nat, Added(dst(e), x),
         phase = "forward" => x = Gathered(dst(e)),
         \A u \in Active : Array'[u] = Array[u],
         Gathered(dst(e))' = Gathered(dst(e)) + Array[src(e)],
         \A v \in Vertex : v # dst(e) => Gathered(v)' = Gathered(v)
  PROVE  v1' \in [Vertex -> Nat] /\ MarkInv'
<1> DEFINE d == dst(e)
<1>1. UNCHANGED <<GA, mode, Visited, phase>> /\ Active' = Active
  BY SameInRound
<1>2. d \in Vertex /\ src(e) \in Vertex /\ v1 \in [Vertex -> Nat]
  BY EdgesFacts DEF InRound, RoundInv
<1>3. v1' = IF x = 0 THEN Marked(d) ELSE v1
  BY DEF Added
<1>4. v1' \in [Vertex -> Nat]
  BY <1>2, <1>3, MarkedFacts
<1>5. ASSUME phase = "forward" PROVE MarkInv'
  <2>1. \A u \in Active : Array'[u] > 0
    BY <1>5 DEF RoundInv, MarkInv
  <2>2. ASSUME NEW v \in Vertex, v # d
        PROVE  v1'[v] = IF ~Visited[v] /\ Gathered(v)' > 0 THEN 1 ELSE 0
    <3>1. v1'[v] = v1[v]
      BY <1>2, <1>3, <2>2, MarkedFacts
    <3> QED BY <3>1, <1>5, <2>2 DEF RoundInv, MarkInv
  <2>3. Array[src(e)] > 0 /\ Array[src(e)] \in Nat /\ Gathered(d) \in Nat /\ x = Gathered(d)
    BY <1>2, <1>5, GatheredFacts DEF RoundInv, MarkInv, InRound
  <2>4. v1[d] = IF ~Visited[d] /\ Gathered(d) > 0 THEN 1 ELSE 0
    BY <1>2, <1>5 DEF RoundInv, MarkInv
  <2>5. v1'[d] = 1 /\ Gathered(d)' > 0
    <3>1. CASE x = 0
      <4>1. v1[d] = 0
        BY <2>3, <2>4, <3>1
      <4> QED BY <1>2, <1>3, <2>3, <3>1, <4>1 DEF Marked
    <3>2. CASE x # 0
      <4>1. v1[d] = 1
        BY <2>3, <2>4, <3>2
      <4> QED BY <1>3, <2>3, <3>2, <4>1
    <3> QED BY <3>1, <3>2
  <2> QED BY <1>1, <2>1, <2>2, <2>5 DEF MarkInv
<1>6. phase # "forward" => MarkInv'
  BY <1>1 DEF MarkInv
<1> QED BY <1>4, <1>5, <1>6

\* A sum that is stored, when the array holds what was read.
LEMMA AddStep ==
  ASSUME InRound, RoundInv, NEW st \in strand, st.oldV = Array[dst(st.e)],
         Assign(dst(st.e), st.oldV + Array[src(st.e)]),
         Added(dst(st.e), st.oldV), strand' = strand \ {st},
         UNCHANGED unchangedInRound, UNCHANGED <<todo, cache>>
  PROVE  RoundInv'
<1> DEFINE e == st.e
           d == dst(st.e)
           x == st.oldV + Array[src(st.e)]
<1>1. /\ UNCHANGED <<GA, mode, Visited, phase>> /\ Active' = Active /\ Edges' = Edges
      /\ Atomic' = Atomic /\ ByDestination' = ByDestination
      /\ \A v : Counts(v)' = Counts(v)
  BY SameInRound
<1>2. /\ e \in Edges /\ src(e) \in Active /\ src(e) \in Vertex /\ d \in Vertex
      /\ ~Visited[d] /\ <<1, e>> \notin todo /\ cache = {}
      /\ st \in [k : {1}, e : Edges, oldV : Nat]
  BY EdgesFacts DEF InRound, RoundInv, HandInv
<1>3. Array' = [Array EXCEPT ![d] = x]
  BY <1>1, AssignFacts DEF InRound
<1>4. Array \in [Vertex -> Nat] /\ Array' \in [Vertex -> Nat]
  BY <1>2, <1>3 DEF RoundInv
<1>5. Array'[d] = x /\ \A v \in Vertex : v # d => Array'[v] = Array[v]
  BY <1>2, <1>3, <1>4
<1>6. \A u \in Active : Array'[u] = Array[u]
  BY <1>2, <1>5 DEF RoundInv, Active
<1>7. \A y : Pending(y)' <=> Pending(y) /\ y # e
  <2>1. \A t \in strand : t.e = e => t = st
    BY DEF RoundInv, HandInv
  <2> QED BY <1>2, <2>1 DEF Pending
<1>8. Taken(d)' = Taken(d) \union {e} /\ \A v : v # d => Taken(v)' = Taken(v)
  BY <1>1, <1>2, <1>7 DEF Taken
<1>9. Gathered(d)' = Gathered(d) + Array[src(e)]
  BY <1>2, <1>6, <1>8, TakenSum DEF InRound, Pending
<1>10. \A v : v # d => Gathered(v)' = Gathered(v)
  BY <1>6, <1>8, SameSum
<1>11. Counts(d) => st.oldV = Gathered(d)
  BY <1>2 DEF RoundInv, SumInv, cached
<1>12. HandInv'
  <2>1. ASSUME NEW t \in strand, t # st, ~Atomic PROVE t.oldV = Array'[dst(t.e)]
    <3>1. dst(t.e) # d /\ dst(t.e) \in Vertex /\ t.oldV = Array[dst(t.e)]
      BY <2>1, EdgesFacts DEF InRound, RoundInv, HandInv
    <3> QED BY <3>1, <1>5
  <2> QED BY <1>1, <2>1 DEF HandInv, RoundInv
<1>13. SumInv'
  <2> SUFFICES ASSUME NEW v \in Vertex, Counts(v) PROVE Array'[v] = Gathered(v)'
    BY <1>1, <1>2 DEF SumInv
  <2>1. CASE v = d
    BY <2>1, <1>5, <1>9, <1>11
  <2>2. CASE v # d
    BY <2>2, <1>2, <1>5, <1>10 DEF RoundInv, SumInv, cached
  <2> QED BY <2>1, <2>2
<1>14. v1' \in [Vertex -> Nat] /\ MarkInv'
  <2>1. phase = "forward" => Counts(d)
    BY <1>2 DEF Counts
  <2> QED BY <1>2, <1>6, <1>9, <1>10, <1>11, <2>1, AddedMarks
<1> QED BY <1>1, <1>4, <1>12, <1>13, <1>14 DEF RoundInv

\* update and updateAtomic.
LEMMA StoreStep ==
  ASSUME InRound, RoundInv, NEW st \in strand, Store(st) \/ CompareAndSwap(st)
  PROVE  RoundInv'
<1>1. UNCHANGED unchangedInRound /\ UNCHANGED <<todo, cache>>
  BY DEF Store, CompareAndSwap
<1>2. CASE Store(st)
  <2>1. st.oldV = Array[dst(st.e)]
    BY <1>2 DEF Store, RoundInv, HandInv
  <2> QED BY <1>1, <1>2, <2>1, AddStep DEF Store
<1>3. CASE CompareAndSwap(st)
  <2>1. CASE Array[dst(st.e)] = st.oldV
    BY <1>1, <1>3, <2>1, AddStep DEF CompareAndSwap
  <2>2. CASE Array[dst(st.e)] # st.oldV
    <3>1. /\ Atomic
          /\ strand' = (strand \ {st}) \union {[st EXCEPT !.oldV = Array[dst(st.e)]]}
          /\ UNCHANGED <<NumPaths, Dependencies, v1>>
      BY <1>3, <2>2 DEF CompareAndSwap
    <3> QED BY <1>1, <3>1, ReadAgainStep
  <2> QED BY <2>1, <2>2
<1> QED BY <1>2, <1>3

\* A cache starts with what the array holds.
LEMMA CreateCacheStep ==
  ASSUME InRound, RoundInv, NEW v \in Vertex, CreateCache(v)
  PROVE  RoundInv'
<1> DEFINE new == [d |-> v, value |-> Array[v]]
<1>1. /\ ByDestination /\ v \notin cached /\ ~Visited[v]
      /\ cache' = cache \union {new}
      /\ UNCHANGED unchangedInRound
      /\ UNCHANGED <<todo, v1, NumPaths, Dependencies, strand>>
  BY DEF CreateCache, cond
<1>2. /\ UNCHANGED <<GA, mode, Visited, phase>> /\ Active' = Active /\ Edges' = Edges
      /\ Atomic' = Atomic /\ ByDestination' = ByDestination /\ Array' = Array
      /\ \A u : Counts(u)' = Counts(u)
  BY <1>1, SameInRound DEF Array
<1>3. new \in [d : Vertex, value : Nat] /\ new.d = v /\ new.value = Array[v]
  BY DEF RoundInv
<1> HIDE DEF new
<1>4. \A c \in cache : c.d # v
  BY <1>1 DEF cached
<1>5. HandInv'
  <2>1. cache' \subseteq [d : Vertex, value : Nat]
    BY <1>1, <1>3 DEF RoundInv, HandInv
  <2>2. ASSUME NEW b \in cache', NEW c \in cache', b.d = c.d PROVE b = c
    <3>1. CASE b \in cache /\ c \in cache
      BY <2>2, <3>1 DEF RoundInv, HandInv
    <3>2. CASE b = new \/ c = new
      BY <1>1, <1>3, <1>4, <2>2, <3>2
    <3> QED BY <1>1, <3>1, <3>2
  <2>3. \A c \in cache' : ~Visited[c.d]
    BY <1>1, <1>3 DEF RoundInv, HandInv
  <2> QED BY <1>1, <1>2, <2>1, <2>2, <2>3 DEF RoundInv, HandInv
<1>6. \A u : Taken(u)' = Taken(u)
  BY <1>1, <1>2 DEF Taken, Pending
<1>7. \A u : Gathered(u)' = Gathered(u)
  BY <1>2, <1>6, SameSum
<1>8. SumInv'
  <2> SUFFICES ASSUME NEW u \in Vertex, Counts(u)
               PROVE  /\ u \notin cached' => Array[u] = Gathered(u)
                      /\ \A c \in cache' : c.d = u => c.value = Gathered(u)
    BY <1>2, <1>7 DEF SumInv
  <2>1. u \notin cached' => u \notin cached
    BY <1>1 DEF cached
  <2>2. ASSUME NEW c \in cache', c.d = u PROVE c.value = Gathered(u)
    <3>1. CASE c \in cache
      BY <2>2, <3>1 DEF RoundInv, SumInv
    <3>2. CASE c = new
      BY <2>2, <3>2, <1>1, <1>3 DEF RoundInv, SumInv
    <3> QED BY <1>1, <3>1, <3>2
  <2> QED BY <2>1, <2>2 DEF RoundInv, SumInv
<1>9. MarkInv'
  BY <1>1, <1>2, <1>7 DEF MarkInv, RoundInv
<1> QED BY <1>1, <1>2, <1>5, <1>8, <1>9 DEF RoundInv

\* An addition to a cache.
LEMMA CachedUpdateStep ==
  ASSUME InRound, RoundInv, NEW c \in cache, NEW job \in todo, CachedUpdate(c, job)
  PROVE  RoundInv'
<1> DEFINE e == job[2]
           new == [c EXCEPT !.value = @ + Array[src(job[2])]]
<1>1. /\ ByDestination /\ dst(e) = c.d /\ todo' = todo \ {job}
      /\ cache' = (cache \ {c}) \union {new}
      /\ Added(c.d, c.value)
      /\ UNCHANGED unchangedInRound
      /\ UNCHANGED <<NumPaths, Dependencies, strand>>
  BY DEF CachedUpdate, Take
<1>2. /\ UNCHANGED <<GA, mode, Visited, phase>> /\ Active' = Active /\ Edges' = Edges
      /\ Atomic' = Atomic /\ ByDestination' = ByDestination /\ Array' = Array
      /\ \A u : Counts(u)' = Counts(u)
  BY <1>1, SameInRound DEF Array
<1>3. /\ job = <<1, e>> /\ e \in Edges /\ src(e) \in Active
      /\ dst(e) \in Vertex /\ src(e) \in Vertex
  BY EdgesFacts DEF RoundInv, HandInv, InRound
<1>4. c \in [d : Vertex, value : Nat] /\ ~Visited[c.d] /\ strand = {}
  BY <1>1 DEF RoundInv, HandInv
<1>5. /\ new \in [d : Vertex, value : Nat] /\ new.d = c.d
      /\ new.value = c.value + Array[src(e)]
  BY <1>3, <1>4 DEF RoundInv
<1> HIDE DEF new
<1>6. HandInv'
  <2>1. cache' \subseteq [d : Vertex, value : Nat]
    BY <1>1, <1>5 DEF RoundInv, HandInv
  <2>2. ASSUME NEW a \in cache', NEW b \in cache', a.d = b.d PROVE a = b
    <3>1. \A x \in cache : x.d = c.d => x = c
      BY DEF RoundInv, HandInv
    <3>2. CASE a = new \/ b = new
      BY <1>1, <1>5, <2>2, <3>1, <3>2
    <3>3. CASE a # new /\ b # new
      BY <1>1, <2>2, <3>3 DEF RoundInv, HandInv
    <3> QED BY <3>2, <3>3
  <2>3. \A b \in cache' : ~Visited[b.d]
    BY <1>1, <1>4, <1>5 DEF RoundInv, HandInv
  <2>4. todo' \subseteq {1} \X {x \in Edges : src(x) \in Active}
    BY <1>1 DEF RoundInv, HandInv
  <2> QED BY <1>1, <1>2, <1>4, <2>1, <2>2, <2>3, <2>4 DEF RoundInv, HandInv
<1>7. \A x : Pending(x)' <=> Pending(x) /\ x # e
  BY <1>1, <1>3, <1>4 DEF Pending
<1>8. Taken(c.d)' = Taken(c.d) \union {e} /\ \A v : v # c.d => Taken(v)' = Taken(v)
  BY <1>1, <1>2, <1>3, <1>7 DEF Taken
<1>9. Gathered(c.d)' = Gathered(c.d) + Array[src(e)]
  BY <1>1, <1>2, <1>3, <1>8, TakenSum DEF InRound, Pending
<1>10. \A v : v # c.d => Gathered(v)' = Gathered(v)
  BY <1>2, <1>8, SameSum
<1>11. Counts(c.d) => c.value = Gathered(c.d)
  BY <1>4 DEF RoundInv, SumInv
<1>12. SumInv'
  <2> SUFFICES ASSUME NEW u \in Vertex, Counts(u)
               PROVE  /\ u \notin cached' => Array[u] = Gathered(u)'
                      /\ \A b \in cache' : b.d = u => b.value = Gathered(u)'
    BY <1>2 DEF SumInv
  <2>1. c.d \in cached' /\ \A x : x # c.d /\ x \notin cached' => x \notin cached
    BY <1>1, <1>5 DEF cached
  <2>2. CASE u = c.d
    <3>1. ASSUME NEW b \in cache', b.d = u PROVE b = new
      BY <1>1, <1>5, <1>6, <2>2, <3>1 DEF HandInv
    <3> QED BY <1>5, <1>9, <1>11, <2>1, <2>2, <3>1
  <2>3. CASE u # c.d
    <3>1. ASSUME NEW b \in cache', b.d = u PROVE b \in cache
      BY <1>1, <1>5, <2>3, <3>1
    <3> QED BY <1>10, <2>1, <2>3, <3>1 DEF RoundInv, SumInv
  <2> QED BY <2>2, <2>3
<1>13. v1' \in [Vertex -> Nat] /\ MarkInv'
  <2>1. phase = "forward" => Counts(c.d)
    BY <1>4 DEF Counts
  <2>2. c.value \in Nat
    BY <1>4
  <2> QED BY <1>1, <1>2, <1>3, <1>4, <1>9, <1>10, <1>11, <2>1, <2>2, AddedMarks
<1> QED BY <1>1, <1>2, <1>6, <1>12, <1>13 DEF RoundInv

\* A cache is written back.
LEMMA CommitCacheStep ==
  ASSUME InRound, RoundInv, NEW c \in cache, CommitCache(c)
  PROVE  RoundInv'
<1>1. /\ Assign(c.d, c.value) /\ cache' = cache \ {c}
      /\ UNCHANGED unchangedInRound /\ UNCHANGED <<todo, v1, strand>>
  BY DEF CommitCache
<1>2. /\ UNCHANGED <<GA, mode, Visited, phase>> /\ Active' = Active /\ Edges' = Edges
      /\ Atomic' = Atomic /\ ByDestination' = ByDestination
      /\ \A u : Counts(u)' = Counts(u)
  BY <1>1, SameInRound
<1>3. c \in [d : Vertex, value : Nat] /\ ~Visited[c.d] /\ strand = {}
  BY DEF RoundInv, HandInv
<1>4. Array' = [Array EXCEPT ![c.d] = c.value]
  BY <1>1, <1>2, AssignFacts DEF InRound
<1>5. /\ Array' \in [Vertex -> Nat]
      /\ Array'[c.d] = c.value /\ \A v \in Vertex : v # c.d => Array'[v] = Array[v]
  BY <1>3, <1>4 DEF RoundInv
<1>6. \A u \in Active : Array'[u] = Array[u]
  BY <1>3, <1>5 DEF RoundInv, Active
<1>7. \A v : Taken(v)' = Taken(v)
  BY <1>1, <1>2 DEF Taken, Pending
<1>8. \A v : Gathered(v)' = Gathered(v)
  BY <1>6, <1>7, SameSum
<1>9. HandInv'
  BY <1>1, <1>2, <1>3 DEF RoundInv, HandInv
<1>10. SumInv'
  <2> SUFFICES ASSUME NEW u \in Vertex, Counts(u)
               PROVE  /\ u \notin cached' => Array'[u] = Gathered(u)
                      /\ \A b \in cache' : b.d = u => b.value = Gathered(u)
    BY <1>2, <1>8 DEF SumInv
  <2>1. u # c.d /\ u \notin cached' => u \notin cached
    BY <1>1 DEF cached
  <2>2. Gathered(c.d) = c.value \/ ~Counts(c.d)
    BY <1>3 DEF RoundInv, SumInv
  <2> QED BY <1>1, <1>5, <2>1, <2>2 DEF RoundInv, SumInv
<1>11. MarkInv'
  BY <1>1, <1>2, <1>6, <1>8 DEF MarkInv, RoundInv
<1> QED BY <1>1, <1>2, <1>5, <1>9, <1>10, <1>11 DEF RoundInv

\* A step of a strand, or of the loop over the jobs.
Step ==
  \/ SkipVisited
  \/ \E job \in todo : ReadOld(job)
  \/ \E st \in strand : Store(st) \/ CompareAndSwap(st)
  \/ \E v \in Vertex : CreateCache(v)
  \/ \E c \in cache, job \in todo : CachedUpdate(c, job)
  \/ \E c \in cache : CommitCache(c)

\* It writes to the array of the phase only, ...
LEMMA StepWrites ==
  ASSUME Step
  PROVE  /\ UNCHANGED unchangedInRound
         /\ pc = "edges" \/ strand # {} \/ cache # {}
         /\ phase # "forward" => UNCHANGED NumPaths
         /\ phase = "forward" => UNCHANGED Dependencies
<1>1. CASE SkipVisited
  BY <1>1 DEF SkipVisited
<1>2. CASE \E job \in todo : ReadOld(job)
  BY <1>2 DEF ReadOld, Take
<1>3. CASE \E st \in strand : Store(st) \/ CompareAndSwap(st)
  BY <1>3 DEF Store, CompareAndSwap, Assign
<1>4. CASE \E v \in Vertex : CreateCache(v)
  BY <1>4 DEF CreateCache
<1>5. CASE \E c \in cache, job \in todo : CachedUpdate(c, job)
  BY <1>5 DEF CachedUpdate, Take
<1>6. CASE \E c \in cache : CommitCache(c)
  BY <1>6 DEF CommitCache, Assign
<1> QED BY <1>1, <1>2, <1>3, <1>4, <1>5, <1>6 DEF Step

\* ... never to a vertex that was visited before the round, and keeps its
\* invariant.
LEMMA RoundStep ==
  ASSUME InRound, RoundInv, Step
  PROVE  /\ RoundInv'
         /\ \A v \in Vertex : Visited[v] => Array'[v] = Array[v]
<1>1. UNCHANGED unchangedInRound /\ phase' = phase
  BY StepWrites DEF unchangedInRound
<1>2. ASSUME NEW d, NEW x, d \in Vertex, ~Visited[d], Assign(d, x)
      PROVE  \A v \in Vertex : Visited[v] => Array'[v] = Array[v]
  <2>1. Array' = [Array EXCEPT ![d] = x]
    BY <1>1, <1>2, AssignFacts DEF InRound
  <2> QED BY <1>2, <2>1 DEF RoundInv
<1>3. UNCHANGED <<NumPaths, Dependencies>> => Array' = Array
  BY <1>1 DEF Array
<1>4. CASE SkipVisited
  BY <1>3, <1>4, SkipVisitedStep DEF SkipVisited
<1>5. ASSUME NEW job \in todo, ReadOld(job) PROVE RoundInv' /\ Array' = Array
  BY <1>3, <1>5, ReadOldStep DEF ReadOld
<1>6. ASSUME NEW st \in strand, Store(st) \/ CompareAndSwap(st)
      PROVE  RoundInv' /\ \A v \in Vertex : Visited[v] => Array'[v] = Array[v]
  <2>1. dst(st.e) \in Vertex /\ ~Visited[dst(st.e)]
    BY EdgesFacts DEF InRound, RoundInv, HandInv
  <2>2. \/ UNCHANGED <<NumPaths, Dependencies>>
        \/ Assign(dst(st.e), st.oldV + Array[src(st.e)])
    BY <1>6 DEF Store, CompareAndSwap
  <2> QED BY <1>2, <1>3, <1>6, <2>1, <2>2, StoreStep
<1>7. ASSUME NEW v \in Vertex, CreateCache(v) PROVE RoundInv' /\ Array' = Array
  BY <1>3, <1>7, CreateCacheStep DEF CreateCache
<1>8. ASSUME NEW c \in cache, NEW job \in todo, CachedUpdate(c, job)
      PROVE  RoundInv' /\ Array' = Array
  BY <1>3, <1>8, CachedUpdateStep DEF CachedUpdate
<1>9. ASSUME NEW c \in cache, CommitCache(c)
      PROVE  RoundInv' /\ \A v \in Vertex : Visited[v] => Array'[v] = Array[v]
  <2>1. c.d \in Vertex /\ ~Visited[c.d]
    BY DEF RoundInv, HandInv
  <2> QED BY <1>2, <1>9, <2>1, CommitCacheStep DEF CommitCache
<1> QED BY <1>4, <1>3, <1>5, <1>6, <1>7, <1>8, <1>9 DEF Step, SkipVisited

\* A round starts with all edges of the active vertices as its jobs, and
\* nothing added to the vertices that are not visited yet.
LEMMA EnterRound ==
  ASSUME GA \in Graphs, SafelyPartitioned, Frontier \in FrontierType,
         Frontier.rep # "bits", \A v \in Vertex : Frontier.copies[v] \in {0, 1},
         Array \in [Vertex -> Nat],
         \A v \in Active : Visited[v],
         \A v \in Vertex : Counts(v) => Array[v] = 0,
         phase = "forward" => \A v \in Active : Array[v] > 0,
         strand = {}, cache = {}, WalkedEdges(Mode) = Edges,
         TraverseOver(WalkedJobs(Mode)),
         UNCHANGED <<isSymmetric, transposed, phase, NumPaths, Dependencies, Visited, strands>>
  PROVE  RoundInv'
<1> DEFINE E == {e \in Edges : src(e) \in Active}
<1>1. /\ UNCHANGED <<GA, Visited, phase, Frontier>> /\ Active' = Active /\ Edges' = Edges
      /\ Array' = Array /\ mode' = Mode /\ todo' = WalkedJobs(Mode) /\ v1' = None
      /\ strand' = {} /\ cache' = {} /\ \A v : Counts(v)' = Counts(v)
  BY SameGraph DEF TraverseOver, strands, Active, Edges, Array, Counts
<1>2. WalkedJobs(Mode) = {1} \X E
  <2>1. CASE Mode # "sparse"
    BY <2>1 DEF WalkedJobs
  <2>2. CASE Mode = "sparse"
    <3> DEFINE P == OutPairs(Frontier.copies, Edges)
    <3>1. WalkedJobs(Mode) = {<<x[1][2], x[2]>> : x \in P}
      BY <2>2 DEF WalkedJobs
    <3>2. Frontier.copies \in [Vertex -> Nat]
      BY DEF FrontierType
    <3>3. Active = {v \in Vertex : Frontier.copies[v] > 0}
      BY DEF Active
    <3>4. ASSUME NEW x \in P PROVE x[1][2] = 1 /\ x[2] \in E
      <4>1. x[1] \in Slots(Frontier.copies) /\ x[2] \in Edges /\ src(x[2]) = x[1][1]
        BY DEF OutPairs
      <4>2. PICK v \in Vertex : x[1] \in {v} \X (1 .. Frontier.copies[v])
        BY <4>1 DEF Slots
      <4>3. x[1][1] = v /\ x[1][2] \in 1 .. Frontier.copies[v] /\ Frontier.copies[v] \in {0, 1}
        BY <4>2
      <4>4. x[1][2] = 1 /\ Frontier.copies[v] > 0
        BY <4>3
      <4> QED BY <3>3, <4>1, <4>3, <4>4
    <3>5. ASSUME NEW e \in E PROVE <<<<src(e), 1>>, e>> \in P
      <4>1. src(e) \in Vertex /\ Frontier.copies[src(e)] > 0
        BY <3>3
      <4>2. <<src(e), 1>> \in Slots(Frontier.copies)
        BY <3>2, <4>1, SlotOf
      <4> QED BY <4>2 DEF OutPairs
    <3>6. \A e \in E : <<1, e>> \in {<<x[1][2], x[2]>> : x \in P}
      <4> SUFFICES ASSUME NEW e \in E PROVE \E x \in P : <<1, e>> = <<x[1][2], x[2]>>
        OBVIOUS
      <4>1. <<<<src(e), 1>>, e>> \in P
        BY <3>5
      <4> HIDE DEF P, E
      <4> QED BY <4>1
    <3> HIDE DEF P, E
    <3> QED BY <3>1, <3>4, <3>6
  <2> QED BY <2>1, <2>2
<1>3. \A v : Taken(v)' = {}
  <2>1. \A e \in E : <<1, e>> \in todo'
    BY <1>1, <1>2
  <2> QED BY <1>1, <2>1 DEF Taken, Pending
<1>4. \A v : Gathered(v)' = 0
  <2>1. SumOf(Array', {}) = 0
    BY FS_EmptySet, SumOfNat
  <2> QED BY <1>3, <2>1 DEF Gathered
<1>5. HandInv'
  <2>1. Mode \in {"coo", "csc", "sparse"} /\ (Mode = "coo" => ~GA.source)
    BY ModeFacts DEF SafelyPartitioned
  <2> QED BY <1>1, <1>2, <2>1 DEF HandInv
<1>6. SumInv'
  BY <1>1, <1>4 DEF SumInv
<1>7. MarkInv'
  BY <1>1, <1>4 DEF MarkInv, None
<1> QED BY <1>1, <1>5, <1>6, <1>7, NoneFacts DEF RoundInv

-----------------------------------------------------------------------------
(***************************************************************************)
(* The levels.  Levels[i + 1] holds the vertices at distance i, all but    *)
(* the last level hold some, and the frontier is one of them: the last     *)
(* one in the forward phase, the one above r in the backward phase.        *)
(***************************************************************************)
Place == IF phase = "forward" THEN Len(Levels) ELSE r + 2

\* The frontier that was stored as level i, with the counts it was stored with.
IsLevel(l, i) ==
  /\ l \in FrontierType /\ l.rep # "bits"
  /\ l.d_m = Count(l.copies) /\ l.num_out_edges = OutEdges(l.copies, GA.edges)
  /\ l.d_m > 0 => l.numVertices = N
  /\ \A v \in Vertex : l.copies[v] = IF dist(v) = i /\ dist(v) < N THEN 1 ELSE 0

\* The levels that are stored.
LevelsInv ==
  /\ Levels \in Seq(FrontierType) /\ Len(Levels) > 0
  /\ \A i \in 1 .. Len(Levels) : IsLevel(Levels[i], i - 1)
  /\ \A i \in 1 .. Len(Levels) - 1 : Levels[i].d_m > 0

\* The loops: the forward phase has visited the vertices of the levels and
\* counted their paths; in the backward phase that is all vertices at a distance.
ShapeInv ==
  /\ GA \in Graphs
  /\ phase \in {"forward", "backward"}
  /\ pc \in {"loop", "edges", "done"}
  /\ pc # "edges" => strand = {} /\ cache = {}
  /\ NumPaths \in [Vertex -> Nat] /\ Visited \in [Vertex -> BOOLEAN]
  /\ Frontier = Levels[Place]

\* Forward: what is in the levels is visited and its paths are counted.
ForwardInv ==
  phase = "forward" =>
    /\ pc # "done" /\ ~transposed
    /\ \A v \in Vertex : /\ Visited[v] <=> dist(v) < Len(Levels) /\ dist(v) < N
                         /\ Visited[v] => NumPaths[v] = sigma(v)
    /\ pc = "loop" => \A v \in Vertex : ~Visited[v] => NumPaths[v] = 0
    /\ pc = "edges" => RoundInv /\ Frontier.d_m > 0

\* Backward: the counts stay as they are and r is a level below the last.
BackwardInv ==
  phase = "backward" =>
    /\ r \in -1 .. Len(Levels) - 3 /\ (pc = "edges" => r >= 0)
    /\ \A v \in Vertex : NumPaths[v] = IF dist(v) < N THEN sigma(v) ELSE 0

\* The inductive invariant of both phases, as far as the path counts go.
IInv == ShapeInv /\ LevelsInv /\ ForwardInv /\ BackwardInv

\* Distances and numbers of paths as numbers.
LEMMA DistFacts ==
  ASSUME GA \in Graphs
  PROVE  \A v \in Vertex : /\ dist(v) \in 0 .. N
                           /\ dist(v) < N => sigma(v) \in Nat /\ sigma(v) > 0
<1> SUFFICES ASSUME NEW v \in Vertex
             PROVE  /\ dist(v) \in 0 .. N
                    /\ dist(v) < N => sigma(v) \in Nat /\ sigma(v) > 0
  OBVIOUS
<1>1. dist(v) \in 0 .. N /\ (dist(v) < N => sigma(v) > 0)
  BY DistanceFacts, StartAssumption DEF dist, sigma
<1>2. Walks[dist(v)][Start][v] \in Nat
  BY <1>1, WalksFacts, StartAssumption
<1> QED BY <1>1, <1>2 DEF sigma

\* A level is empty when no vertex is at its distance.
LEMMA LevelFacts ==
  ASSUME GA \in Graphs, NEW l, NEW i \in Nat, IsLevel(l, i)
  PROVE  /\ l.d_m \in Nat
         /\ l.d_m = 0 <=> \A v \in Vertex : ~(dist(v) = i /\ dist(v) < N)
         /\ l.numVertices = N \/ l.d_m = 0
         /\ l.num_out_edges \in Nat
         /\ l.num_out_edges = 0 <=> \A e \in GA.edges : l.copies[src(e)] = 0
         /\ \A v \in Vertex : l.copies[v] \in {0, 1}
<1>1. l.copies \in [Vertex -> Nat] /\ l.d_m \in Nat /\ l.num_out_edges \in Nat
  BY DEF IsLevel, FrontierType
<1>2. l.d_m = 0 => \A v \in Vertex : l.copies[v] = 0
  BY <1>1, CountZero DEF IsLevel
<1>3. (\A v \in Vertex : l.copies[v] = 0) => l.d_m = 0
  <2> SUFFICES ASSUME \A v \in Vertex : l.copies[v] = 0 PROVE l.d_m = 0
    OBVIOUS
  <2>1. l.copies = None
    BY <1>1 DEF None
  <2> QED BY <2>1, NoneFacts DEF IsLevel
<1>4. l.num_out_edges = 0 <=> \A e \in GA.edges : l.copies[src(e)] = 0
  <2>1. l.num_out_edges = OutEdges(l.copies, GA.edges)
    BY DEF IsLevel
  <2>2. l.num_out_edges = 0 => \A e \in GA.edges : l.copies[src(e)] = 0
    BY <1>1, <2>1, GraphFacts, OutEdgesZero
  <2>3. ASSUME \A e \in GA.edges : l.copies[src(e)] = 0 PROVE l.num_out_edges = 0
    <3>1. \A x \in Slots(l.copies) : l.copies[x[1]] # 0
      BY <1>1 DEF Slots
    <3>2. OutPairs(l.copies, GA.edges) = {}
      BY <2>3, <3>1 DEF OutPairs
    <3> QED BY <2>1, <3>2, FS_EmptySet DEF OutEdges
  <2> QED BY <2>2, <2>3
<1> QED BY <1>1, <1>2, <1>3, <1>4 DEF IsLevel

\* The active vertices are those at the distance of the level.
LEMMA ActiveFacts ==
  ASSUME IInv
  PROVE  /\ Place \in 1 .. Len(Levels) /\ Len(Levels) \in Nat
         /\ IsLevel(Frontier, Place - 1)
         /\ Active = {v \in Vertex : dist(v) = Place - 1 /\ dist(v) < N}
         /\ phase = "backward" => Frontier.d_m > 0
<1>1. Len(Levels) \in Nat
  BY DEF IInv, LevelsInv
<1>2. Place \in 1 .. Len(Levels) /\ (phase = "backward" => Place \in 1 .. Len(Levels) - 1)
  BY <1>1 DEF IInv, LevelsInv, ShapeInv, BackwardInv, Place
<1>3. IsLevel(Frontier, Place - 1)
  BY <1>2 DEF IInv, LevelsInv, ShapeInv
<1>4. Active = {v \in Vertex : Frontier.copies[v] > 0}
  BY <1>3 DEF Active, IsLevel
<1>5. \A v \in Vertex : Frontier.copies[v] > 0 <=> dist(v) = Place - 1 /\ dist(v) < N
  BY <1>3 DEF IsLevel
<1>6. phase = "backward" => Frontier.d_m > 0
  BY <1>2 DEF IInv, LevelsInv, ShapeInv
<1> QED BY <1>1, <1>2, <1>3, <1>4, <1>5, <1>6

\* What an unchanged graph keeps.
LEMMA SameLevels ==
  ASSUME UNCHANGED <<GA, Levels>>, LevelsInv
  PROVE  LevelsInv'
<1>1. \A v : dist(v)' = dist(v)
  BY SameGraph
<1> QED BY <1>1 DEF LevelsInv, IsLevel

\* edgeMap does not abort on a level that is not empty.
LEMMA EnterTraverses ==
  ASSUME IInv, Frontier.d_m > 0, NEW jobs, EnterOver(jobs)
  PROVE  TraverseOver(jobs)
<1>1. Frontier.numVertices = N /\ Frontier.d_m = Count(Frontier.copies)
  BY ActiveFacts DEF IsLevel
<1>2. ~SizesDontMatch /\ ~BadValueOfM
  BY <1>1 DEF SizesDontMatch, BadValueOfM, toSparseAborts
<1> QED BY <1>2 DEF EnterOver

\* Behind a distance without vertices there is none.
LEMMA NoneFarther ==
  ASSUME GA \in Graphs, NEW k \in Nat, \A v \in Vertex : ~(dist(v) = k /\ dist(v) < N)
  PROVE  \A v \in Vertex : dist(v) < N => dist(v) < k
<1> DEFINE S == {i \in Nat : \A v \in Vertex : ~(dist(v) = k + i /\ dist(v) < N)}
<1>1. 0 \in S
  OBVIOUS
<1>2. ASSUME NEW i \in Nat, i \in S PROVE i + 1 \in S
  <2> SUFFICES ASSUME NEW v \in Vertex, dist(v) = k + (i + 1), dist(v) < N PROVE FALSE
    OBVIOUS
  <2>1. PICK e \in GA.edges : dst(e) = v /\ dist(src(e)) = dist(v) - 1
    BY DistanceSteps, StartAssumption DEF dist
  <2>2. src(e) \in Vertex /\ dist(src(e)) = k + i /\ dist(src(e)) < N
    BY <2>1, GraphFacts, SizeAssumption
  <2> QED BY <1>2, <2>2
<1>3. \A i \in Nat : i \in S
  <2> HIDE DEF S
  <2> QED BY <1>1, <1>2, SetInduction
<1> SUFFICES ASSUME NEW v \in Vertex, dist(v) < N, ~(dist(v) < k) PROVE FALSE
  OBVIOUS
<1>4. dist(v) \in 0 .. N
  BY DistFacts
<1>5. dist(v) - k \in Nat /\ k + (dist(v) - k) = dist(v)
  BY <1>4, SizeAssumption
<1> QED BY <1>3, <1>5

\* When every distance below N is that of some vertex, none is out of reach.
LEMMA AllReached ==
  ASSUME GA \in Graphs, \A k \in 0 .. N-1 : \E v \in Vertex : dist(v) = k
  PROVE  \A v \in Vertex : dist(v) < N
<1> DEFINE U == {v \in Vertex : dist(v) < N}
           f == [v \in U |-> dist(v)]
<1>1. \A v \in Vertex : dist(v) \in 0 .. N
  BY DistFacts
<1>2. f \in Surjection(U, 0 .. N-1)
  <2>1. \A v \in U : dist(v) \in 0 .. N-1
    BY <1>1, SizeAssumption
  <2>2. \A k \in 0 .. N-1 : \E v \in U : f[v] = k
    <3> SUFFICES ASSUME NEW k \in 0 .. N-1 PROVE \E v \in U : f[v] = k
      OBVIOUS
    <3>1. PICK v \in Vertex : dist(v) = k
      OBVIOUS
    <3>2. v \in U /\ f[v] = k
      BY <3>1, SizeAssumption
    <3> QED BY <3>2
  <2> QED BY <2>1, <2>2 DEF Surjection
<1>3. IsFiniteSet(Vertex) /\ Cardinality(Vertex) = N /\ Cardinality(0 .. N-1) = N
  BY Intervals, SizeAssumption DEF Vertex
<1>4. IsFiniteSet(U) /\ Cardinality(U) <= N /\ (Cardinality(U) = N => U = Vertex)
  BY <1>3, FS_Subset
<1>5. Cardinality(0 .. N-1) <= Cardinality(U)
  <2> HIDE DEF U, f
  <2> QED BY <1>2, <1>4, FS_Surjection
<1>6. Cardinality(U) \in Nat
  BY <1>4, FS_CardinalityType
<1>7. U = Vertex
  BY <1>3, <1>4, <1>5, <1>6, SizeAssumption
<1> QED BY <1>7

\* The first states: level 0 is Start.
LEMMA InitInv ==
  ASSUME Init
  PROVE  IInv
<1>1. /\ GA \in Graphs /\ pc = "loop" /\ phase = "forward" /\ ~transposed
      /\ strand = {} /\ cache = {} /\ Frontier = create(Start, GA.edges)
      /\ Levels = <<Frontier>>
  BY DEF Init, EngineInit
<1>2. \A v \in Vertex : (dist(v) < 1 <=> v = Start) /\ (dist(v) = 0 <=> v = Start)
  <2>1. \A v \in Vertex : dist(v) = 0 <=> v = Start
    BY <1>1, DistanceZero, StartAssumption DEF dist
  <2> QED BY <1>1, <2>1, DistFacts
<1>3. dist(Start) < N /\ sigma(Start) = 1
  <2>1. dist(Start) = 0
    BY <1>2, StartAssumption
  <2>2. sigma(Start) = 1
    BY <1>1, <2>1, WalksFacts, StartAssumption DEF sigma
  <2> QED BY <2>1, <2>2, SizeAssumption
<1>4. IsLevel(Frontier, 0)
  <2> DEFINE c == [None EXCEPT ![Start] = 1]
  <2>1. c \in [Vertex -> Nat] /\ \A v \in Vertex : c[v] = IF v = Start THEN 1 ELSE 0
    BY StartAssumption DEF None
  <2>2. frontierOf("sparse", c, GA.edges) \in FrontierType
    <3> HIDE DEF c
    <3> QED BY <1>1, <2>1, FrontierOfFacts, GraphFacts
  <2>3. Frontier = frontierOf("sparse", c, GA.edges)
    BY <1>1 DEF create
  <2> HIDE DEF c
  <2> QED BY <1>2, <1>3, <2>1, <2>2, <2>3 DEF IsLevel, frontierOf
<1>5. Len(Levels) = 1 /\ Levels[1] = Frontier /\ Levels \in Seq(FrontierType)
  BY <1>1, <1>4 DEF IsLevel
<1>6. LevelsInv
  BY <1>4, <1>5 DEF LevelsInv
<1>7. ShapeInv
  BY <1>1, <1>5, StartAssumption DEF Init, ShapeInv, Zero, Place
<1>8. ForwardInv
  BY <1>1, <1>2, <1>3, <1>5, StartAssumption DEF Init, ForwardInv, Zero
<1> QED BY <1>1, <1>6, <1>7, <1>8 DEF IInv, BackwardInv

-----------------------------------------------------------------------------
\* A forward round hands over the next level.
LEMMA AppendLevel ==
  ASSUME IInv, phase = "forward", phase' = phase, Frontier.d_m > 0,
         IsLevel(Frontier', Len(Levels)),
         Levels' = Append(Levels, Frontier'), GA' = GA
  PROVE  /\ LevelsInv' /\ Len(Levels') = Len(Levels) + 1
         /\ Frontier' = Levels'[Place']
<1>1. Len(Levels) \in Nat /\ Levels \in Seq(FrontierType) /\ Frontier = Levels[Len(Levels)]
      /\ Frontier' \in FrontierType
  BY DEF IInv, LevelsInv, ShapeInv, Place, IsLevel
<1>2. /\ Levels' \in Seq(FrontierType) /\ Len(Levels') = Len(Levels) + 1
      /\ Levels'[Len(Levels) + 1] = Frontier'
      /\ \A i \in 1 .. Len(Levels) : Levels'[i] = Levels[i]
  BY <1>1
<1>3. \A v : dist(v)' = dist(v)
  BY SameGraph
<1>4. ASSUME NEW i \in 1 .. Len(Levels) + 1
      PROVE  IsLevel(Levels[i], i - 1)'
  <2>1. CASE i \in 1 .. Len(Levels)
    <3>1. Levels'[i] = Levels[i] /\ IsLevel(Levels[i], i - 1)
      BY <1>2, <2>1 DEF IInv, LevelsInv
    <3> QED BY <1>3, <3>1 DEF IsLevel
  <2>2. CASE i = Len(Levels) + 1
    <3>1. Levels'[i] = Frontier' /\ i - 1 = Len(Levels)
      BY <1>1, <1>2, <2>2
    <3> QED BY <1>3, <3>1 DEF IsLevel
  <2> QED BY <1>1, <2>1, <2>2
<1>5. \A i \in 1 .. Len(Levels) : Levels'[i].d_m > 0
  BY <1>1, <1>2 DEF IInv, LevelsInv
<1>6. LevelsInv'
  <2>1. (Len(Levels) + 1) - 1 = Len(Levels)
    BY <1>1
  <2> QED BY <1>1, <1>2, <1>4, <1>5, <2>1 DEF LevelsInv
<1> QED BY <1>1, <1>2, <1>6 DEF Place

\* A level whose vertices have no out-edge is the last one.
LEMMA ForwardEarlyStep ==
  ASSUME IInv, Forward, NoOutEdges, Levels' = Append(Levels, Frontier')
  PROVE  IInv' /\ Active' = {} /\ Successors(GA.edges, Active) = {}
<1> DEFINE k == Len(Levels)
<1>1. /\ pc = "loop" /\ phase = "forward" /\ phase' = phase /\ pc' = pc /\ GA' = GA
      /\ Frontier' = empty /\ Frontier.num_out_edges = 0 /\ Frontier.d_m # 0
      /\ UNCHANGED <<transposed, NumPaths, Visited, strand, cache>>
  BY DEF Forward, NoOutEdges, isEmpty, arrays, strands
<1>2. /\ k \in Nat /\ k > 0 /\ IsLevel(Frontier, k - 1) /\ GA \in Graphs
      /\ Active = {v \in Vertex : dist(v) = k - 1 /\ dist(v) < N}
  BY <1>1, ActiveFacts DEF Place, IInv, LevelsInv, ShapeInv
<1>3. Frontier.d_m > 0 /\ \A e \in GA.edges : Frontier.copies[src(e)] = 0
  BY <1>1, <1>2, LevelFacts
<1>4. \A e \in GA.edges : src(e) \notin Active
  <2> SUFFICES ASSUME NEW e \in GA.edges, src(e) \in Active PROVE FALSE
    OBVIOUS
  <2>1. Frontier.copies[src(e)] = 1
    BY <1>2 DEF IsLevel
  <2> QED BY <1>3, <2>1
<1>5. \A v \in Vertex : ~(dist(v) = k /\ dist(v) < N)
  <2> SUFFICES ASSUME NEW v \in Vertex, dist(v) = k, dist(v) < N PROVE FALSE
    OBVIOUS
  <2>1. PICK e \in GA.edges : dst(e) = v /\ dist(src(e)) = dist(v) - 1
    BY <1>2, DistanceSteps, StartAssumption DEF dist
  <2>2. src(e) \in Active
    BY <1>2, <2>1, GraphFacts, SizeAssumption
  <2> QED BY <1>4, <2>2
<1>6. IsLevel(Frontier', k)
  BY <1>1, <1>5, EmptyFacts, NoneFacts DEF IsLevel, empty, None
<1>7. /\ LevelsInv' /\ Len(Levels') = k + 1 /\ Frontier' = Levels'[Place']
  BY <1>1, <1>3, <1>6, AppendLevel
<1>8. ShapeInv'
  BY <1>1, <1>7 DEF IInv, ShapeInv
<1>9. ForwardInv'
  <2>1. \A v : dist(v)' = dist(v) /\ sigma(v)' = sigma(v)
    BY <1>1, SameGraph
  <2>2. \A v \in Vertex : dist(v) < k + 1 /\ dist(v) < N <=> dist(v) < k /\ dist(v) < N
    BY <1>2, <1>5, DistFacts
  <2> QED BY <1>1, <1>7, <2>1, <2>2 DEF IInv, ForwardInv
<1>10. Active' = {}
  BY <1>1 DEF Active, empty, None
<1> QED BY <1>1, <1>4, <1>7, <1>8, <1>9, <1>10 DEF IInv, BackwardInv, Successors

\* A round starts from the state the loop leaves.
LEMMA ForwardEnterStep ==
  ASSUME SafelyPartitioned, IInv, Forward, EnterOver(WalkedJobs(Mode)), UNCHANGED Levels
  PROVE  IInv' /\ UNCHANGED <<GA, phase, Visited, Frontier>>
<1>1. /\ pc = "loop" /\ phase = "forward" /\ Frontier.d_m # 0 /\ strand = {} /\ cache = {}
      /\ UNCHANGED <<isSymmetric, transposed, phase, NumPaths, Dependencies, Visited, r, strands>>
  BY DEF Forward, isEmpty, arrays, IInv, ShapeInv
<1>2. /\ IsLevel(Frontier, Len(Levels) - 1) /\ Len(Levels) \in Nat /\ Len(Levels) > 0
      /\ GA \in Graphs /\ ~transposed
      /\ Active = {v \in Vertex : dist(v) = Len(Levels) - 1 /\ dist(v) < N}
  BY <1>1, ActiveFacts DEF Place, IInv, LevelsInv, ShapeInv, ForwardInv
<1>3. Frontier.d_m > 0 /\ \A v \in Vertex : Frontier.copies[v] \in {0, 1}
  BY <1>1, <1>2, LevelFacts
<1>4. TraverseOver(WalkedJobs(Mode))
  BY <1>3, EnterTraverses
<1>5. WalkedEdges(Mode) = Edges
  BY <1>2, ModeFacts DEF WalkedEdges, Edges, Compressed
<1>6. \A v \in Active : Visited[v] /\ NumPaths[v] > 0
  <2> SUFFICES ASSUME NEW v \in Active PROVE Visited[v] /\ NumPaths[v] > 0
    OBVIOUS
  <2>1. Visited[v] /\ NumPaths[v] = sigma(v)
    BY <1>1, <1>2 DEF IInv, ForwardInv
  <2> QED BY <1>2, <2>1, DistFacts
<1>7. Array = NumPaths /\ \A v \in Vertex : Counts(v) => NumPaths[v] = 0
  BY <1>1 DEF Array, Counts, IInv, ForwardInv
<1>8. RoundInv'
  BY <1>1, <1>2, <1>3, <1>4, <1>5, <1>6, <1>7, EnterRound DEF IsLevel, IInv, ShapeInv
<1>9. UNCHANGED <<GA, Frontier>> /\ pc' = "edges" /\ strand' = {} /\ cache' = {}
  BY <1>1, <1>4 DEF TraverseOver, strands
<1>10. LevelsInv'
  BY <1>9, SameLevels DEF IInv
<1>11. ShapeInv'
  BY <1>1, <1>9 DEF IInv, ShapeInv, Place
<1>12. ForwardInv'
  <2>1. \A v : dist(v)' = dist(v) /\ sigma(v)' = sigma(v)
    BY <1>9, SameGraph
  <2> QED BY <1>1, <1>3, <1>8, <1>9, <2>1 DEF IInv, ForwardInv
<1> QED BY <1>1, <1>9, <1>10, <1>11, <1>12 DEF IInv, BackwardInv

\* At the end of a forward round every edge of the level is taken: a vertex that
\* was not visited has the number of walks that are one edge longer, and it is
\* marked if there are any.
LEMMA ForwardCounts ==
  ASSUME IInv, phase = "forward", pc = "edges", todo = {}, strand = {}, cache = {}
  PROVE  \A v \in Vertex :
           LET k == Len(Levels) IN
           /\ ~Visited[v] => k < N \/ NumPaths[v] = 0
           /\ ~Visited[v] => /\ NumPaths[v] > 0 <=> dist(v) = k /\ dist(v) < N
                             /\ dist(v) = k /\ dist(v) < N => NumPaths[v] = sigma(v)
           /\ v1[v] = IF ~Visited[v] /\ NumPaths[v] > 0 THEN 1 ELSE 0
           /\ NumPaths[v] > 0 /\ ~Visited[v] <=> ~Visited[v] /\ v \in Successors(GA.edges, Active)
<1> DEFINE k == Len(Levels)
<1>1. /\ IsLevel(Frontier, k - 1) /\ k \in Nat /\ k > 0 /\ GA \in Graphs /\ ~transposed
      /\ Active = {v \in Vertex : dist(v) = k - 1 /\ dist(v) < N}
      /\ RoundInv /\ Frontier.d_m > 0
  BY ActiveFacts DEF Place, IInv, LevelsInv, ShapeInv, ForwardInv
<1>2. k - 1 \in 0 .. N - 1
  <2>1. PICK v \in Vertex : dist(v) = k - 1 /\ dist(v) < N
    BY <1>1, LevelFacts
  <2> QED BY <1>1, <2>1, SizeAssumption
<1>3. \A i \in 0 .. k - 1 : \E v \in Vertex : dist(v) = i
  <2> SUFFICES ASSUME NEW i \in 0 .. k - 1 PROVE \E v \in Vertex : dist(v) = i
    OBVIOUS
  <2>1. i + 1 \in 1 .. k /\ (i + 1) - 1 = i
    BY <1>1
  <2>2. IsLevel(Levels[i + 1], i) /\ Levels[i + 1].d_m > 0
    BY <1>1, <2>1 DEF IInv, LevelsInv, ShapeInv, Place
  <2> QED BY <1>1, <2>1, <2>2, LevelFacts
<1>4. Array = NumPaths /\ Edges = GA.edges /\ \A v : Counts(v) <=> ~Visited[v]
  BY <1>1 DEF Array, Edges, Counts
<1>5. \A v : Taken(v) = {e \in GA.edges : dst(e) = v /\ dist(src(e)) = k - 1}
  <2>1. \A v : dist(v) = k - 1 => dist(v) < N
    BY <1>2, SizeAssumption
  <2>2. \A e \in GA.edges : src(e) \in Active <=> dist(src(e)) = k - 1
    BY <1>1, <2>1, GraphFacts
  <2>3. \A v : Taken(v) = {e \in GA.edges : dst(e) = v /\ src(e) \in Active}
    BY <1>4 DEF Taken, Pending
  <2> QED BY <2>2, <2>3
<1>6. \A v \in Vertex : Visited[v] <=> dist(v) < k /\ dist(v) < N
  BY DEF IInv, ForwardInv
<1>7. ASSUME NEW v \in Vertex, ~Visited[v]
      PROVE  NumPaths[v] = Walks[k][Start][v] /\ NumPaths[v] \in Nat /\ dist(v) > k - 1
  <2>1. dist(v) > k - 1
    <3>1. dist(v) \in 0 .. N /\ ~(dist(v) < k /\ dist(v) < N)
      BY <1>1, <1>6, <1>7, DistFacts
    <3> QED BY <1>1, <1>2, <3>1, SizeAssumption
  <2>2. \A s \in Vertex : dist(s) = k - 1 => NumPaths[s] = sigma(s)
    BY <1>1, <1>2, SizeAssumption DEF IInv, ForwardInv
  <2>3. (k - 1) + 1 = k
    BY <1>1
  <2>4. Walks[k][Start][v] = SumOf(NumPaths, Taken(v))
    BY <1>1, <1>2, <1>5, <2>1, <2>2, <2>3, NextCount
  <2>5. NumPaths[v] = Gathered(v)
    BY <1>1, <1>4, <1>7 DEF RoundInv, SumInv, cached
  <2> QED BY <1>4, <2>1, <2>4, <2>5 DEF Gathered, IInv, ShapeInv
<1>8. ASSUME NEW v \in Vertex, ~Visited[v] PROVE k < N \/ NumPaths[v] = 0
  <2>1. SUFFICES ASSUME k >= N PROVE FALSE
    BY <1>1, SizeAssumption
  <2>2. k - 1 = N - 1
    BY <1>2, <2>1, SizeAssumption
  <2>3. dist(v) < N
    BY <1>1, <1>3, <2>2, AllReached
  <2>4. dist(v) \in 0 .. N /\ ~(dist(v) < k /\ dist(v) < N)
    BY <1>1, <1>6, <1>8, DistFacts
  <2> QED BY <1>1, <2>1, <2>3, <2>4, SizeAssumption
<1>9. ASSUME NEW v \in Vertex, ~Visited[v]
      PROVE  /\ NumPaths[v] > 0 <=> dist(v) = k /\ dist(v) < N
             /\ dist(v) = k /\ dist(v) < N => NumPaths[v] = sigma(v)
  <2>1. dist(v) = k /\ dist(v) < N => NumPaths[v] = sigma(v) /\ NumPaths[v] > 0
    BY <1>1, <1>7, <1>9, DistFacts DEF sigma
  <2>2. ASSUME NumPaths[v] > 0 PROVE dist(v) = k /\ dist(v) < N
    <3>1. k < N
      BY <1>8, <1>9, <2>2
    <3>2. k \in 0 .. N - 1
      BY <1>1, <3>1, SizeAssumption
    <3>3. dist(v) <= k
      BY <1>1, <1>7, <1>9, <2>2, <3>2, DistanceFacts, StartAssumption DEF dist
    <3> QED BY <1>1, <1>7, <1>9, <3>1, <3>3, DistFacts, SizeAssumption
  <2> QED BY <2>1, <2>2
<1>10. ASSUME NEW v \in Vertex
       PROVE  v1[v] = IF ~Visited[v] /\ NumPaths[v] > 0 THEN 1 ELSE 0
  <2>1. ~Visited[v] => NumPaths[v] = Gathered(v)
    BY <1>1, <1>4 DEF RoundInv, SumInv, cached
  <2> QED BY <1>1, <2>1 DEF RoundInv, MarkInv
<1>11. ASSUME NEW v \in Vertex, ~Visited[v]
       PROVE  NumPaths[v] > 0 <=> v \in Successors(GA.edges, Active)
  <2>1. NumPaths[v] = Gathered(v)
    BY <1>1, <1>4, <1>11 DEF RoundInv, SumInv, cached
  <2>2. /\ IsFiniteSet(Taken(v)) /\ \A e \in Taken(v) : NumPaths[src(e)] \in Nat
    BY <1>1, <1>4, GatheredFacts
  <2>3. /\ Gathered(v) = SumOf(NumPaths, Taken(v)) /\ Gathered(v) \in Nat
        /\ Gathered(v) = 0 <=> \A e \in Taken(v) : NumPaths[src(e)] = 0
    BY <1>4, <2>2, SumOfNat DEF Gathered
  <2>4. \A e \in Taken(v) : src(e) \in Active /\ NumPaths[src(e)] > 0
    BY <1>1, <1>4 DEF Taken, RoundInv, MarkInv
  <2>5. Gathered(v) > 0 <=> \E e \in Taken(v) : TRUE
    BY <2>2, <2>3, <2>4
  <2>6. (\E e \in Taken(v) : TRUE) <=> v \in Successors(GA.edges, Active)
    BY <1>4 DEF Successors, Taken, Pending
  <2> QED BY <2>1, <2>5, <2>6
<1> QED BY <1>8, <1>9, <1>10, <1>11

\* The join of a round hands over the next level and marks it visited.
LEMMA ForwardReturnStep ==
  ASSUME IInv, ForwardReturn
  PROVE  /\ IInv'
         /\ Active # {} /\ Active' = Successors(GA.edges, Active) \ {v \in Vertex : Visited[v]}
         /\ {v \in Vertex : Visited[v]}' = {v \in Vertex : Visited[v]} \union Active'
<1> DEFINE k == Len(Levels)
<1>1. /\ pc = "edges" /\ phase = "forward" /\ phase' = phase /\ pc' = "loop" /\ GA' = GA
      /\ todo = {} /\ strand = {} /\ cache = {} /\ strand' = {} /\ cache' = {}
      /\ Frontier' = frontierOf(IF mode = "sparse" THEN "sparse" ELSE "dense", v1, GA.edges)
      /\ Visited' = [v \in Vertex |-> Visited[v] \/ v1[v] > 0]
      /\ Levels' = Append(Levels, Frontier')
      /\ UNCHANGED <<transposed, NumPaths>>
  BY DEF ForwardReturn, ReturnFromEdgeMap, strands
<1>2. /\ k \in Nat /\ k > 0 /\ GA \in Graphs /\ v1 \in [Vertex -> Nat]
      /\ Frontier.d_m > 0 /\ Visited \in [Vertex -> BOOLEAN]
      /\ IsLevel(Frontier, k - 1) /\ k - 1 \in Nat
      /\ Active = {v \in Vertex : dist(v) = k - 1 /\ dist(v) < N}
  BY <1>1, ActiveFacts DEF IInv, LevelsInv, ShapeInv, ForwardInv, RoundInv, Place
<1>3. \A v \in Vertex :
        /\ ~Visited[v] => /\ NumPaths[v] > 0 <=> dist(v) = k /\ dist(v) < N
                          /\ dist(v) = k /\ dist(v) < N => NumPaths[v] = sigma(v)
        /\ v1[v] = IF ~Visited[v] /\ NumPaths[v] > 0 THEN 1 ELSE 0
        /\ NumPaths[v] > 0 /\ ~Visited[v] <=> ~Visited[v] /\ v \in Successors(GA.edges, Active)
  BY <1>1, ForwardCounts
<1>4. \A v \in Vertex : /\ dist(v) \in 0 .. N
                        /\ Visited[v] <=> dist(v) < k /\ dist(v) < N
                        /\ Visited[v] => NumPaths[v] = sigma(v)
                        /\ NumPaths[v] \in Nat
  BY <1>1, <1>2, DistFacts DEF IInv, ForwardInv, ShapeInv
<1>5. ASSUME NEW v \in Vertex
      PROVE  /\ v1[v] = IF dist(v) = k /\ dist(v) < N THEN 1 ELSE 0
             /\ Visited'[v] <=> dist(v) < k + 1 /\ dist(v) < N
             /\ Visited'[v] => NumPaths[v] = sigma(v)
             /\ ~Visited'[v] => NumPaths[v] = 0
  <2>1. /\ dist(v) \in Int /\ NumPaths[v] \in Nat
        /\ Visited[v] <=> dist(v) < k /\ dist(v) < N
        /\ Visited[v] => NumPaths[v] = sigma(v)
        /\ v1[v] = IF ~Visited[v] /\ NumPaths[v] > 0 THEN 1 ELSE 0
    BY <1>3, <1>4
  <2>2. Visited'[v] <=> Visited[v] \/ v1[v] > 0
    BY <1>1, Zenon
  <2>3. CASE Visited[v]
    BY <1>2, <2>1, <2>2, <2>3
  <2>4. CASE ~Visited[v]
    <3>1. /\ NumPaths[v] > 0 <=> dist(v) = k /\ dist(v) < N
          /\ dist(v) = k /\ dist(v) < N => NumPaths[v] = sigma(v)
      BY <1>3, <2>4
    <3> QED BY <1>2, <2>1, <2>2, <2>4, <3>1
  <2> QED BY <2>3, <2>4
<1>6. IsLevel(Frontier', k)
  <2> DEFINE rep == IF mode = "sparse" THEN "sparse" ELSE "dense"
  <2>1. rep \in {"dense", "sparse"}
    OBVIOUS
  <2>2. frontierOf(rep, v1, GA.edges) \in FrontierType
    BY <1>2, <2>1, FrontierOfFacts, GraphFacts
  <2>3. Frontier' = frontierOf(rep, v1, GA.edges)
    BY <1>1
  <2> HIDE DEF rep
  <2> QED BY <1>5, <2>1, <2>2, <2>3 DEF IsLevel, frontierOf
<1>7. /\ LevelsInv' /\ Len(Levels') = k + 1 /\ Frontier' = Levels'[Place']
  BY <1>1, <1>2, <1>6, AppendLevel
<1>8. ShapeInv'
  BY <1>1, <1>7, <1>2 DEF IInv, ShapeInv
<1>9. ForwardInv'
  <2>1. \A v : dist(v)' = dist(v) /\ sigma(v)' = sigma(v)
    BY <1>1, SameGraph
  <2> QED BY <1>1, <1>5, <1>7, <2>1 DEF IInv, ForwardInv
<1>10. Active' = {v \in Vertex : v1[v] > 0}
  BY <1>1 DEF Active, frontierOf
<1>11. Active' = Successors(GA.edges, Active) \ {v \in Vertex : Visited[v]}
  <2>1. Successors(GA.edges, Active) \subseteq Vertex
    BY <1>2, GraphFacts DEF Successors
  <2>2. \A v \in Vertex : v1[v] > 0 <=> ~Visited[v] /\ v \in Successors(GA.edges, Active)
    BY <1>3
  <2> QED BY <1>10, <2>1, <2>2
<1>12. {v \in Vertex : Visited[v]}' = {v \in Vertex : Visited[v]} \union Active'
  BY <1>1, <1>10
<1>13. Active # {}
  BY <1>2, LevelFacts
<1> QED BY <1>1, <1>7, <1>8, <1>9, <1>11, <1>12, <1>13 DEF IInv, BackwardInv

\* A step of a strand keeps the invariant: in the backward phase it writes to
\* Dependencies only.
LEMMA StrandStep ==
  ASSUME IInv, Step
  PROVE  /\ IInv' /\ pc = "edges" /\ UNCHANGED <<pc, GA, Frontier, phase, Visited>>
         /\ phase = "backward" => UNCHANGED NumPaths
<1>1. /\ UNCHANGED <<pc, GA, Frontier, mode, isSymmetric, transposed, phase, Visited, Levels, r>>
      /\ phase # "forward" => UNCHANGED NumPaths
      /\ pc = "edges"
  BY StepWrites DEF IInv, ShapeInv, unchangedInRound
<1>2. LevelsInv' /\ \A v : dist(v)' = dist(v) /\ sigma(v)' = sigma(v)
  BY <1>1, SameLevels, SameGraph DEF IInv
<1>3. CASE phase = "forward"
  <2>1. RoundInv' /\ \A v \in Vertex : Visited[v] => Array'[v] = Array[v]
    BY <1>1, <1>3, RoundStep DEF InRound, IInv, ShapeInv, ForwardInv
  <2>2. Array = NumPaths /\ Array' = NumPaths'
    BY <1>1, <1>3 DEF Array
  <2>3. ShapeInv'
    BY <1>1, <2>1, <2>2 DEF IInv, ShapeInv, Place, RoundInv
  <2>4. ForwardInv'
    BY <1>1, <1>2, <2>1, <2>2 DEF IInv, ForwardInv
  <2> QED BY <1>1, <1>2, <1>3, <2>3, <2>4 DEF IInv, BackwardInv
<1>4. CASE phase = "backward"
  <2>1. UNCHANGED NumPaths
    BY <1>1, <1>4
  <2> QED BY <1>1, <1>2, <1>4, <2>1 DEF IInv, ShapeInv, Place, ForwardInv, BackwardInv
<1> QED BY <1>1, <1>3, <1>4 DEF IInv, ShapeInv

-----------------------------------------------------------------------------
\* An empty level behind the last one: every vertex at a distance was counted.
\* The backward phase starts on the last level that is not empty.
LEMMA TurnBackStep ==
  ASSUME IInv, TurnBack
  PROVE  /\ IInv' /\ Active = {}
         /\ {v \in Vertex : NumPaths'[v] > 0} = {v \in Vertex : Visited[v]}
<1> DEFINE k == Len(Levels)
<1>1. /\ pc = "loop" /\ phase = "forward" /\ phase' = "backward" /\ pc' = pc /\ GA' = GA
      /\ Frontier.d_m = 0 /\ r' = (k - 1) - 2 /\ Frontier' = Levels[((k - 1) - 1) + 1]
      /\ Visited' = [v \in Vertex |-> Levels[((k - 1) - 1) + 1].copies[v] > 0 \/ (phase = "backward" /\ Visited[v])]
      /\ UNCHANGED <<NumPaths, Levels, strand, cache>>
  BY DEF TurnBack, VertexMap, isEmpty, strands
<1>2. /\ k \in Nat /\ k > 0 /\ GA \in Graphs /\ IsLevel(Frontier, k - 1)
      /\ Active = {v \in Vertex : dist(v) = k - 1 /\ dist(v) < N}
  BY <1>1, ActiveFacts DEF IInv, LevelsInv, ShapeInv, Place
<1>3. \A v \in Vertex : ~(dist(v) = k - 1 /\ dist(v) < N)
  BY <1>1, <1>2, LevelFacts
<1>4. \A v \in Vertex : dist(v) < N => dist(v) < k - 1
  BY <1>2, <1>3, NoneFarther
<1>5. k >= 2
  <2>1. dist(Start) = 0
    BY <1>2, DistanceZero, StartAssumption DEF dist
  <2>2. dist(Start) < N
    BY <2>1, SizeAssumption
  <2>3. 0 < k - 1
    BY <1>4, <2>1, <2>2, StartAssumption
  <2> QED BY <1>2, <2>3
<1>6. /\ r' \in -1 .. k - 3 /\ r' + 2 = k - 1 /\ Frontier' = Levels[k - 1]
      /\ ((k - 1) - 1) + 1 = k - 1
  BY <1>1, <1>2, <1>5
<1>7. LevelsInv'
  BY <1>1, SameLevels DEF IInv
<1>8. ShapeInv'
  <2>1. Visited' \in [Vertex -> BOOLEAN]
    BY <1>1
  <2> QED BY <1>1, <1>6, <2>1 DEF IInv, ShapeInv, Place
<1>9. \A v \in Vertex : /\ Visited[v] <=> dist(v) < N
                        /\ NumPaths[v] = IF dist(v) < N THEN sigma(v) ELSE 0
  <2> SUFFICES ASSUME NEW v \in Vertex
               PROVE  /\ Visited[v] <=> dist(v) < N
                      /\ NumPaths[v] = IF dist(v) < N THEN sigma(v) ELSE 0
    OBVIOUS
  <2>1. /\ Visited[v] <=> dist(v) < k /\ dist(v) < N
        /\ Visited[v] => NumPaths[v] = sigma(v)
        /\ ~Visited[v] => NumPaths[v] = 0
    BY <1>1 DEF IInv, ForwardInv
  <2>2. dist(v) \in 0 .. N
    BY <1>2, DistFacts
  <2>3. dist(v) < N => dist(v) < k
    BY <1>2, <1>4, <2>2
  <2> QED BY <2>1, <2>3
<1>10. BackwardInv'
  <2>1. \A v : dist(v)' = dist(v) /\ sigma(v)' = sigma(v)
    BY <1>1, SameGraph
  <2> QED BY <1>1, <1>6, <1>9, <2>1 DEF BackwardInv
<1>11. ASSUME NEW v \in Vertex PROVE NumPaths'[v] > 0 <=> Visited[v]
  BY <1>1, <1>2, <1>9, DistFacts
<1> QED BY <1>1, <1>2, <1>3, <1>7, <1>8, <1>10, <1>11 DEF IInv, ForwardInv

\* The next level down.
LEMMA NextLevelStep ==
  ASSUME IInv, phase = "backward", phase' = phase, r >= 0, NextLevel,
         pc' = "loop", strand' = {}, cache' = {},
         UNCHANGED <<GA, NumPaths, Levels>>
  PROVE  IInv'
<1>1. /\ Frontier' = Levels[r + 1] /\ r' = r - 1 /\ Visited' \in [Vertex -> BOOLEAN]
  BY DEF NextLevel, VertexMap
<1>2. /\ r \in -1 .. Len(Levels) - 3 /\ Len(Levels) \in Nat
  BY DEF IInv, BackwardInv, LevelsInv
<1>3. LevelsInv' /\ \A v : dist(v)' = dist(v) /\ sigma(v)' = sigma(v)
  BY SameLevels, SameGraph DEF IInv
<1>4. /\ r' \in -1 .. Len(Levels) - 3 /\ r' + 2 = r + 1
  BY <1>1, <1>2
<1>5. ShapeInv'
  BY <1>1, <1>4 DEF IInv, ShapeInv, Place
<1>6. BackwardInv'
  BY <1>3, <1>4 DEF IInv, BackwardInv
<1> QED BY <1>3, <1>5, <1>6 DEF IInv, ForwardInv

\* The backward phase changes neither the numbers of paths nor the levels.
LEMMA BackwardStep ==
  ASSUME IInv, Backward \/ BackwardReturn \/ Done
  PROVE  IInv' /\ phase = "backward" /\ UNCHANGED <<GA, phase, NumPaths>>
<1>1. phase = "backward" /\ UNCHANGED <<GA, phase, NumPaths, Levels>>
  <2>1. Frontier.d_m > 0 \/ phase # "backward"
    BY ActiveFacts
  <2> QED BY <2>1, EnterTraverses DEF Backward, BackwardReturn, Done, TraverseOver
<1>2. CASE BackwardReturn
  <2>1. phase' = phase /\ NextLevel /\ pc' = "loop" /\ strand' = {} /\ cache' = {} /\ r >= 0
    BY <1>1, <1>2 DEF BackwardReturn, strands, IInv, BackwardInv
  <2> QED BY <1>1, <2>1, NextLevelStep
<1>3. CASE Backward
  <2>1. pc = "loop" /\ phase' = phase /\ r >= 0 /\ UNCHANGED <<strand, cache>>
    BY <1>3 DEF Backward, strands
  <2>2. CASE EnterOver(WalkedJobs(Mode)) /\ UNCHANGED <<Visited, Dependencies, r>>
    <3>1. TraverseOver(WalkedJobs(Mode))
      BY <1>1, <2>2, ActiveFacts, EnterTraverses
    <3>2. Frontier' = Frontier /\ pc' = "edges" /\ UNCHANGED <<Visited, r>>
      BY <2>2, <3>1 DEF TraverseOver
    <3>3. LevelsInv' /\ \A v : dist(v)' = dist(v) /\ sigma(v)' = sigma(v)
      BY <1>1, SameLevels, SameGraph DEF IInv
    <3> QED BY <1>1, <2>1, <3>2, <3>3 DEF IInv, ShapeInv, Place, ForwardInv, BackwardInv
  <2>3. CASE NextLevel /\ UNCHANGED <<pc, GA, mode, todo, v1>>
    <3>1. pc' = "loop" /\ strand' = {} /\ cache' = {}
      BY <2>1, <2>3 DEF IInv, ShapeInv
    <3> QED BY <1>1, <2>1, <2>3, <3>1, NextLevelStep
  <2> QED BY <1>3, <2>2, <2>3 DEF Backward
<1>4. CASE Done
  <2>1. /\ pc = "loop" /\ pc' = "done" /\ UNCHANGED <<Frontier, Visited, r, strand, cache>>
    BY <1>4 DEF Done, strands
  <2>2. LevelsInv' /\ \A v : dist(v)' = dist(v) /\ sigma(v)' = sigma(v)
    BY <1>1, SameLevels, SameGraph DEF IInv
  <2> QED BY <1>1, <2>1, <2>2 DEF IInv, ShapeInv, Place, ForwardInv, BackwardInv
<1> QED BY <1>1, <1>2, <1>3, <1>4

-----------------------------------------------------------------------------
\* Every step keeps the invariant.
LEMMA NextStep ==
  ASSUME SafelyPartitioned, IInv, [Next]_vars
  PROVE  IInv'
<1>1. ASSUME UNCHANGED vars PROVE IInv'
  <2>1. /\ UNCHANGED <<pc, GA, Frontier, mode, todo, v1, transposed, phase, NumPaths, Visited,
                       Dependencies, Levels, r, strand, cache>>
        /\ \A v : dist(v)' = dist(v) /\ sigma(v)' = sigma(v)
    BY <1>1, SameGraph DEF vars
  <2>2. LevelsInv'
    BY <2>1, SameLevels DEF IInv
  <2>3. RoundInv => RoundInv'
    <3>1. /\ Active' = Active /\ Array' = Array /\ Edges' = Edges /\ cached' = cached
          /\ Atomic' = Atomic /\ ByDestination' = ByDestination
      BY <2>1 DEF Active, Array, Edges, cached, Atomic, ByDestination
    <3>2. \A v : Gathered(v)' = Gathered(v) /\ Counts(v)' = Counts(v)
      BY <2>1, <3>1 DEF Gathered, Taken, Pending, Counts
    <3>3. HandInv => HandInv'
      BY <2>1, <3>1 DEF HandInv
    <3> QED BY <2>1, <3>1, <3>2, <3>3 DEF RoundInv, SumInv, MarkInv
  <2> QED BY <2>1, <2>2, <2>3 DEF IInv, ShapeInv, Place, ForwardInv, BackwardInv
<1>2. CASE Next
  <2>1. CASE Forward
    BY <2>1, ForwardEnterStep, ForwardEarlyStep DEF Forward
  <2>2. CASE ForwardReturn
    BY <2>2, ForwardReturnStep
  <2>3. CASE TurnBack
    BY <2>3, TurnBackStep
  <2>4. CASE Backward \/ BackwardReturn \/ Done
    BY <2>4, BackwardStep
  <2>5. CASE Step
    BY <2>5, StrandStep
  <2>6. CASE Stopped
    BY <1>1, <2>6 DEF Stopped
  <2> QED BY <1>2, <2>1, <2>2, <2>3, <2>4, <2>5, <2>6 DEF Next, Step
<1> QED BY <1>1, <1>2

\* The inductive invariant.
THEOREM Invariance ==
  ASSUME SafelyPartitioned
  PROVE  Spec => []IInv
<1>1. IInv /\ [Next]_vars => IInv'
  BY NextStep
<1> QED BY <1>1, InitInv, PTL DEF Spec

\* edgeMap never aborts, in either phase.
THEOREM CountingNeverAborts ==
  ASSUME SafelyPartitioned
  PROVE  Spec => []NoAbort
<1>1. IInv => NoAbort
  BY DEF IInv, ShapeInv, NoAbort
<1> QED BY <1>1, Invariance, PTL

\* At the head of every forward round NumPaths, Visited and Levels are those of
\* the shortest paths found so far.
THEOREM PathsAreCountedRight ==
  ASSUME SafelyPartitioned
  PROVE  Spec => []PathsAreCounted
<1>1. IInv => PathsAreCounted
  <2> SUFFICES ASSUME IInv, pc = "loop", phase = "forward", NEW v \in Vertex
               PROVE  LET k == Distance(Walks, Start, v)
                          round == Len(Levels) - 1
                      IN  /\ NumPaths[v] = IF k <= round THEN ShortestPaths(Walks, Start, v) ELSE 0
                          /\ Visited[v] <=> k <= round /\ k # Far
                          /\ \A i \in 0 .. round :
                               Levels[i+1].copies[v] = IF k = i /\ k # Far THEN 1 ELSE 0
    BY DEF PathsAreCounted
  <2> DEFINE round == Len(Levels) - 1
  <2>1. /\ Len(Levels) \in Nat /\ dist(v) \in 0 .. N /\ (dist(v) # Far <=> dist(v) < N)
        /\ dist(v) <= round <=> dist(v) < Len(Levels)
    <3>1. Len(Levels) \in Nat /\ dist(v) \in 0 .. N
      BY DistFacts DEF IInv, LevelsInv, ShapeInv
    <3> QED BY <3>1, SizeAssumption DEF Far
  <2>2. ShortestPaths(Walks, Start, v) = IF dist(v) = Far THEN 0 ELSE sigma(v)
    BY DEF ShortestPaths, dist, sigma
  <2>3. /\ Visited[v] <=> dist(v) < Len(Levels) /\ dist(v) < N
        /\ Visited[v] => NumPaths[v] = sigma(v)
        /\ ~Visited[v] => NumPaths[v] = 0
    BY DEF IInv, ForwardInv
  <2>4. ASSUME NEW i \in 0 .. round
        PROVE  Levels[i+1].copies[v] = IF dist(v) = i /\ dist(v) # Far THEN 1 ELSE 0
    <3>1. i + 1 \in 1 .. Len(Levels) /\ (i + 1) - 1 = i
      BY <2>1
    <3>2. IsLevel(Levels[i + 1], i)
      BY <3>1 DEF IInv, LevelsInv
    <3> QED BY <2>1, <3>2 DEF IsLevel
  <2>5. NumPaths[v] = IF dist(v) <= round THEN ShortestPaths(Walks, Start, v) ELSE 0
    BY <2>1, <2>2, <2>3
  <2>6. Visited[v] <=> dist(v) <= round /\ dist(v) # Far
    BY <2>1, <2>3
  <2> QED BY <2>4, <2>5, <2>6 DEF dist
<1> QED BY <1>1, Invariance, PTL

\* A forward round, with or without a traversal, is one step of LevelBFS, and
\* the turn is its end; everything else, the additions included, is a stutter.
THEOREM ImplementsLevelBFS ==
  ASSUME SafelyPartitioned
  PROVE  Spec => RefinesLevelBFS
<1>1. Init => Level!Init
  <2> SUFFICES ASSUME Init PROVE Level!Init
    OBVIOUS
  <2>1. IInv /\ GA \in Graphs /\ phase = "forward" /\ Levels = <<Frontier>>
    BY InitInv DEF Init, EngineInit
  <2>2. Visited = [v \in Vertex |-> v = Start]
    BY DEF Init
  <2>3. {v \in Vertex : Visited[v]} = {Start}
    BY <2>2, StartAssumption
  <2>4. Active = {v \in Vertex : dist(v) = 0 /\ dist(v) < N}
    <3>1. Len(Levels) = 1 /\ Len(Levels) - 1 = 0
      BY <2>1
    <3> QED BY <2>1, <3>1, ActiveFacts DEF Place
  <2>5. Active = {Start}
    <3>1. \A v \in Vertex : dist(v) = 0 <=> v = Start
      BY <2>1, DistanceZero, StartAssumption DEF dist
    <3> QED BY <2>4, <3>1, StartAssumption, SizeAssumption
  <2> QED BY <2>1, <2>3, <2>5 DEF Level!Init
<1>2. IInv /\ [Next]_vars => [Level!Next]_Level!vars
  <2> SUFFICES ASSUME IInv, [Next]_vars PROVE [Level!Next]_Level!vars
    OBVIOUS
  <2>1. ASSUME UNCHANGED <<GA, phase, Visited, Frontier>>, phase = "backward" => UNCHANGED NumPaths
        PROVE  [Level!Next]_Level!vars
    BY <2>1 DEF Level!vars, Active, IInv, ShapeInv
  <2>2. CASE Forward
    <3>1. CASE EnterOver(WalkedJobs(Mode)) /\ UNCHANGED Levels
      <4>1. UNCHANGED <<GA, phase, Visited, Frontier>> /\ phase = "forward"
        BY <2>2, <3>1, ForwardEnterStep DEF Forward
      <4> QED BY <2>1, <4>1
    <3>2. CASE NoOutEdges /\ Levels' = Append(Levels, Frontier')
      <4>1. Active' = {} /\ Successors(GA.edges, Active) = {} /\ phase = "forward" /\ phase' = phase
            /\ Visited' = Visited /\ GA' = GA
        BY <2>2, <3>2, ForwardEarlyStep DEF Forward, arrays, NoOutEdges
      <4>2. Active # {}
        <5>1. Frontier.d_m # 0
          BY <2>2 DEF Forward, isEmpty
        <5>2. Len(Levels) \in Nat /\ Len(Levels) > 0 /\ Place - 1 \in Nat
          BY <4>1 DEF IInv, LevelsInv, Place
        <5> QED BY <5>1, <5>2, ActiveFacts, LevelFacts DEF IInv, ShapeInv
      <4>3. Level!Advance
        BY <4>1, <4>2 DEF Level!Advance, Level!Successors, Level!src, Level!dst,
              Successors, src, dst
      <4> QED BY <4>3 DEF Level!Next
    <3> QED BY <2>2, <3>1, <3>2 DEF Forward
  <2>3. CASE ForwardReturn
    <3>1. /\ Active # {} /\ Active' = Successors(GA.edges, Active) \ {v \in Vertex : Visited[v]}
          /\ {v \in Vertex : Visited[v]}' = {v \in Vertex : Visited[v]} \union Active'
      BY <2>3, ForwardReturnStep
    <3>2. GA' = GA /\ phase = "forward" /\ phase' = phase
      BY <2>3 DEF ForwardReturn, ReturnFromEdgeMap
    <3>3. Level!Advance
      BY <3>1, <3>2 DEF Level!Advance, Level!Successors, Level!src, Level!dst,
            Successors, src, dst
    <3> QED BY <3>3 DEF Level!Next
  <2>4. CASE TurnBack
    <3>1. /\ Active = {} /\ {v \in Vertex : NumPaths'[v] > 0} = {v \in Vertex : Visited[v]}
      BY <2>4, TurnBackStep
    <3>2. GA' = GA /\ phase = "forward" /\ phase' = "backward"
      BY <2>4 DEF TurnBack
    <3>3. Level!Finish
      BY <3>1, <3>2 DEF Level!Finish
    <3> QED BY <3>3 DEF Level!Next
  <2>5. CASE Backward \/ BackwardReturn \/ Done
    <3>1. phase = "backward" /\ UNCHANGED <<GA, phase, NumPaths>>
      BY <2>5, BackwardStep
    <3> QED BY <3>1 DEF Level!vars
  <2>6. CASE Step
    BY <2>1, <2>6, StrandStep
  <2>7. CASE Stopped \/ UNCHANGED vars
    BY <2>1, <2>7 DEF Stopped, vars
  <2> QED BY <2>2, <2>3, <2>4, <2>5, <2>6, <2>7 DEF Next, Step
<1> QED BY <1>1, <1>2, Invariance, PTL DEF Spec, Level!Spec, RefinesLevelBFS

-----------------------------------------------------------------------------
(***************************************************************************)
(* First edges.  A walk can be taken apart at its first edge as well as at *)
(* its last one; the backward phase goes by the first edges, which are the *)
(* last ones of the transposed graph.                                      *)
(***************************************************************************)
BackEdges == Reversed(GA.edges)

\* The transposed graph has the same edges, turned round.
LEMMA BackEdgesFacts ==
  ASSUME GA \in Graphs
  PROVE  /\ IsFiniteSet(BackEdges)
         /\ \A e \in GA.edges : e = <<src(e), dst(e)>> /\ reverse(e) \in BackEdges
         /\ \A e \in BackEdges : /\ e = <<src(e), dst(e)>> /\ reverse(e) \in GA.edges
                                 /\ src(e) \in Vertex /\ dst(e) \in Vertex
<1>1. IsFiniteSet(GA.edges) /\ GA.edges \subseteq Vertex \X Vertex
  BY GraphFacts, PairAssumption
<1>2. IsFiniteSet(BackEdges)
  <2> DEFINE f == [e \in GA.edges |-> reverse(e)]
  <2>1. f \in Surjection(GA.edges, BackEdges)
    BY DEF Surjection, BackEdges, Reversed
  <2> QED BY <1>1, <2>1, FS_Surjection
<1>3. \A e \in GA.edges : e = <<src(e), dst(e)>>
  BY <1>1 DEF src, dst
<1>4. \A e \in GA.edges : reverse(e) \in BackEdges
  BY DEF BackEdges, Reversed
<1>5. ASSUME NEW e \in BackEdges
      PROVE  /\ e = <<src(e), dst(e)>> /\ reverse(e) \in GA.edges
             /\ src(e) \in Vertex /\ dst(e) \in Vertex
  <2>1. PICK x \in GA.edges : e = reverse(x)
    BY DEF BackEdges, Reversed
  <2>2. src(e) = dst(x) /\ dst(e) = src(x) /\ e = <<src(e), dst(e)>>
    BY <2>1 DEF reverse, src, dst
  <2>3. reverse(e) = x
    BY <1>3, <2>2 DEF reverse
  <2> QED BY <2>2, <2>3, GraphFacts
<1> QED BY <1>2, <1>3, <1>4, <1>5

\* Among the edges into a vertex, one at most comes from a given vertex.
LEMMA OneEdge ==
  ASSUME NEW E, IsFiniteSet(E), \A e \in E : e = <<src(e), dst(e)>>,
         NEW u, NEW w, NEW f, \A e \in Into(E, w) : f[e] = IF src(e) = u THEN 1 ELSE 0
  PROVE  Total(f, Into(E, w)) = IF <<u, w>> \in E THEN 1 ELSE 0
<1> DEFINE D == Into(E, w)
<1>1. IsFiniteSet(D) /\ D \subseteq E
  BY FS_Subset DEF Into
<1>2. \A e \in D : f[e] \in Nat
  OBVIOUS
<1>3. IsSummable(f, D)
  BY <1>1, <1>2 DEF IsSummable
<1>4. CASE <<u, w>> \in E
  <2>1. <<u, w>> \in D /\ src(<<u, w>>) = u
    BY <1>4 DEF Into, src, dst
  <2>2. \A e \in D \ {<<u, w>>} : src(e) # u
    BY DEF Into
  <2>3. \A e \in D \ {<<u, w>>} : f[e] = 0
    BY <2>2
  <2>4. Total(f, D) = f[<<u, w>>]
    <3> HIDE DEF D
    <3> QED BY <1>3, <2>1, <2>3, TotalSingle
  <2> QED BY <1>4, <2>1, <2>4
<1>5. CASE <<u, w>> \notin E
  <2>1. \A e \in D : src(e) # u
    BY <1>5 DEF Into
  <2>2. Total(f, D) = 0
    BY <1>1, <2>1, TotalNat
  <2> QED BY <1>5, <2>2
<1> QED BY <1>4, <1>5

\* The walks from v by their first edge.
LEMMA FirstEdge ==
  ASSUME GA \in Graphs
  PROVE  \A k \in 0 .. N-1 : \A v, t \in Vertex :
           Walks[k+1][v][t] = Total([e \in Into(BackEdges, v) |-> Walks[k][src(e)][t]],
                                    Into(BackEdges, v))
<1> DEFINE first(k, v, t) == Total([e \in Into(BackEdges, v) |-> Walks[k][src(e)][t]],
                                   Into(BackEdges, v))
           S == {k \in 0 .. N-1 : \A v, t \in Vertex : Walks[k+1][v][t] = first(k, v, t)}
<1>0. \A v \in Vertex : /\ IsFiniteSet(Into(BackEdges, v)) /\ IsFiniteSet(Into(GA.edges, v))
                        /\ \A e \in Into(BackEdges, v) : src(e) \in Vertex
                        /\ \A e \in Into(GA.edges, v) : src(e) \in Vertex
  BY BackEdgesFacts, GraphFacts, FS_Subset DEF Into
<1>1. 0 \in S
  <2> SUFFICES ASSUME NEW v \in Vertex, NEW t \in Vertex
               PROVE  Walks[0+1][v][t] = first(0, v, t)
    BY SizeAssumption
  <2> DEFINE f == [e \in Into(GA.edges, t) |-> Walks[0][v][src(e)]]
             b == [e \in Into(BackEdges, v) |-> Walks[0][src(e)][t]]
  <2>1. Walks[1][v][t] = Total(f, Into(GA.edges, t))
    <3>1. 1 \in 1 .. N /\ 1 - 1 = 0
      BY SizeAssumption
    <3>2. Walks[1][v][t] = SumOf(Walks[0][v], Into(GA.edges, t))
      BY <3>1, WalksFacts
    <3> QED BY <3>2 DEF SumOf
  <2>2. \A e \in Into(GA.edges, t) : f[e] = IF src(e) = v THEN 1 ELSE 0
    BY <1>0, WalksFacts
  <2>3. \A e \in Into(BackEdges, v) : b[e] = IF src(e) = t THEN 1 ELSE 0
    BY <1>0, WalksFacts
  <2> HIDE DEF f, b
  <2>4. Total(f, Into(GA.edges, t)) = IF <<v, t>> \in GA.edges THEN 1 ELSE 0
    BY <2>2, OneEdge, BackEdgesFacts, GraphFacts
  <2>5. Total(b, Into(BackEdges, v)) = IF <<t, v>> \in BackEdges THEN 1 ELSE 0
    BY <2>3, OneEdge, BackEdgesFacts
  <2>6. <<v, t>> \in GA.edges <=> <<t, v>> \in BackEdges
    BY BackEdgesFacts DEF reverse, src, dst
  <2>7. first(0, v, t) = Total(b, Into(BackEdges, v)) /\ 0 + 1 = 1
    BY DEF b
  <2> HIDE DEF first
  <2> QED BY <2>1, <2>4, <2>5, <2>6, <2>7
<1>2. ASSUME NEW k \in 0 .. (N-1) - 1, k \in S PROVE k + 1 \in S
  <2>1. k + 1 \in 0 .. N-1 /\ (k + 1) + 1 \in 1 .. N /\ ((k + 1) + 1) - 1 = k + 1 /\ k \in 0 .. N
        /\ k + 1 \in 1 .. N /\ (k + 1) - 1 = k
    BY SizeAssumption
  <2> SUFFICES ASSUME NEW v \in Vertex, NEW t \in Vertex
               PROVE  Walks[(k+1)+1][v][t] = first(k+1, v, t)
    BY <2>1
  <2> DEFINE A == Into(GA.edges, t)
             B == Into(BackEdges, v)
             h == [f \in A |-> [e \in B |-> Walks[k][src(e)][src(f)]]]
  <2> DEFINE g == [e \in B |-> [f \in A |-> Walks[k][src(e)][src(f)]]]
             rows == [f \in A |-> Walks[k+1][v][src(f)]]
             cols == [e \in B |-> Walks[k+1][src(e)][t]]
  <2>2. Walks[(k+1)+1][v][t] = Total(rows, A)
    <3>1. Walks[(k+1)+1][v][t] = SumOf(Walks[k+1][v], A)
      BY <2>1, WalksFacts
    <3> QED BY <3>1 DEF SumOf
  <2>3. \A f \in A : rows[f] = Total(h[f], B)
    <3> SUFFICES ASSUME NEW f \in A PROVE rows[f] = Total(h[f], B)
      OBVIOUS
    <3>1. src(f) \in Vertex
      BY <1>0
    <3>2. Walks[k+1][v][src(f)] = first(k, v, src(f))
      BY <1>2, <3>1
    <3>3. h[f] = [e \in B |-> Walks[k][src(e)][src(f)]]
      OBVIOUS
    <3> QED BY <3>2, <3>3
  <2>4. \A e \in B : cols[e] = Total(g[e], A)
    <3> SUFFICES ASSUME NEW e \in B PROVE cols[e] = Total(g[e], A)
      OBVIOUS
    <3>1. src(e) \in Vertex
      BY <1>0
    <3>2. Walks[k+1][src(e)][t] = SumOf(Walks[k][src(e)], A)
      BY <2>1, <3>1, WalksFacts
    <3>3. g[e] = [f \in A |-> Walks[k][src(e)][src(f)]]
      OBVIOUS
    <3> QED BY <3>2, <3>3 DEF SumOf
  <2>5. \A f \in A : \A e \in B : h[f][e] \in Int /\ g[e][f] = h[f][e]
    <3>1. \A f \in A, e \in B : Walks[k][src(e)][src(f)] \in Nat
      BY <1>0, <2>1, WalksFacts
    <3> QED BY <3>1
  <2>6. IsFiniteSet(A) /\ IsFiniteSet(B)
    BY <1>0
  <2>7. first(k+1, v, t) = Total(cols, B)
    OBVIOUS
  <2> HIDE DEF A, B, h, g, rows, cols, first
  <2>8. Total(rows, A) = Total(cols, B)
    <3>1. DoubleSum(A, B, h, g, rows, cols)
      BY <2>3, <2>4, <2>5, <2>6 DEF DoubleSum
    <3> QED BY <3>1, TotalExchange
  <2> QED BY <2>2, <2>7, <2>8
<1>3. \A k \in 0 .. N-1 : k \in S
  <2>1. N-1 \in Nat
    BY SizeAssumption
  <2> HIDE DEF S
  <2> QED BY <1>1, <1>2, <2>1, BoundedInduction
<1> QED BY <1>3

\* k edges lead at most k further away from Start.
LEMMA WalkBound ==
  ASSUME GA \in Graphs
  PROVE  \A k \in 0 .. N : \A u, t \in Vertex : Walks[k][u][t] > 0 => dist(t) <= dist(u) + k
<1> DEFINE S == {k \in 0 .. N : \A u, t \in Vertex : Walks[k][u][t] > 0 => dist(t) <= dist(u) + k}
<1>0. \A v \in Vertex : dist(v) \in 0 .. N
  BY DistFacts
<1>1. 0 \in S
  <2> SUFFICES ASSUME NEW u \in Vertex, NEW t \in Vertex, Walks[0][u][t] > 0
               PROVE  dist(t) <= dist(u) + 0
    BY SizeAssumption
  <2>1. u = t
    BY WalksFacts
  <2> QED BY <1>0, <2>1, SizeAssumption
<1>2. ASSUME NEW k \in 0 .. N-1, k \in S PROVE k + 1 \in S
  <2>1. k + 1 \in 1 .. N /\ (k + 1) - 1 = k /\ k + 1 \in 0 .. N
    BY SizeAssumption
  <2> SUFFICES ASSUME NEW u \in Vertex, NEW t \in Vertex, Walks[k+1][u][t] > 0
               PROVE  dist(t) <= dist(u) + (k + 1)
    BY <2>1
  <2>2. PICK e \in GA.edges : dst(e) = t /\ Walks[k][u][src(e)] > 0
    BY <2>1, WalksFacts
  <2>3. src(e) \in Vertex
    BY GraphFacts
  <2>4. dist(src(e)) <= dist(u) + k
    BY <1>2, <2>2, <2>3
  <2>5. dist(src(e)) < N => dist(t) <= dist(src(e)) + 1
    BY <2>2, DistanceSteps, StartAssumption DEF dist
  <2>6. dist(t) \in 0 .. N /\ dist(u) \in 0 .. N /\ dist(src(e)) \in 0 .. N
    BY <1>0, <2>3
  <2> QED BY <2>4, <2>5, <2>6, SizeAssumption
<1>3. \A k \in 0 .. N : k \in S
  <2>1. N \in Nat
    BY SizeAssumption
  <2> HIDE DEF S
  <2> QED BY <1>1, <1>2, <2>1, BoundedInduction
<1> QED BY <1>3

\* What a vertex at a distance contributes to each vertex on a shortest path to
\* it, 1/NumPaths, and whether it does: not from a level without out-edges, where
\* edgeMap returns at once; in how many ways such a path goes on from v to t; what
\* is to arrive at v in all; and what is left there, its own share in any case.
share(t) == IF dist(t) < N THEN Unit \div sigma(t) ELSE 0

counted(t) == \E e \in GA.edges : dist(src(e)) = dist(t)

credit(t) == IF counted(t) THEN share(t) ELSE 0

between(v, t) ==
  IF dist(v) <= dist(t) /\ dist(t) < N THEN Walks[dist(t) - dist(v)][v][t] ELSE 0

dependency(v) == Total([t \in Vertex |-> between(v, t) * credit(t)], Vertex)

due(v) == IF counted(v) THEN dependency(v) ELSE share(v)

\* The first edges, turned round, of the shortest paths that go on from v.
Onward(v) == {e \in BackEdges : dst(e) = v /\ dist(src(e)) = dist(v) + 1 /\ dist(src(e)) < N}

\* Both are natural numbers.
LEMMA BetweenFacts ==
  ASSUME GA \in Graphs
  PROVE  /\ \A t \in Vertex : share(t) \in Nat /\ credit(t) \in Nat
         /\ \A v, t \in Vertex : between(v, t) \in Nat
         /\ \A v : IsFiniteSet(Onward(v)) /\ \A e \in Onward(v) : src(e) \in Vertex
<1>1. ASSUME NEW t \in Vertex PROVE share(t) \in Nat /\ credit(t) \in Nat
  <2>1. dist(t) < N => sigma(t) \in Nat /\ sigma(t) > 0
    BY DistFacts
  <2>2. dist(t) < N => Unit \div sigma(t) \in Nat
    BY <2>1, UnitAssumption
  <2> QED BY <2>2 DEF share, credit
<1>2. ASSUME NEW v \in Vertex, NEW t \in Vertex PROVE between(v, t) \in Nat
  <2>1. dist(v) \in 0 .. N /\ dist(t) \in 0 .. N
    BY DistFacts
  <2>2. dist(v) <= dist(t) => dist(t) - dist(v) \in 0 .. N
    BY <2>1, SizeAssumption
  <2>3. dist(v) <= dist(t) => Walks[dist(t) - dist(v)][v][t] \in Nat
    BY <2>2, WalksFacts
  <2> QED BY <2>3 DEF between
<1>3. ASSUME NEW v PROVE IsFiniteSet(Onward(v)) /\ \A e \in Onward(v) : src(e) \in Vertex
  BY BackEdgesFacts, FS_Subset DEF Onward
<1> QED BY <1>1, <1>2, <1>3

\* A path goes on from v to t along one of these edges, unless it is there.
LEMMA BetweenSteps ==
  ASSUME GA \in Graphs, NEW v \in Vertex, dist(v) < N, NEW t \in Vertex
  PROVE  between(v, t) = (IF t = v THEN 1 ELSE 0)
                         + Total([e \in Onward(v) |-> between(src(e), t)], Onward(v))
<1> DEFINE F == Onward(v)
           f == [e \in F |-> between(src(e), t)]
<1>1. /\ dist(v) \in 0 .. N /\ dist(t) \in 0 .. N
      /\ IsFiniteSet(F) /\ \A e \in F : src(e) \in Vertex
      /\ \A e \in F : f[e] \in Nat /\ f[e] = between(src(e), t)
  BY DistFacts, BetweenFacts
<1>2. IsSummable(f, F)
  BY <1>1 DEF IsSummable
<1>3. Total([e \in Onward(v) |-> between(src(e), t)], Onward(v)) = Total(f, F)
  OBVIOUS
<1>4. \A e \in F : dist(src(e)) = dist(v) + 1
  BY DEF Onward
<1> HIDE DEF F, f
<1>5. CASE ~(dist(v) < dist(t) /\ dist(t) < N)
  <2>1. \A e \in F : f[e] = 0
    <3> SUFFICES ASSUME NEW e \in F PROVE f[e] = 0
      OBVIOUS
    <3>1. ~(dist(src(e)) <= dist(t) /\ dist(t) < N)
      BY <1>1, <1>4, <1>5, SizeAssumption
    <3> QED BY <1>1, <3>1 DEF between
  <2>2. Total(f, F) = 0
    BY <1>1, <2>1, TotalNat
  <2>3. CASE t = v
    <3>1. between(v, t) = Walks[0][v][v]
      BY <1>1, <2>3, SizeAssumption DEF between
    <3> QED BY <1>3, <2>2, <2>3, <3>1, WalksFacts
  <2>4. CASE t # v
    <3>1. CASE dist(t) = dist(v)
      <4>1. between(v, t) = Walks[0][v][t]
        BY <1>1, <3>1, SizeAssumption DEF between
      <4> QED BY <1>3, <2>2, <2>4, <4>1, WalksFacts
    <3>2. CASE dist(t) # dist(v)
      <4>1. between(v, t) = 0
        BY <1>1, <1>5, <3>2, SizeAssumption DEF between
      <4> QED BY <1>3, <2>2, <2>4, <4>1
    <3> QED BY <3>1, <3>2
  <2> QED BY <2>3, <2>4
<1>6. CASE dist(v) < dist(t) /\ dist(t) < N
  <2> DEFINE k == dist(t) - dist(v) - 1
             D == Into(BackEdges, v)
             h == [e \in D |-> Walks[k][src(e)][t]]
  <2>1. k \in 0 .. N-1 /\ k \in 0 .. N /\ k + 1 = dist(t) - dist(v) /\ k \in Nat
    BY <1>1, <1>6, SizeAssumption
  <2>2. between(v, t) = Walks[k + 1][v][t]
    BY <1>1, <1>6, <2>1 DEF between
  <2>3. Walks[k + 1][v][t] = Total(h, D)
    BY <2>1, FirstEdge
  <2>4. IsFiniteSet(D) /\ \A e \in D : src(e) \in Vertex /\ h[e] = Walks[k][src(e)][t]
    BY BackEdgesFacts, FS_Subset DEF Into
  <2>5. k = dist(t) - dist(v) - 1
    OBVIOUS
  <2>6. F \subseteq D
    BY DEF F, Onward, Into
  <2> HIDE DEF k, h
  <2>7. \A e \in D : h[e] \in Nat
    BY <2>1, <2>4, WalksFacts
  <2>8. ASSUME NEW e \in D \ F PROVE h[e] = 0
    <3>1. e \in BackEdges /\ dst(e) = v /\ src(e) \in Vertex
      BY <2>4 DEF Into
    <3>2. ~(dist(src(e)) = dist(v) + 1 /\ dist(src(e)) < N)
      BY <2>8, <3>1 DEF F, Onward
    <3>3. dist(src(e)) <= dist(v) + 1
      <4>1. reverse(e) \in GA.edges /\ src(reverse(e)) = v /\ dst(reverse(e)) = src(e)
        BY <3>1, BackEdgesFacts DEF reverse, src, dst
      <4> QED BY <4>1, DistanceSteps, StartAssumption DEF dist
    <3>4. dist(src(e)) \in 0 .. N
      BY <3>1, DistFacts
    <3>5. Walks[k][src(e)][t] > 0 => dist(t) <= dist(src(e)) + k
      BY <2>1, <3>1, WalkBound
    <3>6. ~(Walks[k][src(e)][t] > 0)
      BY <1>1, <1>6, <2>1, <2>5, <3>2, <3>3, <3>4, <3>5, SizeAssumption
    <3>7. h[e] \in Nat /\ h[e] = Walks[k][src(e)][t]
      BY <2>4, <2>7
    <3> QED BY <3>6, <3>7
  <2>9. ASSUME NEW e \in F PROVE f[e] = h[e]
    <3>1. src(e) \in Vertex /\ dist(src(e)) = dist(v) + 1 /\ e \in D
      BY <1>1, <1>4, <2>6
    <3>2. dist(src(e)) <= dist(t) /\ dist(t) - dist(src(e)) = k
      BY <1>1, <1>6, <2>5, <3>1, SizeAssumption
    <3>3. between(src(e), t) = Walks[k][src(e)][t]
      BY <1>6, <3>2 DEF between
    <3> QED BY <1>1, <2>4, <3>1, <3>3
  <2> HIDE DEF D
  <2>10. Total(h, D) = Total(h, F)
    <3>1. IsSummable(h, D)
      BY <2>4, <2>7 DEF IsSummable
    <3> QED BY <2>6, <2>8, <3>1, TotalRestrict
  <2>11. Total(h, F) = Total(f, F) /\ Total(f, F) \in Int
    BY <1>2, <2>9, TotalSame, TotalIsInt
  <2>12. t # v
    BY <1>1, <1>6, SizeAssumption
  <2> QED BY <1>3, <2>2, <2>3, <2>10, <2>11, <2>12
<1> QED BY <1>5, <1>6

\* A dependency is a natural number.
LEMMA DependencyNat ==
  ASSUME GA \in Graphs
  PROVE  \A v \in Vertex : dependency(v) \in Nat
<1> SUFFICES ASSUME NEW v \in Vertex PROVE dependency(v) \in Nat
  OBVIOUS
<1> DEFINE x == [t \in Vertex |-> between(v, t) * credit(t)]
<1>1. \A t \in Vertex : x[t] = between(v, t) * credit(t)
  OBVIOUS
<1>2. dependency(v) = Total(x, Vertex)
  BY DEF dependency
<1> HIDE DEF x
<1>3. \A a, b \in Nat : a * b \in Nat
  OBVIOUS
<1>4. \A t \in Vertex : x[t] \in Nat
  <2> SUFFICES ASSUME NEW t \in Vertex PROVE x[t] \in Nat
    OBVIOUS
  <2>1. between(v, t) \in Nat /\ credit(t) \in Nat
    BY BetweenFacts
  <2> QED BY <1>1, <1>3, <2>1
<1>5. IsFiniteSet(Vertex)
  BY SizeAssumption, FS_Interval DEF Vertex
<1> QED BY <1>2, <1>4, <1>5, TotalNat

\* What the backward phase gathers at a vertex: its own credit and what it has
\* gathered at the vertices one further on.
LEMMA DependencySteps ==
  ASSUME GA \in Graphs, NEW v \in Vertex, dist(v) < N
  PROVE  dependency(v) = credit(v) + Total([e \in Onward(v) |-> dependency(src(e))], Onward(v))
<1> DEFINE F == Onward(v)
           h == [t \in Vertex |-> [e \in F |-> between(src(e), t) * credit(t)]]
           g == [e \in F |-> [t \in Vertex |-> between(src(e), t) * credit(t)]]
           own == [t \in Vertex |-> (IF t = v THEN 1 ELSE 0) * credit(t)]
           rows == [t \in Vertex |-> Total(h[t], F)]
           cols == [e \in F |-> dependency(src(e))]
           x == [t \in Vertex |-> between(v, t) * credit(t)]
<1>0. IsFiniteSet(Vertex)
  BY SizeAssumption, FS_Interval DEF Vertex
<1>1. IsFiniteSet(Vertex) /\ IsFiniteSet(F) /\ \A e \in F : src(e) \in Vertex
  BY <1>0, BetweenFacts
<1>2. \A t \in Vertex : credit(t) \in Nat /\ \A u \in Vertex : between(u, t) \in Nat
  BY BetweenFacts
<1>3. \A a, b \in Nat : a * b \in Nat
  OBVIOUS
<1>4. \A t \in Vertex : \A e \in F : h[t][e] \in Nat /\ g[e][t] = h[t][e]
  <2> SUFFICES ASSUME NEW t \in Vertex, NEW e \in F
               PROVE  h[t][e] \in Nat /\ g[e][t] = h[t][e]
    OBVIOUS
  <2>1. between(src(e), t) \in Nat /\ credit(t) \in Nat
    BY <1>1, <1>2
  <2>2. between(src(e), t) * credit(t) \in Nat
    BY <1>3, <2>1
  <2> QED BY <2>2
<1>5. \A t \in Vertex : rows[t] = Total(h[t], F)
  OBVIOUS
<1>6. \A e \in F : cols[e] = Total(g[e], Vertex)
  BY DEF dependency
<1>7. dependency(v) = Total(x, Vertex)
  BY DEF dependency
<1>8. \A t \in Vertex : /\ own[t] = IF t = v THEN credit(v) ELSE 0
                        /\ own[t] \in Nat
  <2> SUFFICES ASSUME NEW t \in Vertex
               PROVE  own[t] = (IF t = v THEN credit(v) ELSE 0) /\ own[t] \in Nat
    OBVIOUS
  <2>1. credit(t) \in Nat /\ 1 * credit(t) = credit(t) /\ 0 * credit(t) = 0
    BY <1>2
  <2> QED BY <2>1
<1>9. ASSUME NEW t \in Vertex PROVE x[t] = own[t] + rows[t]
  <2> DEFINE b == [e \in F |-> between(src(e), t)]
             c == credit(t)
             i == IF t = v THEN 1 ELSE 0
  <2>1. \A e \in F : b[e] \in Nat /\ b[e] = between(src(e), t)
    BY <1>1, <1>2
  <2>2. between(v, t) = i + Total(b, F)
    BY BetweenSteps
  <2>3. c \in Nat /\ i \in Nat /\ x[t] = between(v, t) * c /\ own[t] = i * c
    BY <1>2
  <2>4. \A e \in F : h[t][e] = b[e] * c
    OBVIOUS
  <2> HIDE DEF b, c, i, F, h, x, own, rows
  <2>5. IsSummable(b, F) /\ Total(b, F) \in Nat
    BY <1>1, <2>1, TotalNat DEF IsSummable
  <2>6. \A e \in F : h[t][e] = c * b[e]
    <3>1. \A p, q \in Nat : p * q = q * p
      OBVIOUS
    <3> QED BY <2>1, <2>3, <2>4, <3>1
  <2>7. Total(h[t], F) = c * Total(b, F)
    BY <2>3, <2>5, <2>6, TotalScale
  <2>8. \A p, q, s \in Nat : (p + q) * s = p * s + s * q
    OBVIOUS
  <2> QED BY <1>5, <2>2, <2>3, <2>5, <2>7, <2>8
<1>10. \A t \in Vertex : rows[t] \in Nat
  <2> HIDE DEF h, rows, F
  <2> QED BY <1>1, <1>4, <1>5, TotalNat
<1>11. Total([e \in Onward(v) |-> dependency(src(e))], Onward(v)) = Total(cols, F)
  OBVIOUS
<1> HIDE DEF F, h, g, own, rows, cols, x
<1>12. IsSummable(own, Vertex) /\ IsSummable(rows, Vertex)
  BY <1>1, <1>8, <1>10 DEF IsSummable
<1>13. Total(x, Vertex) = Total(own, Vertex) + Total(rows, Vertex)
  BY <1>9, <1>12, TotalPlus
<1>14. Total(own, Vertex) = credit(v)
  <2>1. \A t \in Vertex \ {v} : own[t] = 0
    BY <1>8
  <2>2. Total(own, Vertex) = own[v]
    BY <1>12, <2>1, TotalSingle
  <2> QED BY <1>8, <2>2
<1>15. Total(rows, Vertex) = Total(cols, F)
  <2>1. DoubleSum(Vertex, F, h, g, rows, cols)
    BY <1>1, <1>4, <1>5, <1>6 DEF DoubleSum
  <2> QED BY <2>1, TotalExchange
<1> QED BY <1>7, <1>11, <1>13, <1>14, <1>15

\* From a level that is not counted no path goes on.
LEMMA UncountedAreLast ==
  ASSUME GA \in Graphs, NEW v \in Vertex, dist(v) < N, ~counted(v)
  PROVE  dependency(v) = 0 /\ credit(v) = 0
<1>1. Onward(v) = {}
  <2> SUFFICES ASSUME NEW e \in Onward(v) PROVE FALSE
    OBVIOUS
  <2>1. reverse(e) \in GA.edges /\ src(reverse(e)) = v
    BY BackEdgesFacts DEF Onward, reverse, src, dst
  <2> QED BY <2>1 DEF counted
<1>2. Total([e \in Onward(v) |-> dependency(src(e))], Onward(v)) = 0
  BY <1>1, TotalEmpty
<1>3. credit(v) = 0
  BY DEF credit
<1>4. dependency(v) = credit(v) + 0
  BY <1>2, DependencySteps
<1> QED BY <1>3, <1>4

-----------------------------------------------------------------------------
(***************************************************************************)
(* The backward phase.  transpose() leaves the COO lists alone, and a      *)
(* vertex without in-edges has no entry in the compressed CSC array (see   *)
(* WalksOutEdges): the scores are those of graphs that edgeMap can walk    *)
(* backwards, which are the symmetric ones, and those partitioned by       *)
(* -v vertex in which an edge leads to every vertex that has out-edges.    *)
(***************************************************************************)
Transposable ==
  \A g \in Graphs :
    \/ Reversed(g.edges) = g.edges
    \/ g.part_ver /\ \A e \in g.edges : \E f \in g.edges : dst(f) = src(e)

\* What has been gathered: everything, at the vertices of the levels done; at
\* the others nothing, between two rounds.  In the end it has become the score.
GatherInv ==
  phase = "backward" =>
    /\ transposed = ~isSymmetric
    /\ pc # "done" =>
         /\ Dependencies \in [Vertex -> Nat]
         /\ \A v \in Vertex : /\ Visited[v] <=> Place - 1 <= dist(v) /\ dist(v) < N
                              /\ Visited[v] => Dependencies[v] = due(v)
    /\ pc = "loop" => \A v \in Vertex : ~Visited[v] /\ dist(v) < N => Dependencies[v] = 0
    /\ pc = "edges" => RoundInv /\ Frontier.num_out_edges # 0
    /\ pc = "done" => \A v \in Vertex :
         Dependencies[v] = IF dist(v) < N THEN (due(v) - share(v)) * sigma(v) ELSE NaN

\* The inductive invariant behind the scores.
ScoreInv ==
  /\ isSymmetric \in BOOLEAN /\ (isSymmetric => Reversed(GA.edges) = GA.edges)
  /\ GatherInv

\* What is gathered is the same while the graph is.
LEMMA SameScores ==
  ASSUME GA' = GA
  PROVE  \A v : /\ share(v)' = share(v) /\ dependency(v)' = dependency(v)
               /\ counted(v)' = counted(v) /\ due(v)' = due(v)
<1>1. Walks' = Walks /\ \A v : dist(v)' = dist(v) /\ sigma(v)' = sigma(v)
  BY SameGraph
<1>2. \A v, t : between(v, t)' = between(v, t) /\ share(t)' = share(t)
  BY <1>1 DEF between, share
<1>3. \A v : counted(v)' = counted(v)
  BY <1>1 DEF counted
<1>4. \A v : credit(v)' = credit(v)
  BY <1>2, <1>3 DEF credit
<1>5. \A v : dependency(v)' = dependency(v)
  BY <1>2, <1>4 DEF dependency
<1> QED BY <1>2, <1>3, <1>5 DEF due

\* The edges of the backward phase, whichever traversal walks them.
LEMMA BackwardEdges ==
  ASSUME Transposable, GA \in Graphs, ScoreInv, phase = "backward"
  PROVE  Edges = BackEdges /\ WalkedEdges(Mode) = Edges
<1>1. Edges = BackEdges
  BY DEF ScoreInv, GatherInv, Edges, BackEdges
<1>2. CASE Reversed(GA.edges) = GA.edges
  <2>1. Edges = GA.edges
    BY <1>1, <1>2 DEF BackEdges
  <2>2. {e \in Edges : dst(e) \in Compressed} = Edges
    BY <2>1 DEF Compressed
  <2> QED BY <1>1, <2>1, <2>2, ModeFacts DEF WalkedEdges
<1>3. CASE Reversed(GA.edges) # GA.edges
  <2>1. /\ GA.part_ver
        /\ \A e \in GA.edges : \E f \in GA.edges : dst(f) = src(e)
    BY <1>3 DEF Transposable
  <2>2. \A e \in Edges : dst(e) \in Compressed
    <3> SUFFICES ASSUME NEW e \in Edges PROVE dst(e) \in Compressed
      OBVIOUS
    <3>1. reverse(e) \in GA.edges /\ src(reverse(e)) = dst(e)
      BY <1>1, BackEdgesFacts DEF reverse, src, dst
    <3> QED BY <2>1, <3>1 DEF Compressed
  <2>3. Mode # "coo"
    BY <2>1, ModeFacts
  <2> QED BY <1>1, <2>2, <2>3, ModeFacts DEF WalkedEdges
<1> QED BY <1>2, <1>3

\* The level that the backward phase leaves is counted if edgeMap does not return
\* from it at once, and the level below is counted in any case.
LEMMA LevelsAreCounted ==
  ASSUME IInv, phase = "backward", r >= 0
  PROVE  /\ \A v \in Vertex : dist(v) = r + 1 /\ dist(v) < N =>
              (counted(v) <=> Frontier.num_out_edges # 0)
         /\ \A v \in Vertex : dist(v) = r => counted(v)
<1>1. /\ GA \in Graphs /\ r \in Nat /\ r + 1 \in Nat
      /\ IsLevel(Frontier, r + 1) /\ Frontier.d_m > 0
  <2>1. r \in Nat /\ (r + 2) - 1 = r + 1
    BY DEF IInv, LevelsInv, BackwardInv
  <2> QED BY <2>1, ActiveFacts DEF IInv, ShapeInv, Place
<1>2. \A v \in Vertex : Frontier.copies[v] = IF dist(v) = r + 1 /\ dist(v) < N THEN 1 ELSE 0
  BY <1>1 DEF IsLevel
<1>3. Frontier.num_out_edges = 0 <=> \A e \in GA.edges : Frontier.copies[src(e)] = 0
  BY <1>1, LevelFacts
<1>4. ASSUME NEW v \in Vertex, dist(v) = r + 1, dist(v) < N
      PROVE  counted(v) <=> Frontier.num_out_edges # 0
  <2>1. \A e \in GA.edges : src(e) \in Vertex
    BY <1>1, GraphFacts
  <2>2. \A e \in GA.edges : dist(src(e)) = dist(v) <=> Frontier.copies[src(e)] # 0
    BY <1>2, <1>4, <2>1
  <2> QED BY <1>3, <2>2 DEF counted
<1>5. ASSUME NEW v \in Vertex, dist(v) = r PROVE counted(v)
  <2>1. PICK u \in Vertex : dist(u) = r + 1 /\ dist(u) < N
    BY <1>1, LevelFacts
  <2>2. PICK e \in GA.edges : dst(e) = u /\ dist(src(e)) = dist(u) - 1
    <3>1. dist(u) > 0
      BY <1>1, <2>1
    <3> QED BY <1>1, <2>1, <3>1, DistanceSteps, StartAssumption DEF dist
  <2>3. dist(src(e)) = r
    BY <1>1, <2>1, <2>2
  <2> QED BY <1>5, <2>3 DEF counted
<1> QED BY <1>4, <1>5

\* vertexMap over level k marks its vertices and adds their shares.
LEMMA VertexMapFacts ==
  ASSUME GA \in Graphs, LevelsInv, NEW k \in Nat, k + 1 \in 1 .. Len(Levels),
         NEW deps \in [Vertex -> Nat], VertexMap(k, deps),
         \A v \in Vertex : NumPaths[v] = IF dist(v) < N THEN sigma(v) ELSE 0
  PROVE  /\ Dependencies' \in [Vertex -> Nat]
         /\ \A v \in Vertex :
              /\ Visited'[v] <=> (dist(v) = k /\ dist(v) < N) \/ (phase = "backward" /\ Visited[v])
              /\ Dependencies'[v] = IF dist(v) = k /\ dist(v) < N THEN deps[v] + share(v) ELSE deps[v]
<1> DEFINE level == Levels[k + 1]
           sum(v) == IF level.copies[v] = 0 THEN deps[v] ELSE deps[v] + level.copies[v] * inverse(v)
<1>1. /\ Visited' = [v \in Vertex |-> level.copies[v] > 0 \/ (phase = "backward" /\ Visited[v])]
      /\ Dependencies' = [v \in Vertex |-> sum(v)]
  BY DEF VertexMap
<1>2. IsLevel(level, k)
  <2>1. (k + 1) - 1 = k
    OBVIOUS
  <2> QED BY <2>1 DEF LevelsInv
<1>3. \A v \in Vertex : level.copies[v] = IF dist(v) = k /\ dist(v) < N THEN 1 ELSE 0
  BY <1>2 DEF IsLevel
<1> HIDE DEF level
<1>4. ASSUME NEW v \in Vertex
      PROVE  /\ sum(v) = IF dist(v) = k /\ dist(v) < N THEN deps[v] + share(v) ELSE deps[v]
             /\ sum(v) \in Nat
  <2>1. deps[v] \in Nat /\ share(v) \in Nat
    BY BetweenFacts
  <2>2. CASE dist(v) = k /\ dist(v) < N
    <3>1. level.copies[v] = 1 /\ inverse(v) = share(v)
      BY <1>3, <2>2 DEF inverse, share
    <3>2. 1 * share(v) = share(v)
      BY <2>1
    <3> QED BY <2>1, <2>2, <3>1, <3>2
  <2>3. CASE ~(dist(v) = k /\ dist(v) < N)
    <3>1. level.copies[v] = 0
      BY <1>3, <2>3
    <3> QED BY <2>1, <2>3, <3>1
  <2> QED BY <2>2, <2>3
<1>5. ASSUME NEW v \in Vertex PROVE Dependencies'[v] = sum(v)
  <2> HIDE DEF sum
  <2> QED BY <1>1
<1>6. Dependencies' \in [Vertex -> Nat]
  <2>1. \A v \in Vertex : sum(v) \in Nat
    BY <1>4
  <2> HIDE DEF sum
  <2> QED BY <1>1, <2>1
<1>7. ASSUME NEW v \in Vertex
      PROVE  Visited'[v] <=> (dist(v) = k /\ dist(v) < N) \/ (phase = "backward" /\ Visited[v])
  <2>1. Visited'[v] <=> level.copies[v] > 0 \/ (phase = "backward" /\ Visited[v])
    BY <1>1, Zenon
  <2> QED BY <1>3, <2>1
<1> HIDE DEF sum
<1> QED BY <1>4, <1>5, <1>6, <1>7

\* At the turn the vertices of the last level have their own shares only.
LEMMA TurnBackScores ==
  ASSUME IInv, ScoreInv, TurnBack
  PROVE  ScoreInv'
<1> DEFINE k == Len(Levels)
<1>1. /\ pc = "loop" /\ phase = "forward" /\ phase' = "backward" /\ pc' = pc /\ GA' = GA
      /\ Frontier.d_m = 0 /\ r' = (k - 1) - 2 /\ VertexMap((k - 1) - 1, Zero)
      /\ transposed' = ~isSymmetric
      /\ UNCHANGED <<NumPaths, Levels, isSymmetric>>
  BY DEF TurnBack, isEmpty
<1>2. /\ k \in Nat /\ k > 0 /\ GA \in Graphs /\ IsLevel(Frontier, k - 1) /\ LevelsInv
  BY <1>1, ActiveFacts DEF IInv, LevelsInv, ShapeInv, Place
<1>3. \A v \in Vertex : dist(v) < N => dist(v) < k - 1
  <2>1. \A v \in Vertex : ~(dist(v) = k - 1 /\ dist(v) < N)
    BY <1>1, <1>2, LevelFacts
  <2> QED BY <1>2, <2>1, NoneFarther
<1>4. k >= 2
  <2>1. dist(Start) = 0
    BY <1>2, DistanceZero, StartAssumption DEF dist
  <2>2. dist(Start) < N
    BY <2>1, SizeAssumption
  <2>3. 0 < k - 1
    BY <1>3, <2>1, <2>2, StartAssumption
  <2> QED BY <1>2, <2>3
<1> DEFINE l == (k - 1) - 1
<1>5. l \in Nat /\ l + 1 \in 1 .. Len(Levels) /\ l = k - 2 /\ r' = l - 1
  BY <1>1, <1>2, <1>4
<1>6. \A v \in Vertex : NumPaths[v] = IF dist(v) < N THEN sigma(v) ELSE 0
  <2>1. IInv' /\ \A v : dist(v)' = dist(v) /\ sigma(v)' = sigma(v)
    BY <1>1, TurnBackStep, SameGraph
  <2> QED BY <1>1, <2>1 DEF IInv, BackwardInv
<1> HIDE DEF l
<1>7. VertexMap(l, Zero) /\ Zero \in [Vertex -> Nat] /\ \A v \in Vertex : Zero[v] = 0
  BY <1>1 DEF l, Zero
<1>8. /\ Dependencies' \in [Vertex -> Nat]
      /\ \A v \in Vertex :
           /\ Visited'[v] <=> dist(v) = l /\ dist(v) < N
           /\ Dependencies'[v] = IF dist(v) = l /\ dist(v) < N THEN 0 + share(v) ELSE 0
  BY <1>1, <1>2, <1>5, <1>6, <1>7, VertexMapFacts
<1>9. ASSUME NEW v \in Vertex
      PROVE  /\ Visited'[v] <=> l <= dist(v) /\ dist(v) < N
             /\ Visited'[v] => Dependencies'[v] = due(v)
             /\ ~Visited'[v] => Dependencies'[v] = 0
  <2>1. dist(v) \in 0 .. N
    BY <1>2, DistFacts
  <2>2. Visited'[v] <=> l <= dist(v) /\ dist(v) < N
    BY <1>2, <1>3, <1>5, <1>8, <2>1
  <2>3. ASSUME Visited'[v] PROVE Dependencies'[v] = due(v)
    <3>1. dist(v) = l /\ dist(v) < N
      BY <1>8, <2>3
    <3>2. Onward(v) = {}
      <4> SUFFICES ASSUME NEW e \in Onward(v) PROVE FALSE
        OBVIOUS
      <4>1. src(e) \in Vertex /\ dist(src(e)) = l + 1 /\ dist(src(e)) < N
        BY <1>2, <3>1, BetweenFacts DEF Onward
      <4> QED BY <1>2, <1>3, <1>5, <4>1
    <3>3. Total([e \in Onward(v) |-> dependency(src(e))], Onward(v)) = 0
      BY <3>2, TotalEmpty
    <3>4. dependency(v) = credit(v) + 0
      BY <1>2, <3>1, <3>3, DependencySteps
    <3>5. share(v) \in Nat /\ Dependencies'[v] = 0 + share(v)
      BY <1>2, <1>8, <3>1, BetweenFacts
    <3> QED BY <3>4, <3>5 DEF due, credit
  <2>4. ~Visited'[v] => Dependencies'[v] = 0
    BY <1>8
  <2> QED BY <2>2, <2>3, <2>4
<1>10. Place' - 1 = l
  BY <1>1, <1>5 DEF Place
<1>11. \A v : dist(v)' = dist(v) /\ due(v)' = due(v)
  BY <1>1, SameGraph, SameScores
<1>12. GatherInv'
  BY <1>1, <1>8, <1>9, <1>10, <1>11 DEF GatherInv
<1> QED BY <1>1, <1>12 DEF ScoreInv

\* A backward round starts: the vertices that are still to come have nothing.
LEMMA BackwardScores ==
  ASSUME SafelyPartitioned, Transposable, IInv, ScoreInv, Backward, Frontier.num_out_edges # 0
  PROVE  ScoreInv'
<1>1. /\ pc = "loop" /\ phase = "backward" /\ phase' = phase /\ r >= 0
      /\ UNCHANGED <<isSymmetric, transposed, NumPaths, Levels, strands>>
      /\ GA \in Graphs /\ strand = {} /\ cache = {}
  BY DEF Backward, IInv, ShapeInv
<1>2. Frontier.num_out_edges # 0 /\ Frontier.d_m > 0 /\ Place - 1 \in Nat
  <2>1. Place - 1 \in Nat
    BY <1>1 DEF Place, IInv, LevelsInv, BackwardInv
  <2> QED BY <1>1, <2>1, ActiveFacts
<1>3. EnterOver(WalkedJobs(Mode)) /\ UNCHANGED <<Visited, Dependencies, r>>
  BY <1>2 DEF Backward
<1>4. TraverseOver(WalkedJobs(Mode))
  BY <1>2, <1>3, EnterTraverses
<1>5. /\ IsLevel(Frontier, Place - 1)
      /\ Active = {v \in Vertex : dist(v) = Place - 1 /\ dist(v) < N}
  BY ActiveFacts
<1>6. \A v \in Vertex : Frontier.copies[v] \in {0, 1}
  BY <1>1, <1>2, <1>5, LevelFacts
<1>7. /\ Array = Dependencies /\ Dependencies \in [Vertex -> Nat]
      /\ \A v \in Active : Visited[v]
      /\ \A v \in Vertex : Counts(v) => Array[v] = 0
  <2>1. Array = Dependencies /\ Dependencies \in [Vertex -> Nat]
    BY <1>1 DEF Array, ScoreInv, GatherInv
  <2>2. \A v \in Active : Visited[v]
    <3> SUFFICES ASSUME NEW v \in Active PROVE Visited[v]
      OBVIOUS
    <3>1. v \in Vertex /\ dist(v) = Place - 1 /\ dist(v) < N
      BY <1>5
    <3> QED BY <1>1, <1>2, <3>1 DEF ScoreInv, GatherInv
  <2>3. \A v \in Vertex : Counts(v) => Array[v] = 0
    BY <1>1, <2>1 DEF ScoreInv, GatherInv, Counts
  <2> QED BY <2>1, <2>2, <2>3
<1>8. WalkedEdges(Mode) = Edges
  BY <1>1, BackwardEdges
<1>9. RoundInv'
  BY <1>1, <1>3, <1>4, <1>5, <1>6, <1>7, <1>8, EnterRound DEF IsLevel
<1>10. GA' = GA /\ pc' = "edges" /\ Place' = Place /\ Frontier' = Frontier
  BY <1>1, <1>3, <1>4 DEF TraverseOver, Place
<1>11. \A v : dist(v)' = dist(v) /\ due(v)' = due(v)
  BY <1>10, SameGraph, SameScores
<1>12. GatherInv'
  BY <1>1, <1>2, <1>3, <1>9, <1>10, <1>11 DEF ScoreInv, GatherInv
<1> QED BY <1>1, <1>10, <1>12 DEF ScoreInv

\* edgeMap returns at once from a level without out-edges: it is the last one, its
\* vertices keep their own shares and those of the level below get only theirs.
LEMMA SkippedScores ==
  ASSUME IInv, ScoreInv, Backward, Frontier.num_out_edges = 0
  PROVE  ScoreInv'
<1>1. /\ pc = "loop" /\ phase = "backward" /\ phase' = phase /\ pc' = pc /\ r >= 0
      /\ VertexMap(r, Dependencies) /\ r' = r - 1
      /\ UNCHANGED <<GA, isSymmetric, transposed, NumPaths, Levels>>
      /\ GA \in Graphs /\ LevelsInv
  <2>1. ~EnterOver(WalkedJobs(Mode))
    <3>1. ~TraverseOver(WalkedJobs(Mode))
      BY DEF TraverseOver
    <3> QED BY <3>1, EnterTraverses, ActiveFacts DEF Backward
  <2> QED BY <2>1 DEF Backward, NextLevel, IInv, ShapeInv
<1>2. /\ r \in Nat /\ r + 1 \in 1 .. Len(Levels) /\ Place - 1 = r + 1 /\ Place' - 1 = r
      /\ Dependencies \in [Vertex -> Nat]
  <2>1. r \in Nat /\ (r + 2) - 1 = r + 1 /\ ((r - 1) + 2) - 1 = r
    BY <1>1 DEF IInv, LevelsInv, BackwardInv
  <2>2. r + 1 \in 1 .. Len(Levels)
    BY <1>1, <2>1 DEF IInv, LevelsInv, BackwardInv
  <2> QED BY <1>1, <2>1, <2>2 DEF Place, ScoreInv, GatherInv
<1>3. /\ \A v \in Vertex : dist(v) = r + 1 /\ dist(v) < N => ~counted(v)
      /\ \A v \in Vertex : dist(v) = r => counted(v)
  BY <1>1, LevelsAreCounted
<1>4. /\ Dependencies' \in [Vertex -> Nat]
      /\ \A v \in Vertex :
           /\ Visited'[v] <=> (dist(v) = r /\ dist(v) < N) \/ Visited[v]
           /\ Dependencies'[v] = IF dist(v) = r /\ dist(v) < N
                                 THEN Dependencies[v] + share(v) ELSE Dependencies[v]
  <2>1. \A v \in Vertex : NumPaths[v] = IF dist(v) < N THEN sigma(v) ELSE 0
    BY <1>1 DEF IInv, BackwardInv
  <2> QED BY <1>1, <1>2, <2>1, VertexMapFacts
<1>5. ASSUME NEW v \in Vertex, dist(v) = r, dist(v) < N
      PROVE  due(v) = share(v)
  <2>1. ASSUME NEW e \in Onward(v) PROVE dependency(src(e)) = 0
    <3>1. src(e) \in Vertex /\ dist(src(e)) = r + 1 /\ dist(src(e)) < N
      BY <1>1, <1>5, BetweenFacts DEF Onward
    <3> QED BY <1>1, <1>3, <3>1, UncountedAreLast
  <2> DEFINE f == [e \in Onward(v) |-> dependency(src(e))]
  <2>2. \A e \in Onward(v) : f[e] = 0
    BY <2>1
  <2>3. dependency(v) = credit(v) + Total(f, Onward(v))
    BY <1>1, <1>5, DependencySteps
  <2> HIDE DEF f
  <2>4. IsFiniteSet(Onward(v))
    BY <1>1, BetweenFacts
  <2>5. Total(f, Onward(v)) = 0
    BY <2>2, <2>4, TotalNat
  <2>6. counted(v) /\ share(v) \in Nat
    BY <1>1, <1>3, <1>5, BetweenFacts
  <2> QED BY <2>3, <2>5, <2>6 DEF due, credit
<1>6. ASSUME NEW v \in Vertex
      PROVE  /\ Visited'[v] <=> r <= dist(v) /\ dist(v) < N
             /\ Visited'[v] => Dependencies'[v] = due(v)
             /\ ~Visited'[v] /\ dist(v) < N => Dependencies'[v] = 0
  <2>1. /\ dist(v) \in Int
        /\ Visited[v] <=> r + 1 <= dist(v) /\ dist(v) < N
        /\ Visited[v] => Dependencies[v] = due(v)
        /\ ~Visited[v] /\ dist(v) < N => Dependencies[v] = 0
    <3>1. dist(v) \in 0 .. N
      BY <1>1, DistFacts
    <3> QED BY <1>1, <1>2, <3>1 DEF ScoreInv, GatherInv
  <2>2. Visited'[v] <=> (dist(v) = r /\ dist(v) < N) \/ Visited[v]
    BY <1>4
  <2>3. CASE dist(v) = r /\ dist(v) < N
    <3>1. ~Visited[v] /\ share(v) \in Nat
      BY <1>1, <1>2, <2>1, <2>3, BetweenFacts
    <3>2. Dependencies'[v] = Dependencies[v] + share(v) /\ Dependencies[v] = 0
      BY <1>4, <2>1, <2>3, <3>1
    <3>3. due(v) = share(v)
      BY <1>5, <2>3
    <3> QED BY <1>2, <2>2, <2>3, <3>1, <3>2, <3>3
  <2>4. CASE ~(dist(v) = r /\ dist(v) < N)
    <3>1. Dependencies'[v] = Dependencies[v]
      BY <1>4, <2>4
    <3> QED BY <1>2, <2>1, <2>2, <2>4, <3>1
  <2> QED BY <2>3, <2>4
<1>7. \A v : dist(v)' = dist(v) /\ due(v)' = due(v)
  BY <1>1, SameGraph, SameScores
<1>8. GatherInv'
  BY <1>1, <1>2, <1>4, <1>6, <1>7 DEF ScoreInv, GatherInv
<1> QED BY <1>1, <1>8 DEF ScoreInv

\* A step of a strand.
LEMMA StrandScores ==
  ASSUME IInv, ScoreInv, Step
  PROVE  ScoreInv'
<1>1. /\ UNCHANGED <<pc, GA, Frontier, mode, isSymmetric, transposed, phase, Visited, Levels, r>>
      /\ pc = "edges" /\ GA \in Graphs
  BY StepWrites DEF IInv, ShapeInv, unchangedInRound
<1>2. \A v : dist(v)' = dist(v) /\ due(v)' = due(v) /\ Place' = Place
  BY <1>1, SameGraph, SameScores DEF Place
<1>3. ASSUME phase = "backward" PROVE GatherInv'
  <2>1. RoundInv' /\ \A v \in Vertex : Visited[v] => Array'[v] = Array[v]
    BY <1>1, <1>3, RoundStep DEF InRound, ScoreInv, GatherInv
  <2>2. Array = Dependencies /\ Array' = Dependencies'
    BY <1>1, <1>3 DEF Array
  <2> QED BY <1>1, <1>2, <1>3, <2>1, <2>2 DEF ScoreInv, GatherInv, RoundInv
<1> QED BY <1>1, <1>3 DEF ScoreInv, GatherInv

\* At the join of a backward round the vertices of the level below lack their
\* own shares only, and those farther down have nothing yet.
LEMMA BackwardSums ==
  ASSUME IInv, ScoreInv, phase = "backward", pc = "edges", todo = {}, strand = {}, cache = {}
  PROVE  /\ r \in Nat /\ Place - 1 = r + 1 /\ Dependencies \in [Vertex -> Nat]
         /\ \A v \in Vertex : ~Visited[v] /\ dist(v) < N =>
              /\ dist(v) <= r
              /\ dist(v) = r => due(v) = Dependencies[v] + share(v)
              /\ dist(v) # r => Dependencies[v] = 0
<1>1. /\ GA \in Graphs /\ RoundInv /\ Array = Dependencies /\ Dependencies \in [Vertex -> Nat]
      /\ r \in Nat /\ Place - 1 = r + 1 /\ Edges = BackEdges
  <2>1. r \in Nat /\ (r + 2) - 1 = r + 1
    BY DEF IInv, LevelsInv, BackwardInv
  <2>2. Edges = BackEdges
    BY DEF ScoreInv, GatherInv, Edges, BackEdges
  <2> QED BY <2>1, <2>2 DEF IInv, ShapeInv, ScoreInv, GatherInv, Array, Place
<1>2. Active = {v \in Vertex : dist(v) = r + 1 /\ dist(v) < N}
  BY <1>1, ActiveFacts
<1>3. \A v : Taken(v) = {e \in BackEdges : dst(e) = v /\ dist(src(e)) = r + 1 /\ dist(src(e)) < N}
  <2>1. \A e \in BackEdges : src(e) \in Active <=> dist(src(e)) = r + 1 /\ dist(src(e)) < N
    BY <1>1, <1>2, BackEdgesFacts
  <2>2. \A v : Taken(v) = {e \in BackEdges : dst(e) = v /\ src(e) \in Active}
    BY <1>1 DEF Taken, Pending
  <2> QED BY <2>1, <2>2
<1>4. SUFFICES ASSUME NEW v \in Vertex, ~Visited[v], dist(v) < N
               PROVE  /\ dist(v) <= r
                      /\ dist(v) = r => due(v) = Dependencies[v] + share(v)
                      /\ dist(v) # r => Dependencies[v] = 0
  BY <1>1
<1>5. dist(v) \in 0 .. N /\ dist(v) <= r
  <2>1. dist(v) \in 0 .. N /\ ~(r + 1 <= dist(v))
    BY <1>1, <1>4, DistFacts DEF ScoreInv, GatherInv
  <2> QED BY <1>1, <2>1, SizeAssumption
<1>6. Dependencies[v] = SumOf(Dependencies, Taken(v))
  <2>1. Counts(v) /\ v \notin cached
    BY <1>4 DEF Counts, cached
  <2> QED BY <1>1, <2>1 DEF RoundInv, SumInv, Gathered
<1>7. ASSUME dist(v) = r PROVE due(v) = Dependencies[v] + share(v)
  <2>1. Taken(v) = Onward(v)
    BY <1>3, <1>7 DEF Onward
  <2>2. ASSUME NEW e \in Onward(v) PROVE Dependencies[src(e)] = dependency(src(e))
    <3>1. src(e) \in Vertex /\ dist(src(e)) = r + 1 /\ dist(src(e)) < N
      BY <1>1, <1>7, BetweenFacts DEF Onward
    <3>2. Visited[src(e)]
      BY <1>1, <3>1 DEF ScoreInv, GatherInv
    <3>3. counted(src(e))
      BY <1>1, <3>1, LevelsAreCounted DEF ScoreInv, GatherInv
    <3> QED BY <3>1, <3>2, <3>3 DEF ScoreInv, GatherInv, due
  <2>3. [e \in Onward(v) |-> Dependencies[src(e)]] = [e \in Onward(v) |-> dependency(src(e))]
    BY <2>2
  <2>4. Dependencies[v] = Total([e \in Onward(v) |-> dependency(src(e))], Onward(v))
    BY <1>6, <2>1, <2>3 DEF SumOf
  <2>5. dependency(v) = credit(v) + Dependencies[v]
    BY <1>1, <1>4, <2>4, DependencySteps
  <2>6. share(v) \in Nat /\ Dependencies[v] \in Nat
    BY <1>1, BetweenFacts
  <2>7. counted(v)
    BY <1>1, <1>7, LevelsAreCounted
  <2> QED BY <2>5, <2>6, <2>7 DEF due, credit
<1>8. ASSUME dist(v) # r PROVE Dependencies[v] = 0
  <2>1. Taken(v) = {}
    <3> SUFFICES ASSUME NEW e \in BackEdges, dst(e) = v, dist(src(e)) = r + 1, dist(src(e)) < N
                 PROVE  FALSE
      BY <1>3
    <3>1. reverse(e) \in GA.edges /\ src(reverse(e)) = v /\ dst(reverse(e)) = src(e)
      BY <1>1, BackEdgesFacts DEF reverse, src, dst
    <3>2. dist(src(e)) <= dist(v) + 1
      BY <1>1, <1>4, <3>1, DistanceSteps, StartAssumption DEF dist
    <3> QED BY <1>1, <1>5, <1>8, <3>2
  <2> QED BY <1>6, <2>1, FS_EmptySet, SumOfNat
<1> QED BY <1>5, <1>7, <1>8

\* The join of a backward round, and vertexMap over the level below.
LEMMA BackwardReturnScores ==
  ASSUME IInv, ScoreInv, BackwardReturn
  PROVE  ScoreInv'
<1>1. /\ pc = "edges" /\ phase = "backward" /\ phase' = phase /\ pc' = "loop"
      /\ todo = {} /\ strand = {} /\ cache = {}
      /\ VertexMap(r, Dependencies) /\ r' = r - 1
      /\ UNCHANGED <<GA, isSymmetric, transposed, NumPaths, Levels>>
      /\ GA \in Graphs /\ LevelsInv
  BY DEF BackwardReturn, NextLevel, IInv, ShapeInv
<1>2. /\ r \in Nat /\ Place - 1 = r + 1 /\ Dependencies \in [Vertex -> Nat]
      /\ \A v \in Vertex : ~Visited[v] /\ dist(v) < N =>
           /\ dist(v) <= r
           /\ dist(v) = r => due(v) = Dependencies[v] + share(v)
           /\ dist(v) # r => Dependencies[v] = 0
  BY <1>1, BackwardSums
<1>3. r + 1 \in 1 .. Len(Levels)
  BY <1>1, <1>2 DEF IInv, LevelsInv, BackwardInv
<1>4. /\ Dependencies' \in [Vertex -> Nat]
      /\ \A v \in Vertex :
           /\ Visited'[v] <=> (dist(v) = r /\ dist(v) < N) \/ Visited[v]
           /\ Dependencies'[v] = IF dist(v) = r /\ dist(v) < N
                                 THEN Dependencies[v] + share(v) ELSE Dependencies[v]
  <2>1. \A v \in Vertex : NumPaths[v] = IF dist(v) < N THEN sigma(v) ELSE 0
    BY <1>1 DEF IInv, BackwardInv
  <2> QED BY <1>1, <1>2, <1>3, <2>1, VertexMapFacts
<1>5. ASSUME NEW v \in Vertex
      PROVE  /\ Visited'[v] <=> r <= dist(v) /\ dist(v) < N
             /\ Visited'[v] => Dependencies'[v] = due(v)
             /\ ~Visited'[v] /\ dist(v) < N => Dependencies'[v] = 0
  <2>1. /\ dist(v) \in Int
        /\ Visited[v] <=> r + 1 <= dist(v) /\ dist(v) < N
        /\ Visited[v] => Dependencies[v] = due(v)
    <3>1. dist(v) \in 0 .. N
      BY <1>1, DistFacts
    <3> QED BY <1>1, <1>2, <3>1 DEF ScoreInv, GatherInv
  <2>2. Visited'[v] <=> (dist(v) = r /\ dist(v) < N) \/ Visited[v]
    BY <1>4
  <2>3. CASE dist(v) = r /\ dist(v) < N
    <3>1. ~Visited[v]
      BY <1>2, <2>1, <2>3
    <3>2. Dependencies'[v] = Dependencies[v] + share(v)
      BY <1>4, <2>3
    <3> QED BY <1>2, <2>2, <2>3, <3>1, <3>2
  <2>4. CASE ~(dist(v) = r /\ dist(v) < N)
    <3>1. Dependencies'[v] = Dependencies[v]
      BY <1>4, <2>4
    <3>2. ~Visited[v] /\ dist(v) < N => Dependencies[v] = 0
      BY <1>2, <2>4
    <3> QED BY <1>2, <2>1, <2>2, <2>4, <3>1, <3>2
  <2> QED BY <2>3, <2>4
<1>6. Place' - 1 = r
  BY <1>1, <1>2 DEF Place
<1>7. \A v : dist(v)' = dist(v) /\ due(v)' = due(v)
  BY <1>1, SameGraph, SameScores
<1>8. GatherInv'
  BY <1>1, <1>4, <1>5, <1>6, <1>7 DEF ScoreInv, GatherInv
<1> QED BY <1>1, <1>8 DEF ScoreInv

\* The last step turns what was gathered at every vertex into its score.
LEMMA DoneScores ==
  ASSUME IInv, ScoreInv, Done
  PROVE  ScoreInv'
<1>1. /\ pc = "loop" /\ phase = "backward" /\ phase' = phase /\ pc' = "done" /\ r < 0
      /\ Dependencies' = [v \in Vertex |-> Score(v)]
      /\ UNCHANGED <<GA, isSymmetric, transposed, NumPaths>>
      /\ GA \in Graphs
  BY DEF Done, IInv, ShapeInv
<1>2. r = -1 /\ Place - 1 = 0
  BY <1>1 DEF IInv, LevelsInv, BackwardInv, Place
<1>3. ASSUME NEW v \in Vertex
      PROVE  Dependencies'[v] = IF dist(v) < N THEN (due(v) - share(v)) * sigma(v) ELSE NaN
  <2>1. Dependencies'[v] = Score(v)
    <3> HIDE DEF Score
    <3> QED BY <1>1
  <2>2. dist(v) \in 0 .. N /\ NumPaths[v] = IF dist(v) < N THEN sigma(v) ELSE 0
    BY <1>1, DistFacts DEF IInv, BackwardInv
  <2>3. CASE dist(v) < N
    <3>1. sigma(v) \in Nat /\ sigma(v) > 0 /\ NumPaths[v] = sigma(v)
      BY <1>1, <2>2, <2>3, DistFacts
    <3>2. Visited[v]
      BY <1>1, <1>2, <2>2, <2>3, SizeAssumption DEF ScoreInv, GatherInv
    <3>3. Dependencies[v] = due(v)
      BY <1>1, <3>2 DEF ScoreInv, GatherInv
    <3>4. inverse(v) = share(v)
      BY <2>3, <3>1 DEF inverse, share
    <3>5. NumPaths[v] # 0
      BY <3>1
    <3> QED BY <2>1, <2>3, <3>1, <3>3, <3>4, <3>5 DEF Score
  <2>4. CASE ~(dist(v) < N)
    BY <2>1, <2>2, <2>4 DEF Score
  <2> QED BY <2>3, <2>4
<1>4. \A v : /\ dist(v)' = dist(v) /\ sigma(v)' = sigma(v)
             /\ due(v)' = due(v) /\ share(v)' = share(v)
  BY <1>1, SameGraph, SameScores
<1>5. GatherInv'
  <2>1. pc' # "loop" /\ pc' # "edges"
    BY <1>1
  <2>2. transposed' = ~isSymmetric'
    BY <1>1 DEF ScoreInv, GatherInv
  <2> QED BY <1>1, <1>3, <1>4, <2>1, <2>2 DEF GatherInv
<1> QED BY <1>1, <1>5 DEF ScoreInv

\* Every step keeps what the backward phase gathers.
LEMMA NextScores ==
  ASSUME SafelyPartitioned, Transposable, IInv, ScoreInv, [Next]_vars
  PROVE  ScoreInv'
<1>1. ASSUME UNCHANGED vars PROVE ScoreInv'
  <2>1. /\ UNCHANGED <<pc, GA, Frontier, mode, todo, v1, isSymmetric, transposed, phase, NumPaths,
                       Visited, Dependencies, Levels, r, strand, cache>>
        /\ \A v : /\ dist(v)' = dist(v) /\ sigma(v)' = sigma(v)
                  /\ due(v)' = due(v) /\ share(v)' = share(v)
    BY <1>1, SameGraph, SameScores DEF vars
  <2>2. RoundInv => RoundInv'
    <3>1. /\ Active' = Active /\ Array' = Array /\ Edges' = Edges /\ cached' = cached
          /\ Atomic' = Atomic /\ ByDestination' = ByDestination
      BY <2>1 DEF Active, Array, Edges, cached, Atomic, ByDestination
    <3>2. \A v : Gathered(v)' = Gathered(v) /\ Counts(v)' = Counts(v)
      BY <2>1, <3>1 DEF Gathered, Taken, Pending, Counts
    <3>3. HandInv => HandInv'
      BY <2>1, <3>1 DEF HandInv
    <3> QED BY <2>1, <3>1, <3>2, <3>3 DEF RoundInv, SumInv, MarkInv
  <2>3. Place' = Place
    BY <2>1 DEF Place
  <2> QED BY <2>1, <2>2, <2>3 DEF ScoreInv, GatherInv
<1>2. ASSUME UNCHANGED <<GA, isSymmetric>>, phase' = "forward" PROVE ScoreInv'
  BY <1>2 DEF ScoreInv, GatherInv
<1>3. CASE Forward
  <2>1. GA' = GA /\ phase' = "forward" /\ isSymmetric' = isSymmetric
    BY <1>3 DEF Forward, EnterOver, SizesDontMatch, BadValueOfM, TraverseOver, NoOutEdges
  <2> QED BY <1>2, <2>1
<1>4. CASE ForwardReturn
  BY <1>2, <1>4 DEF ForwardReturn, ReturnFromEdgeMap
<1>5. CASE TurnBack
  BY <1>5, TurnBackScores
<1>6. CASE Backward
  BY <1>6, BackwardScores, SkippedScores
<1>7. CASE BackwardReturn
  BY <1>7, BackwardReturnScores
<1>8. CASE Step
  BY <1>8, StrandScores
<1>9. CASE Done
  BY <1>9, DoneScores
<1>10. CASE Stopped
  BY <1>1, <1>10 DEF Stopped
<1> QED BY <1>1, <1>3, <1>4, <1>5, <1>6, <1>7, <1>8, <1>9, <1>10 DEF Next, Step

\* The backward phase keeps what it has gathered.
LEMMA ScoreInvariance ==
  ASSUME SafelyPartitioned, Transposable
  PROVE  Spec => []ScoreInv
<1>1. Init => ScoreInv
  BY DEF Init, ScoreInv, GatherInv
<1>2. IInv /\ ScoreInv /\ [Next]_vars => ScoreInv'
  BY NextScores
<1> QED BY <1>1, <1>2, Invariance, PTL DEF Spec

-----------------------------------------------------------------------------
(***************************************************************************)
(* The scores.  Floating-point divisions are exact as long as every number *)
(* of paths divides Unit, the 1.0 of the model.                            *)
(***************************************************************************)
UnitIsExact == \A v \in Vertex : NumPaths[v] # 0 => Unit % NumPaths[v] = 0

\* A product divided is a product with the quotient.
DivisionIsExact(u, s, a, b) == (u * a * b) \div s = a * (b * (u \div s))

\* A division without remainder can come first.
LEMMA ExactDivision ==
  \A u, s, a, b \in Nat : s > 0 /\ u % s = 0 => DivisionIsExact(u, s, a, b)
<1> SUFFICES ASSUME NEW u \in Nat, NEW s \in Nat, NEW a \in Nat, NEW b \in Nat, s > 0, u % s = 0
             PROVE  DivisionIsExact(u, s, a, b)
  OBVIOUS
<1> DEFINE q == u \div s
           x == a * (b * q)
<1>1. q \in Nat /\ u = s * q
  OBVIOUS
<1> HIDE DEF q
<1>2. x \in Nat
  BY <1>1
<1>3. u * a * b = s * x
  BY <1>1
<1> HIDE DEF x
<1>4. (s * x) \div s = x
  BY <1>2
<1> QED BY <1>3, <1>4 DEF x, q, DivisionIsExact

\* The share of the paths to t that pass through v.
LEMMA ShareFacts ==
  ASSUME GA \in Graphs, NEW v \in Vertex, dist(v) < N, NEW t \in Vertex,
         dist(t) < N => Unit % sigma(t) = 0
  PROVE  Share(Walks, v, t) = IF t = v THEN 0 ELSE sigma(v) * (between(v, t) * share(t))
<1> DEFINE D == Distance(Walks, v, t)
           b == between(v, t)
<1>1. /\ dist(v) \in 0 .. N /\ dist(t) \in 0 .. N /\ D \in 0 .. N
      /\ sigma(v) \in Nat /\ b \in Nat /\ share(t) \in Nat
      /\ dist(t) < N => sigma(t) \in Nat /\ sigma(t) > 0
      /\ D < N => Walks[D][v][t] > 0
      /\ \A k \in 0 .. N-1 : Walks[k][v][t] > 0 => D <= k
  BY DistFacts, DistanceFacts, BetweenFacts
<1>2. D < N => dist(t) <= dist(v) + D
  BY <1>1, WalkBound
<1>3. /\ ShortestPaths(Walks, Start, v) = sigma(v)
      /\ dist(t) < N => ShortestPaths(Walks, Start, t) = sigma(t)
      /\ D < N => ShortestPaths(Walks, v, t) = Walks[D][v][t]
  BY <1>1, SizeAssumption DEF ShortestPaths, dist, sigma, Far
<1> DEFINE onTheWay == t # v /\ dist(t) < N /\ dist(v) + D = dist(t)
<1>4. Share(Walks, v, t) = IF onTheWay
                           THEN (Unit * ShortestPaths(Walks, Start, v) * ShortestPaths(Walks, v, t))
                                \div ShortestPaths(Walks, Start, t)
                           ELSE 0
  <2>1. dist(t) # Far <=> dist(t) < N
    BY <1>1, SizeAssumption DEF Far
  <2> QED BY <2>1 DEF Share, dist
<1> HIDE DEF D, b
<1>5. CASE onTheWay
  <2>1. D = dist(t) - dist(v) /\ D < N /\ dist(v) <= dist(t) /\ dist(t) < N
    BY <1>1, <1>5, SizeAssumption
  <2>2. b = Walks[D][v][t]
    BY <2>1 DEF b, between
  <2>3. Share(Walks, v, t) = (Unit * sigma(v) * b) \div sigma(t)
    BY <1>3, <1>4, <1>5, <2>1, <2>2
  <2>4. (Unit * sigma(v) * b) \div sigma(t) = sigma(v) * (b * (Unit \div sigma(t)))
    <3> DEFINE s == sigma(t)
               a == sigma(v)
    <3>1. Unit \in Nat /\ s \in Nat /\ s > 0 /\ Unit % s = 0 /\ a \in Nat /\ b \in Nat
      BY <1>1, <2>1, UnitAssumption
    <3> HIDE DEF s, a
    <3>2. DivisionIsExact(Unit, s, a, b)
      BY <3>1, ExactDivision
    <3> QED BY <3>2 DEF s, a, DivisionIsExact
  <2>5. share(t) = Unit \div sigma(t)
    BY <2>1 DEF share
  <2> QED BY <1>5, <2>3, <2>4, <2>5 DEF b
<1>6. CASE ~onTheWay /\ t # v
  <2>1. Share(Walks, v, t) = 0
    BY <1>4, <1>6
  <2>2. b = 0
    <3>1. CASE ~(dist(v) <= dist(t) /\ dist(t) < N)
      BY <3>1 DEF b, between
    <3>2. CASE dist(v) <= dist(t) /\ dist(t) < N
      <4> DEFINE k == dist(t) - dist(v)
      <4>1. k \in 0 .. N-1 /\ b = Walks[k][v][t] /\ dist(v) + k = dist(t)
        BY <1>1, <3>2, SizeAssumption DEF b, between
      <4>2. D # k
        BY <1>6, <3>2, <4>1
      <4> HIDE DEF k
      <4>3. ~(Walks[k][v][t] > 0)
        BY <1>1, <1>2, <4>1, <4>2, SizeAssumption
      <4> QED BY <1>1, <4>1, <4>3
    <3> QED BY <3>1, <3>2
  <2>3. sigma(v) * (0 * share(t)) = 0
    BY <1>1
  <2> QED BY <1>6, <2>1, <2>2, <2>3 DEF b
<1>7. CASE t = v
  BY <1>4, <1>7
<1> QED BY <1>5, <1>6, <1>7

\* The shares added up.
LEMMA ShareSum ==
  ASSUME NEW v, NEW C
  PROVE  MapThenSumSet(LAMBDA t : Share(Walks, v, t), C) = Total([t \in C |-> Share(Walks, v, t)], C)
<1> DEFINE g == [t \in C |-> Share(Walks, v, t)]
           first(s) == CHOOSE t \in s : TRUE
           A(it) == [s \in SUBSET C |-> IF s = {} THEN 0
                                        ELSE Share(Walks, v, first(s)) + it[s \ {first(s)}]]
           B(it) == [s \in SUBSET C |-> IF s = {} THEN 0
                                        ELSE g[first(s)] + it[s \ {first(s)}]]
<1>1. \A s \in SUBSET C : s # {} => g[first(s)] = Share(Walks, v, first(s))
  OBVIOUS
<1>2. \A it : A(it) = B(it)
  BY <1>1
<1>3. (CHOOSE it : it = A(it)) = (CHOOSE it : it = B(it))
  <2> HIDE DEF A, B
  <2> QED BY <1>2
<1>4. MapThenSumSet(LAMBDA t : Share(Walks, v, t), C) = (CHOOSE it : it = A(it))[C]
  BY DEF MapThenSumSet, MapThenFoldSet
<1>5. Total(g, C) = (CHOOSE it : it = B(it))[C]
  BY DEF Total, MapThenSumSet, MapThenFoldSet
<1> HIDE DEF A, B
<1> QED BY <1>3, <1>4, <1>5

\* Added up over the targets that are counted, the shares are what is left at v
\* but the share of v itself.
LEMMA ScoreIsSum ==
  ASSUME GA \in Graphs, NEW v \in Vertex, dist(v) < N,
         \A t \in Vertex : dist(t) < N => Unit % sigma(t) = 0
  PROVE  MapThenSumSet(LAMBDA t : Share(Walks, v, t), Continued) = (due(v) - share(v)) * sigma(v)
<1> DEFINE C == Continued
           g == [t \in C |-> Share(Walks, v, t)]
           f == [t \in Vertex |-> IF counted(t) THEN Share(Walks, v, t) ELSE 0]
           x == [t \in Vertex |-> between(v, t) * credit(t)]
           y == [x EXCEPT ![v] = 0]
<1>1. IsFiniteSet(Vertex)
  BY SizeAssumption, FS_Interval DEF Vertex
<1>2. C \subseteq Vertex /\ \A t \in Vertex : t \in C <=> counted(t)
  <2>1. \A e \in GA.edges : src(e) \in Vertex
    BY GraphFacts
  <2> QED BY <2>1 DEF Continued, counted, dist
<1> HIDE DEF C
<1>3. MapThenSumSet(LAMBDA t : Share(Walks, v, t), C) = Total(g, C)
  BY ShareSum
<1>4. \A t \in Vertex : f[t] = IF t = v THEN 0 ELSE sigma(v) * x[t]
  <2> SUFFICES ASSUME NEW t \in Vertex PROVE f[t] = IF t = v THEN 0 ELSE sigma(v) * x[t]
    OBVIOUS
  <2>1. Share(Walks, v, t) = IF t = v THEN 0 ELSE sigma(v) * (between(v, t) * share(t))
    BY ShareFacts
  <2>2. x[t] = between(v, t) * credit(t)
    OBVIOUS
  <2>3. CASE counted(t)
    <3>1. credit(t) = share(t)
      BY <2>3 DEF credit
    <3> QED BY <2>1, <2>2, <2>3, <3>1
  <2>4. CASE ~counted(t)
    <3>1. credit(t) = 0 /\ f[t] = 0
      BY <2>4 DEF credit
    <3>2. between(v, t) \in Nat /\ sigma(v) \in Nat
      BY BetweenFacts, DistFacts
    <3>3. sigma(v) * (between(v, t) * 0) = 0
      BY <3>2
    <3> QED BY <2>2, <3>1, <3>3
  <2> QED BY <2>3, <2>4
<1>5. \A t \in Vertex : x[t] \in Nat /\ x[t] = between(v, t) * credit(t)
  <2> SUFFICES ASSUME NEW t \in Vertex PROVE x[t] \in Nat /\ x[t] = between(v, t) * credit(t)
    OBVIOUS
  <2>1. between(v, t) \in Nat /\ credit(t) \in Nat
    BY BetweenFacts
  <2>2. between(v, t) * credit(t) \in Nat
    BY <2>1
  <2> QED BY <2>2
<1>6. \A t \in Vertex : y[t] = IF t = v THEN 0 ELSE x[t]
  OBVIOUS
<1>7. dependency(v) = Total(x, Vertex)
  BY DEF dependency
<1>8. /\ \A t \in C : f[t] = g[t]
      /\ \A t \in Vertex \ C : f[t] = 0
  BY <1>2
<1> HIDE DEF f, g, x, y
<1>9. /\ sigma(v) \in Nat /\ share(v) \in Nat /\ credit(v) \in Nat /\ dependency(v) \in Nat
  BY DistFacts, BetweenFacts, DependencyNat
<1>10. x[v] = credit(v)
  <2>1. dist(v) \in 0 .. N
    BY DistFacts
  <2>2. dist(v) - dist(v) = 0 /\ dist(v) <= dist(v)
    BY <2>1, SizeAssumption
  <2>3. between(v, v) = Walks[0][v][v]
    BY <2>2 DEF between
  <2>4. between(v, v) = 1
    BY <2>3, WalksFacts
  <2> QED BY <1>5, <1>9, <2>4
<1>11. IsSummable(x, Vertex) /\ IsSummable(y, Vertex)
  BY <1>1, <1>5, <1>6 DEF IsSummable
<1>12. Total(y, Vertex) = Total(x, Vertex) + (y[v] - x[v])
  <2>1. \A t \in Vertex \ {v} : y[t] = x[t]
    BY <1>6
  <2> QED BY <1>11, <2>1, TotalChange
<1>13. \A t \in Vertex : f[t] = sigma(v) * y[t]
  BY <1>4, <1>6, <1>9
<1>14. Total(f, Vertex) = sigma(v) * Total(y, Vertex)
  BY <1>9, <1>11, <1>13, TotalScale
<1>15. Total(g, C) = Total(f, Vertex)
  <2>1. \A t \in Vertex : f[t] \in Int
    <3> SUFFICES ASSUME NEW t \in Vertex PROVE f[t] \in Int
      OBVIOUS
    <3>1. y[t] \in Int /\ f[t] = sigma(v) * y[t]
      BY <1>5, <1>6, <1>13
    <3> QED BY <1>9, <3>1
  <2>2. IsSummable(f, Vertex) /\ IsSummable(f, C)
    BY <1>1, <1>2, <2>1, FS_Subset DEF IsSummable
  <2>3. Total(f, Vertex) = Total(f, C)
    BY <1>2, <1>8, <2>2, TotalRestrict
  <2>4. Total(g, C) = Total(f, C)
    BY <1>8, <2>2, TotalSame
  <2> QED BY <2>3, <2>4
<1>16. Total(y, Vertex) = dependency(v) - credit(v)
  BY <1>6, <1>7, <1>9, <1>10, <1>12
<1>17. dependency(v) - credit(v) = due(v) - share(v) /\ due(v) - share(v) \in Int
  <2>1. CASE counted(v)
    BY <1>9, <2>1 DEF due, credit
  <2>2. CASE ~counted(v)
    BY <1>9, <2>2, UncountedAreLast DEF due
  <2> QED BY <2>1, <2>2
<1>18. \A a \in Int, c \in Nat : c * a = a * c
  OBVIOUS
<1> QED BY <1>3, <1>9, <1>14, <1>15, <1>16, <1>17, <1>18 DEF C

\* The numbers of shortest paths divide Unit in the backward phase.
LEMMA ExactFacts ==
  ASSUME IInv, UnitIsExact, phase = "backward"
  PROVE  \A t \in Vertex : dist(t) < N => Unit % sigma(t) = 0
<1> SUFFICES ASSUME NEW t \in Vertex, dist(t) < N PROVE Unit % sigma(t) = 0
  OBVIOUS
<1>1. GA \in Graphs
  BY DEF IInv, ShapeInv
<1>2. NumPaths[t] = sigma(t) /\ sigma(t) > 0 /\ sigma(t) \in Nat
  BY <1>1, DistFacts DEF IInv, BackwardInv
<1> QED BY <1>2 DEF UnitIsExact

\* When Compute has returned, the score of every reached vertex is its
\* betweenness among the shortest paths from Start to the vertices of every
\* level but a last one without out-edges, whatever traversals the two phases
\* took and however their additions interleaved; the others have NaN.
THEOREM ScoresAreRight ==
  ASSUME SafelyPartitioned, Transposable
  PROVE  Spec => [](UnitIsExact => ScoresAreAccumulated)
<1>1. IInv /\ ScoreInv /\ UnitIsExact => ScoresAreAccumulated
  <2> SUFFICES ASSUME IInv, ScoreInv, UnitIsExact, pc = "done", NEW v \in Vertex
               PROVE  Dependencies[v] = IF Distance(Walks, Start, v) = Far THEN NaN
                                        ELSE MapThenSumSet(LAMBDA t : Share(Walks, v, t), Continued)
    BY DEF ScoresAreAccumulated, ScoresOver
  <2>1. GA \in Graphs /\ phase = "backward"
    BY DEF IInv, ShapeInv, ForwardInv
  <2>2. \A t \in Vertex : dist(t) < N => Unit % sigma(t) = 0
    BY <2>1, ExactFacts
  <2>3. Dependencies[v] = IF dist(v) < N THEN (due(v) - share(v)) * sigma(v) ELSE NaN
    BY <2>1 DEF ScoreInv, GatherInv
  <2>4. Distance(Walks, Start, v) = Far <=> ~(dist(v) < N)
    <3>1. dist(v) \in 0 .. N
      BY <2>1, DistFacts
    <3> QED BY <3>1, SizeAssumption DEF dist, Far
  <2>5. dist(v) < N => MapThenSumSet(LAMBDA t : Share(Walks, v, t), Continued)
                       = (due(v) - share(v)) * sigma(v)
    BY <2>1, <2>2, ScoreIsSum
  <2> QED BY <2>3, <2>4, <2>5
<1> QED BY <1>1, Invariance, ScoreInvariance, PTL

\* Graphs in which an edge leads on from the end of every edge, symmetric ones
\* among them.
NoDeadEnds == \A g \in Graphs : \A e \in g.edges : \E f \in g.edges : src(f) = dst(e)

\* In such graphs the vertices of every level have out-edges, unless Start has no
\* edge at all: no path is left out, and the scores are the betweenness of BC.C.
THEOREM ScoresAreBetweennessThen ==
  ASSUME SafelyPartitioned, Transposable, NoDeadEnds
  PROVE  Spec => [](UnitIsExact => ScoresAreBetweenness)
<1>1. IInv /\ UnitIsExact /\ ScoresAreAccumulated => ScoresAreBetweenness
  <2> SUFFICES ASSUME IInv, UnitIsExact, ScoresAreAccumulated, pc = "done", NEW v \in Vertex
               PROVE  Dependencies[v] = IF Distance(Walks, Start, v) = Far THEN NaN
                                        ELSE MapThenSumSet(LAMBDA t : Share(Walks, v, t), Vertex)
    BY DEF ScoresAreBetweenness, ScoresOver
  <2>1. Dependencies[v] = IF Distance(Walks, Start, v) = Far THEN NaN
                          ELSE MapThenSumSet(LAMBDA t : Share(Walks, v, t), Continued)
    BY DEF ScoresAreAccumulated, ScoresOver
  <2>2. /\ GA \in Graphs /\ phase = "backward"
        /\ \A t \in Vertex : dist(t) < N => Unit % sigma(t) = 0
    BY ExactFacts DEF IInv, ShapeInv, ForwardInv
  <2> SUFFICES ASSUME Distance(Walks, Start, v) # Far
               PROVE  MapThenSumSet(LAMBDA t : Share(Walks, v, t), Vertex)
                      = MapThenSumSet(LAMBDA t : Share(Walks, v, t), Continued)
    BY <2>1
  <2>3. dist(v) < N /\ dist(v) \in Nat
    BY <2>2, DistFacts, SizeAssumption DEF dist, Far
  <2> DEFINE C == Continued
             f == [t \in Vertex |-> Share(Walks, v, t)]
             g == [t \in C |-> Share(Walks, v, t)]
  <2>4. C \subseteq Vertex /\ \A t \in Vertex : t \in C <=> counted(t)
    <3>1. \A e \in GA.edges : src(e) \in Vertex
      BY <2>2, GraphFacts
    <3> QED BY <3>1 DEF Continued, counted, dist
  <2> HIDE DEF C
  <2>5. ASSUME NEW t \in Vertex \ C PROVE Share(Walks, v, t) = 0
    <3>1. dist(t) \in 0 .. N /\ Distance(Walks, v, t) \in 0 .. N
      BY <2>2, DistFacts, DistanceFacts
    <3>2. CASE dist(t) = N
      BY <3>2 DEF Share, dist, Far
    <3>3. CASE dist(t) > 0 /\ dist(t) < N
      <4>1. PICK e \in GA.edges : dst(e) = t
        BY <2>2, <3>3, DistanceSteps, StartAssumption DEF dist
      <4>2. PICK x \in GA.edges : src(x) = t
        BY <2>2, <4>1 DEF NoDeadEnds
      <4> QED BY <2>4, <2>5, <4>2 DEF counted
    <3>4. CASE dist(t) = 0
      <4>1. t = Start /\ (dist(v) = 0 <=> v = Start)
        BY <2>2, <3>4, DistanceZero, StartAssumption DEF dist
      <4>2. dist(v) + Distance(Walks, v, t) = dist(t) => dist(v) = 0
        BY <2>3, <3>1, <3>4
      <4> QED BY <4>1, <4>2 DEF Share, dist
    <3> QED BY <3>1, <3>2, <3>3, <3>4, SizeAssumption
  <2>6. \A t \in Vertex : f[t] = Share(Walks, v, t) /\ f[t] \in Int
    <3> SUFFICES ASSUME NEW t \in Vertex PROVE Share(Walks, v, t) \in Int
      OBVIOUS
    <3>1. Share(Walks, v, t) = IF t = v THEN 0 ELSE sigma(v) * (between(v, t) * share(t))
      BY <2>2, <2>3, ShareFacts
    <3>2. between(v, t) \in Nat /\ share(t) \in Nat /\ sigma(v) \in Nat
      BY <2>2, <2>3, BetweenFacts, DistFacts
    <3>3. \A a, b, c \in Nat : a * (b * c) \in Int
      OBVIOUS
    <3> QED BY <3>1, <3>2, <3>3
  <2>7. MapThenSumSet(LAMBDA t : Share(Walks, v, t), Vertex) = Total(f, Vertex)
    BY ShareSum
  <2>8. MapThenSumSet(LAMBDA t : Share(Walks, v, t), C) = Total(g, C)
    BY ShareSum
  <2>9. \A t \in C : g[t] = f[t]
    BY <2>4
  <2> HIDE DEF f, g
  <2>10. IsSummable(f, Vertex) /\ IsSummable(f, C)
    <3>1. IsFiniteSet(Vertex)
      BY SizeAssumption, FS_Interval DEF Vertex
    <3> QED BY <2>4, <2>6, <3>1, FS_Subset DEF IsSummable
  <2>11. Total(f, Vertex) = Total(f, C)
    BY <2>4, <2>5, <2>6, <2>10, TotalRestrict
  <2>12. Total(g, C) = Total(f, C)
    BY <2>9, <2>10, TotalSame
  <2> QED BY <2>7, <2>8, <2>11, <2>12 DEF C
<1> QED BY <1>1, ScoresAreRight, Invariance, PTL
=============================================================================
