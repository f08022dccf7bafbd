----------------------------- MODULE BFS_proofs -----------------------------
(***************************************************************************)
(* Proofs about BFS, for every number of vertices, every set of graphs,    *)
(* every partitioning, by source included, and every pair of thresholds.   *)
(***************************************************************************)
EXTENDS BFS, Lemmas

-----------------------------------------------------------------------------
\* The equations of the recursive definition of Ball, which have a solution.
LEMMA BallFacts ==
  ASSUME GA \in Graphs
  PROVE  /\ Ball \in [0 .. N -> SUBSET Vertex]
         /\ Ball[0] = {Start}
         /\ \A k \in 1 .. N : Ball[k] = Ball[k-1] \union Successors(GA.edges, Ball[k-1])
<1> DEFINE T == SUBSET Vertex
           g == [S \in T |-> S \union Successors(GA.edges, S)]
           Is(f) == f = [k \in 0 .. N |-> IF k = 0 THEN {Start} ELSE
                                          f[k-1] \union Successors(GA.edges, f[k-1])]
<1>1. g \in [T -> T] /\ {Start} \in T
  BY GraphFacts, StartAssumption DEF Successors
<1>2. PICK f \in [0 .. N -> T] : f[0] = {Start} /\ \A k \in 1 .. N : f[k] = g[f[k-1]]
  <2>1. N \in Nat
    BY SizeAssumption
  <2> HIDE DEF T, g
  <2>2. IteratesIn(T, N, {Start}, g)
    BY <1>1, <2>1, RecursionExists
  <2> QED BY <2>2 DEF IteratesIn, Iterates
<1>3. \A k \in 1 .. N : g[f[k-1]] = f[k-1] \union Successors(GA.edges, f[k-1])
  <2> SUFFICES ASSUME NEW k \in 1 .. N PROVE f[k-1] \in T
    OBVIOUS
  <2>1. k-1 \in 0 .. N
    BY SizeAssumption
  <2> HIDE DEF T
  <2> QED BY <2>1
<1>4. Is(f)
  <2>1. ASSUME NEW k \in 0 .. N
        PROVE  f[k] = IF k = 0 THEN {Start} ELSE f[k-1] \union Successors(GA.edges, f[k-1])
    <3>1. k # 0 => k \in 1 .. N
      OBVIOUS
    <3> HIDE DEF g, T
    <3> QED BY <3>1, <1>2, <1>3
  <2>2. f = [k \in 0 .. N |-> f[k]]
    OBVIOUS
  <2> HIDE DEF g, T
  <2> QED BY <2>1, <2>2
<1>5. Is(Ball)
  <2>1. Ball = CHOOSE h : Is(h)
    BY DEF Ball
  <2> HIDE DEF Is
  <2> QED BY <2>1, <1>4
<1>6. /\ Ball[0] = {Start}
      /\ \A k \in 1 .. N : Ball[k] = Ball[k-1] \union Successors(GA.edges, Ball[k-1])
  <2>1. ASSUME NEW k \in 0 .. N
        PROVE  Ball[k] = IF k = 0 THEN {Start} ELSE Ball[k-1] \union Successors(GA.edges, Ball[k-1])
    BY <1>5, Zenon
  <2>2. 0 \in 0 .. N /\ \A k \in 1 .. N : k \in 0 .. N /\ k # 0
    BY SizeAssumption
  <2> QED BY <2>1, <2>2
<1>7. \A k \in 0 .. N : Ball[k] \subseteq Vertex
  <2> DEFINE S == {k \in 0 .. N : Ball[k] \subseteq Vertex}
  <2>1. 0 \in S
    BY <1>6, StartAssumption, SizeAssumption
  <2>2. ASSUME NEW k \in 0 .. N-1, k \in S PROVE k + 1 \in S
    <3>1. Ball[k+1] = Ball[k] \union Successors(GA.edges, Ball[k])
      BY <1>6, SizeAssumption
    <3> QED BY <2>2, <3>1, GraphFacts, SizeAssumption DEF Successors
  <2>3. \A k \in 0 .. N : k \in S
    <3> HIDE DEF S
    <3> QED BY <2>1, <2>2, BoundedInduction, SizeAssumption
  <2> QED BY <2>3
<1> QED BY <1>5, <1>6, <1>7

\* Balls grow.
LEMMA BallGrows ==
  ASSUME GA \in Graphs, NEW j \in 0 .. N, NEW k \in 0 .. N, j <= k
  PROVE  Ball[j] \subseteq Ball[k]
<1> DEFINE S == {i \in Nat : j + i <= N => Ball[j] \subseteq Ball[j + i]}
<1>1. 0 \in S
  BY SizeAssumption
<1>2. ASSUME NEW i \in Nat, i \in S PROVE i + 1 \in S
  <2>1. SUFFICES ASSUME j + (i + 1) <= N PROVE Ball[j] \subseteq Ball[j + (i + 1)]
    OBVIOUS
  <2>2. Ball[j] \subseteq Ball[j + i]
    BY <1>2, <2>1, SizeAssumption
  <2>3. j + (i + 1) \in 1 .. N /\ (j + (i + 1)) - 1 = j + i
    BY <2>1, SizeAssumption
  <2>4. Ball[j + i] \subseteq Ball[j + (i + 1)]
    BY <2>3, BallFacts
  <2> QED BY <2>2, <2>4
<1>3. \A i \in Nat : i \in S
  <2> HIDE DEF S
  <2> QED BY <1>1, <1>2, SetInduction
<1>4. k - j \in Nat /\ j + (k - j) = k /\ k <= N
  BY SizeAssumption
<1> QED BY <1>3, <1>4

\* Once a ball has stopped growing it has everything that can be reached.
LEMMA BallStops ==
  ASSUME GA \in Graphs, NEW k \in 1 .. N, Ball[k] = Ball[k-1]
  PROVE  Ball[N] = Ball[k]
<1> DEFINE S == {i \in Nat : k + i <= N => Ball[k + i] = Ball[k]}
<1>1. 0 \in S
  BY SizeAssumption
<1>2. ASSUME NEW i \in Nat, i \in S PROVE i + 1 \in S
  <2>1. SUFFICES ASSUME k + (i + 1) <= N PROVE Ball[k + (i + 1)] = Ball[k]
    OBVIOUS
  <2>2. Ball[k + i] = Ball[k]
    BY <1>2, <2>1, SizeAssumption
  <2>3. k + (i + 1) \in 1 .. N /\ (k + (i + 1)) - 1 = k + i
    BY <2>1, SizeAssumption
  <2>4. Ball[k + (i + 1)] = Ball[k + i] \union Successors(GA.edges, Ball[k + i])
    BY <2>3, BallFacts
  <2>5. Ball[k] = Ball[k-1] \union Successors(GA.edges, Ball[k-1])
    BY BallFacts
  <2> QED BY <2>2, <2>4, <2>5
<1>3. \A i \in Nat : i \in S
  <2> HIDE DEF S
  <2> QED BY <1>1, <1>2, SetInduction
<1>4. N - k \in Nat /\ k + (N - k) = N /\ N <= N
  BY SizeAssumption
<1> QED BY <1>3, <1>4

\* The distance is the first ball that holds the vertex.
LEMMA DistanceIs ==
  ASSUME GA \in Graphs, NEW k \in 0 .. N, NEW v \in Ball[k],
         k > 0 => v \notin Ball[k-1]
  PROVE  Distance(v) = k
<1> DEFINE P(i) == v \in Ball[i] /\ \A j \in 0 .. i-1 : v \notin Ball[j]
<1>1. P(k)
  <2> SUFFICES ASSUME NEW j \in 0 .. k-1 PROVE v \notin Ball[j]
    OBVIOUS
  <2>1. j \in 0 .. N /\ k-1 \in 0 .. N /\ j <= k-1 /\ k > 0
    BY SizeAssumption
  <2>2. Ball[j] \subseteq Ball[k-1]
    BY <2>1, BallGrows
  <2> QED BY <2>1, <2>2
<1>2. ASSUME NEW i \in 0 .. N, P(i) PROVE i = k
  <2>1. ~(i \in 0 .. k-1) /\ ~(k \in 0 .. i-1)
    BY <1>1, <1>2
  <2> QED BY <2>1, SizeAssumption
<1>3. Distance(v) = CHOOSE i \in 0 .. N : P(i)
  BY DEF Distance
<1> HIDE DEF P
<1> QED BY <1>1, <1>2, <1>3

-----------------------------------------------------------------------------
\* Between two levels there is one step over the edges of the active vertices.
LEMMA NextLevel ==
  ASSUME GA \in Graphs, NEW level \in 0 .. N-1, AtLevel(level)
  PROVE  Ball[level+1] = Visited \union Successors(GA.edges, Active)
<1>1. level \in 0 .. N /\ level+1 \in 1 .. N /\ (level+1)-1 = level
  BY SizeAssumption
<1>2. Ball[level+1] = Ball[level] \union Successors(GA.edges, Ball[level])
  BY <1>1, BallFacts
<1>3. CASE level = 0
  BY <1>2, <1>3, BallFacts DEF AtLevel
<1>4. CASE level # 0
  <2>1. level \in 1 .. N /\ level-1 \in 0 .. N
    BY <1>4, SizeAssumption
  <2>2. Ball[level] = Ball[level-1] \union Successors(GA.edges, Ball[level-1])
    BY <2>1, BallFacts
  <2>3. Active = Ball[level] \ Ball[level-1]
    BY <1>4 DEF AtLevel
  <2>4. Successors(GA.edges, Ball[level]) =
          Successors(GA.edges, Ball[level-1]) \union Successors(GA.edges, Active)
    BY <2>2, <2>3 DEF Successors
  <2> QED BY <1>2, <2>2, <2>4 DEF AtLevel
<1> QED BY <1>3, <1>4

\* The visited vertices are at most N, so a level with active vertices has a
\* successor among the balls.
LEMMA LevelBound ==
  ASSUME NEW level \in 0 .. N, AtLevel(level), Active # {}
  PROVE  /\ level \in 0 .. N-1
         /\ IsFiniteSet(Visited) /\ Cardinality(Visited) \in Nat
<1>1. IsFiniteSet(Vertex) /\ Cardinality(Vertex) = N
  BY SizeAssumption, FS_Interval DEF Vertex
<1>2. IsFiniteSet(Visited) /\ Cardinality(Visited) <= N /\ Cardinality(Visited) \in Nat
  BY <1>1, FS_Subset, FS_CardinalityType DEF Visited
<1> QED BY <1>2, SizeAssumption DEF AtLevel

\* The functions of the graph keep their values while the graph does.
LEMMA SameGraph ==
  ASSUME GA' = GA
  PROVE  Ball' = Ball /\ \A v : Distance(v)' = Distance(v)
BY DEF Ball, Distance, Successors

-----------------------------------------------------------------------------
\* The search starts at level 0.
LEMMA InitInv == Init => IInv
<1> SUFFICES ASSUME Init PROVE IInv
  OBVIOUS
<1> USE DEF Init, EngineInit
<1> DEFINE copies == [None EXCEPT ![Start] = 1]
<1>1. copies \in [Vertex -> Nat]
  BY NoneFacts, StartAssumption
<1>2. Frontier = frontierOf("sparse", copies, GA.edges)
  BY DEF create
<1>3. Frontier \in FrontierType
  BY <1>1, <1>2, GraphFacts, FrontierOfFacts
<1>4. Frontier.rep = "sparse" /\ Frontier.copies = copies /\ FrontierInv
  BY <1>2 DEF frontierOf, FrontierInv
<1>5. Active = {Start}
  BY <1>4, StartAssumption DEF Active, None
<1>6. \A v \in Vertex : ~cond(v) <=> v = Start
  BY SizeAssumption, StartAssumption DEF cond, NoParent, Vertex
<1>7. TypeOK
  BY <1>3, NoneFacts, GraphsAssumption, StartAssumption DEF TypeOK, EngineTypeOK
<1>8. Visited = {Start}
  BY <1>6, StartAssumption DEF Visited, None
<1>9. AtLevel(0)
  <2>1. Ball[0] = {Start} /\ Cardinality({Start}) = 1
    BY BallFacts, FS_Singleton
  <2> QED BY <1>5, <1>8, <2>1 DEF AtLevel
<1>10. LevelInv
  BY <1>9, SizeAssumption DEF LevelInv
<1>11. MarkInv /\ ParentsAreShortest
  BY <1>6 DEF MarkInv, ParentsAreShortest, None
<1> QED BY <1>4, <1>7, <1>10, <1>11 DEF IInv, NoAbort, Quiet, HandInv, RoundInv, DoneInv

\* Leaving the variables of a round and the parents alone keeps the levels.
LEMMA SameLevel ==
  ASSUME LevelInv, GA' = GA, Visited' = Visited, Active' = Active
  PROVE  LevelInv'
<1>1. PICK level \in 0 .. N : AtLevel(level)
  BY DEF LevelInv
<1>2. AtLevel(level)'
  BY <1>1, SameGraph DEF AtLevel
<1> QED BY <1>2 DEF LevelInv

\* The tree stays right while no parent changes.
LEMMA SameTree ==
  ASSUME ParentsAreShortest, GA' = GA, Parents' = Parents
  PROVE  ParentsAreShortest'
BY SameGraph DEF ParentsAreShortest, cond

-----------------------------------------------------------------------------
\* The loop head: a frontier without out-edges is the last level, any other
\* frontier hands the edges of its vertices to the round.
LEMMA RoundStep ==
  ASSUME IInv, Round
  PROVE  IInv'
<1> USE DEF IInv
<1>1. /\ pc = "loop" /\ ~isEmpty
      /\ todo = {} /\ strand = {} /\ v1 = None
      /\ UNCHANGED <<Parents, strand>>
  BY DEF Round, Quiet
<1>2. EngineTypeOK
  BY DEF TypeOK
<1>3. Active # {}
  BY <1>1, <1>2, NotEmptyIsActive
<1>4. CASE NoOutEdges
  <2>1. UNCHANGED <<pc, GA, mode, todo, v1>>
    BY <1>4 DEF NoOutEdges
  <2>2. /\ EngineTypeOK' /\ FrontierInv' /\ Active' = {}
        /\ \A e \in GA.edges : src(e) \notin Active
    BY <1>2, <1>4, NoOutEdgesFacts
  <2>3. PICK level \in 0 .. N : AtLevel(level)
    BY DEF LevelInv
  <2>4. level \in 0 .. N-1 /\ level + 1 \in 0 .. N /\ level + 1 # 0 /\ (level + 1) - 1 = level
    BY <2>3, <1>3, LevelBound, SizeAssumption
  <2>5. Ball[level+1] = Ball[level] /\ Visited = Ball[level]
    BY <2>2, <2>3, <2>4, NextLevel DEF AtLevel, Successors
  <2>6. Visited' = Visited
    BY <2>1, <1>1 DEF Visited, cond
  <2>7. AtLevel(level+1)'
    BY <2>1, <2>2, <2>4, <2>5, <2>6, SameGraph DEF AtLevel
  <2>8. LevelInv'
    BY <2>4, <2>7 DEF LevelInv
  <2>9. TypeOK' /\ ParentsAreShortest'
    BY <2>1, <2>2, <1>1, SameTree DEF TypeOK
  <2> QED BY <2>1, <2>2, <2>8, <2>9, <1>1 DEF NoAbort, Quiet, MarkInv, HandInv, RoundInv,
             DoneInv, cond
<1>5. CASE Traverse
  <2>1. pc' = "edges" /\ v1' = None /\ UNCHANGED GA
    BY <1>5 DEF Traverse, TraverseOver
  <2>2. /\ EngineTypeOK' /\ FrontierInv' /\ Active' = Active
        /\ \A e \in GA.edges : src(e) \in Active => \E job \in todo' : job[2] = e
        /\ \A job \in todo' : src(job[2]) \in Active
    BY <1>2, <1>5, TraverseFacts, JobsAreActive
  <2>3. Visited' = Visited
    BY <2>1, <1>1 DEF Visited, cond
  <2>4. LevelInv' /\ ParentsAreShortest'
    BY <2>1, <2>2, <2>3, <1>1, SameLevel, SameTree
  <2>5. TypeOK'
    BY <2>1, <2>2, <1>1 DEF TypeOK
  <2>6. RoundInv'
    BY <2>1, <2>2, <1>3 DEF RoundInv, InHand, None
  <2>7. MarkInv' /\ HandInv'
    BY <2>1, <2>2, <1>1 DEF MarkInv, HandInv, None
  <2> QED BY <2>1, <2>2, <2>4, <2>5, <2>6, <2>7 DEF NoAbort, Quiet, DoneInv
<1> QED BY <1>1, <1>2, <1>4, <1>5, EnterDoesNotAbort DEF Round, EnterEdgeMap

\* The end of a round: every edge of an active vertex has been settled, so the
\* marked vertices are the next level.
LEMMA ReturnLevel ==
  ASSUME IInv, Return
  PROVE  /\ Active # {}
         /\ Active' = Successors(GA.edges, Active) \ Visited
         /\ Visited' = Visited \union Active'
         /\ LevelInv'
<1> USE DEF IInv
<1>1. /\ pc = "edges" /\ todo = {} /\ strand = {} /\ v1' = None
      /\ UNCHANGED <<GA, Parents>>
  BY DEF Return, ReturnFromEdgeMap
<1>2. Active' = {v \in Vertex : v1[v] > 0} /\ v1 \in [Vertex -> Nat]
  BY ReturnFacts DEF Return, TypeOK, EngineTypeOK
<1>3. Visited' = {v \in Vertex : ~cond(v)}
  BY <1>1 DEF Visited, cond, None
<1>4. \A v \in Vertex : v1[v] > 0 => ~cond(v) /\ v \in Successors(GA.edges, Active)
  BY <1>1 DEF RoundInv, MarkInv
<1>5. \A v \in Successors(GA.edges, Active) : v \in Vertex /\ ~cond(v)
  BY <1>1, GraphFacts DEF RoundInv, InHand, Successors
<1>6. \A v \in Vertex : v1[v] \in Nat
  BY <1>2
<1>7. Visited' = Visited \union Active'
  BY <1>2, <1>3, <1>4, <1>6 DEF Visited
<1>8. Active' = Successors(GA.edges, Active) \ Visited
  BY <1>2, <1>4, <1>5, <1>6 DEF Visited
<1>9. Active # {}
  BY <1>1 DEF RoundInv
<1>10. LevelInv'
  <2>1. PICK level \in 0 .. N : AtLevel(level)
    BY DEF LevelInv
  <2>2. /\ level \in 0 .. N-1 /\ level < Cardinality(Visited)
        /\ IsFiniteSet(Visited) /\ Cardinality(Visited) \in Nat
    BY <2>1, <1>9, LevelBound DEF AtLevel
  <2>3. level + 1 \in 0 .. N /\ level + 1 # 0 /\ (level + 1) - 1 = level
    BY <2>2, SizeAssumption
  <2>4. Visited' = Ball[level+1]
    BY <1>7, <1>8, <2>1, <2>2, NextLevel
  <2>5. Active' = Ball[level+1] \ Ball[level]
    BY <1>7, <1>8, <2>1, <2>4 DEF AtLevel
  <2>6. Active' # {} => level + 1 < Cardinality(Visited')
    <3>1. SUFFICES ASSUME Active' # {} PROVE level + 1 < Cardinality(Visited')
      OBVIOUS
    <3>2. IsFiniteSet(Visited')
      <4>1. IsFiniteSet(Vertex)
        BY SizeAssumption, FS_Interval DEF Vertex
      <4> QED BY <4>1, <1>3, FS_Subset
    <3>3. Visited \in SUBSET Visited' /\ Visited # Visited'
      BY <3>1, <1>7, <1>8
    <3>4. /\ Cardinality(Visited) <= Cardinality(Visited')
          /\ Cardinality(Visited) # Cardinality(Visited')
          /\ Cardinality(Visited') \in Nat
      BY <3>2, <3>3, FS_Subset, FS_CardinalityType
    <3> QED BY <2>2, <3>4
  <2>7. AtLevel(level+1)'
    BY <1>1, <2>3, <2>4, <2>5, <2>6, SameGraph DEF AtLevel
  <2> QED BY <2>3, <2>7 DEF LevelInv
<1> QED BY <1>7, <1>8, <1>9, <1>10

\* The end of a round keeps the invariant.
LEMMA ReturnStep ==
  ASSUME IInv, Return
  PROVE  IInv'
<1> USE DEF IInv
<1>1. /\ pc = "edges" /\ todo = {} /\ strand = {}
      /\ pc' = "loop" /\ v1' = None
      /\ UNCHANGED <<GA, todo, Parents, strand>>
  BY DEF Return, ReturnFromEdgeMap
<1>2. EngineTypeOK' /\ FrontierInv'
  BY ReturnFacts DEF Return, TypeOK
<1>3. TypeOK' /\ LevelInv' /\ ParentsAreShortest'
  BY <1>1, <1>2, ReturnLevel, SameTree DEF TypeOK
<1> QED BY <1>1, <1>2, <1>3 DEF NoAbort, Quiet, MarkInv, HandInv, RoundInv, DoneInv, None

\* The end of the computation.
LEMMA DoneStep ==
  ASSUME IInv, Done
  PROVE  IInv' /\ Active = {} /\ Active' = {} /\ Visited' = Visited
<1> USE DEF IInv
<1>1. /\ pc = "loop" /\ pc' = "done"
      /\ UNCHANGED <<GA, Frontier, mode, todo, v1, Parents, strand>>
  BY DEF Done, Finish
<1>2. Active = {}
  BY EmptyIsInactive DEF Done, Finish, TypeOK
<1>3. Active' = Active /\ Visited' = Visited
  BY <1>1 DEF Active, Visited, cond
<1>4. LevelInv' /\ ParentsAreShortest'
  BY <1>1, <1>3, SameLevel, SameTree
<1>5. MarkInv' /\ HandInv'
  BY <1>1, <1>3 DEF MarkInv, HandInv, cond
<1> QED BY <1>1, <1>2, <1>3, <1>4, <1>5 DEF TypeOK, EngineTypeOK, NoAbort, FrontierInv, Quiet,
           RoundInv, DoneInv

-----------------------------------------------------------------------------
\* Claiming the destination of an edge out of an active vertex, where no
\* earlier round has been, gives it a parent one level nearer.
LEMMA ClaimFacts ==
  ASSUME IInv, pc = "edges", NEW e \in GA.edges, src(e) \in Active,
         cond(dst(e)) \/ v1[dst(e)] > 0,
         mode = "sparse" => cond(dst(e)),
         Claim(src(e), dst(e)), UNCHANGED <<GA, Frontier>>
  PROVE  /\ Parents' \in [Vertex -> Vertex \union {NoParent}]
         /\ v1' \in [Vertex -> Nat]
         /\ MarkInv' /\ LevelInv' /\ ParentsAreShortest' /\ Active' = Active
         /\ \A v \in Vertex : v1'[v] > 0 => v \in Successors(GA.edges, Active)
         /\ \A v \in Vertex : ~cond(v) => ~cond(v)'
         /\ \A v \in Vertex : v1[v] > 0 => v1'[v] > 0
         /\ ~cond(dst(e))' /\ v1'[dst(e)] > 0
         /\ \A v \in Vertex \ {dst(e)} : cond(v)' = cond(v)
<1> USE DEF IInv
<1> DEFINE s == src(e)
           d == dst(e)
<1>1. /\ Parents' = [Parents EXCEPT ![d] = s] /\ v1' = Marked(d)
      /\ s \in Vertex /\ d \in Vertex
  BY GraphFacts DEF Claim
<1>2. v1 \in [Vertex -> Nat] /\ Parents \in [Vertex -> Vertex \union {NoParent}]
  BY DEF TypeOK, EngineTypeOK
<1>3. /\ Parents' \in [Vertex -> Vertex \union {NoParent}]
      /\ Parents'[d] = s /\ \A v \in Vertex \ {d} : Parents'[v] = Parents[v]
  BY <1>1, <1>2
<1>4. ~cond(d)' /\ \A v \in Vertex \ {d} : cond(v)' = cond(v)
  BY <1>1, <1>3, SizeAssumption DEF cond, NoParent, Vertex
<1>5. v1' \in [Vertex -> Nat] /\ v1'[d] > 0 /\ \A v \in Vertex \ {d} : v1'[v] = v1[v]
  BY <1>1, <1>2, MarkedFacts
<1>6. v1'[d] <= 1
  <2>1. mode = "sparse" => v1[d] = 0
    <3>1. v1[d] \in Nat
      BY <1>1, <1>2
    <3> QED BY <3>1, <1>1 DEF MarkInv
  <2> QED BY <2>1, <1>1, <1>2 DEF Marked
<1>7. MarkInv'
  BY <1>4, <1>5, <1>6 DEF MarkInv
<1>8. d \in Successors(GA.edges, Active)
  BY DEF Successors
<1>9. \A v \in Vertex : v1'[v] > 0 => v \in Successors(GA.edges, Active)
  BY <1>5, <1>8 DEF RoundInv
<1>10. d \notin Visited /\ Visited' = Visited
  <2>1. d \notin Visited
    BY <1>1, <1>2 DEF Visited
  <2>2. \A v \in Vertex : v \in Visited' <=> v \in Visited
    BY <1>4, <1>5, <2>1 DEF Visited
  <2> QED BY <2>1, <2>2 DEF Visited
<1>11. Active' = Active
  BY DEF Active
<1>12. LevelInv'
  BY <1>10, <1>11, SameLevel
<1>13. ParentsAreShortest'
  <2>1. PICK level \in 0 .. N : AtLevel(level)
    BY DEF LevelInv
  <2>2. level \in 0 .. N-1 /\ level + 1 \in 0 .. N /\ (level + 1) - 1 = level
        /\ N \in 0 .. N /\ level <= N /\ level + 1 <= N
    BY <2>1, LevelBound, SizeAssumption
  <2>3. s \in Ball[level] /\ (level > 0 => s \notin Ball[level-1])
    BY <2>1, BallFacts DEF AtLevel
  <2>4. d \in Ball[level+1] /\ d \notin Ball[level]
    BY <2>1, <2>2, <1>8, <1>10, NextLevel DEF AtLevel
  <2>5. s \in Ball[N] /\ d \in Ball[N]
    BY <2>2, <2>3, <2>4, BallGrows
  <2>6. Distance(s) = level /\ Distance(d) = level + 1
    BY <2>2, <2>3, <2>4, DistanceIs
  <2>7. ASSUME NEW v \in Vertex \ {Start}, ~cond(v)'
        PROVE  /\ v \in Ball[N] /\ Parents'[v] \in Ball[N]
               /\ \E f \in GA.edges : src(f) = Parents'[v] /\ dst(f) = v
               /\ Distance(v) = Distance(Parents'[v]) + 1
    <3>1. CASE v = d
      BY <3>1, <2>5, <2>6, <1>3
    <3>2. CASE v # d
      <4>1. ~cond(v) /\ Parents'[v] = Parents[v]
        BY <2>7, <3>2, <1>3, <1>4
      <4> QED BY <4>1 DEF ParentsAreShortest
    <3> QED BY <3>1, <3>2
  <2>8. Ball' = Ball /\ \A v : Distance(v)' = Distance(v)
    BY SameGraph
  <2>9. \A v \in Vertex \ {Start} : Distance(Parents[v])' = Distance(Parents'[v])
    BY SameGraph DEF Distance
  <2> QED BY <2>7, <2>8, <2>9 DEF ParentsAreShortest
<1> QED BY <1>3, <1>4, <1>5, <1>7, <1>9, <1>11, <1>12, <1>13

\* The types of a strand and of a job.
LEMMA Ranges ==
  ASSUME IInv
  PROVE  /\ \A job \in todo : job[1] \in Nat /\ job[2] \in GA.edges
         /\ \A st \in strand : st.e \in GA.edges /\ st.at \in {"test", "store"}
                               /\ st = [k |-> st.k, e |-> st.e, at |-> st.at]
         /\ todo # {} \/ strand # {} => pc = "edges"
BY DEF IInv, TypeOK, EngineTypeOK, Quiet

\* A step that claims nothing keeps the invariant if it loses no edge whose
\* destination is without a parent.
LEMMA HandStep ==
  ASSUME IInv, pc = "edges", UNCHANGED <<pc, GA, Frontier, mode, v1, Parents>>,
         TypeOK', HandInv',
         \A x \in GA.edges : InHand(x) => InHand(x)' \/ ~cond(dst(x))
  PROVE  IInv'
<1> USE DEF IInv
<1>1. Active' = Active /\ Visited' = Visited /\ \A v : cond(v)' = cond(v)
  BY DEF Active, Visited, cond
<1>2. LevelInv' /\ ParentsAreShortest'
  BY <1>1, SameLevel, SameTree
<1>3. MarkInv' /\ FrontierInv' /\ Quiet' /\ DoneInv' /\ NoAbort'
  BY <1>1 DEF MarkInv, FrontierInv, Quiet, DoneInv, NoAbort
<1>4. RoundInv'
  BY <1>1 DEF RoundInv
<1> QED BY <1>2, <1>3, <1>4

\* A step that claims the destination of an edge keeps it if the only edges it
\* loses are edges to this destination.
LEMMA ClaimStep ==
  ASSUME IInv, pc = "edges", NEW e \in GA.edges, src(e) \in Active,
         cond(dst(e)) \/ v1[dst(e)] > 0,
         mode = "sparse" => cond(dst(e)),
         Claim(src(e), dst(e)), UNCHANGED <<pc, GA, Frontier, mode>>,
         todo' \subseteq todo, strand' \subseteq strand,
         \A x \in GA.edges : InHand(x) => InHand(x)' \/ dst(x) = dst(e)
  PROVE  IInv'
<1> USE DEF IInv
<1>1. /\ Parents' \in [Vertex -> Vertex \union {NoParent}]
      /\ v1' \in [Vertex -> Nat]
      /\ MarkInv' /\ LevelInv' /\ ParentsAreShortest' /\ Active' = Active
      /\ \A v \in Vertex : v1'[v] > 0 => v \in Successors(GA.edges, Active)
      /\ \A v \in Vertex : ~cond(v) => ~cond(v)'
      /\ \A v \in Vertex : v1[v] > 0 => v1'[v] > 0
      /\ ~cond(dst(e))' /\ v1'[dst(e)] > 0
      /\ \A v \in Vertex \ {dst(e)} : cond(v)' = cond(v)
  BY ClaimFacts
<1>2. TypeOK'
  BY <1>1 DEF TypeOK, EngineTypeOK
<1>3. HandInv'
  <2>1. ASSUME NEW st \in strand' PROVE dst(st.e) \in Vertex /\ st \in strand
    BY GraphFacts, Ranges
  <2> QED BY <1>1, <2>1 DEF HandInv
<1>4. RoundInv'
  <2>1. ASSUME NEW x \in GA.edges, src(x) \in Active
        PROVE  ~cond(dst(x))' \/ InHand(x)'
    <3>1. dst(x) \in Vertex
      BY GraphFacts
    <3> QED BY <2>1, <3>1, <1>1 DEF RoundInv
  <2> QED BY <1>1, <2>1 DEF RoundInv
<1>5. FrontierInv' /\ Quiet' /\ DoneInv' /\ NoAbort'
  BY DEF FrontierInv, Quiet, DoneInv, NoAbort
<1> QED BY <1>1, <1>2, <1>3, <1>4, <1>5

\* Taking a job: its edge is passed on to a strand or has nothing to do.
LEMMA CheckStep ==
  ASSUME IInv, NEW job \in todo, Check(job)
  PROVE  IInv'
<1> USE DEF IInv
<1> DEFINE e == job[2]
           new == [k |-> job[1], e |-> e, at |-> "test"]
<1>1. /\ pc = "edges" /\ todo' = todo \ {job}
      /\ strand' = strand \union IF mode = "csc" \/ cond(dst(e)) THEN {new} ELSE {}
      /\ UNCHANGED <<pc, GA, Frontier, mode, v1, Parents>>
  BY DEF Check, Take
<1>2. job[1] \in Nat /\ e \in GA.edges /\ src(e) \in Active
  BY Ranges DEF HandInv
<1>3. new \in [k : Nat, e : GA.edges, at : {"test", "store"}] /\ new.e = e /\ new.at # "store"
  BY <1>2
<1>4. TypeOK'
  BY <1>1, <1>3 DEF TypeOK, EngineTypeOK
<1>5. HandInv'
  <2>1. \A st \in strand' : st \in strand \/ st = new
    BY <1>1
  <2>2. Active' = Active /\ \A v : cond(v)' = cond(v)
    BY <1>1 DEF Active, cond
  <2> HIDE DEF new
  <2> QED BY <1>1, <1>2, <1>3, <2>1, <2>2 DEF HandInv
<1>6. ASSUME NEW x \in GA.edges, InHand(x) PROVE InHand(x)' \/ ~cond(dst(x))
  <2>1. CASE x = e /\ cond(dst(e))
    <3>1. new \in strand' /\ new.e = x
      BY <1>1, <2>1
    <3> QED BY <3>1 DEF InHand
  <2>2. CASE x # e
    BY <1>1, <1>6, <2>2 DEF InHand
  <2> QED BY <2>1, <2>2
<1> QED BY <1>1, <1>4, <1>5, <1>6, HandStep

\* update's test: a destination with a parent is left alone.
LEMMA TestStep ==
  ASSUME IInv, NEW st \in strand, Test(st)
  PROVE  IInv'
<1> USE DEF IInv
<1> DEFINE new == [st EXCEPT !.at = "store"]
<1>1. /\ strand' = (strand \ {st}) \union IF cond(dst(st.e)) THEN {new} ELSE {}
      /\ UNCHANGED <<pc, GA, Frontier, mode, todo, v1, Parents>>
  BY DEF Test
<1>2. st.e \in GA.edges /\ src(st.e) \in Active /\ pc = "edges"
  BY Ranges DEF HandInv
<1>3. new \in [k : Nat, e : GA.edges, at : {"test", "store"}] /\ new.e = st.e
  BY DEF TypeOK
<1>4. TypeOK'
  BY <1>1, <1>3 DEF TypeOK, EngineTypeOK
<1>5. HandInv'
  <2>1. \A x \in strand' : x \in strand \/ (x = new /\ cond(dst(st.e)))
    BY <1>1
  <2>2. Active' = Active /\ \A v : cond(v)' = cond(v)
    BY <1>1 DEF Active, cond
  <2> HIDE DEF new
  <2> QED BY <1>1, <1>2, <1>3, <2>1, <2>2 DEF HandInv
<1>6. ASSUME NEW x \in GA.edges, InHand(x) PROVE InHand(x)' \/ ~cond(dst(x))
  <2>1. CASE x = st.e /\ cond(dst(x))
    <3>1. new \in strand' /\ new.e = x
      BY <1>1, <1>3, <2>1
    <3> QED BY <3>1 DEF InHand
  <2>2. CASE x # st.e
    BY <1>1, <1>6, <2>2 DEF InHand
  <2> QED BY <2>1, <2>2
<1> QED BY <1>1, <1>2, <1>4, <1>5, <1>6, HandStep

\* The CAS claims a vertex without a parent and fails on any other.
LEMMA CompareAndSwapStep ==
  ASSUME IInv, NEW st \in strand, CompareAndSwap(st)
  PROVE  IInv'
<1> USE DEF IInv
<1>1. /\ strand' = strand \ {st}
      /\ UNCHANGED <<pc, GA, Frontier, mode, todo>>
  BY DEF CompareAndSwap
<1>2. st.e \in GA.edges /\ src(st.e) \in Active /\ pc = "edges"
  BY Ranges DEF HandInv
<1>3. \A x \in GA.edges : InHand(x) => InHand(x)' \/ x = st.e
  BY <1>1 DEF InHand
<1>4. CASE cond(dst(st.e))
  <2>1. Claim(src(st.e), dst(st.e))
    BY <1>4 DEF CompareAndSwap
  <2> QED BY <1>1, <1>2, <1>3, <1>4, <2>1, ClaimStep
<1>5. CASE ~cond(dst(st.e))
  <2>1. UNCHANGED <<v1, Parents>>
    BY <1>5 DEF CompareAndSwap
  <2>2. TypeOK'
    BY <1>1, <2>1 DEF TypeOK, EngineTypeOK
  <2>3. HandInv'
    BY <1>1, <2>1 DEF HandInv, Active, cond
  <2> QED BY <1>1, <1>2, <1>3, <1>5, <2>1, <2>2, <2>3, HandStep
<1> QED BY <1>4, <1>5

\* A plain store may overwrite the parent another strand of this round has
\* stored since the test; both parents are on the same level.
LEMMA StoreStep ==
  ASSUME IInv, NEW st \in strand, Store(st)
  PROVE  IInv'
<1> USE DEF IInv
<1>1. /\ Claim(src(st.e), dst(st.e)) /\ strand' = strand \ {st} /\ mode # "sparse"
      /\ UNCHANGED <<pc, GA, Frontier, mode, todo>>
  BY DEF Store, Atomic
<1>2. /\ st.e \in GA.edges /\ src(st.e) \in Active /\ pc = "edges"
      /\ cond(dst(st.e)) \/ v1[dst(st.e)] > 0
  BY Ranges DEF HandInv, Store
<1>3. \A x \in GA.edges : InHand(x) => InHand(x)' \/ x = st.e
  BY <1>1 DEF InHand
<1> QED BY <1>1, <1>2, <1>3, ClaimStep

\* A destination that takes a parent drops its other in-edges.
LEMMA PullStep ==
  ASSUME IInv, NEW job \in todo, Pull(job)
  PROVE  IInv'
<1> USE DEF IInv
<1> DEFINE e == job[2]
<1>1. /\ pc = "edges" /\ mode # "sparse" /\ cond(dst(e)) /\ Claim(src(e), dst(e))
      /\ todo' = todo \ JobsInto(dst(e))
      /\ UNCHANGED <<pc, GA, Frontier, mode, strand>>
  BY DEF Pull, ByDestination
<1>2. e \in GA.edges /\ src(e) \in Active
  BY Ranges DEF HandInv
<1>3. \A x \in GA.edges : InHand(x) => InHand(x)' \/ dst(x) = dst(e)
  BY <1>1 DEF InHand, JobsInto
<1> QED BY <1>1, <1>2, <1>3, ClaimStep

\* A destination with a parent drops its in-edges.
LEMMA SkipVisitedStep ==
  ASSUME IInv, NEW d \in Vertex, SkipVisited(d)
  PROVE  IInv'
<1> USE DEF IInv
<1>1. /\ pc = "edges" /\ ~cond(d)
      /\ todo' = todo \ JobsInto(d)
      /\ UNCHANGED <<pc, GA, Frontier, mode, v1, Parents, strand>>
  BY DEF SkipVisited
<1>2. TypeOK'
  BY <1>1 DEF TypeOK, EngineTypeOK
<1>3. HandInv'
  BY <1>1 DEF HandInv, Active, cond
<1>4. \A x \in GA.edges : InHand(x) => InHand(x)' \/ ~cond(dst(x))
  BY <1>1 DEF InHand, JobsInto
<1> QED BY <1>1, <1>2, <1>3, <1>4, HandStep

-----------------------------------------------------------------------------
\* Every step keeps the invariant.
LEMMA NextStep ==
  ASSUME IInv, [Next]_vars
  PROVE  IInv'
<1>1. ASSUME UNCHANGED vars PROVE IInv'
  <2>1. Ball' = Ball /\ \A v : Distance(v)' = Distance(v)
    BY <1>1, SameGraph DEF vars
  <2>2. LevelInv' /\ ParentsAreShortest'
    <3>1. Visited' = Visited /\ Active' = Active /\ Parents' = Parents /\ GA' = GA
      BY <1>1 DEF vars, Visited, Active, cond
    <3> QED BY <3>1, SameLevel, SameTree DEF IInv
  <2> QED BY <1>1, <2>2 DEF IInv, vars, TypeOK, EngineTypeOK, NoAbort, FrontierInv, Quiet,
             MarkInv, HandInv, RoundInv, InHand, DoneInv, Active, cond
<1>2. CASE Next
  <2>1. CASE Round
    BY <2>1, RoundStep
  <2>2. ASSUME NEW job \in todo, Check(job) \/ Pull(job) PROVE IInv'
    BY <2>2, CheckStep, PullStep
  <2>3. ASSUME NEW st \in strand, CompareAndSwap(st) \/ Test(st) \/ Store(st) PROVE IInv'
    BY <2>3, CompareAndSwapStep, TestStep, StoreStep
  <2>4. ASSUME NEW d \in Vertex, SkipVisited(d) PROVE IInv'
    BY <2>4, SkipVisitedStep
  <2>5. CASE Return
    BY <2>5, ReturnStep
  <2>6. CASE Done
    BY <2>6, DoneStep
  <2>7. CASE Stopped
    BY <2>7, <1>1 DEF Stopped
  <2> QED BY <1>2, <2>1, <2>2, <2>3, <2>4, <2>5, <2>6, <2>7 DEF Next
<1> QED BY <1>1, <1>2

\* The inductive invariant.
THEOREM Invariance == Spec => []IInv
<1>1. IInv /\ [Next]_vars => IInv'
  BY NextStep
<1> QED BY <1>1, InitInv, PTL DEF Spec

\* Every vertex enters an output frontier once, in the sparse rounds too.
THEOREM OutputHasNoDuplicates == Spec => []NoDuplicates
<1>1. IInv => NoDuplicates
  BY DEF IInv, MarkInv, NoDuplicates
<1> QED BY <1>1, Invariance, PTL

\* edgeMap never aborts.
THEOREM SearchNeverAborts == Spec => []NoAbort
<1>1. IInv => NoAbort
  BY DEF IInv
<1> QED BY <1>1, Invariance, PTL

\* The parents form a shortest-path tree, which in the end has all vertices
\* that Start reaches: a level without active vertices is a ball that has
\* stopped growing.
THEOREM ParentsAreShortestPaths == Spec => []ShortestPathTree
<1>1. IInv => ShortestPathTree
  <2> SUFFICES ASSUME IInv PROVE ShortestPathTree
    OBVIOUS
  <2> USE DEF IInv
  <2>1. AllReached
    <3>1. SUFFICES ASSUME pc = "done" PROVE {v \in Vertex : ~cond(v)} = Ball[N]
      BY DEF AllReached
    <3>2. Active = {} /\ Visited = {v \in Vertex : ~cond(v)}
      BY <3>1 DEF DoneInv, Quiet, Visited, None
    <3>3. PICK level \in 0 .. N : AtLevel(level)
      BY DEF LevelInv
    <3>4. level # 0 /\ Ball[level] = Visited /\ Ball[level] \ Ball[level-1] = {}
      BY <3>2, <3>3 DEF AtLevel
    <3>5. level \in 1 .. N /\ level-1 \in 0 .. N /\ level-1 <= level
      BY <3>4, SizeAssumption
    <3>6. Ball[level] = Ball[level-1]
      BY <3>4, <3>5, BallGrows
    <3> QED BY <3>2, <3>4, <3>5, <3>6, BallStops
  <2> QED BY <2>1 DEF ShortestPathTree
<1> QED BY <1>1, Invariance, PTL

\* A round that ends, with or without a traversal, is one step of LevelBFS;
\* everything inside it, races on Parents included, is a stutter.
THEOREM ImplementsLevelBFS == Spec => RefinesLevelBFS
<1>1. Init => Level!Init
  <2> SUFFICES ASSUME Init PROVE Level!Init
    OBVIOUS
  <2>1. IInv /\ GA \in Graphs /\ pc = "loop"
    BY InitInv DEF Init, EngineInit
  <2>2. \A v \in Vertex : v1[v] = 0 /\ (~cond(v) <=> v = Start)
    BY SizeAssumption, StartAssumption DEF Init, EngineInit, None, cond, NoParent, Vertex
  <2>3. Visited = {Start}
    BY <2>2, StartAssumption DEF Visited
  <2>4. Active = {Start}
    BY StartAssumption, NoneFacts DEF Init, create, frontierOf, Active, None
  <2> QED BY <2>1, <2>3, <2>4 DEF Level!Init
<1>2. IInv /\ [Next]_vars => [Level!Next]_Level!vars
  <2> SUFFICES ASSUME IInv, [Next]_vars PROVE [Level!Next]_Level!vars
    OBVIOUS
  <2> USE DEF IInv
  <2>1. ASSUME UNCHANGED <<GA, Visited, Active>>, (pc = "done")' = (pc = "done")
        PROVE  [Level!Next]_Level!vars
    BY <2>1 DEF Level!vars
  <2>2. ASSUME pc = "edges", UNCHANGED <<pc, GA, Frontier, v1, Parents>>
        PROVE  [Level!Next]_Level!vars
    BY <2>1, <2>2 DEF Visited, Active, cond
  <2>3. ASSUME pc = "edges", NEW e \in GA.edges,
               cond(dst(e)) \/ v1[dst(e)] > 0,
               Claim(src(e), dst(e)), UNCHANGED <<pc, GA, Frontier>>
        PROVE  [Level!Next]_Level!vars
    <3>1. v1 \in [Vertex -> Nat] /\ Parents \in [Vertex -> Vertex \union {NoParent}]
          /\ src(e) \in Vertex /\ dst(e) \in Vertex
      BY GraphFacts DEF TypeOK, EngineTypeOK
    <3>2. v1'[dst(e)] > 0 /\ \A v \in Vertex \ {dst(e)} : v1'[v] = v1[v]
      BY <2>3, <3>1, MarkedFacts DEF Claim
    <3>3. \A v \in Vertex \ {dst(e)} : cond(v)' = cond(v)
      BY <2>3, <3>1 DEF Claim, cond
    <3>4. dst(e) \notin Visited /\ dst(e) \notin Visited'
      BY <2>3, <3>1, <3>2 DEF Visited
    <3>5. \A v \in Vertex : v \in Visited' <=> v \in Visited
      BY <3>2, <3>3, <3>4 DEF Visited
    <3>6. Visited' = Visited
      BY <3>5 DEF Visited
    <3>7. Active' = Active
      BY <2>3 DEF Active
    <3> QED BY <2>1, <2>3, <3>6, <3>7
  <2>4. CASE Round
    <3>1. /\ pc = "loop" /\ ~isEmpty /\ v1 = None /\ UNCHANGED Parents
          /\ EngineTypeOK /\ Active # {}
      BY <2>4, NotEmptyIsActive DEF Round, Quiet, TypeOK
    <3>2. CASE NoOutEdges
      <4>1. Active' = {} /\ Successors(GA.edges, Active) = {}
        BY <3>1, <3>2, NoOutEdgesFacts DEF Successors
      <4>2. UNCHANGED <<pc, GA, Visited>>
        BY <3>1, <3>2 DEF NoOutEdges, Visited, cond
      <4>3. Level!Advance
        BY <3>1, <4>1, <4>2 DEF Level!Advance, Level!Successors, Level!src, Level!dst,
              Successors, src, dst
      <4> QED BY <4>3 DEF Level!Next
    <3>3. CASE Traverse
      <4>1. UNCHANGED <<GA, v1, Frontier>> /\ pc' = "edges"
        BY <3>1, <3>3 DEF Traverse, TraverseOver
      <4> QED BY <2>1, <3>1, <4>1 DEF Visited, Active, cond
    <3> QED BY <3>1, <3>2, <3>3, <2>4, EnterDoesNotAbort DEF Round, EnterEdgeMap
  <2>5. CASE Return
    <3>1. /\ Active # {} /\ Active' = Successors(GA.edges, Active) \ Visited
          /\ Visited' = Visited \union Active'
      BY <2>5, ReturnLevel
    <3>2. GA' = GA /\ pc = "edges" /\ pc' = "loop"
      BY <2>5 DEF Return, ReturnFromEdgeMap
    <3>3. Level!Advance
      BY <3>1, <3>2 DEF Level!Advance, Level!Successors, Level!src, Level!dst,
            Successors, src, dst
    <3> QED BY <3>3 DEF Level!Next
  <2>6. CASE Done
    <3>1. Active = {} /\ Active' = {} /\ Visited' = Visited
      BY <2>6, DoneStep
    <3>2. GA' = GA /\ pc = "loop" /\ pc' = "done"
      BY <2>6 DEF Done, Finish
    <3>3. Level!Finish
      BY <3>1, <3>2 DEF Level!Finish
    <3> QED BY <3>3 DEF Level!Next
  <2>7. CASE Stopped \/ UNCHANGED vars
    BY <2>1, <2>7 DEF Stopped, vars, Visited, Active, cond
  <2>8. ASSUME NEW job \in todo, Check(job) PROVE [Level!Next]_Level!vars
    BY <2>2, <2>8 DEF Check, Take
  <2>9. ASSUME NEW job \in todo, Pull(job) PROVE [Level!Next]_Level!vars
    BY <2>3, <2>9, Ranges DEF Pull
  <2>10. ASSUME NEW st \in strand, CompareAndSwap(st) PROVE [Level!Next]_Level!vars
    BY <2>2, <2>3, <2>10, Ranges DEF CompareAndSwap
  <2>11. ASSUME NEW st \in strand, Test(st) PROVE [Level!Next]_Level!vars
    BY <2>2, <2>11, Ranges DEF Test
  <2>12. ASSUME NEW st \in strand, Store(st) PROVE [Level!Next]_Level!vars
    BY <2>3, <2>12, Ranges DEF Store, HandInv
  <2>13. ASSUME NEW d \in Vertex, SkipVisited(d) PROVE [Level!Next]_Level!vars
    BY <2>2, <2>13 DEF SkipVisited
  <2> QED BY <2>4, <2>5, <2>6, <2>7, <2>8, <2>9, <2>10, <2>11, <2>12, <2>13 DEF Next
<1> QED BY <1>1, <1>2, Invariance, PTL DEF Spec, Level!Spec, RefinesLevelBFS
=============================================================================
