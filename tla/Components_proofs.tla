------------------------- MODULE Components_proofs -------------------------
(***************************************************************************)
(* Proofs about Components, for every number of vertices, every set of     *)
(* graphs, every partitioning and every pair of thresholds.  The one       *)
(* hypothesis is SafelyPartitioned: dense rounds over COO lists are        *)
(* correct only when the lists are grouped by destination.                 *)
(***************************************************************************)
EXTENDS Components, Lemmas

-----------------------------------------------------------------------------
\* The invariant holds initially: every vertex is active and labels itself.
LEMMA InitInv == Init => IInv
<1> SUFFICES ASSUME Init PROVE IInv
  OBVIOUS
<1> USE DEF Init, EngineInit
<1>1. Frontier \in FrontierType /\ GA.edges \subseteq Edge
  BY BitsFacts, GraphFacts
<1>2. IDs \in [Vertex -> Vertex] /\ prevIDs \in [Vertex -> Vertex]
  BY SizeAssumption DEF Vertex
<1>3. TypeOK
  BY <1>1, <1>2, NoneFacts, GraphsAssumption DEF TypeOK, EngineTypeOK
<1>4. FrontierInv
  BY NoneFacts DEF FrontierInv, bits
<1>5. Active = Vertex
  BY DEF Active, bits
<1>6. LabelInv
  BY ReachesSelf, VertexIsInt DEF LabelInv
<1>7. LoopInv
  BY <1>5, GraphFacts DEF LoopInv
<1> QED BY <1>3, <1>4, <1>6, <1>7 DEF IInv, NoCooBySource, Quiet, DoneInv,
           RoundInv, StrandInv, CacheInv

-----------------------------------------------------------------------------
\* The arrays and registers hold vertices.
LEMMA Ranges ==
  ASSUME IInv
  PROVE  /\ \A v \in Vertex : IDs[v] \in Vertex /\ prevIDs[v] \in Vertex
         /\ \A e \in GA.edges : src(e) \in Vertex /\ dst(e) \in Vertex
         /\ v1 \in [Vertex -> Nat]
BY GraphFacts DEF IInv, TypeOK, EngineTypeOK

\* The loop head: vertexMap brings prevIDs up to date everywhere, and the
\* edges of the active vertices become the jobs of the round.
LEMMA RoundStep ==
  ASSUME SafelyPartitioned, IInv, Round
  PROVE  IInv'
<1> USE DEF IInv
<1>1. /\ pc = "loop" /\ ~isEmpty
      /\ todo = {} /\ strand = {} /\ cache = {} /\ v1 = None
      /\ UNCHANGED <<IDs, strand, cache>>
  BY DEF Round, Quiet
<1>2. \A v \in Vertex : prevIDs'[v] = IDs[v]
  BY <1>1 DEF Round, LoopInv
<1>3. prevIDs' \in [Vertex -> Vertex]
  BY Ranges DEF Round
<1>4. EngineTypeOK
  BY DEF TypeOK
<1>5. CASE NoOutEdges
  <2>1. UNCHANGED <<pc, GA, mode, todo, v1>>
    BY <1>5 DEF NoOutEdges
  <2>2. EngineTypeOK' /\ FrontierInv' /\ Active' = {}
    BY <1>4, <1>5, NoOutEdgesFacts
  <2>3. TypeOK'
    BY <2>1, <2>2, <1>1, <1>3 DEF TypeOK
  <2>4. \A e \in GA.edges : IDs[dst(e)] <= IDs[src(e)]
    BY <1>1, <1>4, <1>5, NoOutEdgesFacts DEF LoopInv
  <2>5. LoopInv'
    BY <2>1, <2>2, <2>4, <1>1, <1>2 DEF LoopInv
  <2> QED BY <2>1, <2>2, <2>3, <2>5, <1>1 DEF NoCooBySource, Quiet, LabelInv,
             DoneInv, RoundInv, StrandInv, CacheInv, ByDestination
<1>6. CASE Traverse
  <2>1. pc' = "edges" /\ mode' = Mode /\ v1' = None /\ UNCHANGED GA
    BY <1>6 DEF Traverse, TraverseOver
  <2>2. /\ EngineTypeOK' /\ FrontierInv'
        /\ \A e \in GA.edges : src(e) \in Active => \E job \in todo' : job[2] = e
    BY <1>4, <1>6, TraverseFacts
  <2>3. TypeOK'
    BY <2>1, <2>2, <1>1, <1>3 DEF TypeOK
  <2>4. NoCooBySource'
    BY <2>1, ModeFacts DEF NoCooBySource, SafelyPartitioned
  <2>5. RoundInv'
    <3>1. \A v \in Vertex : /\ IDs'[v] <= prevIDs'[v]
                            /\ Reaches(GA'.edges, prevIDs'[v], v)
      BY <2>1, <1>1, <1>2, Ranges, VertexIsInt DEF LabelInv
    <3>2. \A v \in Vertex : v1'[v] > 0 <=> Changed(v)'
      BY <2>1, <1>1, <1>2 DEF Changed, None
    <3>3. ASSUME NEW e \in GA.edges
          PROVE  IDs'[dst(e)] <= prevIDs'[src(e)] \/ InHand(e)'
      <4>1. IDs[dst(e)] <= IDs[src(e)] \/ src(e) \in Active
        BY <1>1 DEF LoopInv
      <4>2. CASE src(e) \in Active
        BY <4>2, <2>2 DEF InHand
      <4> QED BY <4>1, <4>2, <1>1, <1>2, Ranges
    <3> QED BY <3>1, <3>2, <3>3, <2>1 DEF RoundInv
  <2> QED BY <2>1, <2>2, <2>3, <2>4, <2>5, <1>1 DEF Quiet, LabelInv, LoopInv,
             DoneInv, StrandInv, CacheInv, ByDestination
<1> QED BY <1>1, <1>4, <1>5, <1>6, EnterDoesNotAbort DEF Round, EnterEdgeMap

\* The end of a round: every edge has been settled with respect to prevIDs,
\* and the marked vertices are those whose label fell below it.
LEMMA ReturnStep ==
  ASSUME IInv, Return
  PROVE  IInv'
<1> USE DEF IInv
<1>1. /\ pc = "edges" /\ todo = {} /\ strand = {} /\ cache = {}
      /\ pc' = "loop" /\ mode' = "none" /\ v1' = None
      /\ UNCHANGED <<GA, todo, IDs, prevIDs, strand, cache>>
  BY DEF Return, ReturnFromEdgeMap
<1>2. EngineTypeOK' /\ FrontierInv' /\ Active' = {v \in Vertex : v1[v] > 0}
  BY ReturnFacts DEF Return, TypeOK
<1>3. TypeOK'
  BY <1>1, <1>2 DEF TypeOK
<1>4. \A v \in Vertex \ Active' : prevIDs[v] = IDs[v]
  BY <1>1, <1>2 DEF RoundInv, Changed
<1>5. ASSUME NEW e \in GA.edges, src(e) \notin Active'
      PROVE  IDs[dst(e)] <= IDs[src(e)]
  <2>1. IDs[dst(e)] <= prevIDs[src(e)]
    BY <1>1 DEF RoundInv, InHand
  <2> QED BY <2>1, <1>4, <1>5, Ranges
<1>6. LoopInv'
  BY <1>1, <1>4, <1>5 DEF LoopInv
<1> QED BY <1>1, <1>2, <1>3, <1>6 DEF NoCooBySource, Quiet, LabelInv, DoneInv,
           RoundInv, StrandInv, CacheInv, ByDestination

\* The end of the computation.
LEMMA DoneStep ==
  ASSUME IInv, Done
  PROVE  IInv'
<1> USE DEF IInv
<1>1. /\ pc = "loop" /\ pc' = "done"
      /\ UNCHANGED <<GA, Frontier, mode, todo, v1, IDs, prevIDs, strand, cache>>
  BY DEF Done, Finish
<1>2. Active = {}
  BY EmptyIsInactive DEF Done, Finish, TypeOK
<1>3. Active' = {}
  BY <1>1, <1>2 DEF Active
<1> QED BY <1>1, <1>2, <1>3 DEF TypeOK, EngineTypeOK, FrontierInv, NoCooBySource,
           Quiet, LabelInv, LoopInv, DoneInv, RoundInv, StrandInv, CacheInv,
           ByDestination

-----------------------------------------------------------------------------
\* Where a strand or a cache can exist.
LEMMA InRound ==
  ASSUME IInv
  PROVE  /\ strand # {} => pc = "edges" /\ ~ByDestination /\ cache = {}
         /\ cache # {} => pc = "edges" /\ ByDestination /\ strand = {}
BY DEF IInv, Quiet

\* Two strands of one partition never run together, so two plain updates
\* never have the same destination.
LEMMA FreeMeansOther ==
  ASSUME NoCooBySource, ~Atomic, ~ByDestination,
         NEW e, NEW f \in running, Free(e, running)
  PROVE  dst(f) # dst(e)
BY DEF NoCooBySource, Atomic, ByDestination, Free, PartOf

\* A strand takes a job: the edge is still in hand, and the label it reads
\* differs from prevIDs only if the vertex is marked.
LEMMA ReadDestinationStep ==
  ASSUME IInv, NEW job \in todo, ReadDestination(job)
  PROVE  IInv'
<1> USE DEF IInv
<1> DEFINE e == job[2]
           new == [k |-> job[1], e |-> e, at |-> "source",
                   origID |-> IDs[dst(e)], b |-> IDs[dst(e)]]
<1>1. /\ pc = "edges" /\ ~ByDestination
      /\ todo' = todo \ {job}
      /\ strand' = strand \union {new}
      /\ Free(e, running)
      /\ UNCHANGED <<pc, GA, Frontier, mode, v1, IDs, prevIDs, cache>>
  BY DEF ReadDestination, Take
<1>2. job \in Nat \X GA.edges
  BY DEF TypeOK, EngineTypeOK
<1>3. e \in GA.edges /\ dst(e) \in Vertex /\ IDs[dst(e)] \in Vertex
  BY <1>2, Ranges
<1>4. TypeOK'
  <2>1. new \in [k : Nat, e : GA.edges, at : {"source", "write"},
                 origID : Vertex, b : Vertex]
    BY <1>2, <1>3
  <2> QED BY <1>1, <2>1 DEF TypeOK, EngineTypeOK
<1>5. RoundInv'
  <2>1. \A v \in Vertex : Changed(v)' <=> Changed(v)
    BY <1>1 DEF Changed
  <2>2. \A x \in GA.edges : InHand(x) => InHand(x)'
    <3>1. new \in strand' /\ new.e = e
      BY <1>1
    <3>2. \A x \in todo : x \in todo' \/ x[2] = e
      BY <1>1
    <3> QED BY <1>1, <3>1, <3>2 DEF InHand
  <2> QED BY <1>1, <2>1, <2>2 DEF RoundInv
<1>6. StrandInv'
  <2>1. /\ IDs[dst(e)] <= IDs[dst(e)]
        /\ IDs[dst(e)] # prevIDs[dst(e)] => v1[dst(e)] > 0
    BY <1>1, <1>3, VertexIsInt DEF RoundInv, Changed
  <2>2. ~Atomic => \A st \in strand : dst(st.e) # dst(e)
    BY <1>1, FreeMeansOther DEF running
  <2>3. Atomic' = Atomic
    BY <1>1 DEF Atomic
  <2> QED BY <1>1, <2>1, <2>2, <2>3 DEF StrandInv
<1>7. Quiet' /\ NoCooBySource' /\ FrontierInv'
  BY <1>1 DEF Quiet, NoCooBySource, FrontierInv, ByDestination
<1>8. LabelInv' /\ LoopInv' /\ DoneInv' /\ CacheInv'
  BY <1>1 DEF LabelInv, LoopInv, DoneInv, CacheInv, Active
<1> QED BY <1>1, <1>4, <1>5, <1>6, <1>7, <1>8

\* A strand reads the label of its source, which lies between the present
\* label and the one the round began with from now on.
LEMMA ReadSourceStep ==
  ASSUME IInv, NEW st \in strand, ReadSource(st)
  PROVE  IInv'
<1> USE DEF IInv
<1> DEFINE s == src(st.e)
           new == [st EXCEPT !.at = "write", !.b = IDs[s]]
<1>1. /\ strand' = (strand \ {st}) \union {new}
      /\ UNCHANGED <<pc, GA, Frontier, mode, todo, v1, IDs, prevIDs, cache>>
  BY DEF ReadSource
<1>2. pc = "edges" /\ ~ByDestination
  BY InRound
<1>3. st \in [k : Nat, e : GA.edges, at : {"source", "write"},
              origID : Vertex, b : Vertex]
  BY DEF TypeOK
<1>4. s \in Vertex /\ IDs[s] \in Vertex
  BY <1>3, Ranges
<1>5. new \in [k : Nat, e : GA.edges, at : {"source", "write"},
               origID : Vertex, b : Vertex]
  BY <1>3, <1>4
<1>6. new.e = st.e /\ new.origID = st.origID /\ new.b = IDs[s]
  BY <1>3
<1>7. TypeOK'
  BY <1>1, <1>5 DEF TypeOK, EngineTypeOK
<1>8. RoundInv'
  <2>1. \A v \in Vertex : Changed(v)' <=> Changed(v)
    BY <1>1 DEF Changed
  <2>2. \A x \in GA.edges : InHand(x) => InHand(x)'
    BY <1>1, <1>6 DEF InHand
  <2> QED BY <1>1, <2>1, <2>2 DEF RoundInv
<1>9. StrandInv'
  <2>1. IDs[s] <= IDs[s] /\ IDs[s] <= prevIDs[s] /\ Reaches(GA.edges, IDs[s], s)
    BY <1>2, <1>4, VertexIsInt DEF RoundInv, LabelInv
  <2>2. Atomic' = Atomic
    BY <1>1 DEF Atomic
  <2>3. \A x \in strand' :
          LET s1 == src(x.e)
              d1 == dst(x.e)
          IN /\ IDs[d1] <= x.origID
             /\ x.origID # prevIDs[d1] => v1[d1] > 0
             /\ ~Atomic => x.origID = IDs[d1]
             /\ x.at = "write" => /\ IDs[s1] <= x.b /\ x.b <= prevIDs[s1]
                                  /\ Reaches(GA.edges, x.b, s1)
    <3> TAKE x \in strand'
    <3>1. CASE x = new
      BY <3>1, <1>6, <2>1 DEF StrandInv
    <3>2. CASE x \in strand
      BY <3>2 DEF StrandInv
    <3> QED BY <3>1, <3>2, <1>1
  <2>4. ~Atomic => \A x, y \in strand' : dst(x.e) = dst(y.e) => x = y
    <3> SUFFICES ASSUME ~Atomic, NEW x \in strand', NEW y \in strand',
                        dst(x.e) = dst(y.e)
                 PROVE  x = y
      OBVIOUS
    <3> DEFINE old(z) == IF z = new THEN st ELSE z
    <3>1. old(x) \in strand /\ old(y) \in strand
      BY <1>1
    <3>2. dst(old(x).e) = dst(old(y).e)
      BY <1>6
    <3>3. old(x) = old(y)
      BY <3>1, <3>2 DEF StrandInv
    <3> QED BY <3>3, <1>1
  <2> QED BY <1>1, <2>2, <2>3, <2>4 DEF StrandInv
<1>10. Quiet' /\ NoCooBySource' /\ FrontierInv'
  BY <1>1, <1>2 DEF Quiet, NoCooBySource, FrontierInv, ByDestination
<1>11. LabelInv' /\ LoopInv' /\ DoneInv' /\ CacheInv'
  BY <1>1 DEF LabelInv, LoopInv, DoneInv, CacheInv, Active
<1> QED BY <1>1, <1>7, <1>8, <1>9, <1>10, <1>11

\* What the last step of an edge operation does to its destination: the new
\* label is no larger than the old one and than the label the source began
\* the round with, reaches the destination, and marks it if it is smaller.
LEMMA WriteFacts ==
  ASSUME IInv, NEW st \in strand, Write(st)
  PROVE  LET s == src(st.e)
             d == dst(st.e)
         IN  /\ d \in Vertex /\ s \in Vertex /\ st.e \in GA.edges
             /\ \E new \in Vertex :
                  /\ IDs' = [IDs EXCEPT ![d] = new]
                  /\ new <= IDs[d] /\ new <= prevIDs[s]
                  /\ Reaches(GA.edges, new, d)
                  /\ \/ v1' = v1 /\ (new # prevIDs[d] => v1[d] > 0)
                     \/ v1' = Marked(d) /\ new < IDs[d]
<1> USE DEF IInv
<1> DEFINE s == src(st.e)
           d == dst(st.e)
<1>1. pc = "edges" /\ cache = {}
  BY InRound
<1>2. st \in [k : Nat, e : GA.edges, at : {"source", "write"},
              origID : Vertex, b : Vertex]
  BY DEF TypeOK
<1>3. s \in Vertex /\ d \in Vertex /\ st.e \in GA.edges
  BY <1>2, Ranges
<1>4. /\ IDs[s] \in Int /\ IDs[d] \in Int /\ prevIDs[s] \in Int
      /\ prevIDs[d] \in Int /\ st.b \in Int /\ st.origID \in Int
  BY <1>2, <1>3, Ranges, VertexIsInt
<1>5. /\ IDs[d] <= st.origID
      /\ st.origID # prevIDs[d] => v1[d] > 0
      /\ ~Atomic => st.origID = IDs[d]
      /\ IDs[s] <= st.b /\ st.b <= prevIDs[s]
      /\ Reaches(GA.edges, st.b, s)
  BY DEF StrandInv, Write
<1>6. /\ IDs[d] <= prevIDs[d]
      /\ IDs[d] # prevIDs[d] => v1[d] > 0
      /\ v1[d] > 0 => IDs[d] # prevIDs[d]
      /\ IDs[s] <= prevIDs[s]
      /\ IDs \in [Vertex -> Vertex]
  BY <1>1, <1>3 DEF RoundInv, Changed, TypeOK
<1>7. Reaches(GA.edges, st.b, d) /\ Reaches(GA.edges, IDs[s], d)
  BY <1>3, <1>5, ReachesEdge DEF LabelInv
<1> DEFINE Goal(new) ==
             /\ new \in Vertex
             /\ IDs' = [IDs EXCEPT ![d] = new]
             /\ new <= IDs[d] /\ new <= prevIDs[s]
             /\ Reaches(GA.edges, new, d)
             /\ \/ v1' = v1 /\ (new # prevIDs[d] => v1[d] > 0)
                \/ v1' = Marked(d) /\ new < IDs[d]
<1>8. CASE Atomic /\ WriteMin(st)
  <2>1. st.b < IDs[d] /\ IDs' = [IDs EXCEPT ![d] = st.b]
        /\ v1' = IF st.origID = prevIDs[d] THEN Marked(d) ELSE v1
    BY <1>8 DEF WriteMin
  <2>2. Goal(st.b)
    BY <2>1, <1>2, <1>4, <1>5, <1>7
  <2> QED BY <2>2, <1>3
<1>9. CASE ~Atomic /\ Store(st)
  <2>1. PICK c \in {st.b, IDs[s]} :
          IDs' = [IDs EXCEPT ![d] = IF c < st.origID THEN c ELSE st.origID]
    BY <1>9 DEF Store
  <2>2. st.b < st.origID /\ v1' = IF st.origID = prevIDs[d] THEN Marked(d) ELSE v1
    BY <1>9 DEF Store
  <2>3. c \in Vertex /\ c \in Int /\ c <= st.b /\ Reaches(GA.edges, c, d)
    BY <1>2, <1>3, <1>4, <1>5, <1>7, Ranges
  <2>4. c < st.origID
    BY <2>2, <2>3, <1>4
  <2>5. IDs' = [IDs EXCEPT ![d] = c]
    BY <2>1, <2>4
  <2>6. c <= IDs[d] /\ c <= prevIDs[s] /\ c < IDs[d]
    BY <2>3, <2>4, <1>4, <1>5, <1>9
  <2>7. Goal(c)
    BY <2>2, <2>3, <2>5, <2>6, <1>5, <1>6
  <2> QED BY <2>7, <1>3
<1>10. CASE Keep(st)
  <2>1. IDs' = [IDs EXCEPT ![d] = IDs[d]] /\ v1' = v1
    BY <1>10, <1>6 DEF Keep
  <2>2. IDs[d] <= prevIDs[s]
    BY <1>10, <1>4, <1>5 DEF Keep
  <2>3. IDs[d] \in Vertex /\ IDs[d] <= IDs[d] /\ Reaches(GA.edges, IDs[d], d)
    BY <1>3, <1>4, Ranges DEF LabelInv
  <2>4. Goal(IDs[d])
    BY <2>1, <2>2, <2>3, <1>6
  <2> QED BY <2>4, <1>3
<1> QED BY <1>8, <1>9, <1>10 DEF Write

\* The last step of an edge operation settles its edge and disturbs no other
\* strand: labels only fall, and a plain store has its destination to itself.
LEMMA WriteStep ==
  ASSUME IInv, NEW st \in strand, Write(st)
  PROVE  IInv'
<1> USE DEF IInv
<1> DEFINE s == src(st.e)
           d == dst(st.e)
<1>1. /\ pc = "edges" /\ ~ByDestination /\ cache = {}
      /\ strand' = strand \ {st}
      /\ UNCHANGED <<pc, GA, Frontier, mode, todo, prevIDs, cache>>
  BY InRound DEF Write
<1>2. d \in Vertex /\ s \in Vertex /\ st.e \in GA.edges
  BY WriteFacts
<1>3. PICK new \in Vertex :
        /\ IDs' = [IDs EXCEPT ![d] = new]
        /\ new <= IDs[d] /\ new <= prevIDs[s]
        /\ Reaches(GA.edges, new, d)
        /\ \/ v1' = v1 /\ (new # prevIDs[d] => v1[d] > 0)
           \/ v1' = Marked(d) /\ new < IDs[d]
  BY WriteFacts
<1>4. /\ IDs' \in [Vertex -> Vertex]
      /\ IDs'[d] = new
      /\ \A v \in Vertex \ {d} : IDs'[v] = IDs[v]
  BY <1>2, <1>3 DEF TypeOK
<1>5. \A v \in Vertex : IDs[v] \in Int /\ prevIDs[v] \in Int /\ IDs'[v] \in Int
  BY <1>4, Ranges, VertexIsInt
<1>6. \A v \in Vertex : IDs'[v] <= IDs[v]
  BY <1>3, <1>4, <1>5
<1>7. /\ v1' \in [Vertex -> Nat]
      /\ \A v \in Vertex : v1[v] > 0 => v1'[v] > 0
      /\ \A v \in Vertex \ {d} : v1'[v] = v1[v]
  <2>1. v1 \in [Vertex -> Nat]
    BY Ranges
  <2>2. CASE v1' = v1
    BY <2>1, <2>2
  <2>3. CASE v1' = Marked(d)
    <3>1. Marked(d) \in [Vertex -> Nat] /\ Marked(d)[d] > 0
      BY <2>1, <1>2, MarkedFacts
    <3>2. \A v \in Vertex \ {d} : Marked(d)[v] = v1[v]
      BY <2>1, <1>2, MarkedFacts
    <3> QED BY <2>3, <3>1, <3>2
  <2> QED BY <2>2, <2>3, <1>3
<1>8. TypeOK'
  BY <1>1, <1>4, <1>7 DEF TypeOK, EngineTypeOK
<1>9. LabelInv'
  <2> SUFFICES ASSUME NEW v \in Vertex
               PROVE  IDs'[v] <= v /\ Reaches(GA.edges, IDs'[v], v)
    BY <1>1 DEF LabelInv
  <2>1. IDs[v] <= v /\ Reaches(GA.edges, IDs[v], v) /\ v \in Int
    BY VertexIsInt DEF LabelInv
  <2> QED BY <2>1, <1>3, <1>4, <1>5, <1>6
<1>10. RoundInv'
  <2>1. \A v \in Vertex : /\ IDs'[v] <= prevIDs'[v]
                          /\ Reaches(GA'.edges, prevIDs'[v], v)
    BY <1>1, <1>5, <1>6 DEF RoundInv
  <2>2. \A v \in Vertex : v1'[v] > 0 <=> Changed(v)'
    <3> TAKE v \in Vertex
    <3>1. v1[v] > 0 <=> IDs[v] # prevIDs[v]
      BY <1>1 DEF RoundInv, Changed
    <3>2. IDs[v] <= prevIDs[v]
      BY <1>1 DEF RoundInv
    <3>3. v1'[v] > 0 <=> IDs'[v] # prevIDs[v]
      <4>1. CASE v # d
        BY <4>1, <3>1, <1>4, <1>7
      <4>2. CASE v = d /\ v1' = v1 /\ (new # prevIDs[d] => v1[d] > 0)
        BY <4>2, <3>1, <3>2, <1>3, <1>4, <1>5
      <4>3. CASE v = d /\ v1' = Marked(d) /\ new < IDs[d]
        <5>1. new # prevIDs[d]
          BY <4>3, <3>2, <1>4, <1>5
        <5> QED BY <4>3, <5>1, <1>4, MarkedFacts, Ranges
      <4> QED BY <4>1, <4>2, <4>3, <1>3
    <3> QED BY <3>3, <1>1 DEF Changed
  <2>3. ASSUME NEW x \in GA.edges
        PROVE  IDs'[dst(x)] <= prevIDs'[src(x)] \/ InHand(x)'
    <3>1. dst(x) \in Vertex /\ src(x) \in Vertex
      BY Ranges
    <3>2. CASE x = st.e
      BY <3>2, <1>1, <1>3, <1>4
    <3>3. CASE x # st.e /\ InHand(x)
      BY <3>3, <1>1 DEF InHand
    <3>4. CASE IDs[dst(x)] <= prevIDs[src(x)]
      BY <3>1, <3>4, <1>1, <1>5, <1>6
    <3> QED BY <3>2, <3>3, <3>4, <1>1 DEF RoundInv
  <2> QED BY <1>1, <2>1, <2>2, <2>3 DEF RoundInv
<1>11. StrandInv'
  <2>1. Atomic' = Atomic
    BY <1>1 DEF Atomic
  <2>2. ASSUME NEW x \in strand'
        PROVE  LET s1 == src(x.e)
                   d1 == dst(x.e)
               IN /\ IDs'[d1] <= x.origID
                  /\ x.origID # prevIDs[d1] => v1'[d1] > 0
                  /\ ~Atomic => x.origID = IDs'[d1]
                  /\ x.at = "write" => /\ IDs'[s1] <= x.b /\ x.b <= prevIDs[s1]
                                       /\ Reaches(GA.edges, x.b, s1)
    <3>1. x \in strand /\ x # st
      BY <1>1
    <3>2. x \in [k : Nat, e : GA.edges, at : {"source", "write"},
                 origID : Vertex, b : Vertex]
      BY <3>1 DEF TypeOK
    <3>3. /\ dst(x.e) \in Vertex /\ src(x.e) \in Vertex
          /\ x.origID \in Int /\ x.b \in Int
      BY <3>2, Ranges, VertexIsInt
    <3>4. ~Atomic => dst(x.e) # d
      BY <3>1 DEF StrandInv
    <3>5. /\ IDs[dst(x.e)] <= x.origID
          /\ x.origID # prevIDs[dst(x.e)] => v1[dst(x.e)] > 0
          /\ ~Atomic => x.origID = IDs[dst(x.e)]
          /\ x.at = "write" => /\ IDs[src(x.e)] <= x.b
                               /\ x.b <= prevIDs[src(x.e)]
                               /\ Reaches(GA.edges, x.b, src(x.e))
      BY <3>1 DEF StrandInv
    <3>6. IDs'[dst(x.e)] <= x.origID
      BY <3>3, <3>5, <1>5, <1>6
    <3>7. x.at = "write" => IDs'[src(x.e)] <= x.b
      BY <3>3, <3>5, <1>5, <1>6
    <3>8. ~Atomic => x.origID = IDs'[dst(x.e)]
      BY <3>3, <3>4, <3>5, <1>4
    <3>9. x.origID # prevIDs[dst(x.e)] => v1'[dst(x.e)] > 0
      BY <3>3, <3>5, <1>7
    <3> QED BY <3>5, <3>6, <3>7, <3>8, <3>9
  <2>3. ~Atomic => \A x, y \in strand' : dst(x.e) = dst(y.e) => x = y
    BY <1>1 DEF StrandInv
  <2> QED BY <1>1, <2>1, <2>2, <2>3 DEF StrandInv
<1>12. Quiet' /\ NoCooBySource' /\ FrontierInv'
  BY <1>1 DEF Quiet, NoCooBySource, FrontierInv, ByDestination
<1>13. LoopInv' /\ DoneInv' /\ CacheInv'
  BY <1>1 DEF LoopInv, DoneInv, CacheInv
<1> QED BY <1>1, <1>8, <1>9, <1>10, <1>11, <1>12, <1>13

-----------------------------------------------------------------------------
\* A cache is created with the present label of its destination.
LEMMA CreateCacheStep ==
  ASSUME IInv, NEW v \in Vertex, CreateCache(v)
  PROVE  IInv'
<1> USE DEF IInv
<1> DEFINE new == [d |-> v, ID_d |-> IDs[v], prevID_d |-> prevIDs[v]]
<1>1. /\ pc = "edges" /\ ByDestination /\ strand = {}
      /\ cache' = cache \union {new}
      /\ \A c \in cache : c.d # v
      /\ UNCHANGED <<pc, GA, Frontier, mode, todo, v1, IDs, prevIDs, strand>>
  BY DEF CreateCache, cached, Quiet
<1>2. IDs[v] \in Vertex /\ prevIDs[v] \in Vertex /\ IDs[v] <= IDs[v]
  BY Ranges, VertexIsInt
<1>3. TypeOK'
  BY <1>1, <1>2 DEF TypeOK, EngineTypeOK
<1>4. RoundInv'
  <2>1. \A x \in Vertex : Changed(x)' <=> Changed(x)
    BY <1>1 DEF Changed
  <2>2. \A x \in GA.edges : InHand(x) => InHand(x)'
    BY <1>1 DEF InHand
  <2> QED BY <1>1, <2>1, <2>2 DEF RoundInv
<1>5. CacheInv'
  BY <1>1, <1>2 DEF CacheInv, LabelInv
<1>6. Quiet' /\ NoCooBySource' /\ FrontierInv'
  BY <1>1 DEF Quiet, NoCooBySource, FrontierInv, ByDestination
<1>7. LabelInv' /\ LoopInv' /\ DoneInv' /\ StrandInv'
  BY <1>1 DEF LabelInv, LoopInv, DoneInv, StrandInv
<1> QED BY <1>1, <1>3, <1>4, <1>5, <1>6, <1>7

\* A cached update settles its edge in the cache.
LEMMA CachedUpdateStep ==
  ASSUME IInv, NEW c \in cache, NEW job \in todo, CachedUpdate(c, job)
  PROVE  IInv'
<1> USE DEF IInv
<1> DEFINE e == job[2]
           d == c.d
           p == prevIDs[src(e)]
           l == IF p < c.ID_d THEN p ELSE c.ID_d
           new == [c EXCEPT !.ID_d = l]
<1>1. /\ pc = "edges" /\ ByDestination /\ strand = {}
      /\ todo' = todo \ {job} /\ dst(e) = d
      /\ cache' = (cache \ {c}) \union {new}
      /\ v1' = IF p < c.ID_d /\ c.ID_d = c.prevID_d THEN Marked(d) ELSE v1
      /\ UNCHANGED <<pc, GA, Frontier, mode, IDs, prevIDs, strand>>
  BY DEF CachedUpdate, Take, Quiet
<1>2. /\ c \in [d : Vertex, ID_d : Vertex, prevID_d : Vertex]
      /\ job \in Nat \X GA.edges
  BY DEF TypeOK, EngineTypeOK
<1>3. e \in GA.edges /\ src(e) \in Vertex /\ d \in Vertex /\ p \in Vertex
  BY <1>2, Ranges
<1>4. l \in Vertex /\ l \in Int /\ p \in Int /\ c.ID_d \in Int /\ IDs[d] \in Int
  BY <1>2, <1>3, Ranges, VertexIsInt
<1>5. l <= p /\ l <= c.ID_d
  BY <1>4
<1>6. new = [d |-> d, ID_d |-> l, prevID_d |-> c.prevID_d]
  BY <1>2
<1>7. /\ c.prevID_d = prevIDs[d] /\ c.ID_d <= IDs[d]
      /\ Reaches(GA.edges, c.ID_d, d)
      /\ \A x \in cache : x # c => x.d # d
  BY DEF CacheInv
<1>8. v1' \in [Vertex -> Nat] /\ \A x \in Vertex \ {d} : v1'[x] = v1[x]
  BY <1>1, <1>3, MarkedFacts, Ranges
<1>9. TypeOK'
  BY <1>1, <1>2, <1>4, <1>6, <1>8 DEF TypeOK, EngineTypeOK
<1>10. Reaches(GA.edges, l, d)
  <2>1. Reaches(GA.edges, p, src(e))
    BY <1>1, <1>3 DEF RoundInv
  <2>2. Reaches(GA.edges, p, d)
    BY <2>1, <1>1, <1>3, ReachesEdge
  <2> QED BY <2>2, <1>7
<1>11. CacheInv'
  <2>1. /\ new.prevID_d = prevIDs[new.d] /\ new.ID_d <= IDs[new.d]
        /\ Reaches(GA.edges, new.ID_d, new.d)
    BY <1>4, <1>5, <1>6, <1>7, <1>10
  <2>2. \A x \in cache' : x = new \/ (x \in cache /\ x.d # d)
    BY <1>1, <1>7
  <2>3. \A x, y \in cache' : x.d = y.d => x = y
    BY <1>6, <2>2 DEF CacheInv
  <2>4. \A x \in cache' : /\ x.prevID_d = prevIDs[x.d] /\ x.ID_d <= IDs[x.d]
                           /\ Reaches(GA.edges, x.ID_d, x.d)
    BY <2>1, <2>2 DEF CacheInv
  <2> QED BY <1>1, <2>3, <2>4 DEF CacheInv
<1>12. RoundInv'
  <2>1. \A x \in Vertex : v1'[x] > 0 <=> Changed(x)'
    <3> TAKE x \in Vertex
    <3>1. v1[x] > 0 <=> Changed(x)
      BY <1>1 DEF RoundInv
    <3>2. CASE x # d
      <4>1. Changed(x)' <=> Changed(x)
        BY <3>2, <1>1, <1>6, <1>7 DEF Changed
      <4> QED BY <3>1, <3>2, <4>1, <1>8
    <3>3. CASE x = d
      <4>1. Changed(d) <=> IDs[d] # prevIDs[d] \/ c.ID_d # prevIDs[d]
        BY <1>7 DEF Changed
      <4>2. Changed(d)' <=> IDs[d] # prevIDs[d] \/ l # prevIDs[d]
        BY <1>1, <1>6, <1>7 DEF Changed
      <4>3. c.ID_d <= prevIDs[d] /\ IDs[d] <= prevIDs[d] /\ prevIDs[d] \in Int
        <5>1. IDs[d] <= prevIDs[d] /\ prevIDs[d] \in Int
          BY <1>1, <1>3, Ranges, VertexIsInt DEF RoundInv
        <5> QED BY <5>1, <1>4, <1>7
      <4>4. CASE p < c.ID_d /\ c.ID_d = c.prevID_d
        <5>1. v1' = Marked(d) /\ l # prevIDs[d]
          BY <4>4, <1>1, <1>4, <1>7
        <5> QED BY <5>1, <4>2, <3>3, MarkedFacts, Ranges
      <4>5. CASE p < c.ID_d /\ c.ID_d # c.prevID_d
        BY <4>1, <4>2, <4>3, <4>5, <3>1, <3>3, <1>1, <1>4, <1>7
      <4>6. CASE ~(p < c.ID_d)
        BY <4>1, <4>2, <4>6, <3>1, <3>3, <1>1
      <4> QED BY <4>4, <4>5, <4>6
    <3> QED BY <3>2, <3>3
  <2>2. ASSUME NEW x \in GA.edges
        PROVE  IDs[dst(x)] <= prevIDs[src(x)] \/ InHand(x)'
    <3>1. CASE x = e
      BY <3>1, <1>1, <1>5, <1>6 DEF InHand
    <3>2. CASE x # e /\ \E y \in todo : y[2] = x
      BY <3>2, <1>1 DEF InHand
    <3>3. CASE \E y \in cache : y.d = dst(x) /\ y.ID_d <= prevIDs[src(x)]
      <4>1. PICK y \in cache : y.d = dst(x) /\ y.ID_d <= prevIDs[src(x)]
        BY <3>3
      <4>2. CASE y = c
        <5>1. prevIDs[src(x)] \in Int
          BY Ranges, VertexIsInt
        <5>2. l <= prevIDs[src(x)]
          BY <4>1, <4>2, <5>1, <1>4, <1>5
        <5> QED BY <4>1, <4>2, <5>2, <1>1, <1>6 DEF InHand
      <4>3. CASE y # c
        BY <4>1, <4>3, <1>1 DEF InHand
      <4> QED BY <4>2, <4>3
    <3> QED BY <3>1, <3>2, <3>3, <1>1 DEF RoundInv, InHand
  <2> QED BY <1>1, <2>1, <2>2 DEF RoundInv
<1>13. Quiet' /\ NoCooBySource' /\ FrontierInv'
  BY <1>1 DEF Quiet, NoCooBySource, FrontierInv, ByDestination
<1>14. LabelInv' /\ LoopInv' /\ DoneInv' /\ StrandInv'
  BY <1>1 DEF LabelInv, LoopInv, DoneInv, StrandInv
<1> QED BY <1>1, <1>9, <1>11, <1>12, <1>13, <1>14

\* A commit publishes the label its cache settled the edges with.
LEMMA CommitCacheStep ==
  ASSUME IInv, NEW c \in cache, CommitCache(c)
  PROVE  IInv'
<1> USE DEF IInv
<1> DEFINE d == c.d
<1>1. /\ pc = "edges" /\ ByDestination /\ strand = {}
      /\ cache' = cache \ {c}
      /\ IDs' = [IDs EXCEPT ![d] = c.ID_d]
      /\ UNCHANGED <<pc, GA, Frontier, mode, todo, v1, prevIDs, strand>>
  BY InRound DEF CommitCache
<1>2. c \in [d : Vertex, ID_d : Vertex, prevID_d : Vertex]
  BY DEF TypeOK
<1>3. /\ IDs' \in [Vertex -> Vertex] /\ IDs'[d] = c.ID_d /\ d \in Vertex
      /\ \A v \in Vertex \ {d} : IDs'[v] = IDs[v]
  BY <1>1, <1>2 DEF TypeOK
<1>4. /\ c.ID_d <= IDs[d] /\ Reaches(GA.edges, c.ID_d, d)
      /\ \A x \in cache : x # c => x.d # d
  BY DEF CacheInv
<1>5. \A v \in Vertex : /\ IDs'[v] <= IDs[v]
                        /\ IDs[v] \in Int /\ prevIDs[v] \in Int /\ IDs'[v] \in Int
  BY <1>3, <1>4, Ranges, VertexIsInt
<1>6. TypeOK'
  BY <1>1, <1>3 DEF TypeOK, EngineTypeOK
<1>7. LabelInv'
  <2> SUFFICES ASSUME NEW v \in Vertex
               PROVE  IDs'[v] <= v /\ Reaches(GA.edges, IDs'[v], v)
    BY <1>1 DEF LabelInv
  <2>1. IDs[v] <= v /\ Reaches(GA.edges, IDs[v], v) /\ v \in Int
    BY VertexIsInt DEF LabelInv
  <2> QED BY <2>1, <1>3, <1>4, <1>5
<1>8. RoundInv'
  <2>1. \A v \in Vertex : /\ IDs'[v] <= prevIDs'[v]
                          /\ Reaches(GA'.edges, prevIDs'[v], v)
    BY <1>1, <1>5 DEF RoundInv
  <2>2. \A v \in Vertex : v1'[v] > 0 <=> Changed(v)'
    <3> TAKE v \in Vertex
    <3>1. v1[v] > 0 <=> Changed(v)
      BY <1>1 DEF RoundInv
    <3>2. CASE v # d
      BY <3>1, <3>2, <1>1, <1>3 DEF Changed
    <3>3. CASE v = d
      <4>1. Changed(d) <=> IDs[d] # prevIDs[d] \/ c.ID_d # prevIDs[d]
        BY <1>4 DEF Changed
      <4>2. Changed(d)' <=> c.ID_d # prevIDs[d]
        BY <1>1, <1>3, <1>4 DEF Changed
      <4>3. IDs[d] <= prevIDs[d]
        BY <1>1, <1>3 DEF RoundInv
      <4>4. c.ID_d \in Int
        BY <1>2, VertexIsInt
      <4>5. IDs[d] # prevIDs[d] => c.ID_d # prevIDs[d]
        BY <4>3, <4>4, <1>3, <1>4, <1>5
      <4> QED BY <3>1, <3>3, <4>1, <4>2, <4>5, <1>1
    <3> QED BY <3>2, <3>3
  <2>3. ASSUME NEW x \in GA.edges
        PROVE  IDs'[dst(x)] <= prevIDs[src(x)] \/ InHand(x)'
    <3>1. dst(x) \in Vertex /\ src(x) \in Vertex
      BY Ranges
    <3>2. CASE IDs[dst(x)] <= prevIDs[src(x)]
      BY <3>1, <3>2, <1>5
    <3>3. CASE \E y \in todo : y[2] = x
      BY <3>3, <1>1 DEF InHand
    <3>4. CASE \E y \in cache : y.d = dst(x) /\ y.ID_d <= prevIDs[src(x)]
      BY <3>4, <1>1, <1>3 DEF InHand
    <3> QED BY <3>2, <3>3, <3>4, <1>1 DEF RoundInv, InHand
  <2> QED BY <1>1, <2>1, <2>2, <2>3 DEF RoundInv
<1>9. CacheInv'
  BY <1>1, <1>2, <1>3, <1>4 DEF CacheInv, TypeOK
<1>10. Quiet' /\ NoCooBySource' /\ FrontierInv'
  BY <1>1 DEF Quiet, NoCooBySource, FrontierInv, ByDestination
<1>11. LoopInv' /\ DoneInv' /\ StrandInv'
  BY <1>1 DEF LoopInv, DoneInv, StrandInv
<1> QED BY <1>1, <1>6, <1>7, <1>8, <1>9, <1>10, <1>11

-----------------------------------------------------------------------------
\* Every step keeps the invariant.
LEMMA StepInv ==
  ASSUME SafelyPartitioned
  PROVE  IInv /\ [Next]_vars => IInv'
<1> SUFFICES ASSUME IInv, [Next]_vars PROVE IInv'
  OBVIOUS
<1>1. CASE Round
  BY <1>1, RoundStep
<1>2. ASSUME NEW job \in todo, ReadDestination(job) PROVE IInv'
  BY <1>2, ReadDestinationStep
<1>3. ASSUME NEW st \in strand, ReadSource(st) PROVE IInv'
  BY <1>3, ReadSourceStep
<1>4. ASSUME NEW st \in strand, Write(st) PROVE IInv'
  BY <1>4, WriteStep
<1>5. ASSUME NEW v \in Vertex, CreateCache(v) PROVE IInv'
  BY <1>5, CreateCacheStep
<1>6. ASSUME NEW c \in cache, NEW job \in todo, CachedUpdate(c, job) PROVE IInv'
  BY <1>6, CachedUpdateStep
<1>7. ASSUME NEW c \in cache, CommitCache(c) PROVE IInv'
  BY <1>7, CommitCacheStep
<1>8. CASE Return
  BY <1>8, ReturnStep
<1>9. CASE Done
  BY <1>9, DoneStep
<1>10. CASE UNCHANGED vars
  BY <1>10 DEF vars, IInv, TypeOK, EngineTypeOK, FrontierInv, NoCooBySource, Quiet,
     LabelInv, LoopInv, DoneInv, RoundInv, StrandInv, CacheInv, Active, Changed,
     InHand, ByDestination, Atomic
<1> QED BY <1>1, <1>2, <1>3, <1>4, <1>5, <1>6, <1>7, <1>8, <1>9, <1>10
        DEF Next, Stopped

\* A step only lowers labels.
LEMMA StepLowers ==
  ASSUME IInv, [Next]_vars
  PROVE  \A v \in Vertex : IDs'[v] <= IDs[v]
<1>1. \A v \in Vertex : IDs[v] <= IDs[v] /\ IDs[v] \in Int
  BY Ranges, VertexIsInt
<1>2. CASE UNCHANGED IDs
  BY <1>1, <1>2
<1>3. ASSUME NEW st \in strand, Write(st) PROVE \A v \in Vertex : IDs'[v] <= IDs[v]
  BY <1>1, <1>3, WriteFacts DEF IInv, TypeOK
<1>4. ASSUME NEW c \in cache, CommitCache(c) PROVE \A v \in Vertex : IDs'[v] <= IDs[v]
  BY <1>1, <1>4 DEF CommitCache, IInv, TypeOK, CacheInv
<1> QED BY <1>2, <1>3, <1>4 DEF Next, vars, Round, ReadDestination, ReadSource,
           CreateCache, CachedUpdate, Return, Done, Stopped

-----------------------------------------------------------------------------
\* The invariant holds of every behaviour.
LEMMA Invariance ==
  ASSUME SafelyPartitioned
  PROVE  Spec => []IInv
BY InitInv, StepInv, PTL DEF Spec

\* The arrays hold vertices, the strands edges of the graph.
THEOREM TypeCorrect ==
  ASSUME SafelyPartitioned
  PROVE  Spec => []TypeOK
<1>1. IInv => TypeOK
  BY DEF IInv
<1> QED BY <1>1, Invariance, PTL

\* When Compute returns, each label is the smallest number of a vertex that
\* reaches its owner, however the strands of the rounds interleaved.
THEOREM ComponentsAreMinimal ==
  ASSUME SafelyPartitioned
  PROVE  Spec => []Converged
<1>1. IInv => Converged
  <2> SUFFICES ASSUME IInv, pc = "done" PROVE Converged
    BY DEF Converged
  <2> USE DEF IInv
  <2>1. \A e \in GA.edges : IDs[dst(e)] <= IDs[src(e)]
    BY DEF DoneInv, LoopInv
  <2>2. \A e \in GA.edges : IsEdge(e)
    BY GraphsAssumption, EdgeAssumption
  <2>3. IDs \in [Vertex -> Vertex] /\ \A v \in Vertex : IDs[v] <= v
    BY DEF TypeOK, LabelInv
  <2>4. \A u, v \in Vertex : Reaches(GA.edges, u, v) => IDs[v] <= u
    BY <2>1, <2>2, <2>3, StableIsMinimum
  <2> QED BY <2>4 DEF Converged, LabelInv
<1> QED BY <1>1, Invariance, PTL

\* No edge with work left is dropped from the frontier between two rounds.
THEOREM NoWorkIsLost ==
  ASSUME SafelyPartitioned
  PROVE  Spec => []PendingIsActive
<1>1. IInv => PendingIsActive
  <2> SUFFICES ASSUME IInv, pc = "loop", NEW e \in GA.edges,
                      IDs[dst(e)] > IDs[src(e)]
               PROVE  src(e) \in Active
    BY DEF PendingIsActive
  <2>1. IDs[dst(e)] \in Int /\ IDs[src(e)] \in Int
    BY Ranges, VertexIsInt
  <2> QED BY <2>1 DEF IInv, LoopInv
<1> QED BY <1>1, Invariance, PTL

\* edgeMap never finds a frontier it has to refuse.
THEOREM EdgeMapNeverAborts ==
  ASSUME SafelyPartitioned
  PROVE  Spec => []NoAbort
<1>1. Init => NoAbort
  BY DEF Init, EngineInit, NoAbort
<1>2. IInv /\ NoAbort /\ [Next]_vars => NoAbort'
  <2> SUFFICES ASSUME IInv, NoAbort, [Next]_vars PROVE NoAbort'
    OBVIOUS
  <2>1. CASE Round
    BY <2>1, EnterDoesNotAbort DEF Round, EnterEdgeMap, NoOutEdges, Traverse, TraverseOver,
       NoAbort, IInv, TypeOK
  <2>2. CASE UNCHANGED pc \/ Return \/ Done
    BY <2>2 DEF NoAbort, Return, ReturnFromEdgeMap, Done, Finish
  <2> QED BY <2>1, <2>2 DEF Next, vars, ReadDestination, ReadSource, Write,
             CreateCache, CachedUpdate, CommitCache, Stopped
<1> QED BY <1>1, <1>2, Invariance, PTL DEF Spec

\* No step raises a label.
THEOREM LabelsOnlyFall ==
  ASSUME SafelyPartitioned
  PROVE  Spec => LabelsFall
<1>1. IInv /\ [Next]_vars => [\A v \in Vertex : IDs'[v] <= IDs[v]]_vars
  BY StepLowers
<1> QED BY <1>1, Invariance, PTL DEF Spec, LabelsFall

\* After a round the frontier is exactly the set of vertices whose label the
\* round changed.
THEOREM FrontierIsExact ==
  ASSUME SafelyPartitioned
  PROVE  Spec => []FrontierIsChanged
<1>1. Init => FrontierIsChanged
  BY DEF Init, bits, FrontierIsChanged
<1>2. IInv /\ FrontierIsChanged /\ [Next]_vars => FrontierIsChanged'
  <2> SUFFICES ASSUME IInv, FrontierIsChanged, [Next]_vars,
                      pc' = "loop", Frontier'.rep # "bits"
               PROVE  Active' = {v \in Vertex : IDs'[v] # prevIDs'[v]}
    BY DEF FrontierIsChanged
  <2>1. CASE Round
    <3>1. pc = "loop" /\ UNCHANGED IDs
      BY <2>1 DEF Round
    <3>2. NoOutEdges
      BY <2>1 DEF Round, EnterEdgeMap, SizesDontMatch, BadValueOfM, Traverse, TraverseOver
    <3>3. Active' = {}
      BY <3>2, NoOutEdgesFacts DEF IInv, TypeOK
    <3>4. \A v \in Vertex : prevIDs'[v] = IDs[v]
      BY <2>1, <3>1 DEF Round, IInv, LoopInv
    <3> QED BY <3>1, <3>3, <3>4
  <2>2. CASE Return
    <3>1. pc = "edges" /\ cache = {} /\ UNCHANGED <<IDs, prevIDs>>
      BY <2>2 DEF Return, ReturnFromEdgeMap
    <3>2. Active' = {v \in Vertex : v1[v] > 0}
      BY <2>2, ReturnFacts DEF Return, IInv, TypeOK
    <3> QED BY <3>1, <3>2 DEF IInv, RoundInv, Changed
  <2>3. CASE UNCHANGED <<pc, Frontier, IDs, prevIDs>>
    BY <2>3 DEF FrontierIsChanged, Active
  <2>4. CASE pc = "edges" /\ UNCHANGED pc
    BY <2>4
  <2> QED BY <2>1, <2>2, <2>3, <2>4, InRound DEF Next, vars, ReadDestination, Take,
             ReadSource, Write, CreateCache, CachedUpdate, CommitCache,
             Done, Finish, Stopped
<1> QED BY <1>1, <1>2, Invariance, PTL DEF Spec

-----------------------------------------------------------------------------
(***************************************************************************)
(* Components implements MinLabel: a Write or a CommitCache lowers one     *)
(* label or none, Done declares the result, every other step is invisible. *)
(***************************************************************************)
LEMMA InitRefines == Init => Abstract!Init
<1> SUFFICES ASSUME Init PROVE Abstract!Init
  OBVIOUS
<1>1. GA \in Graphs /\ pc # "done" /\ IDs = [v \in Vertex |-> v]
  BY DEF Init, EngineInit
<1> QED BY <1>1 DEF Abstract!Init, Abstract!Vertex, Vertex

\* A store lowers a label to one that reaches its vertex, the end of the last round
\* declares the labels, and the other steps are stutters of the abstract machine.
LEMMA StepRefines ==
  ASSUME IInv, [Next]_vars
  PROVE  [Abstract!Next]_(Abstract!vars)
<1> USE DEF IInv
<1>1. CASE UNCHANGED <<pc, GA, IDs>>
  BY <1>1 DEF Abstract!vars
<1>2. ASSUME NEW d \in Vertex, NEW new \in Vertex,
             pc = "edges", UNCHANGED <<pc, GA>>,
             IDs' = [IDs EXCEPT ![d] = new], new <= IDs[d],
             Reaches(GA.edges, new, d)
      PROVE  [Abstract!Next]_(Abstract!vars)
  <2>1. IDs[d] \in Int /\ new \in Int
    BY Ranges, VertexIsInt
  <2>2. CASE new = IDs[d]
    <3>1. IDs' = IDs
      BY <1>2, <2>2 DEF TypeOK
    <3> QED BY <3>1, <1>2 DEF Abstract!vars
  <2>3. CASE new # IDs[d]
    <3>1. new < IDs[d]
      BY <1>2, <2>1, <2>3
    <3>2. Abstract!Lower(d, new)
      BY <3>1, <1>2 DEF Abstract!Lower, Abstract!Reaches, Reaches,
         Abstract!Closed, Closed, Abstract!Vertex, Vertex,
         Abstract!src, src, Abstract!dst, dst
    <3>3. d \in Abstract!Vertex /\ new \in Abstract!Vertex
      BY DEF Abstract!Vertex, Vertex
    <3> QED BY <3>2, <3>3 DEF Abstract!Next
  <2> QED BY <2>2, <2>3
<1>3. ASSUME NEW st \in strand, Write(st) PROVE [Abstract!Next]_(Abstract!vars)
  <2>1. pc = "edges" /\ UNCHANGED <<pc, GA>>
    BY <1>3, InRound DEF Write
  <2> QED BY <2>1, <1>2, <1>3, WriteFacts
<1>4. ASSUME NEW c \in cache, CommitCache(c) PROVE [Abstract!Next]_(Abstract!vars)
  <2>1. pc = "edges" /\ UNCHANGED <<pc, GA>> /\ IDs' = [IDs EXCEPT ![c.d] = c.ID_d]
    BY <1>4, InRound DEF CommitCache
  <2>2. /\ c.d \in Vertex /\ c.ID_d \in Vertex
        /\ c.ID_d <= IDs[c.d] /\ Reaches(GA.edges, c.ID_d, c.d)
    BY DEF TypeOK, CacheInv
  <2> QED BY <2>1, <2>2, <1>2
<1>5. CASE Round
  <2>1. UNCHANGED <<GA, IDs>> /\ pc # "done" /\ pc' # "done"
    BY <1>5 DEF Round, EnterEdgeMap, SizesDontMatch, NoOutEdges, BadValueOfM, Traverse, TraverseOver
  <2> QED BY <2>1 DEF Abstract!vars
<1>6. CASE Return
  <2>1. UNCHANGED <<GA, IDs>> /\ pc # "done" /\ pc' # "done"
    BY <1>6 DEF Return, ReturnFromEdgeMap
  <2> QED BY <2>1 DEF Abstract!vars
<1>7. CASE Done
  <2>1. UNCHANGED <<GA, IDs>> /\ pc = "loop" /\ pc' = "done"
    BY <1>7 DEF Done, Finish
  <2>2. Active = {}
    BY <1>7, EmptyIsInactive DEF Done, Finish, TypeOK
  <2>3. \A e \in GA.edges : IDs[dst(e)] <= IDs[src(e)]
    BY <2>1, <2>2 DEF LoopInv
  <2>4. Abstract!Stable
    BY <2>3 DEF Abstract!Stable, Abstract!src, src, Abstract!dst, dst
  <2>5. Abstract!Finish
    BY <2>1, <2>4 DEF Abstract!Finish
  <2> QED BY <2>5 DEF Abstract!Next
<1> QED BY <1>1, <1>3, <1>4, <1>5, <1>6, <1>7 DEF Next, vars, ReadDestination,
           ReadSource, CreateCache, CachedUpdate, Stopped

\* Every behaviour of Components is one of MinLabel.
THEOREM ComponentsImplementMinLabel ==
  ASSUME SafelyPartitioned
  PROVE  Spec => RefinesMinLabel
BY InitRefines, StepRefines, Invariance, PTL DEF Spec, RefinesMinLabel, Abstract!Spec

-----------------------------------------------------------------------------
(***************************************************************************)
(* MinLabel itself: what holds of every behaviour of the abstract          *)
(* specification, whatever implements it.                                  *)
(***************************************************************************)
\* Labels never exceed the number of their owner, and nothing falls any more
\* once the result is declared.
AbstractInv ==
  /\ Abstract!TypeOK
  /\ Abstract!LabelsReach
  /\ \A v \in Vertex : IDs[v] <= v
  /\ pc = "done" => Abstract!Stable

\* The definitions of MinLabel mean what they mean here.
LEMMA SameDefinitions ==
  /\ Abstract!Vertex = Vertex
  /\ \A E, u, v : Abstract!Reaches(E, u, v) <=> Reaches(E, u, v)
  /\ Abstract!Stable <=> \A e \in GA.edges : IDs[dst(e)] <= IDs[src(e)]
  /\ Abstract!TypeOK <=> GA.edges \in {g.edges : g \in Graphs} /\ IDs \in [Vertex -> Vertex]
  /\ Abstract!LabelsReach <=> \A v \in Vertex : Reaches(GA.edges, IDs[v], v)
<1>1. Abstract!Vertex = Vertex
  BY DEF Abstract!Vertex, Vertex
<1>2. \A E, u, v : Abstract!Reaches(E, u, v) <=> Reaches(E, u, v)
  BY <1>1 DEF Abstract!Reaches, Reaches, Abstract!Closed, Closed, Abstract!src, src, Abstract!dst, dst
<1>3. Abstract!Stable <=> \A e \in GA.edges : IDs[dst(e)] <= IDs[src(e)]
  BY DEF Abstract!Stable, Abstract!src, src, Abstract!dst, dst
<1> QED BY <1>1, <1>2, <1>3 DEF Abstract!TypeOK, Abstract!LabelsReach

\* The invariant holds initially: a vertex reaches itself.
LEMMA AbstractInitInv == Abstract!Init => AbstractInv
<1> SUFFICES ASSUME Abstract!Init PROVE AbstractInv
  OBVIOUS
<1>1. GA.edges \in {g.edges : g \in Graphs} /\ IDs = [v \in Vertex |-> v] /\ pc # "done"
  BY SameDefinitions DEF Abstract!Init
<1>2. \A v \in Vertex : v \in Int
  BY SizeAssumption DEF Vertex
<1> QED BY <1>1, <1>2, SameDefinitions DEF AbstractInv, Reaches

\* A step keeps it: Lower takes over a number that reaches the vertex, and is
\* disabled once the result is declared.
LEMMA AbstractStepInv == AbstractInv /\ [Abstract!Next]_(Abstract!vars) => AbstractInv'
<1> SUFFICES ASSUME AbstractInv, [Abstract!Next]_(Abstract!vars) PROVE AbstractInv'
  OBVIOUS
<1>1. /\ GA.edges \in {g.edges : g \in Graphs} /\ IDs \in [Vertex -> Vertex]
      /\ \A v \in Vertex : Reaches(GA.edges, IDs[v], v) /\ IDs[v] <= v
  BY SameDefinitions DEF AbstractInv
<1>2. SUFFICES /\ GA'.edges \in {g.edges : g \in Graphs} /\ IDs' \in [Vertex -> Vertex]
               /\ \A v \in Vertex : Reaches(GA'.edges, IDs'[v], v) /\ IDs'[v] <= v
               /\ pc' = "done" => \A e \in GA'.edges : IDs'[dst(e)] <= IDs'[src(e)]
  BY DEF AbstractInv, Abstract!TypeOK, Abstract!LabelsReach, Abstract!Stable, Abstract!Reaches, Reaches,
         Abstract!Closed, Closed, Abstract!src, src, Abstract!dst, dst, Abstract!Vertex, Vertex
<1>3. CASE Abstract!Finish
  BY <1>1, <1>3, SameDefinitions DEF Abstract!Finish
<1>4. ASSUME NEW v \in Vertex, NEW u \in Vertex, Abstract!Lower(v, u)
      PROVE  /\ GA'.edges \in {g.edges : g \in Graphs} /\ IDs' \in [Vertex -> Vertex]
             /\ \A w \in Vertex : Reaches(GA'.edges, IDs'[w], w) /\ IDs'[w] <= w
             /\ pc' # "done"
  <2>1. /\ GA'.edges = GA.edges /\ pc # "done" /\ pc' # "done" /\ u < IDs[v]
        /\ Reaches(GA.edges, u, v) /\ IDs' = [IDs EXCEPT ![v] = u]
    BY <1>4, SameDefinitions DEF Abstract!Lower
  <2>2. v \in Int /\ u \in Int /\ IDs[v] \in Int
    BY <1>1, SizeAssumption DEF Vertex
  <2> QED BY <1>1, <2>1, <2>2
<1>5. CASE UNCHANGED Abstract!vars
  <2>1. GA'.edges = GA.edges /\ IDs' = IDs /\ (pc' = "done") = (pc = "done")
    BY <1>5 DEF Abstract!vars
  <2> QED BY <1>1, <2>1, SameDefinitions DEF AbstractInv
<1> QED BY <1>3, <1>4, <1>5, SameDefinitions DEF Abstract!Next

\* A stable labelling is minimal.
LEMMA DeclaredIsMinimum == AbstractInv => Abstract!DoneIsMinimum
<1> SUFFICES ASSUME AbstractInv, pc = "done"
             PROVE  \A u, v \in Vertex : Reaches(GA.edges, u, v) => IDs[v] <= u
  BY SameDefinitions DEF Abstract!DoneIsMinimum
<1>1. /\ GA.edges \in {g.edges : g \in Graphs} /\ IDs \in [Vertex -> Vertex]
      /\ \A v \in Vertex : IDs[v] <= v
      /\ \A e \in GA.edges : IDs[dst(e)] <= IDs[src(e)]
  BY SameDefinitions DEF AbstractInv
<1>2. \A e \in GA.edges : IsEdge(e)
  BY <1>1, GraphsAssumption, EdgeAssumption
<1> QED BY <1>1, <1>2, StableIsMinimum

\* A label of the abstract specification is always the number of a vertex that
\* reaches its owner.
THEOREM AbstractLabelsReach == Abstract!Spec => []Abstract!LabelsReach
<1>1. AbstractInv => Abstract!LabelsReach
  BY DEF AbstractInv
<1> QED BY AbstractInitInv, AbstractStepInv, <1>1, PTL DEF Abstract!Spec

\* The labels that the abstract specification declares are the smallest numbers
\* of vertices that reach their owners.
THEOREM DeclaredLabelsAreMinimal == Abstract!Spec => []Abstract!DoneIsMinimum
BY AbstractInitInv, AbstractStepInv, DeclaredIsMinimum, PTL DEF Abstract!Spec
=============================================================================
