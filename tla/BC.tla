--------------------------------- MODULE BC ---------------------------------
(***************************************************************************)
(* app/BC.C: betweenness centrality from one start vertex.  The forward    *)
(* phase counts shortest paths level by level and keeps the frontier of    *)
(* every level; the graph is then transposed, and the backward phase walks *)
(* the levels in reverse and accumulates dependencies.  Both functors are  *)
(* the same additions, to NumPaths and to Dependencies.                    *)
(*                                                                         *)
(* The floats are counted in multiples of 1/Unit, so that 1/NumPaths is a  *)
(* whole number for every number of paths up to the bound of the run.      *)
(*                                                                         *)
(* transpose() flips the vertices of the graph and those of the compressed *)
(* CSC array.  It leaves the COO lists alone, and a vertex that had no     *)
(* in-edge when the array was built has no entry in it.                    *)
(***************************************************************************)
EXTENDS EdgeMap, Sequences, FiniteSetsExt

CONSTANTS
  Start,  \* -r: the start vertex
  Unit    \* 1.0 of Dependencies

ASSUME StartAssumption == Start \in Vertex
ASSUME UnitAssumption == Unit \in Nat \ {0}

\* BC is built without weights: an edge is the pair of its ends.
ASSUME PairAssumption == Edge \subseteq Vertex \X Vertex

VARIABLES
  isSymmetric,   \* the graph was read with -s
  transposed,
  phase,         \* the loop of Compute: "forward", then "backward"
  NumPaths, Visited, Dependencies,
  Levels,        \* the frontiers of the forward phase
  r,             \* the level the backward phase goes to next
  strand,        \* the edge operations in progress
  cache          \* the destinations of a CSC round in progress

arrays == <<NumPaths, Visited, Dependencies>>
strands == <<strand, cache>>
vars == <<pc, GA, Frontier, mode, todo, v1, isSymmetric, transposed, phase,
          NumPaths, Visited, Dependencies, Levels, r, strand, cache>>

Zero == [v \in Vertex |-> 0]

\* The result 0/0 of a vertex that was not reached.
NaN == -1

reverse(e) == <<dst(e), src(e)>>
Reversed(E) == {reverse(e) : e \in E}

Init ==
  /\ EngineInit
  /\ isSymmetric \in {b \in BOOLEAN : b => Reversed(GA.edges) = GA.edges}
  /\ transposed = FALSE
  /\ phase = "forward"
  /\ Frontier = create(Start, GA.edges)
  /\ NumPaths = [Zero EXCEPT ![Start] = 1]
  /\ Visited = [v \in Vertex |-> v = Start]
  /\ Dependencies = Zero
  /\ Levels = <<Frontier>>
  /\ r = 0
  /\ strand = {}
  /\ cache = {}

-----------------------------------------------------------------------------
(***************************************************************************)
(* The edges each traversal walks.                                         *)
(***************************************************************************)
\* The out-edges of the vertices, GA.V.
Edges == IF transposed THEN Reversed(GA.edges) ELSE GA.edges

\* The vertices with an entry in the CSC array CSCV.
Compressed == {dst(e) : e \in GA.edges}

WalkedEdges(md) == CASE md = "coo" -> GA.edges
                     [] md = "csc" -> {e \in Edges : dst(e) \in Compressed}
                     [] md = "sparse" -> Edges

WalkedJobs(md) ==
  IF md = "sparse"
  THEN {<<x[1][2], x[2]>> : x \in OutPairs(Frontier.copies, WalkedEdges(md))}
  ELSE {1} \X {e \in WalkedEdges(md) : src(e) \in Active}

cond(d) == ~Visited[d]

\* The array the functor of this phase adds to.
Array == IF phase = "forward" THEN NumPaths ELSE Dependencies

Assign(d, x) ==
  IF phase = "forward"
  THEN NumPaths' = [NumPaths EXCEPT ![d] = x] /\ UNCHANGED Dependencies
  ELSE Dependencies' = [Dependencies EXCEPT ![d] = x] /\ UNCHANGED NumPaths

-----------------------------------------------------------------------------
(***************************************************************************)
(* The forward loop.                                                       *)
(***************************************************************************)
EnterOver(jobs) == SizesDontMatch \/ BadValueOfM \/ TraverseOver(jobs)

\* Entering edgeMap; an early return hands over an empty level.
Forward ==
  /\ pc = "loop" /\ phase = "forward"
  /\ ~isEmpty
  /\ \/ EnterOver(WalkedJobs(Mode)) /\ UNCHANGED Levels
     \/ NoOutEdges /\ Levels' = Append(Levels, Frontier')
  /\ UNCHANGED <<isSymmetric, transposed, phase, arrays, r, strands>>

\* wrong variant: no vertexMap after edgeMap
ForwardReturn_NoVertexMap ==
  /\ phase = "forward"
  /\ strand = {} /\ cache = {}
  /\ ReturnFromEdgeMap
  /\ Levels' = Append(Levels, Frontier')
  /\ UNCHANGED <<isSymmetric, transposed, phase, arrays, r, strands>>

\* The join of a forward round, and the vertexMap that marks its output.
ForwardReturn ==
  /\ phase = "forward"
  /\ strand = {} /\ cache = {}
  /\ ReturnFromEdgeMap
  /\ Levels' = Append(Levels, Frontier')
  /\ Visited' = [v \in Vertex |-> Visited[v] \/ v1[v] > 0]
  /\ UNCHANGED <<isSymmetric, transposed, phase, NumPaths, Dependencies, r, strands>>

-----------------------------------------------------------------------------
(***************************************************************************)
(* The backward loop.  Levels[k] of the code is Levels[k+1] here.          *)
(***************************************************************************)
inverse(v) == Unit \div NumPaths[v]

\* The frontier becomes level k; vertexMap marks its entries and adds
\* 1/NumPaths once for each of them.
VertexMap(k, deps) ==
  LET level == Levels[k + 1] IN
  /\ Frontier' = level
  /\ Visited' = [v \in Vertex |-> level.copies[v] > 0 \/ (phase = "backward" /\ Visited[v])]
  /\ Dependencies' = [v \in Vertex |->
       IF level.copies[v] = 0 THEN deps[v]
       ELSE deps[v] + level.copies[v] * inverse(v)]

\* Between the loops: the last, empty level is dropped and the graph is
\* transposed; transpose() does nothing to a symmetric graph.
TurnBack ==
  LET round == Len(Levels) - 1 IN
  /\ pc = "loop" /\ phase = "forward"
  /\ isEmpty
  /\ phase' = "backward"
  /\ VertexMap(round - 1, Zero)
  /\ transposed' = ~isSymmetric
  /\ r' = round - 2
  /\ UNCHANGED <<pc, GA, mode, todo, v1, isSymmetric, NumPaths, Levels, strands>>

NextLevel ==
  /\ VertexMap(r, Dependencies)
  /\ r' = r - 1

\* edgeMap of the backward phase; its output is deleted, so an early return
\* goes straight on to the next level.
Backward ==
  /\ pc = "loop" /\ phase = "backward"
  /\ r >= 0
  /\ \/ /\ EnterOver(WalkedJobs(Mode))
        /\ UNCHANGED <<Visited, Dependencies, r>>
     \/ /\ Frontier.numVertices = N
        /\ Frontier.num_out_edges = 0
        /\ NextLevel
        /\ UNCHANGED <<pc, GA, mode, todo, v1>>
  /\ UNCHANGED <<isSymmetric, transposed, phase, NumPaths, Levels, strands>>

\* wrong variant: the round ends before its strands have joined
BackwardReturn_NoJoin ==
  /\ pc = "edges" /\ phase = "backward"
  /\ todo = {}
  /\ NextLevel
  /\ pc' = "loop"
  /\ mode' = "none"
  /\ v1' = None
  /\ UNCHANGED <<GA, todo, isSymmetric, transposed, phase, NumPaths, Levels, strands>>

BackwardReturn ==
  /\ pc = "edges" /\ phase = "backward"
  /\ todo = {} /\ strand = {} /\ cache = {}
  /\ NextLevel
  /\ pc' = "loop"
  /\ mode' = "none"
  /\ v1' = None
  /\ UNCHANGED <<GA, todo, isSymmetric, transposed, phase, NumPaths, Levels, strands>>

\* (Dependencies - inverseNumPaths) / inverseNumPaths
Score(v) ==
  IF NumPaths[v] = 0 THEN NaN ELSE (Dependencies[v] - inverse(v)) * NumPaths[v]

Done ==
  /\ pc = "loop" /\ phase = "backward"
  /\ r < 0
  /\ Dependencies' = [v \in Vertex |-> Score(v)]
  /\ pc' = "done"
  /\ UNCHANGED <<GA, Frontier, mode, todo, v1, isSymmetric, transposed, phase,
                 NumPaths, Visited, Levels, r, strands>>

-----------------------------------------------------------------------------
(***************************************************************************)
(* The edge operations of a round, the same in both phases.  Visited does  *)
(* not change in a round, and the entry of the source is not written in it *)
(* (SourcesAreSettled), so it is read together with the write.             *)
(***************************************************************************)
running == {st.e : st \in strand}

unchangedInRound == <<pc, GA, Frontier, mode, isSymmetric, transposed, phase,
                      Visited, Levels, r>>

\* cond is false for every edge into a visited vertex.
SkipVisited ==
  LET visited == {job \in todo : ~cond(dst(job[2]))} IN
  /\ pc = "edges"
  /\ visited # {}
  /\ todo' = todo \ visited
  /\ UNCHANGED <<unchangedInRound, v1, NumPaths, Dependencies, strands>>

\* oldV = NumPaths[d]
ReadOld(job) ==
  LET e == job[2] IN
  /\ ~ByDestination
  /\ Take(job)
  /\ cond(dst(e))
  /\ Free(e, running)
  /\ strand' = strand \union {[k |-> job[1], e |-> e, oldV |-> Array[dst(e)]]}
  /\ UNCHANGED <<unchangedInRound, v1, NumPaths, Dependencies, cache>>

\* The result of the functor is true for the first addition only.
Added(d, oldV) == v1' = IF oldV = 0 THEN Marked(d) ELSE v1

\* update: the sum is stored.
Store(st) ==
  /\ st \in strand
  /\ ~Atomic
  /\ Assign(dst(st.e), st.oldV + Array[src(st.e)])
  /\ Added(dst(st.e), st.oldV)
  /\ strand' = strand \ {st}
  /\ UNCHANGED <<unchangedInRound, todo, cache>>

\* wrong variant: the sum is stored whatever the array holds by now
CompareAndSwap_Unchecked(st) ==
  /\ st \in strand
  /\ Atomic
  /\ Assign(dst(st.e), st.oldV + Array[src(st.e)])
  /\ Added(dst(st.e), st.oldV)
  /\ strand' = strand \ {st}
  /\ UNCHANGED <<unchangedInRound, todo, cache>>

\* updateAtomic: the sum is stored unless the array changed since it was read;
\* otherwise the loop reads it again.
CompareAndSwap(st) ==
  /\ st \in strand
  /\ Atomic
  /\ IF Array[dst(st.e)] = st.oldV
     THEN /\ Assign(dst(st.e), st.oldV + Array[src(st.e)])
          /\ Added(dst(st.e), st.oldV)
          /\ strand' = strand \ {st}
     ELSE /\ strand' = (strand \ {st}) \union {[st EXCEPT !.oldV = Array[dst(st.e)]]}
          /\ UNCHANGED <<NumPaths, Dependencies, v1>>
  /\ UNCHANGED <<unchangedInRound, todo, cache>>

-----------------------------------------------------------------------------
(***************************************************************************)
(* CSC rounds of a graph partitioned by destination.                       *)
(***************************************************************************)
cached == {c.d : c \in cache}

CreateCache(v) ==
  /\ pc = "edges" /\ ByDestination
  /\ v \notin cached
  /\ cond(v)
  /\ \A c \in cache : CscPart[c.d] # CscPart[v]
  /\ \E job \in todo : dst(job[2]) = v
  /\ cache' = cache \union {[d |-> v, value |-> Array[v]]}
  /\ UNCHANGED <<unchangedInRound, todo, v1, NumPaths, Dependencies, strand>>

CachedUpdate(c, job) ==
  /\ ByDestination
  /\ c \in cache
  /\ Take(job)
  /\ dst(job[2]) = c.d
  /\ cache' = (cache \ {c}) \union {[c EXCEPT !.value = @ + Array[src(job[2])]]}
  /\ Added(c.d, c.value)
  /\ UNCHANGED <<unchangedInRound, NumPaths, Dependencies, strand>>

CommitCache(c) ==
  /\ c \in cache
  /\ \A job \in todo : dst(job[2]) # c.d
  /\ Assign(c.d, c.value)
  /\ cache' = cache \ {c}
  /\ UNCHANGED <<unchangedInRound, todo, v1, strand>>

-----------------------------------------------------------------------------
\* Compute has returned, or the program has called abort().
Stopped ==
  /\ pc \in {"done", "abort"}
  /\ UNCHANGED vars

Next ==
  \/ Forward \/ ForwardReturn
  \/ TurnBack
  \/ Backward \/ BackwardReturn
  \/ SkipVisited
  \/ \E job \in todo : ReadOld(job)
  \/ \E st \in strand : Store(st) \/ CompareAndSwap(st)
  \/ \E v \in Vertex : CreateCache(v)
  \/ \E c \in cache, job \in todo : CachedUpdate(c, job)
  \/ \E c \in cache : CommitCache(c)
  \/ Done
  \/ Stopped

Spec == Init /\ [][Next]_vars

-----------------------------------------------------------------------------
(***************************************************************************)
(* Types; the number of paths divides Unit, so 1/NumPaths is exact.        *)
(***************************************************************************)
TypeOK ==
  /\ pc \in {"loop", "edges", "done", "abort"}
  /\ GA \in [edges : SUBSET Edge, source : BOOLEAN, part_ver : BOOLEAN]
  /\ Frontier \in FrontierType
  /\ mode \in {"none", "coo", "csc", "sparse"}
  /\ todo \subseteq Nat \X Edges \union Nat \X GA.edges
  /\ v1 \in [Vertex -> Nat]
  /\ {isSymmetric, transposed} \subseteq BOOLEAN
  /\ phase \in {"forward", "backward"}
  /\ NumPaths \in [Vertex -> Nat]
  /\ phase = "backward" => \A v \in Vertex : NumPaths[v] # 0 => Unit % NumPaths[v] = 0
  /\ Visited \in [Vertex -> BOOLEAN]
  /\ Dependencies \in [Vertex -> Nat \union {NaN}]
  /\ Levels \in Seq(FrontierType)
  /\ r \in -1 .. N
  /\ strand \subseteq [k : Nat, e : Edges, oldV : Nat]
  /\ cache \subseteq [d : Vertex, value : Nat]

-----------------------------------------------------------------------------
\* In how many ways one more edge leads to w, when f counts those to a vertex.
Extended(f, w) == MapThenSumSet(LAMBDA e : f[src(e)], {e \in GA.edges : dst(e) = w})

\* walks[k][u][w]: in how many ways k edges lead from u to w.
Walks ==
  LET walks[k \in 0 .. N] ==
        [u \in Vertex |->
           IF k = 0 THEN [Zero EXCEPT ![u] = 1]
           ELSE [w \in Vertex |-> Extended(walks[k-1][u], w)]]
  IN walks

Far == N

\* The length of a shortest path from u to w, and how many there are.
Distance(walks, u, w) ==
  LET lengths == {k \in 0 .. N-1 : walks[k][u][w] > 0}
  IN IF lengths = {} THEN Far ELSE Min(lengths)

ShortestPaths(walks, u, w) ==
  LET k == Distance(walks, u, w) IN IF k = Far THEN 0 ELSE walks[k][u][w]

(***************************************************************************)
(* The forward phase: at the head of round k, NumPaths is the number of    *)
(* shortest paths to every vertex at most k edges from Start, and nothing  *)
(* else has been counted; Levels[i] holds the vertices at distance i, each *)
(* of them once.  A vertex entered twice would add its 1/NumPaths twice in *)
(* the backward phase.                                                     *)
(***************************************************************************)
PathsAreCounted ==
  pc = "loop" /\ phase = "forward" =>
    LET walks == Walks
        round == Len(Levels) - 1
    IN \A v \in Vertex :
         LET k == Distance(walks, Start, v) IN
         /\ NumPaths[v] = IF k <= round THEN ShortestPaths(walks, Start, v) ELSE 0
         /\ Visited[v] <=> k <= round /\ k # Far
         /\ \A i \in 0 .. round :
              Levels[i+1].copies[v] = IF k = i /\ k # Far THEN 1 ELSE 0

\* The share of the shortest paths from Start to t that pass through v.
Share(walks, v, t) ==
  IF t # v /\ Distance(walks, Start, t) # Far
     /\ Distance(walks, Start, v) + Distance(walks, v, t) = Distance(walks, Start, t)
  THEN (Unit * ShortestPaths(walks, Start, v) * ShortestPaths(walks, v, t))
         \div ShortestPaths(walks, Start, t)
  ELSE 0

\* The result has these sums, taken over the targets T.
ScoresOver(T) ==
  pc = "done" =>
    LET walks == Walks IN
    \A v \in Vertex :
      Dependencies[v] = IF Distance(walks, Start, v) = Far THEN NaN
                        ELSE MapThenSumSet(LAMBDA t : Share(walks, v, t), T)

(***************************************************************************)
(* Betweenness: the score of a reached vertex is the sum of its shares     *)
(* over all other vertices.  The stored levels keep the out-degrees of the *)
(* loaded graph, and so not every graph has these scores (MCBCDeadEnd).    *)
(***************************************************************************)
ScoresAreBetweenness == ScoresOver(Vertex)

\* The vertices at a distance that some edge of the loaded graph starts from.
Continued ==
  LET distance == [v \in Vertex |-> Distance(Walks, Start, v)] IN
  {t \in Vertex : \E e \in GA.edges : distance[src(e)] = distance[t]}

(***************************************************************************)
(* What the program computes: the betweenness, except that the paths to    *)
(* the vertices of the last level count for nothing when none of these has *)
(* an out-edge in the loaded graph.  edgeMap returns at once from such a   *)
(* level, in the graph that is transposed by then as well.                 *)
(***************************************************************************)
ScoresAreAccumulated == ScoresOver(Continued)

(***************************************************************************)
(* edgeMap walks exactly the out-edges that the frontier has in the graph  *)
(* as it is turned now, whichever representation it chooses.               *)
(***************************************************************************)
WalksOutEdges ==
  [][pc = "loop" /\ pc' = "edges" =>
       {job[2] : job \in todo'} = {e \in Edges : src(e) \in Active}]_vars

(***************************************************************************)
(* The forward phase is a breadth-first search, one level a round.         *)
(***************************************************************************)
Level == INSTANCE LevelBFS WITH
           EdgeSets <- {g.edges : g \in Graphs}, edges <- GA.edges,
           visited <- IF phase = "forward" THEN {v \in Vertex : Visited[v]}
                      ELSE {v \in Vertex : NumPaths[v] > 0},
           frontier <- IF phase = "forward" THEN Active ELSE {},
           done <- (phase = "backward")

RefinesLevelBFS == Level!Spec

=============================================================================
