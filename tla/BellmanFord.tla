---------------------------- MODULE BellmanFord ----------------------------
(***************************************************************************)
(* app/BellmanFord.C: single-source shortest paths.  An edge operation     *)
(* relaxes an edge; Visited makes each vertex enter the next frontier once *)
(* per round and is cleared by a vertexMap over the output.  When the      *)
(* frontier is still not empty after n rounds the program reports a        *)
(* negative cycle by setting every length to -(INT_MAX/2).                 *)
(*                                                                         *)
(* The strands of a round share ShortestPathLen and read lengths that      *)
(* other strands of the same round are lowering.  An edge operation is up  *)
(* to three steps: read the source, compare (updateAtomic: writeMin), then *)
(* store and set Visited (updateAtomic: CAS on Visited).                   *)
(***************************************************************************)
EXTENDS EdgeMap

CONSTANTS
  Start,    \* -r: the start vertex
  Infinity  \* INT_MAX/2

ASSUME StartAssumption == Start \in Vertex

\* Infinity is positive, and an edge (class Edge of a WEIGHTED build) has an
\* integer weight.
ASSUME LengthAssumption ==
  /\ Infinity \in Nat \ {0}
  /\ \A e \in Edge : e[3] \in Int

VARIABLES
  ShortestPathLen, Visited, round,
  strand,   \* the edge operations in progress, with their registers
  cache     \* the destinations of a CSC round in progress, with their caches

vars == <<pc, GA, Frontier, mode, todo, v1, ShortestPathLen, Visited, round,
          strand, cache>>

wgh(e) == e[3]

Init ==
  /\ EngineInit
  /\ Frontier = create(Start, GA.edges)
  /\ ShortestPathLen = [v \in Vertex |-> IF v = Start THEN 0 ELSE Infinity]
  /\ Visited = [v \in Vertex |-> 0]
  /\ round = 0
  /\ strand = {}
  /\ cache = {}

\* The loop of Compute up to the join of edgeMap; edgeMap may return the
\* empty frontier at once, which ends the round too.
Round ==
  /\ pc = "loop"
  /\ ~isEmpty
  /\ round # N
  /\ EnterEdgeMap
  /\ round' = IF pc' = "loop" THEN round + 1 ELSE round
  /\ UNCHANGED <<ShortestPathLen, Visited, strand, cache>>

\* wrong variant: one round too early
NegativeWeightCycle_Early ==
  /\ pc = "loop"
  /\ ~isEmpty
  /\ round = N - 1
  /\ ShortestPathLen' = [v \in Vertex |-> -Infinity]
  /\ pc' = "done"
  /\ UNCHANGED <<GA, Frontier, mode, todo, v1, Visited, round, strand, cache>>

NegativeWeightCycle ==
  /\ pc = "loop"
  /\ ~isEmpty
  /\ round = N
  /\ ShortestPathLen' = [v \in Vertex |-> -Infinity]
  /\ pc' = "done"
  /\ UNCHANGED <<GA, Frontier, mode, todo, v1, Visited, round, strand, cache>>

-----------------------------------------------------------------------------
running == {st.e : st \in strand}

\* newDist = ShortestPathLen[s] + edgeLen
ReadSource(job) ==
  LET e == job[2] IN
  /\ ~ByDestination
  /\ Take(job)
  /\ Free(e, running)
  /\ strand' = strand \union
                 {[k |-> job[1], e |-> e, at |-> "compare",
                   newDist |-> ShortestPathLen[src(e)] + wgh(e)]}
  /\ UNCHANGED <<pc, GA, Frontier, mode, v1, ShortestPathLen, Visited, round, cache>>

Shorter(st) == ShortestPathLen[dst(st.e)] > st.newDist

\* wrong variant: the loop of writeMin goes on until the length was lowered
Compare_Retries(st) ==
  /\ st \in strand
  /\ st.at = "compare"
  /\ strand' = IF Shorter(st) THEN (strand \ {st}) \union {[st EXCEPT !.at = "store"]}
                              ELSE strand
  /\ ShortestPathLen' = IF Atomic /\ Shorter(st)
                        THEN [ShortestPathLen EXCEPT ![dst(st.e)] = st.newDist]
                        ELSE ShortestPathLen
  /\ UNCHANGED <<pc, GA, Frontier, mode, todo, v1, Visited, round, cache>>

\* The comparison of update, or all of writeMin.
Compare(st) ==
  /\ st \in strand
  /\ st.at = "compare"
  /\ strand' = (strand \ {st}) \union
                 IF Shorter(st) THEN {[st EXCEPT !.at = "store"]} ELSE {}
  /\ ShortestPathLen' = IF Atomic /\ Shorter(st)
                        THEN [ShortestPathLen EXCEPT ![dst(st.e)] = st.newDist]
                        ELSE ShortestPathLen
  /\ UNCHANGED <<pc, GA, Frontier, mode, todo, v1, Visited, round, cache>>

\* The vertex is new in this round: Visited goes from 0 to 1.
Visit(d) ==
  /\ Visited' = [Visited EXCEPT ![d] = 1]
  /\ v1' = IF Visited[d] = 0 THEN Marked(d) ELSE v1

\* The store of update and its test of Visited, or the CAS on Visited.
Store(st) ==
  LET d == dst(st.e) IN
  /\ st \in strand
  /\ st.at = "store"
  /\ ShortestPathLen' = IF Atomic THEN ShortestPathLen
                        ELSE [ShortestPathLen EXCEPT ![d] = st.newDist]
  /\ Visit(d)
  /\ strand' = strand \ {st}
  /\ UNCHANGED <<pc, GA, Frontier, mode, todo, round, cache>>

-----------------------------------------------------------------------------
(***************************************************************************)
(* CSC rounds of a graph partitioned by destination work on a cache, and   *)
(* read the lengths of the sources from the shared array, where other      *)
(* partitions commit theirs.                                               *)
(***************************************************************************)
CreateCache(v) ==
  /\ pc = "edges" /\ ByDestination
  /\ \A c \in cache : CscPart[c.d] # CscPart[v]
  /\ \E job \in todo : dst(job[2]) = v
  /\ cache' = cache \union {[d |-> v, shortestPathLen |-> ShortestPathLen[v],
                             visited |-> Visited[v]]}
  /\ UNCHANGED <<pc, GA, Frontier, mode, todo, v1, ShortestPathLen, Visited,
                 round, strand>>

CachedUpdate(c, job) ==
  LET newDist == ShortestPathLen[src(job[2])] + wgh(job[2])
      lower == c.shortestPathLen > newDist
  IN
  /\ ByDestination
  /\ c \in cache
  /\ Take(job)
  /\ dst(job[2]) = c.d
  /\ cache' = IF lower
              THEN (cache \ {c}) \union
                     {[c EXCEPT !.shortestPathLen = newDist, !.visited = 1]}
              ELSE cache
  /\ v1' = IF lower /\ c.visited = 0 THEN Marked(c.d) ELSE v1
  /\ UNCHANGED <<pc, GA, Frontier, mode, ShortestPathLen, Visited, round, strand>>

CommitCache(c) ==
  /\ c \in cache
  /\ \A job \in todo : dst(job[2]) # c.d
  /\ Visited' = [Visited EXCEPT ![c.d] = c.visited]
  /\ ShortestPathLen' = [ShortestPathLen EXCEPT ![c.d] = c.shortestPathLen]
  /\ cache' = cache \ {c}
  /\ UNCHANGED <<pc, GA, Frontier, mode, todo, v1, round, strand>>

-----------------------------------------------------------------------------
\* wrong variant: no vertexMap over the output
Return_KeepsVisited ==
  /\ strand = {} /\ cache = {}
  /\ ReturnFromEdgeMap
  /\ round' = round + 1
  /\ UNCHANGED <<ShortestPathLen, Visited, strand, cache>>

\* edgeMap returns; vertexMap clears Visited on the output.
Return ==
  /\ strand = {} /\ cache = {}
  /\ ReturnFromEdgeMap
  /\ Visited' = [v \in Vertex |-> IF v1[v] > 0 THEN 0 ELSE Visited[v]]
  /\ round' = round + 1
  /\ UNCHANGED <<ShortestPathLen, strand, cache>>

Done ==
  /\ Finish
  /\ UNCHANGED <<ShortestPathLen, Visited, round, strand, cache>>

\* Compute has returned, or the program has called abort().
Stopped ==
  /\ pc \in {"done", "abort"}
  /\ UNCHANGED vars

Next ==
  \/ Round
  \/ NegativeWeightCycle
  \/ \E job \in todo : ReadSource(job)
  \/ \E st \in strand : Compare(st) \/ Store(st)
  \/ \E v \in Vertex : CreateCache(v)
  \/ \E c \in cache, job \in todo : CachedUpdate(c, job)
  \/ \E c \in cache : CommitCache(c)
  \/ Return
  \/ Done
  \/ Stopped

Spec == Init /\ [][Next]_vars

\* Every strand of a fork/join region is eventually scheduled.
FairSpec == Spec /\ WF_vars(Next)

-----------------------------------------------------------------------------
(***************************************************************************)
(* Types, with the registers of a strand inside the edges of the graph.    *)
(***************************************************************************)
TypeOK ==
  /\ EngineTypeOK
  /\ ShortestPathLen \in [Vertex -> Int]
  /\ Visited \in [Vertex -> {0, 1}]
  /\ round \in 0 .. N
  /\ strand \subseteq [k : Nat, e : GA.edges, at : {"compare", "store"},
                       newDist : Int]
  /\ cache \subseteq [d : Vertex, shortestPathLen : Int, visited : {0, 1}]

\* The lengths of the walks that extend one of those of f by an edge into v.
Extended(f, v) ==
  {f[src(e)] + wgh(e) : e \in {x \in GA.edges : dst(x) = v /\ f[src(x)] # Infinity}}

Least(S) == CHOOSE x \in S : \A y \in S : x <= y

\* Walks[k][v]: the length of the shortest walk of at most k edges from Start
\* to v, Infinity when there is none.
Walks ==
  LET walks[k \in 0 .. N] ==
        IF k = 0 THEN [v \in Vertex |-> IF v = Start THEN 0 ELSE Infinity]
        ELSE [v \in Vertex |-> Least({walks[k-1][v]} \union Extended(walks[k-1], v))]
  IN walks

\* A cycle of negative weight can be reached from Start.
NegativeCycle == Walks[N] # Walks[N-1]

(***************************************************************************)
(* The result: the lengths of the shortest paths when no negative cycle    *)
(* can be reached, and -(INT_MAX/2) everywhere exactly when one can.       *)
(***************************************************************************)
Shortest ==
  pc = "done" =>
    ShortestPathLen = IF NegativeCycle THEN [v \in Vertex |-> -Infinity]
                                       ELSE Walks[N-1]

(***************************************************************************)
(* After k rounds every length is at most that of the best walk of k       *)
(* edges: a relaxation may use a length of the same round, but none is     *)
(* missed or overwritten by a larger one.  The test round == n rests on    *)
(* this bound.                                                             *)
(***************************************************************************)
RoundBound ==
  pc = "loop" => \A v \in Vertex : ShortestPathLen[v] <= Walks[round][v]

(***************************************************************************)
(* An edge that could still be relaxed at the loop head has an active      *)
(* source, so the loop cannot end too soon.                                *)
(***************************************************************************)
PendingIsActive ==
  pc = "loop" => \A e \in GA.edges :
    /\ ShortestPathLen[src(e)] # Infinity
    /\ ShortestPathLen[dst(e)] > ShortestPathLen[src(e)] + wgh(e)
    => src(e) \in Active

(***************************************************************************)
(* Visited lets a vertex into the next frontier once, and is clear again   *)
(* when the next round starts.                                             *)
(***************************************************************************)
EachVertexOnce ==
  pc = "loop" => \A v \in Vertex : Visited[v] = 0 /\ Frontier.copies[v] <= 1

\* What one round hands over to the next: all the work that is left, each vertex
\* of it once.
RoundsHandOver == PendingIsActive /\ EachVertexOnce

\* Compute returns, negative cycles included.
Terminates == <>(pc = "done")

-----------------------------------------------------------------------------
(***************************************************************************)
(* The inductive invariant behind these properties.  Within a round an     *)
(* edge is relaxed to y when its destination has a length of at most y, or *)
(* a job, a strand or a cache will see to it.  Every edge is relaxed to    *)
(* what the walks of `round' edges require, and to the present length of   *)
(* its source unless the source is on its way into the next frontier.      *)
(***************************************************************************)
Relaxed(e, y) ==
  \/ ShortestPathLen[dst(e)] <= y
  \/ \E job \in todo : job[2] = e
  \/ \E st \in strand : st.e = e /\ st.newDist <= y
  \/ \E c \in cache : c.d = dst(e) /\ c.shortestPathLen <= y

Lowered(v) == v1[v] > 0 \/ \E st \in strand : st.at = "store" /\ dst(st.e) = v

RelaxInv ==
  pc = "edges" => \A e \in GA.edges :
    LET u == src(e) IN
    /\ Walks[round][u] # Infinity => Relaxed(e, Walks[round][u] + wgh(e))
    /\ ShortestPathLen[u] # Infinity => Lowered(u) \/ Relaxed(e, ShortestPathLen[u] + wgh(e))

\* The rounds and what is in hand within one.
RoundInv ==
  /\ pc = "edges" => round < N /\ \A v \in Vertex : ShortestPathLen[v] <= Walks[round][v]
  /\ pc # "edges" => todo = {} /\ strand = {} /\ cache = {} /\ v1 = None
  /\ mode = "coo" => ~GA.source
  /\ strand # {} => ~ByDestination
  /\ cache # {} => ByDestination

\* What has been reached, or will be when its cache is committed, is below Infinity.
ReachInv ==
  /\ \A v \in Vertex : ShortestPathLen[v] <= Infinity
  /\ pc = "loop" => \A v \in Active : ShortestPathLen[v] < Infinity
  /\ \A job \in todo : ShortestPathLen[src(job[2])] < Infinity
  /\ \A v \in Vertex : v1[v] > 0 =>
       \/ ShortestPathLen[v] < Infinity
       \/ \E c \in cache : c.d = v /\ c.shortestPathLen < Infinity

\* Visited marks the vertices of the output, in the cache while there is one.
MarkInv ==
  /\ \A v \in Vertex : Frontier.copies[v] <= 1 /\ v1[v] <= 1
  /\ \A v \in Vertex : (\A c \in cache : c.d # v) => Visited[v] = v1[v]
  /\ \A c \in cache : c.visited = v1[c.d]

\* A plain store has its destination to itself; a CAS comes after its writeMin.
StrandInv ==
  /\ \A st \in strand : st.at = "store" =>
       /\ st.newDist < Infinity
       /\ Atomic => ShortestPathLen[dst(st.e)] <= st.newDist
       /\ ~Atomic => ShortestPathLen[dst(st.e)] > st.newDist
  /\ ~Atomic => \A x, y \in strand : dst(x.e) = dst(y.e) => x = y

CacheInv ==
  /\ \A c \in cache :
       /\ c.shortestPathLen <= ShortestPathLen[c.d]
       /\ c.visited = 0 => c.shortestPathLen = ShortestPathLen[c.d]
  /\ \A x, y \in cache : x.d = y.d => x = y

\* Without a negative cycle no length falls below that of the best walk, and
\* the last round finds nothing to lower.
FixInv ==
  ~NegativeCycle /\ pc # "done" =>
    /\ \A v \in Vertex : Walks[N-1][v] <= ShortestPathLen[v]
    /\ \A st \in strand : Walks[N-1][dst(st.e)] <= st.newDist
    /\ \A c \in cache : Walks[N-1][c.d] <= c.shortestPathLen
    /\ pc = "edges" /\ round = N-1 =>
         /\ v1 = None
         /\ \A st \in strand : st.at # "store"
    /\ pc = "loop" /\ round = N => Active = {}

(***************************************************************************)
(* Every length is that of some walk: it belongs to each set of pairs of a *)
(* vertex and a length that is closed under extending a walk by an edge.   *)
(***************************************************************************)
HoldsWalks(S) ==
  /\ <<Start, 0>> \in S
  /\ \A e \in GA.edges, x \in Int :
       <<src(e), x>> \in S /\ x < Infinity => <<dst(e), x + wgh(e)>> \in S

Achieved ==
  pc # "done" => \A S \in SUBSET (Vertex \X Int) : HoldsWalks(S) =>
    /\ \A v \in Vertex : ShortestPathLen[v] < Infinity => <<v, ShortestPathLen[v]>> \in S
    /\ \A st \in strand : <<dst(st.e), st.newDist>> \in S
    /\ \A c \in cache : c.shortestPathLen < Infinity => <<c.d, c.shortestPathLen>> \in S

IInv ==
  /\ TypeOK
  /\ NoAbort
  /\ GA \in Graphs
  /\ FrontierInv
  /\ RoundInv
  /\ RelaxInv
  /\ ReachInv
  /\ MarkInv
  /\ StrandInv
  /\ CacheInv
  /\ FixInv
  /\ Achieved
  /\ RoundBound
  /\ PendingIsActive
  /\ Shortest
=============================================================================
