-------------------------------- MODULE BFS --------------------------------
(***************************************************************************)
(* app/BFS.C: breadth-first search.  Parents[d] is -1 until an edge        *)
(* operation claims d for its source; cond lets a strand skip a vertex     *)
(* that has a parent.  update tests and stores, updateAtomic is one CAS.   *)
(* The functor does not use the cache, so a CSC round of a graph           *)
(* partitioned by destination stops at the first active in-neighbour.      *)
(***************************************************************************)
EXTENDS EdgeMap

CONSTANT Start  \* -r: the start vertex

ASSUME StartAssumption == Start \in Vertex

NoParent == -1

VARIABLES
  Parents,
  strand    \* the edge operations in progress

vars == <<pc, GA, Frontier, mode, todo, v1, Parents, strand>>

Init ==
  /\ EngineInit
  /\ Frontier = create(Start, GA.edges)
  /\ Parents = [v \in Vertex |-> IF v = Start THEN Start ELSE NoParent]
  /\ strand = {}

Round ==
  /\ pc = "loop"
  /\ ~isEmpty
  /\ EnterEdgeMap
  /\ UNCHANGED <<Parents, strand>>

cond(d) == Parents[d] = NoParent

-----------------------------------------------------------------------------
(***************************************************************************)
(* COO and sparse rounds, and CSC rounds of a graph partitioned by source. *)
(***************************************************************************)
running == {st.e : st \in strand}

\* f.cond(dst) of one edge; the CSC loop tests a whole destination instead.
Check(job) ==
  LET e == job[2] IN
  /\ ~ByDestination
  /\ Take(job)
  /\ Free(e, running)
  /\ strand' = strand \union
                 IF mode = "csc" \/ cond(dst(e))
                 THEN {[k |-> job[1], e |-> e, at |-> "test"]} ELSE {}
  /\ UNCHANGED <<pc, GA, Frontier, mode, v1, Parents>>

\* wrong variant: the source enters the output
Claim_MarksSource(s, d) ==
  /\ Parents' = [Parents EXCEPT ![d] = s]
  /\ v1' = Marked(s)

Claim(s, d) ==
  /\ Parents' = [Parents EXCEPT ![d] = s]
  /\ v1' = Marked(d)

\* wrong variant: a plain store in place of the CAS
CompareAndSwap_Unchecked(st) ==
  /\ st \in strand
  /\ Atomic
  /\ Claim(src(st.e), dst(st.e))
  /\ strand' = strand \ {st}
  /\ UNCHANGED <<pc, GA, Frontier, mode, todo>>

\* updateAtomic
CompareAndSwap(st) ==
  /\ st \in strand
  /\ Atomic
  /\ IF cond(dst(st.e)) THEN Claim(src(st.e), dst(st.e))
                        ELSE UNCHANGED <<Parents, v1>>
  /\ strand' = strand \ {st}
  /\ UNCHANGED <<pc, GA, Frontier, mode, todo>>

\* update, its test
Test(st) ==
  /\ st \in strand
  /\ ~Atomic
  /\ st.at = "test"
  /\ strand' = (strand \ {st}) \union
                 IF cond(dst(st.e)) THEN {[st EXCEPT !.at = "store"]} ELSE {}
  /\ UNCHANGED <<pc, GA, Frontier, mode, todo, v1, Parents>>

\* update, its store
Store(st) ==
  /\ st \in strand
  /\ ~Atomic
  /\ st.at = "store"
  /\ Claim(src(st.e), dst(st.e))
  /\ strand' = strand \ {st}
  /\ UNCHANGED <<pc, GA, Frontier, mode, todo>>

-----------------------------------------------------------------------------
JobsInto(d) == {job \in todo : dst(job[2]) = d}

\* A CSC destination without a parent takes the first active in-neighbour the
\* strand meets, and the strand breaks out of the loop over the others.
Pull(job) ==
  LET d == dst(job[2]) IN
  /\ ByDestination
  /\ pc = "edges" /\ job \in todo
  /\ cond(d)
  /\ Claim(src(job[2]), d)
  /\ todo' = todo \ JobsInto(d)
  /\ UNCHANGED <<pc, GA, Frontier, mode, strand>>

\* A CSC destination that has a parent is skipped.
SkipVisited(d) ==
  /\ pc = "edges" /\ mode = "csc"
  /\ ~cond(d)
  /\ JobsInto(d) # {}
  /\ todo' = todo \ JobsInto(d)
  /\ UNCHANGED <<pc, GA, Frontier, mode, v1, Parents, strand>>

-----------------------------------------------------------------------------
\* wrong variant: the round ends before its strands have joined
Return_NoJoin ==
  /\ ReturnFromEdgeMap
  /\ UNCHANGED <<Parents, strand>>

Return ==
  /\ strand = {}
  /\ ReturnFromEdgeMap
  /\ UNCHANGED <<Parents, strand>>

Done ==
  /\ Finish
  /\ UNCHANGED <<Parents, strand>>

\* Compute has returned, or the program has called abort().
Stopped ==
  /\ pc \in {"done", "abort"}
  /\ UNCHANGED vars

Next ==
  \/ Round
  \/ \E job \in todo : Check(job) \/ Pull(job)
  \/ \E st \in strand : CompareAndSwap(st) \/ Test(st) \/ Store(st)
  \/ \E d \in Vertex : SkipVisited(d)
  \/ Return
  \/ Done
  \/ Stopped

Spec == Init /\ [][Next]_vars

-----------------------------------------------------------------------------
(***************************************************************************)
(* Types; a parent is a vertex or -1.                                      *)
(***************************************************************************)
TypeOK ==
  /\ EngineTypeOK
  /\ Parents \in [Vertex -> Vertex \union {NoParent}]
  /\ strand \subseteq [k : Nat, e : GA.edges, at : {"test", "store"}]

(***************************************************************************)
(* Every round is one step of LevelBFS, whatever the traversal and the     *)
(* interleaving, even when COO lists grouped by source race on Parents.  A *)
(* vertex claimed in this round counts as visited when the round returns.  *)
(***************************************************************************)
Visited == {v \in Vertex : ~cond(v) /\ v1[v] = 0}

Level == INSTANCE LevelBFS WITH
           EdgeSets <- {g.edges : g \in Graphs}, edges <- GA.edges,
           visited <- Visited, frontier <- Active, done <- (pc = "done")

RefinesLevelBFS == Level!Spec

\* The vertices at most k edges away from Start.
Ball ==
  LET ball[k \in 0 .. N] ==
        IF k = 0 THEN {Start}
        ELSE ball[k-1] \union Successors(GA.edges, ball[k-1])
  IN ball

Distance(v) == CHOOSE k \in 0 .. N : v \in Ball[k] /\ \A j \in 0 .. k-1 : v \notin Ball[j]

(***************************************************************************)
(* The result is a shortest-path tree of the vertices Start reaches: each  *)
(* of them has a parent that is one edge away and one level nearer, and no *)
(* other vertex has a parent.  It holds at the head of every round for the *)
(* vertices met so far.                                                    *)
(***************************************************************************)
ParentsAreShortest ==
  \A v \in Vertex \ {Start} : ~cond(v) =>
    /\ v \in Ball[N] /\ Parents[v] \in Ball[N]
    /\ \E e \in GA.edges : src(e) = Parents[v] /\ dst(e) = v
    /\ Distance(v) = Distance(Parents[v]) + 1

AllReached == pc = "done" => {v \in Vertex : ~cond(v)} = Ball[N]

\* The tree is right, and in the end complete.
ShortestPathTree == ParentsAreShortest /\ AllReached

(***************************************************************************)
(* The CAS of a sparse round lets a vertex into the output once, so the    *)
(* d_m and num_out_edges that choose the next traversal count vertices.    *)
(***************************************************************************)
NoDuplicates == \A v \in Vertex : v1[v] <= 1

-----------------------------------------------------------------------------
(***************************************************************************)
(* The inductive invariant behind these properties.  Between rounds the    *)
(* visited vertices are those at most `level' edges away, and the active   *)
(* ones those at that distance.  Within a round the marked vertices were   *)
(* claimed over an edge of an active one, and such an edge is settled when *)
(* its destination has a parent, or still in hand.                         *)
(***************************************************************************)
Quiet == pc # "edges" => todo = {} /\ strand = {} /\ v1 = None

MarkInv == \A v \in Vertex : v1[v] <= 1 /\ (v1[v] > 0 => ~cond(v))

\* A strand that is about to store competes with strands of this round only.
HandInv ==
  /\ \A job \in todo : src(job[2]) \in Active
  /\ \A st \in strand :
       /\ src(st.e) \in Active
       /\ st.at = "store" => cond(dst(st.e)) \/ v1[dst(st.e)] > 0

InHand(e) == (\E job \in todo : job[2] = e) \/ (\E st \in strand : st.e = e)

RoundInv ==
  pc = "edges" =>
    /\ Active # {}
    /\ \A v \in Vertex : v1[v] > 0 => v \in Successors(GA.edges, Active)
    /\ \A e \in GA.edges : src(e) \in Active => ~cond(dst(e)) \/ InHand(e)

\* The level is below N as long as a vertex is active: every level has a vertex.
AtLevel(level) ==
  /\ Visited = Ball[level]
  /\ Active = IF level = 0 THEN {Start} ELSE Ball[level] \ Ball[level-1]
  /\ Active # {} => level < Cardinality(Visited)

LevelInv == \E level \in 0 .. N : AtLevel(level)

DoneInv == pc = "done" => Active = {}

IInv ==
  /\ TypeOK
  /\ NoAbort
  /\ GA \in Graphs
  /\ FrontierInv
  /\ Quiet
  /\ MarkInv
  /\ HandInv
  /\ RoundInv
  /\ LevelInv
  /\ ParentsAreShortest
  /\ DoneInv
=============================================================================
