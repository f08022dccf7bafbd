----------------------------- MODULE Components -----------------------------
(***************************************************************************)
(* app/Components.C: connected components by label propagation.  Every     *)
(* vertex starts with its own number in IDs; an edge operation lowers the  *)
(* label of the destination to the label of the source; the vertices whose *)
(* label fell form the next frontier, and their label is copied to prevIDs *)
(* before they are traversed.                                              *)
(*                                                                         *)
(* The strands of a round share IDs.  An edge operation is three steps:    *)
(* it reads IDs[d], it reads IDs[s], and it writes (update: a plain store, *)
(* updateAtomic: the CAS loop of writeMin, one atomic step here).  In a    *)
(* CSC round of a graph partitioned by destination the label is kept in a  *)
(* cache from create_cache to commit_cache and the sources are read from   *)
(* prevIDs.                                                                *)
(***************************************************************************)
EXTENDS EdgeMap

VARIABLES
  IDs, prevIDs,
  strand,   \* the edge operations in progress, with their registers
  cache     \* the destinations of a CSC round in progress, with their caches

vars == <<pc, GA, Frontier, mode, todo, v1, IDs, prevIDs, strand, cache>>

\* wrong variant: labels numbered from 1
Init_FromOne ==
  /\ EngineInit
  /\ Frontier = bits(GA.edges)
  /\ IDs = [v \in Vertex |-> v + 1]
  /\ prevIDs = [v \in Vertex |-> 0]
  /\ strand = {}
  /\ cache = {}

Init ==
  /\ EngineInit
  /\ Frontier = bits(GA.edges)
  /\ IDs = [v \in Vertex |-> v]
  /\ prevIDs = [v \in Vertex |-> 0]
  /\ strand = {}
  /\ cache = {}

\* wrong variant: no vertexMap before edgeMap
Round_NoVertexMap ==
  /\ pc = "loop"
  /\ ~isEmpty
  /\ EnterEdgeMap
  /\ UNCHANGED <<IDs, prevIDs, strand, cache>>

\* One turn of the loop of Compute: vertexMap copies the labels of the
\* frontier, then edgeMap is entered.
Round ==
  /\ pc = "loop"
  /\ ~isEmpty
  /\ prevIDs' = [v \in Vertex |-> IF v \in Active THEN IDs[v] ELSE prevIDs[v]]
  /\ EnterEdgeMap
  /\ UNCHANGED <<IDs, strand, cache>>

-----------------------------------------------------------------------------
(***************************************************************************)
(* Edge operations that work on IDs directly: update in COO partitions and *)
(* updateAtomic everywhere else.                                           *)
(***************************************************************************)
running == {st.e : st \in strand}

\* origID = IDs[d]
ReadDestination(job) ==
  LET e == job[2] IN
  /\ ~ByDestination
  /\ Take(job)
  /\ Free(e, running)
  /\ strand' = strand \union
                 {[k |-> job[1], e |-> e, at |-> "source",
                   origID |-> IDs[dst(e)], b |-> IDs[dst(e)]]}
  /\ UNCHANGED <<pc, GA, Frontier, mode, v1, IDs, prevIDs, cache>>

\* b = IDs[s]
ReadSource(st) ==
  /\ st \in strand
  /\ st.at = "source"
  /\ strand' = (strand \ {st}) \union
                 {[st EXCEPT !.at = "write", !.b = IDs[src(st.e)]]}
  /\ UNCHANGED <<pc, GA, Frontier, mode, todo, v1, IDs, prevIDs, cache>>

\* wrong variant: compares with the previous label of the source
Store_MarksBySource(st) ==
  LET d == dst(st.e) IN
  /\ st.b < st.origID
  /\ IDs' = [IDs EXCEPT ![d] = st.b]
  /\ v1' = IF st.origID = prevIDs[src(st.e)] THEN Marked(d) ELSE v1

\* update: the comparison uses b; the store may reload IDs[s].
Store(st) ==
  LET d == dst(st.e) IN
  /\ st.b < st.origID
  /\ \E c \in {st.b, IDs[src(st.e)]} :
       IDs' = [IDs EXCEPT ![d] = IF c < st.origID THEN c ELSE st.origID]
  /\ v1' = IF st.origID = prevIDs[d] THEN Marked(d) ELSE v1

\* updateAtomic: writeMin reports success when it lowered IDs[d].
WriteMin(st) ==
  LET d == dst(st.e) IN
  /\ st.b < IDs[d]
  /\ IDs' = [IDs EXCEPT ![d] = st.b]
  /\ v1' = IF st.origID = prevIDs[d] THEN Marked(d) ELSE v1

\* wrong variant: an equal label counts as a change
Keep_MarksEqual(st) ==
  /\ st.b >= IDs[dst(st.e)]
  /\ v1' = IF st.b = IDs[dst(st.e)] THEN Marked(dst(st.e)) ELSE v1
  /\ UNCHANGED IDs

\* The edge lowers nothing.
Keep(st) ==
  /\ IF Atomic THEN st.b >= IDs[dst(st.e)] ELSE st.b >= st.origID
  /\ UNCHANGED <<IDs, v1>>

Write(st) ==
  /\ st \in strand
  /\ st.at = "write"
  /\ \/ Atomic /\ WriteMin(st)
     \/ ~Atomic /\ Store(st)
     \/ Keep(st)
  /\ strand' = strand \ {st}
  /\ UNCHANGED <<pc, GA, Frontier, mode, todo, prevIDs, cache>>

-----------------------------------------------------------------------------
(***************************************************************************)
(* CSC rounds of a graph partitioned by destination.  A destination none   *)
(* of whose in-edges has an active source creates and commits its cache    *)
(* without a change; it is left out.                                       *)
(***************************************************************************)
cached == {c.d : c \in cache}

CreateCache(v) ==
  /\ pc = "edges" /\ ByDestination
  /\ v \notin cached
  /\ \A c \in cache : CscPart[c.d] # CscPart[v]
  /\ \E job \in todo : dst(job[2]) = v
  /\ cache' = cache \union {[d |-> v, ID_d |-> IDs[v], prevID_d |-> prevIDs[v]]}
  /\ UNCHANGED <<pc, GA, Frontier, mode, todo, v1, IDs, prevIDs, strand>>

CachedUpdate(c, job) ==
  LET p == prevIDs[src(job[2])] IN
  /\ ByDestination
  /\ c \in cache
  /\ Take(job)
  /\ dst(job[2]) = c.d
  /\ cache' = (cache \ {c}) \union
                {[c EXCEPT !.ID_d = IF p < c.ID_d THEN p ELSE c.ID_d]}
  /\ v1' = IF p < c.ID_d /\ c.ID_d = c.prevID_d THEN Marked(c.d) ELSE v1
  /\ UNCHANGED <<pc, GA, Frontier, mode, IDs, prevIDs, strand>>

CommitCache(c) ==
  /\ c \in cache
  /\ \A job \in todo : dst(job[2]) # c.d
  /\ IDs' = [IDs EXCEPT ![c.d] = c.ID_d]
  /\ cache' = cache \ {c}
  /\ UNCHANGED <<pc, GA, Frontier, mode, todo, v1, prevIDs, strand>>

-----------------------------------------------------------------------------
\* wrong variant: the round ends before its strands have joined
Return_NoJoin ==
  /\ cache = {}
  /\ ReturnFromEdgeMap
  /\ UNCHANGED <<IDs, prevIDs, strand, cache>>

Return ==
  /\ strand = {} /\ cache = {}
  /\ ReturnFromEdgeMap
  /\ UNCHANGED <<IDs, prevIDs, strand, cache>>

Done ==
  /\ Finish
  /\ UNCHANGED <<IDs, prevIDs, strand, cache>>

\* Compute has returned, or the program has called abort().
Stopped ==
  /\ pc \in {"done", "abort"}
  /\ UNCHANGED vars

Next ==
  \/ Round
  \/ \E job \in todo : ReadDestination(job)
  \/ \E st \in strand : ReadSource(st) \/ Write(st)
  \/ \E v \in Vertex : CreateCache(v)
  \/ \E c \in cache, job \in todo : CachedUpdate(c, job)
  \/ \E c \in cache : CommitCache(c)
  \/ Return
  \/ Done
  \/ Stopped

Spec == Init /\ [][Next]_vars

\* Every strand of a fork/join region is eventually scheduled.
FairSpec == Spec /\ WF_vars(Next)
-----------------------------------------------------------------------------
(***************************************************************************)
(* The types of the arrays and registers.  Labels stay vertex numbers, the *)
(* jobs in progress are edges of the graph, and no partition runs two      *)
(* strands.                                                                *)
(***************************************************************************)
TypeOK ==
  /\ EngineTypeOK
  /\ IDs \in [Vertex -> Vertex]
  /\ prevIDs \in [Vertex -> Vertex]
  /\ strand \subseteq [k : Nat, e : GA.edges, at : {"source", "write"},
                       origID : Vertex, b : Vertex]
  /\ cache \subseteq [d : Vertex, ID_d : Vertex, prevID_d : Vertex]

(***************************************************************************)
(* The interleaved rounds, in all three traversals, implement MinLabel:    *)
(* each step lowers at most one label, to the number of a vertex that      *)
(* reaches its owner, and Compute returns only when no edge could lower a  *)
(* label any more.                                                         *)
(***************************************************************************)
Abstract == INSTANCE MinLabel WITH
              EdgeSets <- {g.edges : g \in Graphs},
              edges <- GA.edges, label <- IDs, done <- (pc = "done")

RefinesMinLabel == Abstract!Spec

(***************************************************************************)
(* What Components.C computes: when Compute returns, the label of a vertex *)
(* is the smallest number of a vertex that reaches it (on a symmetric      *)
(* graph, the smallest number in its component).                           *)
(***************************************************************************)
Converged ==
  pc = "done" => \A v \in Vertex :
    /\ Reaches(GA.edges, IDs[v], v)
    /\ \A u \in Vertex : Reaches(GA.edges, u, v) => IDs[v] <= u

(***************************************************************************)
(* No lost work between rounds: at the loop head an edge whose destination *)
(* has a larger label than its source still has an active source, so the   *)
(* loop of Compute cannot end (or edgeMap return early) too soon.          *)
(***************************************************************************)
PendingIsActive ==
  pc = "loop" => \A e \in GA.edges : IDs[dst(e)] > IDs[src(e)] => src(e) \in Active

(***************************************************************************)
(* At the loop head the frontier holds exactly the vertices whose label    *)
(* changed in the round: the returns of concurrent update calls neither    *)
(* miss a change nor report one twice under different original labels.     *)
(***************************************************************************)
FrontierIsChanged ==
  pc = "loop" /\ Frontier.rep # "bits"
    => Active = {v \in Vertex : IDs[v] # prevIDs[v]}

\* No step raises a label: a strand never overwrites a smaller label that
\* another strand wrote after it read IDs[d].
LabelsFall == [][\A v \in Vertex : IDs'[v] <= IDs[v]]_vars

-----------------------------------------------------------------------------
(***************************************************************************)
(* The inductive invariant behind these properties.  Between rounds, a     *)
(* vertex outside the frontier has prevIDs up to date and has settled all  *)
(* its out-edges.  Within a round, an edge is settled with respect to the  *)
(* label its source had when the round began, or still in hand: not taken, *)
(* on a strand, or accounted for by a cache that is not committed yet.     *)
(***************************************************************************)
NoCooBySource == ~(GA.source /\ mode = "coo")

Quiet ==
  /\ pc # "edges" => todo = {} /\ strand = {} /\ cache = {} /\ v1 = None
  /\ IF ByDestination THEN strand = {} ELSE cache = {}

LabelInv == \A v \in Vertex : IDs[v] <= v /\ Reaches(GA.edges, IDs[v], v)

LoopInv ==
  pc # "edges" =>
    /\ \A v \in Vertex \ Active : prevIDs[v] = IDs[v]
    /\ \A e \in GA.edges : IDs[dst(e)] <= IDs[src(e)] \/ src(e) \in Active

DoneInv == pc = "done" => Active = {}

InHand(e) ==
  \/ \E job \in todo : job[2] = e
  \/ \E st \in strand : st.e = e
  \/ \E c \in cache : c.d = dst(e) /\ c.ID_d <= prevIDs[src(e)]

Changed(v) ==
  IDs[v] # prevIDs[v] \/ \E c \in cache : c.d = v /\ c.ID_d # prevIDs[v]

RoundInv ==
  pc = "edges" =>
    /\ \A v \in Vertex : IDs[v] <= prevIDs[v] /\ Reaches(GA.edges, prevIDs[v], v)
    /\ \A v \in Vertex : v1[v] > 0 <=> Changed(v)
    /\ \A e \in GA.edges : IDs[dst(e)] <= prevIDs[src(e)] \/ InHand(e)

StrandInv ==
  /\ \A st \in strand :
       LET s == src(st.e)
           d == dst(st.e)
       IN /\ IDs[d] <= st.origID
          /\ st.origID # prevIDs[d] => v1[d] > 0
          /\ ~Atomic => st.origID = IDs[d]
          /\ st.at = "write" => /\ IDs[s] <= st.b /\ st.b <= prevIDs[s]
                               /\ Reaches(GA.edges, st.b, s)
  /\ ~Atomic => \A st1, st2 \in strand : dst(st1.e) = dst(st2.e) => st1 = st2

CacheInv ==
  /\ \A c \in cache : /\ c.prevID_d = prevIDs[c.d]
                      /\ c.ID_d <= IDs[c.d]
                      /\ Reaches(GA.edges, c.ID_d, c.d)
  /\ \A c1, c2 \in cache : c1.d = c2.d => c1 = c2

IInv ==
  /\ TypeOK
  /\ GA \in Graphs
  /\ FrontierInv
  /\ NoCooBySource
  /\ Quiet
  /\ LabelInv
  /\ LoopInv
  /\ DoneInv
  /\ RoundInv
  /\ StrandInv
  /\ CacheInv

\* Compute returns.
Terminates == <>(pc = "done")
=============================================================================
