------------------------------ MODULE EdgeMap ------------------------------
(***************************************************************************)
(* The traversal engine of GraphGrind (graphgrind/ligra-numa.h): the       *)
(* frontier representations of class partitioned_vertices, the choice      *)
(* between the three traversals of edgeMap, the loop over the edges of a   *)
(* round and the join that ends it.  An application module extends this    *)
(* one with its arrays and says what one edge operation does to them.      *)
(*                                                                         *)
(* A round is a fork/join region.  Its work is `todo', the set of jobs     *)
(* <<k, e>>: edge e taken from the k-th occurrence of its source in the    *)
(* frontier.  Jobs run on concurrent strands; the strands of one partition *)
(* of a dense traversal are sequential (the PART96 build iterates inside a *)
(* partition with a plain for), everything else is concurrent.  The order  *)
(* of the edges inside a partition, and of the neighbours of a vertex of a *)
(* sparse traversal, is left open.                                         *)
(***************************************************************************)
EXTENDS Digraph, FiniteSets

CONSTANTS
  Edge,       \* the edges a graph may have: tuples <<source, destination, ..>>
  Graphs,     \* the graphs the program may be started on
  SparseDiv,  \* the applications pass threshold m/20 to edgeMap
  DenseDiv,   \* edgeMap computes denseThreshold = m/2
  CooPart,    \* the partition of each vertex under coo_part
  CscPart     \* the partition of each vertex under csc_part

ASSUME EdgeAssumption == \A e \in Edge : IsEdge(e)

\* source: the graph was partitioned by source vertex (-P source).
\* part_ver: the partitions hold equally many vertices (-v vertex).
ASSUME GraphsAssumption ==
  /\ Graphs \subseteq [edges : SUBSET Edge, source : BOOLEAN, part_ver : BOOLEAN]
  /\ \A g \in Graphs : IsFiniteSet(g.edges)

ASSUME ThresholdAssumption == SparseDiv \in Nat \ {0} /\ DenseDiv \in Nat \ {0}

VARIABLES
  pc,        \* "loop": the loop head of Compute; "edges": inside edgeMap
  GA,        \* the graph with its partitioning flags
  Frontier,  \* the frontier handed to edgeMap
  mode,      \* which of the three traversals is running
  todo,      \* the jobs of this round no strand has taken yet
  v1         \* the output frontier under construction

-----------------------------------------------------------------------------
(***************************************************************************)
(* Frontiers.  copies[v] is how often v occurs in the sparse array s, or   *)
(* the 0/1 entry d[v] of the dense one.  A "bits" frontier stands for all  *)
(* vertices and never fills its array.                                     *)
(***************************************************************************)
None == [v \in Vertex |-> 0]

Slots(copies) == UNION {{v} \X (1 .. copies[v]) : v \in Vertex}

\* d_m: the number of entries, duplicates of a sparse array included.
Count(copies) == Cardinality(Slots(copies))

\* One pair per out-edge of each entry.
OutPairs(copies, edges) ==
  {x \in Slots(copies) \X edges : src(x[2]) = x[1][1]}

\* num_out_edges: the out-degrees of all entries, added up.
OutEdges(copies, edges) == Cardinality(OutPairs(copies, edges))

frontierOf(r, copies, edges) ==
  [rep |-> r, copies |-> copies, numVertices |-> N,
   d_m |-> Count(copies), num_out_edges |-> OutEdges(copies, edges)]

create(v, edges) == frontierOf("sparse", [None EXCEPT ![v] = 1], edges)

empty == [rep |-> "sparse", copies |-> None, numVertices |-> 0,
          d_m |-> 0, num_out_edges |-> 0]

bits(edges) == [rep |-> "bits", copies |-> None, numVertices |-> N,
                d_m |-> N, num_out_edges |-> Cardinality(edges)]

FrontierType == [rep : {"bits", "dense", "sparse"}, copies : [Vertex -> Nat],
                 numVertices : {0, N}, d_m : Nat, num_out_edges : Nat]

\* wrong variant: a frontier of one vertex counts as empty
isEmpty_OffByOne == Frontier.d_m <= 1

isEmpty == Frontier.d_m = 0

Active == IF Frontier.rep = "bits" THEN Vertex
          ELSE {v \in Vertex : Frontier.copies[v] > 0}

\* toSparse packs the dense array and compares what it finds with d_m.
toSparseAborts ==
  /\ Frontier.rep # "sparse"
  /\ Count(Frontier.copies) # Frontier.d_m

-----------------------------------------------------------------------------
(***************************************************************************)
(* Entering edgeMap: the size check, the early return, and the choice of a *)
(* traversal from the size of the frontier and of its out-edges.           *)
(***************************************************************************)
work == Frontier.d_m + Frontier.num_out_edges

GA_m == Cardinality(GA.edges)

\* wrong variant: small and large frontiers exchanged
Mode_Swapped == IF work > GA_m \div SparseDiv THEN "sparse"
                ELSE IF ~GA.part_ver THEN "coo"
                ELSE "csc"

Mode == IF work <= GA_m \div SparseDiv THEN "sparse"
        ELSE IF work > GA_m \div DenseDiv /\ ~GA.part_ver THEN "coo"
        ELSE "csc"

\* A dense traversal meets every edge of an active source once; a sparse one
\* meets it once for each occurrence of the source in the array.
Jobs(md) ==
  IF md = "sparse"
  THEN {<<x[1][2], x[2]>> : x \in OutPairs(Frontier.copies, GA.edges)}
  ELSE {1} \X {e \in GA.edges : src(e) \in Active}

SizesDontMatch ==
  /\ Frontier.numVertices # N
  /\ pc' = "abort"
  /\ UNCHANGED <<GA, Frontier, mode, todo, v1>>

NoOutEdges ==
  /\ Frontier.numVertices = N
  /\ Frontier.num_out_edges = 0
  /\ Frontier' = empty
  /\ UNCHANGED <<pc, GA, mode, todo, v1>>

BadValueOfM ==
  /\ Frontier.numVertices = N
  /\ Frontier.num_out_edges > 0
  /\ Mode = "sparse" /\ toSparseAborts
  /\ pc' = "abort"
  /\ UNCHANGED <<GA, Frontier, mode, todo, v1>>

TraverseOver(jobs) ==
  /\ Frontier.numVertices = N
  /\ Frontier.num_out_edges > 0
  /\ ~(Mode = "sparse" /\ toSparseAborts)
  /\ pc' = "edges"
  /\ mode' = Mode
  /\ todo' = jobs
  /\ v1' = None
  /\ UNCHANGED <<GA, Frontier>>

Traverse == TraverseOver(Jobs(Mode))

EnterEdgeMap == SizesDontMatch \/ NoOutEdges \/ BadValueOfM \/ Traverse

\* Leaving edgeMap once every job is done: the statistics of the output.
ReturnFromEdgeMap ==
  /\ pc = "edges"
  /\ todo = {}
  /\ Frontier' = frontierOf(IF mode = "sparse" THEN "sparse" ELSE "dense",
                            v1, GA.edges)
  /\ pc' = "loop"
  /\ mode' = "none"
  /\ v1' = None
  /\ UNCHANGED <<GA, todo>>

Finish ==
  /\ pc = "loop"
  /\ isEmpty
  /\ pc' = "done"
  /\ UNCHANGED <<GA, Frontier, mode, todo, v1>>

-----------------------------------------------------------------------------
(***************************************************************************)
(* Scheduling.  The job <<k, e>> may start when no strand of its partition *)
(* is running.  A COO edge list holds the edges of a partition of          *)
(* destinations, or of sources with -P source; a CSC range always holds    *)
(* whole destinations; a sparse traversal has no partitions.               *)
(***************************************************************************)
\* wrong variant: COO lists grouped by source, with the same plain update
PartOf_BySource(e) == IF mode = "coo" THEN CooPart[src(e)] ELSE CscPart[dst(e)]

PartOf(e) == IF mode = "coo"
             THEN CooPart[IF GA.source THEN src(e) ELSE dst(e)]
             ELSE CscPart[dst(e)]

Free(e, running) == mode = "sparse" \/ \A f \in running : PartOf(f) # PartOf(e)

\* CSC on a graph partitioned by destination keeps the destination in a cache
\* or runs it on one strand; all other traversals work edge by edge.
ByDestination == mode = "csc" /\ ~GA.source

\* COO partitions call update, the others updateAtomic.
Atomic == mode = "sparse" \/ (mode = "csc" /\ GA.source)

Take(job) ==
  /\ pc = "edges"
  /\ job \in todo
  /\ todo' = todo \ {job}

\* next[d] = 1 in a dense traversal, one more entry in a sparse one.
Marked(d) == [v1 EXCEPT ![d] = IF mode = "sparse" THEN @ + 1 ELSE 1]

\* The application's Init chooses the first Frontier.
EngineInit ==
  /\ GA \in Graphs
  /\ pc = "loop"
  /\ mode = "none"
  /\ todo = {}
  /\ v1 = None

EngineTypeOK ==
  /\ pc \in {"loop", "edges", "done", "abort"}
  /\ GA \in [edges : SUBSET Edge, source : BOOLEAN, part_ver : BOOLEAN]
  /\ Frontier \in FrontierType
  /\ mode \in {"none", "coo", "csc", "sparse"}
  /\ todo \subseteq Nat \X GA.edges
  /\ v1 \in [Vertex -> Nat]

\* What a frontier records about its entries is up to date.
FrontierInv ==
  /\ IF Frontier.rep = "bits"
     THEN /\ Frontier.copies = None
          /\ Frontier.d_m = N
          /\ Frontier.num_out_edges = Cardinality(GA.edges)
     ELSE /\ Frontier.d_m = Count(Frontier.copies)
          /\ Frontier.num_out_edges = OutEdges(Frontier.copies, GA.edges)
  /\ Frontier.d_m > 0 => Frontier.numVertices = N

(***************************************************************************)
(* edgeMap never aborts: the frontier it is given has the size of the      *)
(* graph, and toSparse never finds another number of vertices in the array *)
(* than the frontier recorded (a "bits" frontier has an array nobody       *)
(* filled, so it must never be sent to the sparse traversal).              *)
(***************************************************************************)
NoAbort == pc # "abort"

=============================================================================
