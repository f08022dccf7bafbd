# TLA+ models and proofs for GraphGrind

GraphGrind is a shared-memory graph-analytics framework in the style of Ligra:
an application describes what one edge does to the arrays of the program, and
the framework applies it, in parallel, to the out-edges of a *frontier* of
active vertices, round after round. The framework adds graph partitioning, so
that dense rounds can run without atomic operations, and three traversals
among which it chooses for every round.

The build modelled is that of `app/Makefile`: `CILK=1 NUMA=1 PART96=1`, `LONG`
vertex numbers.

## 1. Inventory

### 1.1 Parts, their state and their operations

| Part | Code | State | Operations |
| --- | --- | --- | --- |
| Traversal engine | `graphgrind/ligra-numa.h` 350-1019 | none of its own between calls; inside a call the frontier under construction | `edgeMap` (size check, early return, choice of the traversal), `edgeMapDense` (COO lists), `edgeMapDenseCSC`, `edgeMapSparseWithG`, `vertexMap`, `vertexFilter` |
| Frontiers | `ligra-numa.h` 91-272 | dense array `d`, sparse array `s`, `d_m`, `num_out_edges`, `numVertices`, `bit` | `create`, `empty`, `dense`, `sparse`, `bits`, `toDense`, `toSparse`, `isEmpty`, `del` |
| Components | `app/Components.C` | `IDs`, `prevIDs` | `Compute`, `update`, `updateAtomic`, the cached update |
| Bellman-Ford | `app/BellmanFord.C` | `ShortestPathLen`, `Visited`, `round` | the same |
| BFS | `app/BFS.C` | `Parents` | `Compute`, `update`, `updateAtomic`, `cond` |
| BC | `app/BC.C` | `NumPaths`, `Visited`, `Levels`, `Dependencies` | forward phase, `transpose`, backward phase |
| PageRank and relatives, SPMV | `app/PageRank*.C`, `SPMV.C` | two vectors that change places, `Delta`, `p` | loops with a fixed, an output or a filtered frontier; the additions along the edges |
| BP | `app/BP.C` | messages per edge | not modelled, section 7 |
| Partitioning | `graphgrind/graph-numa.h` | partition sizes, COO lists, the CSC graph, `transposed` | `partitionByDegree`, `partitionByVertex`, `transpose` |
| Partition loops | `graphgrind/partitioner.h` | `partition`, `starts`, `num_per_node` | `compute_starts`, `partition_of`, `map_partitionL`, `map_vertexL` |
| Sequences and atomics | `graphgrind/utils.h` | none | `reduce`, `scan`, `pack`, `filter`; `CAS`, `writeMin`, `writeAdd` |
| Graph input | `graphgrind/IO.h`, `quickSort.h` | offsets, edges, weights | `readGraphFromFile`, `readGraphFromGalois`, the transposition on the fly |
| Memory | `graphgrind/mm.h` | mappings | `local_allocate`, `part_allocate`, `del` |
| Counters, command line | `papi_code.h`, `reuse.h`, `parseCommandLine.h` | event sets, flags | the worker barrier |
| VEBO | `graphtools/VEBO.C` | loads of the partitions, the new order | placement, renumbering |
| Hash table | `graphtools/deterministicHash.h` | slots | `insert`, `deleteVal`, `find`, `count`, `entries` |
| Converters | `graphtools/*.C`, `graphIO.h`, `graphUtils.h`, `IO.h`, `sequence.h` | files | an edge list to an adjacency file, transposed, binary, weighted, and back |
| Vendored | `cilk-swan/`, `graphtools/cilkpub_v105/` | | the Cilk runtime |

### 1.2 How they interact

`parallel_main` reads the graph, partitions it and calls `Compute` of the
application. `Compute` is a sequential loop: it calls `vertexMap` and `edgeMap`
and hands the frontier that `edgeMap` returns to the next turn. A call of
`edgeMap` is a fork/join region: its strands call back into the functor of the
application (`cond`, `update`, `updateAtomic`, `create_cache`, `update` on the
cache, `commit_cache`), which reads and writes the arrays all strands share.
Nothing persists and nothing is sent; the hard behaviour is the interleaving of
the strands inside a round and what a round hands over to the next one.

### 1.3 What is hard, and what makes each part correct

* **Interleaving inside a round.** `update` is a plain read-compare-store. It is
  correct only while no two strands of the round work on the same destination,
  which is a property of the partitioning, not of the functor. `updateAtomic`
  and the cached form have races of another kind: a label read before the CAS,
  a cache that is published while others read the old value.
* **Hand-over between rounds.** The frontier must contain every vertex with
  work left, its statistics must be those of its entries (they choose the next
  traversal, and `toSparse` aborts on a mismatch), and the arrays read as
  "previous" values (`prevIDs`, `Visited`) must be up to date.
* **Early returns.** `edgeMap` returns `empty()`, with `numVertices` 0, when no
  active vertex has an out-edge; a further `edgeMap` on it aborts.
* **Boundaries.** The round counter of Bellman-Ford; partition counts that do
  not divide evenly; empty frontiers; vertices without edges.

The properties: Components returns the minimal label that reaches each vertex,
labels only fall, no pending edge is dropped between rounds; Bellman-Ford
returns shortest lengths and reports a negative cycle exactly when there is
one; BFS proceeds level by level and returns a shortest-path tree; BC counts the
shortest paths and returns the scores of the definition. Components,
Bellman-Ford, the PageRank loops and the phases of the hash table are checked to
return, and the engine never aborts under Components. The partitions cover the vertices, every loop over them
visits each vertex once, and each is as large as its rule says; each COO list
holds the edges of its range, each once. VEBO places the vertices evenly and the
cuts find its partitions again. The PageRank loops compute the iteration and
free every frontier once. The hash table depends on its keys only. What is
loaded from a file has the edges, and the weights, of the list the file was made
of. `PROJECT.json` lists the hazards at their
lines, with the properties that cover them.

The graph tools and the framework share nothing but files. Their hard part is
one of boundaries (blocks of a scan, vertices without edges, padding, the last
partition), and of agreement: VEBO expresses its partitions by the order of the
vertices alone, and graphgrind has to find them again. The hash table is the one
part of the tools whose strands really meet.

## 2. Modules

| Module | What it models |
| --- | --- |
| `Digraph` | Vertices, edges, successors, reachability |
| `EdgeMap` | The engine: frontiers with their statistics, entering and leaving `edgeMap`, the jobs of a round and which may run together |
| `MinLabel` | Abstract: labels fall to numbers of vertices that reach their owner, until stable |
| `Components` | `EdgeMap` with `IDs`, `prevIDs` and the edge operations of Components; refines `MinLabel` |
| `BellmanFord` | `EdgeMap` with lengths, `Visited` and the round counter |
| `LevelBFS` | Abstract: one level per step |
| `BFS` | `EdgeMap` with `Parents`; refines `LevelBFS` |
| `BC` | `EdgeMap` with `NumPaths`, `Visited`, `Levels` and `Dependencies`, and the transposed graph; the forward phase refines `LevelBFS` |
| `PageRank` | `EdgeMap` with the loops and arrays of PageRank, PageRankBit, PageRankDelta, PageRankConverage and SPMV |
| `FrontierMemory` | `PageRank` with the arrays behind the frontiers: allocated, shared, freed, lost |
| `Partitioner` | The construction of a `partitioned_graph`: sizes, start positions, what the loops over partitions visit, and lists for which there is no memory |
| `VEBO` | The reordering, in front of `Partitioner` |
| `COOLists` | `VEBO` and `Partitioner` with the COO lists they end in, and the Hilbert curve |
| `PhaseSet` | Abstract: a set of keys under phases of overlapping insertions or deletions |
| `HashTable` | The deterministic hash table, one memory access per step; refines `PhaseSet` |
| `Sequence`, `QuickSort`, `TextFiles` | `reduce`, `scan`, `pack`, `filter` in blocks; the parallel sort; text in blocks and back |
| `GraphFiles` | The converters and the readers, one action per program or part of a reader |
| `Lemmas` | What the proofs share: induction, recursive functions, finite sums, and the facts about `EdgeMap` |
| `Components_proofs`, `BFS_proofs`, `BellmanFord_proofs`, `BC_proofs`, `PageRank_proofs`, `HashTable_proofs`, `COOLists_proofs` | Lemmas and theorems about the module of that name; `Components_proofs` about `MinLabel`, `PageRank_proofs` about `FrontierMemory` and `COOLists_proofs` about `Partitioner` and `VEBO` too |
| `MCComponents`, `MCBellmanFord`, `MCBFS`, `MCBC`, `MCPageRank`, `MCPartitioner`, `MCHash`, `MCGraphFiles` | Finite instances |

### 2.1 The engine and its applications

`EdgeMap` is not run alone: an application module EXTENDS it, adds its arrays
and defines `Next`. The program counter `pc` is that of `Compute`: `"loop"` at
the head of its loop, `"edges"` inside the fork/join region of `edgeMap`,
`"done"` after it returned, `"abort"` after a call of `abort()`.

*Frontiers.* A frontier is a record with the fields of `partitioned_vertices`
that matter. `copies[v]` is how often `v` occurs in the sparse array, or its
0/1 entry in the dense one: the sparse traversal calls `edgeMap` without
removing duplicates, and Components really produces them. `d_m` and
`num_out_edges` are stored, as in the code, not recomputed when they are read.

*Entering.* `EnterEdgeMap` has one disjunct per way through the head of the
function. The applications pass `m/20` as sparse threshold, and the dense one is
`m/2`. On graphs of a handful of edges these round to 0 and 3 or less, which
would never reach a sparse round: the divisors are the constants `SparseDiv`
and `DenseDiv`, and the runs choose them so that all three traversals occur.
The proofs hold for every pair of divisors, 20 and 2 included.

*A round.* `Traverse` computes the jobs of the round, one for each edge of each
frontier entry. The jobs may be taken in any order, subject to `Free`: two
strands never run in one partition of a dense round. This is where
partitioning meets correctness: `PartOf` groups a COO list by destination, or
by source with `-P source`; the CSC ranges always hold whole destinations.
`Return` is the join: it is enabled when all jobs are done and no strand is
left. Between dense partitions, and in sparse rounds, every interleaving is
explored. The order of the edges in a partition is open too, which covers every
order of the lists (CSR, CSC or Hilbert).

*Granularity.* Reads and writes of shared arrays are separate steps; registers
of a strand are the fields of a record in `strand`. `writeMin` and a CAS are
one atomic step each. In `update` of Components the compiler may reload
`IDs[s]` for the store after it was compared, so the stored value is either of
the two reads.

*Caches.* A CSC round of a graph partitioned by destination runs a partition on
one strand, which keeps the destination in a cache: `CreateCache`,
`CachedUpdate` for each active in-neighbour, `CommitCache`. BFS has
`use_cache = false`; there, the strand breaks out of the loop at the first
neighbour that claims the vertex (`Pull`).

*Two phases.* `BC` runs the same engine twice. `phase` tells which of the two
loops of `Compute` the program counter belongs to; `transposed` is the flag of
the graph. `transpose()` turns some representations of the edges and not others,
so `BC` hands `TraverseOver` the jobs of `WalkedEdges`: what each of the three
traversals really walks. The floats of the code are multiples of `1/Unit`
(12 is divisible by every number of paths that occurs), and the sum at a vertex is
taken by a CAS loop that may fail and retry. The score is compared with its
definition by pairs of vertices, not with the recursion the code implements.

*Sums.* The programs of `PageRank` differ in what follows `edgeMap`: `Tail`,
`TailDelta`, `TailConverage` and `TailSPMV` are the rest of their loops, in the
action that ends the round, since it is sequential code between two joins. The
numbers are counted in units that the divisions of the rounds divide, so equality
with the iteration (`Iterated`, by its equation and not by edges) is exact;
`DivisionsAreExact` names this hypothesis (section 4.5). `dropped` is a history
variable: what the filter of PageRankDelta has not passed on, so far.
`vertexMap` over a sparse frontier with duplicates applies its function to a
vertex several times, at once: `Applied` allows every number of times that
counts.

*Frontier memory.* A `partitioned_vertices` is copied by value while `d` and `s`
stay shared. `FrontierMemory` gives each block the name of its allocation and
its round, follows the copies (`held` of the loop, `local` of `edgeMap`,
`output`, `All`) and records in `stray` what is freed without being allocated.

### 2.2 The partitioner, VEBO and the COO lists

`Partitioner` is a sequential loop with one action per turn. Its hard part is
memory: `partitionByDegree` looks at `degrees[i+1]` behind the array, whose value
is any member of `Garbage`, and its counter may leave the arrays; the model then
stops in `"overrun"`, since what the program does next depends on what lies
there. A failed assertion is `"abort"` (the Makefile does not define `NDEBUG`). A
list without edges asks `mmap` for 0 bytes, which it refuses, and the program
stops in `"exit"`. The properties about ranges speak of constructions that end
in `"ready"`; `ExitsForAReason` says when they do not for want of edges. (`-o` and
`-P source` are independent options; together they cut where the in-degree rises
and fill the lists with out-edges, so that any list may be empty.)

`VEBO` runs before: its three loops (`stage` "assign", "zero", "fill") place,
fill up and renumber, and the graph they write is the input `g` of
`Partitioner`, which cuts it with `-o`. Neither tool tells the other where the
partitions are; `CutsAreVebos` says that they agree. `COOLists` then fills the
list of each partition that the loops visit.

### 2.3 The hash table

`PhaseSet` promises a set: the operations of a phase overlap, each takes effect
at one instant. `HashTable` executes `insert` and `deleteVal` one read or CAS of
a slot per step, `at` being the place in the code. A slot that is written
between two reads of a strand is seen by it. The contents of `PhaseSet` are the
keys in the table or in the hand of a strand that has displaced them. Insertions
overlap; deletions run one after the other, as the header of the file asks
(`deterministicHash.h:39-42`, "Deletions must happen sequentially").

### 2.4 Files

The actions of `GraphFiles` are the programs `SNAPtoAdj`, `adjTranspose`,
`adjToGalois`, `GaloisToadj`, `addAdjWeights`/`addGaloisWeights`,
`adjToEdgeArray`, and the parts of the readers of graphgrind. They work on arrays
(functions on `0 .. m-1`) and run in every order in which one produces what the
other reads. Their parallel loops write different elements, so each is one
definition; the order of the elements that a hash table returns is a parameter.
The scans are those of `Sequence`, cut into blocks on every level of their
recursion; a file is text when `TextIsReadBack` looks at it: a character is a
number, a digit in base `Radix`.

### 2.5 Correspondence

`PROJECT.json` maps every definition that models code to its lines. Definitions
marked *wrong variant* in a comment are deliberate mistakes: each property of a
run has one that it rejects when it replaces the right definition.

## 3. Runs

| Run | What it shows | States |
| --- | --- | --- |
| `components` | All interleavings of all traversals on all loop-free directed graphs on 3 vertices, partitioned by destination under `-v edge` and `-v vertex`, and by source under `-v vertex`, and on a graph of 6 vertices whose sparse rounds have two active sources in front of one vertex, so that frontiers hold duplicates: result, hand-over between rounds, no abort, refinement of `MinLabel` (so labels only fall, to numbers that reach their owner), termination | 57 538 |
| `components_source` | **Fails.** COO lists grouped by source: see section 6 | |
| `bellman_ford` | 4 vertices: graphs on three of them with up to five edges of weights -1 and 2 (negative cycles of length 2, detours that pay off late), all subsets of 8 edges with cycles of either sign and a negative self-loop, and graphs with sparse rounds in which two strands relax one vertex: result, round bound, hand-over, each vertex once in a frontier, termination | 684 216 |
| `bfs` | 5 vertices, 512 graphs, all four partitionings: the result is a tree of shortest paths to all that can be reached, no duplicates, refinement of `LevelBFS` | 50 090 |
| `bc` | 5 vertices, undirected graphs under three partitionings and directed ones, with and without dead ends: path counts, the scores that the stale out-degrees of the stored levels leave, refinement of `LevelBFS` by the forward phase | 108 253 |
| `bc_dead_end` | **Fails.** Betweenness when the last level has no out-edge: section 6 | |
| `bc_transposed` | **Fails.** The traversals of the transposed graph: section 6 | |
| `pagerank` | The five programs on all graphs with edges from a set of five on 3 vertices, on two graphs with loops and on one whose sparse rounds add to one rank at a time and hold duplicates: the ranks are those of the iteration, what PageRankDelta drops stays small, SPMV multiplies, an abort needs a graph without cycles, no array of a frontier is freed twice or while it is read, only conversions lose arrays, termination | 109 912 |
| `partitioner` | All sequences of in-degrees up to 4 of up to 4 vertices on 1 to 3 partitions, of 6 vertices up to 2 on 4 partitions and 2 nodes, of 4 vertices up to 2 with nodes that do not divide the partitions (3 on 2, 5 on 3, 1 on 2), in- and out-degrees with `-P source`, alone and with `-o`; with and without `-v vertex` and `-o`. Graphs of 5 vertices with in-degrees up to 3, and of 8 and 9 with one or two of degree 6, reordered by VEBO and cut with `-o`; graphs of 4 vertices with their lists, also on 3 partitions and 2 nodes: the ranges tile, each element is visited once or, in a partition left over, never, edges are balanced, cuts lie where degrees rise and where VEBO put them, the placement is balanced and carried out, each edge of a visited partition is in one list, with the other edges into its destination, lists follow the curve, and the program gives up only on a list without edges | 391 579 |
| `hash` | 3 strands, 3 keys with 2 data each in 8 slots, one cluster that wraps around the end and two that run into each other, with and without replacement: a loop of insertions and then a loop of either kind: the table is determined by its keys, what is held is found, one insertion per key returns true, the greatest data stays, refinement of `PhaseSet` (so what is deleted is gone), termination | 491 986 |
| `graph_files` | All lists of up to 3 edges on 3 vertices, loops and repetitions included, and 243 lists of 6 edges on 5 vertices, through every chain of tools into every reader: out-edges, in-edges, weights, text, the count of the first frontier, and which lists are refused | 84 565 |
| `graph_files_transpose` | **Fails.** The transposition on the fly of adjacency files: section 6 | |

A property of a run is often a conjunction of named parts: `ShortestPathTree`,
`CutsAreRight`, `PlacementIsRight`, `ListsAreRight`, `AnswersAreRight`, `LoadedAsListed`
and `ResultsAreRight` each say one thing in several sentences. Every module states
its type invariant (`TypeOK`, `VTypeOK` of `VEBO`) and it holds on the instances
below; that of Components is listed in its run, and those of Components,
Bellman-Ford, PageRank and the hash table are proved.

`MinLabel` and `LevelBFS` have no run of their own: `components`, `bfs` and `bc` check
that they are implemented, and what `MinLabel` promises is proved (section 4.1).

*Bounds.* Three vertices and all graphs suffice for two racing strands into a
vertex plus a third that reads it, and for a label that goes round a cycle; a
fourth or fifth vertex is needed for a sparse frontier with two entries in
front of the same vertex, which is what the runs with chosen graphs are for.
`Infinity` is 100, larger than any length in the graphs; `intT` overflow is
therefore outside these runs (the code uses INT_MAX/2 in 64-bit integers). Every
vertex is its own partition: a coarser partitioning only removes interleavings.
The run `bc` has up to three shortest paths to one vertex, which is what a lost
or doubled addition needs; its graphs leave out the shapes of `bc_transposed`.
Partition counts reach from one to more than there are vertices, and `Garbage`
holds a value below, near and far above every average. Graphs without edges are
left out of the applications: the constructor of the whole graph exits on them.
A NUMA build gets no list without edges either, and one partition per edge
destination is the finest partitioning that loads. VEBO prints `check[1]` to
`check[4]` and so needs 5 vertices. `BSIZE` 2 and lists of up to 6 numbers give a
scan three levels; `ISORT` 3 makes six edges take two partitions of the sort;
`Radix` 3 has numbers of several digits and `Chunk` 5 writes of several blocks.
Three strands and a cluster of three keys let an insertion be displaced twice;
`m` is at least twice the number of keys, which is what `Table` allocates.
`MaxIter` is 4 and `Epsilon` is such that both ways out of the loops occur; the
thresholds are chosen so that PageRank gets to sparse rounds.

*Fairness.* `FairSpec` of `Components` and `BellmanFord`, `MFairSpec`, and `Spec` of
`HashTable` add weak fairness of their `Next`: the Cilk scheduler keeps
running some strand while one is ready, and a parallel loop returns when its
strands did. Nothing stronger is used: no strand is assumed to overtake others,
and termination holds for whichever is run. `Stopped` lets a finished program
stutter, so deadlock stays checked in all runs: no strand ever waits for
something that cannot happen.

## 4. Proofs

All theorems hold for every number of vertices, every set of graphs and
partitionings and every pair of thresholds; their hypotheses are named in the
theorems and explained here. `Lemmas` holds the facts about the engine
the applications share: `d_m` and `num_out_edges` are zero only for a frontier
without entries or without out-edges (a counting argument about finite sets), a
frontier made by `frontierOf` satisfies `FrontierInv`, the jobs of a round cover
the out-edges of the active vertices in all three traversals, and entering never
aborts.

The hypothesis of `Components`, `BellmanFord`, `BC` and the results of `PageRank` is

    SafelyPartitioned == \A g \in Graphs : g.source => g.part_ver

which says that a graph partitioned by source never takes the COO traversal
(`components_source` shows it is needed). BFS does without it.

*Induction.* The library's induction theorems take a predicate, which the
provers cannot instantiate. `Lemmas` states them for sets instead: a set of
numbers that holds 0 and the successors of its members holds all numbers, a set
of vertices that is closed under the edges and holds `u` holds what `u` reaches.
Recursive functions (`Walks`, `Ball`, the sums of `FiniteSetsExt`) are choices of
a function that satisfies an equation; `RecursionExists` shows that there is
one, and everything else about them follows from the equation. Sums over finite
sets get the lemmas one expects (`TotalAdd`, `TotalExchange`, ...), by
induction on the subsets.

### 4.1 Components

The end of `Components_proofs` proves the abstract specification, `MinLabel`: a
label always reaches its owner (`AbstractLabelsReach`), and a declared labelling
is minimal (`DeclaredLabelsAreMinimal`). The argument for minimality is that
the vertices whose label is at most `u` are closed under the edges and contain
`u`, so they contain all that `u` reaches (`StableIsMinimum`).

None of the properties of `Components` is inductive. The strengthening `IInv`,
defined in `Components` and checked by TLC before it was proved, says in short:

* *between rounds* (`LoopInv`): a vertex outside the frontier has
  `prevIDs = IDs` and no out-edge that could lower a label;
* *within a round* (`RoundInv`): every edge is settled with respect to
  `prevIDs` of its source, or still in hand (not taken, on a strand, or in a
  cache not committed yet); a vertex is marked in the output exactly when its
  label, or the label in its cache, differs from `prevIDs`;
* *of each strand* (`StrandInv`): the label of the destination has not risen
  since it was read, a register that differs from `prevIDs` belongs to a
  vertex that is marked already, and in the plain update the label cannot have
  changed at all, since no other strand has the same destination;
* *of each cache* (`CacheInv`): it is at most the label, and reaches its owner.

There is one lemma per action (`RoundStep`, `ReadDestinationStep`, ...,
`CommitCacheStep`). The theorems follow: `TypeCorrect`, `ComponentsAreMinimal`,
`NoWorkIsLost`, `FrontierIsExact`, `EdgeMapNeverAborts`, `LabelsOnlyFall` and the
refinement `ComponentsImplementMinLabel`.

### 4.2 Breadth-first search

`IInv` of `BFS` says where a round is: the vertices with a parent that were not
claimed in this round are those at most `level` edges away, and the active
ones those at that distance (`LevelInv`). A vertex that was claimed is marked once
(`MarkInv`) and lies behind an active one; an edge of an active vertex is settled,
because its destination has a parent, or still in hand (`RoundInv`). A
strand that is about to store competes with strands of the same round only
(`HandInv`): with `-P source` two of them may store into one vertex, but any
of them stores a parent of the right level, which is why this program needs
no hypothesis. Parents are one level above their children
(`ParentsAreShortest`). The theorems are `OutputHasNoDuplicates`,
`SearchNeverAborts`, `ParentsAreShortestPaths` and `ImplementsLevelBFS`.

### 4.3 Bellman-Ford

The upper bound (`RoundsBoundTheLengths`) says that at the head of round `k` no
length exceeds that of the shortest walk with at most `k` edges, the lower one
(`Achieved`) that each length is that of some walk. `Achieved` quantifies over
the sets of pairs that hold all walks, so TLC cannot evaluate it; all other
conjuncts of `IInv` were checked by TLC first. As in Components an edge that
could lower a length is in hand (`RelaxInv`), a vertex whose length has fallen
is marked (`MarkInv`), and the plain relaxation of a strand has seen the current
length (`StrandInv`, `CacheInv`). `ReachInv` says which lengths are below `Infinity`, and `FixInv` that without a
negative cycle none falls below `Walks[N-1]`, so that the last round finds nothing to lower.
`LengthsAreShortest` then has two cases: the loop ends because nothing is active,
where lengths that no edge can lower are those of all longer walks too
(`StableIsShortest`), or because `round = N`, where `FixInv` leaves only the
negative cycle. The other theorems are `TypeCorrect`, `RelaxationNeverAborts`
and `NoRelaxationIsForgotten`.

### 4.4 Betweenness centrality

`RoundInv` of `BC_proofs` serves both phases: an edge is *pending* while it is a
job or on a strand, and the sum in the array of a vertex, or in its cache, is
that over the edges which are *taken* (`Gathered`). A round without pending
edges has summed up all edges from the frontier; forward these are the shortest
paths of one more edge (`NextCount`). `LevelsInv` says that the stored levels are
the sets of vertices at one distance with the counts of their storage, which is
why the backward phase never aborts. All vertices are found when a level is
empty, by a pigeonhole argument on the distances (`AllReached`). This gives
`PathsAreCountedRight`, `CountingNeverAborts` and `ImplementsLevelBFS`.

`ScoresAreRight` compares the result with the definition, a sum over pairs of
vertices, while the code implements a recursion by levels. The recursion is
proved from a decomposition of the walks by their first edge (`FirstEdge`), which
gives what the backward rounds gather (`GatherInv`) the form of a sum over all
vertices below; the last sum turns that into shares of shortest paths
(`ShareFacts`, `ScoreIsSum`). A vertex passes on its share (`credit`) if some edge
of the loaded graph starts from its level (`counted`). A level is not counted only
if it is the last (`UncountedAreLast`), and then the round from it is the early
return of `edgeMap` (`LevelsAreCounted`, `SkippedScores`); what is left at a vertex in
the end (`due`) is its own share there and the whole sum elsewhere.
`ScoresAreRight` has two more hypotheses. `Transposable` asks for
graphs that the engine can walk backwards: symmetric ones, or ones with
`-v vertex` in which an edge leads to every vertex that has out-edges
(`bc_transposed` shows what happens otherwise). `ScoresAreBetweennessThen` adds
`NoDeadEnds`, an edge from the end of every edge: then every level is counted and
the scores are the betweenness itself, on all symmetric graphs for one
(`bc_dead_end` shows what happens otherwise). `UnitIsExact` says that the
divisions leave no remainder in the unit of the scores: the code uses floats,
and rounding is not modelled. `PairAssumption` of `BC` concerns names only: that a
pair is not an edge number.

### 4.5 PageRank and its relatives

*Aborts.* `AbortsNeedAcyclicGraph` needs no hypothesis. `AbortInv` has two
parts: in a round the destination of each edge of an active vertex is marked,
unless the edge is still in hand (`MarksInv`); and on a graph with a cycle there
are active vertices of which each has an edge to another one of them
(`CycleInv`). A round marks all of these again, so a frontier always has an
out-edge. The frontiers of the other programs have all `N` as their size.

*Ranks.* `TurnInv` is about one round in which every edge is added once. The
edges into a vertex that are neither a job nor on a strand are those *taken*,
and the entry of the vertex, or its cache, is their sum (`SumInv`); the old
value in the hand of a plain addition is the current one, since no other strand
has the destination (`HandInv`); and a dense round marks exactly the
destinations that have been added to (`DenseMarks`). So a round that has joined
has summed up what its frontier brings, whatever the interleaving. What
`RankInv` says of PageRank then needs that all vertices are active where each
has an in-edge, and of PageRankBit that the frontier of its later rounds is
`BitFrontier`. In PageRankConverage the ranks always add up to `Unit`, so that
the normalisation changes nothing.

PageRankDelta splits the ranks: `Drift` says that `p` is one damped step from
the sum `a` of all that was handed on, that `p` is `a`, the current Deltas and
the sum `S` of what was dropped together, and that it is off the iteration by
`z`. A damped step is linear where its divisions are exact, and it makes the
size of a vector smaller by the damping `d`, since the out-edges of a vertex
share its value. With that a round keeps the size of `z` within `d/(1-d)` of the
size of what was dropped (`DriftArithmetic`), which is `DroppingIsHarmless`.
Where `epsilon2` is 0 nothing is dropped, and `p` is the iteration. This bound
replaced `(count-1) * epsilon2`, which the small instance satisfies, where `d`
is 1/2, but does not follow from the code: what one round drops is missing in
all later ones.

Two hypotheses are needed: `SafelyPartitioned`, and `[]DivisionsAreExact`, which
stands for floats without rounding. It says that the next round of the iteration
and, in PageRankDelta, that of what is handed on divide without a remainder. It
tells of the model's unit and not of the program, so it is no property of a run;
added to the configuration of `pagerank` as an invariant it holds, since `Unit` is
a multiple there of the denominators of that many rounds. No unit does for all rounds of
a loop without a bound; the theorem then speaks of the rounds before the first
remainder.

*Memory.* The steps of `FrontierMemory` are steps of `PageRank`
(`MemoryIsGhost`), so the theorems above hold of it too. `MemoryInv` says that
the live arrays are those of `held`, `All` and `output` and a set of
`Conversions`, which shares none with them, and at the end such a set and at
most one array more (`Left`). An array has the round of its allocation in its
name: `HeldInv` and `OutputInv` tell those of this round and the last one apart.
From this follow `FrontiersAreLive`, that nothing is freed twice or before its
last reading, and `LeaksAreBounded`.

### 4.6 Partitioner

`CutInv` of `Partitioner` says that the sizes written so far add up to the
position of the loop, where the positions are sums (`SizesAddUp`), that the start
positions are the sums of the sizes before them (`Contiguous`), and that a partition was
closed when it had become full, not before (`ClosedWhenFull`). `COOLists_proofs`
proves it for `LSpec`, so with VEBO in front; `NothingIsCut` says that nothing
has been cut until VEBO has written the graph. The theorems are
`RangesFollowEachOther`, `PartitionsAreBalanced`, and `EveryElementIsVisitedOnce`.
The last one says of the partitions left over when the nodes do not share them
evenly that nobody visits their elements (section 6): it holds for every number of
nodes, and under an even division it says that every element is visited.

`ReasonInv` adds what happens with `-o`: partition `p` begins at the `p`-th place
where the in-degree rises (`CutsAtRises`), for the positions of the vertices with
in-edges in the second partitioner as for all vertices in the first. This gives
`CutsAreWhereDegreesRise`. `ExitsHaveReasons` needs it as well: the first vertex
behind a rise has in-edges, so no partition that begins there is empty; and it
needs `NoneEmpty`, that `partitionByDegree` never leaves a partition without
vertices.

### 4.7 VEBO and the COO lists

`PlacementInv` of `VEBO` follows the placement through its phases. Its core is
what each phase has placed of each class of degrees (`Assigning`, `AddingZeros`,
`Filled`), with the sizes and loads being the sums of that (`SizesAgree`,
`LoadsAgree`). The balance is not inductive as it stands: a batch may put many vertices on one
partition at once, and it remains within the largest degree only because the
batch is no larger than the share of the rest that every other partition can
still get. That is `CanCatchUp`: what lies between a load and those below
it is no more than the edges left of the class; at the end of a class this leaves
the loads equal or `Close`. `ZerosEven` says that a partition with vertices of degree 0 is not
larger than another by more than one, which is how the vertices of phase 2 are
placed, and `FirstComeFirst` that a partition with edges has only such partitions
before it. Dealing out is a matter of numbering: the places of a table of
ranges within ranges have the numbers from 0 on, each once (`CellsAreNumbered`, for
`index` by partition and class as for `real` by class and partition), so the new
numbers are a permutation (`PlacesAreNumbered`), and renaming leaves the degrees alone
(`RenamedDegrees`). This is `PlacementsAreRight`. Within a partition degrees fall, so
a rise is the beginning of a partition; with `CutsAtRises` of the cutting
this gives `CutsFindThePartitions`.

`ListsAreMadeRight` has three parts. Sorting by position, source and destination
orders the edges strictly (`SoonerOrders`), so a list holds each edge of its partition once
(`SortMakesLists`), and ranges that tile give each edge one partition
(`EdgesHaveHomes`). `ListInv` of `COOLists` says that the lists stay what they were
made, while the second partitioner is built. The third part is about the curve:
`d2xy`, which the code defines and never calls, says what a Hilbert curve is, and
the positions that `xy2d` sorts by are its inverse. A turn of `d2xy` takes
a point to the square of twice the side, into the quarter that the position
tells, and `xy2d` finds there the same quarter and the same point in it, up to
a shift by whole squares that does not change a position in the square (`SquaresDouble`, `SquaresAreAlike`).
So `d2xy` is undone by `xy2d` (`PointsComeBack`), for every power of 2, and since there are
as many positions as points each undoes the other (`PositionsNumberPoints`). No
list is made for a partition left over, so its edges are in none. `pow2` and the loops of
`xy2d` and `d2xy` are recursive functions, one for each side of a square, since the
provers know no recursive operators.

TLC checked `PlacementInv` and `ListInv` on the instances of `partitioner` before they were proved.

### 4.8 The hash table

Everything rests on what a table *at rest* is: each key is in the place to which
linear probing in the order of the priorities leads, that is, all slots from
that of its hash value up to its own have larger keys (`Passed`, `Sorted`), and no key
occurs twice (`Distinct`). Only one table at rest holds a given set of keys: of the largest
key that two of them hold in different slots, one copy is on the way of the
other (`OneTable`). Since the table has more than twice as many slots as there are
keys (the constructor asks for `100 + 2*size`), no run of full slots goes round it
(`RunsAreShort`), and the comparison of `lessIndex`, which is modulo `m`, tells what is
ahead (`PassersFit`).

During insertions the table is at rest at *every* step, and the keys of the
slots only rise (`InsertKeys`): so what a strand has passed stays passed, whatever
others do (`PassedStays`), and it may write where its swap succeeds (`InsertKey`). The content is
the keys in the table and the displaced ones on their way (`InsertContent`); an
element that is lost was replaced by a greater one of its key or met one
(`LiveStep`); and the returns of 1 are as many as the slots filled (`InsertReturns`).
During a deletion the table is at rest but for the slot the deletion works
on (`Moving`), and no entry between it and the slot under search fits there
(`NoneFits`), which is why moving the one found, or clearing the slot in front of
an empty one, leaves the rest in order (`MoveKey`, `CloseGap`). `IInv` of `HashTable`
collects this; TLC checked it first.

The reference `Canonical` is a recursive function on sets of elements; that it
exists and leaves a table at rest with these elements (`CanonicalFacts`) gives
`OrderIsForgotten` by `OneTable`, and what is said of the recursion in `find`
(`FindsHeld`, `FindsNothing`) gives `AnswersHold`. `TableIsASet` is the refinement of
`PhaseSet`. These three have the hypothesis `~ ConcurrentDeletes`: the comment on
the class asks for sequential deletions (`deterministicHash.h:39-42`), and
without them the properties are false (section 6).

### 4.9 What is only model-checked

* All liveness: the prover does not handle fairness.
* The four invariants of `GraphFiles`. What they say is what recursive definitions
  compute, the loops of the sort and the digits of a number included. That is
  induction over the data.
* That the divisions of PageRank are exact (a hypothesis, see 4.5).
* The type invariants of the modules without a theorem about them.

## 5. Plan

Done: all components that section 7 does not name, and the proofs above. Every
invariant of a passing run but those of `graph_files` is a theorem. For
`GraphFiles` the first step would be lemmas about `quickSort`, by the method of
`xy2d` and `d2xy`: that its partition ends and permutes.

## 6. Where code and comments disagree

`components_source`: with `-P source` (and `-v edge`, the default) a COO list
holds the edges of a range of *sources*. Two partitions may then hold edges
into one vertex, and under `PART96` both use the plain `update`. TLC finds the
graph with the edges 0 -> 2 and 1 -> 2: both strands read label 2 of vertex 2,
the first stores 0, the second stores 1, and no later round has vertex 0 in its
frontier, so `Compute` returns with label 1. The comment above
`edgeMapDenseCSC` (`ligra-numa.h:547`) says that data races are avoided by the
atomic update when partitioning by source; only the CSC traversal does so.
BFS under the same partitioning is checked to be harmless: the race only
decides which parent of the same level a vertex gets.

`bc_transposed`: `transpose()` leaves the COO lists as they are, although `-v edge`
is the default; a dense backward round of a directed graph then walks edges in
the wrong direction. `CSCV` is flipped, but lists the vertices with in-edges of
the loaded graph: once transposed it misses those that had none, such as a start
vertex nothing leads to (`NoWayBack` in `MCBC` alone shows this).

`bc_dead_end`: the backward phase of BC takes its frontiers from `Levels`, whose
`num_out_edges` was counted before the graph was transposed (`BC.C:204-215`). With the
edges 0 -> 1, 1 -> 0 and 1 -> 2 the last level, vertex 2, has no out-edge in the
loaded graph: `edgeMap` returns at once (`ligra-numa.h:947`) and vertex 1 scores 0
instead of 1. `ScoresAreAccumulated` says exactly which paths are missing, and the
run `bc` and `ScoresAreRight` that no other is. A graph where every level has an
out-edge is not affected, nor is an undirected one.

`graph_files_transpose`: without a file of the reverse edges `readGraphFromFile`
transposes the graph itself. It sets `tOffsets[0] = 0` (`graphgrind/IO.h:308`),
where the reader of Galois files has `tOffsets[temp[0].first] = 0` (line 603; the
same line is commented out at 309). If vertex 0 has no in-edges, the first vertex
with in-edges loses its offset and its in-edges go to vertex 0.

Found with the models, without a run of their own:

* *The last partition of partitionByDegree.* Only one of the two tests that
  advance its counter asks whether the last partition is reached, and the other
  reads one degree too many (`graph-numa.h:1335`). The in-degrees 6, 6, 8 on two
  partitions write behind the arrays; with 5, 1, the value behind the array
  decides whether `assert( counter+1 == numOfNode )` (line 1353) fails. With `-o`
  the assertion fails as well when the degree does not rise at a boundary of
  VEBO, as when two of its partitions hold vertices of one degree only.
* *Partitions and nodes.* `-c` takes any number (`README.md:47`), but the loops
  visit `num_partitions / num_numa_node` partitions per node: three partitions on
  two nodes leave the third unvisited, its edges are in no COO list, and with
  fewer partitions than nodes nothing is visited at all. `VisitedOnce` and
  `EachEdgeListedOnce` say exactly which elements and edges are missed. The modules
  about applications take an even division for granted.
* *Empty partitions.* Nor does `-c` work with more partitions than the edges can
  fill: the list of a partition without edges is a mapping of 0 bytes, and
  `local_allocate` exits (`mm.h:132-146`). The default is 384 partitions.
* *The options of -v.* `README.md:48` describes `-v edge` as balancing vertices and
  `-v vertex` as balancing edges; the code does the opposite.
* *PageRank on a graph without cycles.* PageRank and PageRankBit do not test
  `isEmpty`; once no active vertex has an out-edge, `edgeMap` returns `empty()`
  and the next call aborts with "Sizes Don't match" (`ligra-numa.h:937`). And the
  vertices without in-edges leave the frontier of PageRank after the first round,
  so that their ranks are no longer updated: `RanksAreIterated` says where the
  result is the iteration.
* *Frontiers that are lost.* `toDense` and `toSparse` allocate in the copy
  `edgeMap` was given, and PageRank, PageRankDelta and SPMV leave their last
  `output` or `active` allocated (`OnlyConversionsLeak` is exact about it).
* *Overlapping deletions.* A comment in `deleteVal` (`deterministicHash.h:184-187`)
  provides for others that delete copies in the meantime; the header asks for
  sequential deletions (39-42). With `ConcurrentDeletes = TRUE` TLC finds a key
  that comes back: the header is right.
* *VEBO with an overfull partition.* When the greedy phase has put more than its
  share of vertices on a partition, the second phase fills the others as if it
  had not, and more places are filled than there are vertices
  (`WildOnlyIfOverfull`).
* *Weights of symmetric graphs.* The tools give the two copies of an undirected
  edge weights of their own.
* *adjToEdgeArray* frees `inEdges`, which nothing has set (`graph.h:169`).

## 7. Not modelled

* *BP.* The dense traversals pass the constant 1 as the number of the edge
  (`ligra-numa.h:829`, `858`, `/*unused*/1`), and BP indexes its messages with it.
  In these rounds all strands write one message, and others are read that nothing
  has written: there is no statement of what the program computes.
* *The barrier of papi_code.h*, compiled in with a flag: whether its spinning
  strands let the others run depends on the number of workers.
* *reuse.h*, which no file includes, and the radix sort, which no tool calls.
* Placement of pages, timers and hardware counters, the parsing of the command
  line, vendored code (all of `cilk-swan` and `cilkpub`, two thirds of the lines of
  the repository).
* Widths of integers and rounding of floats. The LONG build narrows vertex
  numbers in the COO lists to `int` (`graph-numa.h:244`), and the position on the
  Hilbert curve overflows an `int` with more than 2^15 edges in a list
  (`graph-numa.h:382`).
* The contents of memory behind a text that does not end with a new line.
