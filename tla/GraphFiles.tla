------------------------------ MODULE GraphFiles ------------------------------
(* From a list of edges to the graph in memory: SNAPtoAdj makes a graph of    *)
(* the edges (graphFromEdges, made symmetric on demand) and writes it, other  *)
(* tools make a transposed, a binary or a weighted file of it, or a list of   *)
(* edges again, and the readers of graphgrind/IO.h load the graph, taking the *)
(* in-edges from the transposed file or, when there is none, from the edges   *)
(* they have read.                                                            *)
(* Each program, and each part of a reader, is an action; its parallel loops  *)
(* write different elements.  A file with weights is read by programs built   *)
(* with WEIGHTED, one without by the others.                                  *)
EXTENDS TextFiles, QuickSort

CONSTANTS EdgeLists,       \* the lists of edges to try: sequences of <<u, v>>
          TableOrders(_)   \* orders in which a hash table may hold a set of edges

INT_T_MAX == 2147483647

VARIABLES stage,      \* the last thing done
          edges,      \* the list of edges the tools start from (E of an edgeArray)
          n,          \* its number of vertices
          array,      \* the edges the graph is made of, or that are listed of it
          sym,        \* option -s
          file,       \* the adjacency file
          tfile,      \* the transposed file, or None
          binary,     \* read by readGraphFromGalois?
          graph       \* what the reader has built

vars == <<stage, edges, n, array, sym, file, tfile, binary, graph>>

None == [data |-> <<>>]
V == 0 .. n - 1

\* The slice of vertex v, in a record with offsets, edges and their number m.
degree(G, v) == (IF v = n - 1 THEN G.m ELSE G.offsets[v + 1]) - G.offsets[v]
neighbours(G, v) ==
  [j \in 1 .. degree(G, v) |-> G.edges[G.offsets[v] + j - 1]]

\* How the tools compare edges, and pairs; the readers order triples entirely.
pairFirstCmp == [a, b \in Seq(Nat) |-> a[1] < b[1]]
cmpuF == [a, b \in Seq(Nat) |-> IF a[1] = b[1] THEN a[2] < b[2] ELSE a[1] < b[1]]
pairCmp == [a, b \in Seq(Nat) |->
              \E i \in 1 .. 3: a[i] < b[i] /\ \A j \in 1 .. i - 1: a[j] = b[j]]

\* The offsets of the sources of sorted pairs: the index at which each begins,
\* and that of the next one for a vertex without pairs.  `start` is the vertex
\* whose offset is set to 0 by hand.
offsetsOf(pairs, start) ==
  LET m == Len(pairs)
      begins(v) == {i \in 1 .. m - 1: /\ pairs[i + 1][1] = v
                                      /\ pairs[i + 1][1] # pairs[i][1]}
      first == [v \in V |-> IF begins(v) # {} THEN Min(begins(v))
                            ELSE IF v = start THEN 0 ELSE INT_T_MAX]
  IN scanIBack(first, n, minF, m)

seconds(pairs) == [i \in 0 .. Len(pairs) - 1 |-> pairs[i + 1][2]]

Init ==
  /\ stage = "edges"
  /\ edges \in EdgeLists
  /\ n = 1 + Max(UNION {{edges[i][1], edges[i][2]}: i \in DOMAIN edges})
  /\ array = <<>>
  /\ sym \in BOOLEAN
  /\ binary = FALSE
  /\ file = None /\ tfile = None /\ graph = None

-----------------------------------------------------------------------------
(* The graph tools                                                            *)

\* makeSymmetric: the edges that are no loops, then their reverses; remDuplicates
\* puts them in a hash table and takes its entries.
MakeSymmetric ==
  /\ stage = "edges"
  /\ IF sym
     THEN LET E == [i \in 0 .. Len(edges) - 1 |-> edges[i + 1]]
              F == AsSequence(filter(E, Len(edges), [e \in Seq(Nat) |-> e[1] # e[2]]))
              both == F \o [i \in DOMAIN F |-> <<F[i][2], F[i][1]>>]
          IN array' \in TableOrders({both[i]: i \in DOMAIN both})
     ELSE array' = edges
  /\ stage' = IF array' = <<>> THEN "undefined" ELSE "array"
  /\ UNCHANGED <<edges, n, sym, file, tfile, binary, graph>>

\* graphFromEdges: it gives up on a vertex with more than n edges.
GraphFromEdges ==
  /\ stage = "array"
  /\ \E A \in {quickSort(array, cmpuF)}:
     \E temp \in {quickSort(A, pairFirstCmp)}:
     \E G \in {[m |-> Len(A), offsets |-> offsetsOf(temp, temp[1][1]), edges |-> seconds(A)]}:
        IF \E v \in V: degree(G, v) < 0 \/ degree(G, v) > n
        THEN stage' = "aborted" /\ UNCHANGED graph
        ELSE stage' = "graph" /\ graph' = G
  /\ UNCHANGED <<edges, n, array, sym, file, tfile, binary>>

\* writeGraphToFile: the offsets are the scan of the degrees.
WriteGraphToFile ==
  /\ stage = "graph"
  /\ \E start \in {plusScan([v \in V |-> degree(graph, v)], n).Out}:
     LET at(j) == CHOOSE v \in V: start[v] <= j /\ j < start[v] + degree(graph, v)
     IN file' = [n |-> n, m |-> graph.m, offsets |-> start, weighted |-> FALSE,
                 data |-> [j \in 0 .. graph.m - 1 |->
                             neighbours(graph, at(j))[j - start[at(j)] + 1]]]
  /\ stage' = "file"
  /\ graph' = None
  /\ UNCHANGED <<edges, n, array, sym, tfile, binary>>

\* Where vertex v begins, and how many edges it has, in the file being read.
begin(f, v) == IF binary THEN (IF v = 0 THEN 0 ELSE f.offsets[v - 1]) ELSE f.offsets[v]
size(f, v) == IF binary THEN f.offsets[v] - begin(f, v) ELSE degree(f, v)

\* The vertex that the entry j of the data of a file belongs to.
ownerOf(f, j) == CHOOSE v \in V: begin(f, v) <= j /\ j < begin(f, v) + size(f, v)

\* adjTranspose: the reversed edges, sorted, and one walk over them for the offsets.
AdjTranspose ==
  /\ stage = "file" /\ ~ binary /\ ~ file.weighted /\ tfile = None
  /\ LET reversed == [j \in 1 .. file.m |-> <<file.data[j - 1], ownerOf(file, j - 1)>>]
     IN \E E \in {insertionSort(reversed, cmpuF)}:
        LET walk[v \in 0 .. n] ==
              IF v = 0 THEN 0
              ELSE LET o == walk[v - 1]
                   IN o + Cardinality({i \in o + 1 .. file.m:
                                         \A k \in o + 1 .. i: E[k][1] = v - 1})
        IN tfile' = [n |-> n, m |-> file.m, offsets |-> [v \in V |-> walk[v]],
                     weighted |-> FALSE, data |-> seconds(E)]
  /\ UNCHANGED <<stage, edges, n, array, sym, file, binary, graph>>

\* Every offset but the first, and m, are the ends of the vertices.
ends(f) == [v \in V |-> IF v = n - 1 THEN f.m ELSE f.offsets[v + 1]]

\* An odd number of edges is followed by a 0, then come the weights.
pad(f) == f.m % 2
padded(f) ==
  [j \in 0 .. f.m + pad(f) + (IF f.weighted THEN f.m ELSE 0) - 1 |->
     IF j < f.m THEN f.data[j]
     ELSE IF j < f.m + pad(f) THEN 0
     ELSE f.data[j - pad(f)]]

ToGalois(f) == [f EXCEPT !.offsets = ends(f), !.data = padded(f)]

AdjToGalois ==
  /\ stage = "file" /\ ~ binary
  /\ binary' = TRUE
  /\ file' = ToGalois(file)
  /\ tfile' = IF tfile = None THEN None ELSE ToGalois(tfile)
  /\ UNCHANGED <<stage, edges, n, array, sym, graph>>

\* What writeGraphToFile writes of a graph that was read of a file.
AsRead(f) ==
  [f EXCEPT !.offsets = [v \in V |-> begin(f, v)], !.data = [j \in 0 .. f.m - 1 |-> f.data[j]]]

\* GaloisToadj: the binary file, and the transposed one, as text.
GaloisToadj ==
  /\ stage = "file" /\ binary /\ ~ file.weighted
  /\ binary' = FALSE
  /\ file' = AsRead(file)
  /\ tfile' = IF tfile = None THEN None ELSE AsRead(tfile)
  /\ UNCHANGED <<stage, edges, n, array, sym, graph>>

\* addAdjWeights and addGaloisWeights: a text file with weights behind the edges,
\* a hash of the index, which the index stands for.
AddWeights ==
  /\ stage = "file" /\ ~ file.weighted
  /\ binary' = FALSE
  /\ file' = [AsRead(file) EXCEPT !.weighted = TRUE,
                 !.data = [j \in 0 .. 2 * file.m - 1 |-> IF j < file.m THEN file.data[j] ELSE j - file.m]]
  /\ tfile' = None
  /\ UNCHANGED <<stage, edges, n, array, sym, graph>>

\* adjToEdgeArray: the edges vertex by vertex.  Before they are written, del()
\* frees the in-edges, which readGraphFromFile has not set.
AdjToEdgeArray ==
  /\ stage = "file" /\ ~ binary /\ ~ file.weighted
  /\ array' = [j \in 1 .. file.m |-> <<ownerOf(file, j - 1), file.data[j - 1]>>]
  /\ stage' \in {"listed", "undefined"}
  /\ UNCHANGED <<edges, n, sym, file, tfile, binary, graph>>

-----------------------------------------------------------------------------
(* The readers                                                                *)

\* Where the weights begin.
ewght(f) == f.m + IF binary THEN pad(f) ELSE 0

\* The slices of the vertices: neighbours with the weights of their edges.
lists(f) ==
  [v \in V |-> [j \in 1 .. size(f, v) |->
     LET e == begin(f, v) + j - 1
     IN <<f.data[e], IF f.weighted THEN f.data[ewght(f) + e] ELSE 0>>]]

ReadOutEdges ==
  /\ stage = "file"
  /\ stage' = "out"
  /\ graph' = [out |-> lists(file), in |-> <<>>]
  /\ UNCHANGED <<edges, n, array, sym, file, tfile, binary>>

\* A graph said to be symmetric has no in-edges of its own.
ReadSymmetric ==
  /\ stage = "out" /\ sym
  /\ stage' = "symmetric"
  /\ graph' = [graph EXCEPT !.in = graph.out]
  /\ UNCHANGED <<edges, n, array, sym, file, tfile, binary>>

ReadTransposed ==
  /\ stage = "out" /\ tfile # None
  /\ stage' = "read"
  /\ graph' = [graph EXCEPT !.in = lists(tfile)]
  /\ UNCHANGED <<edges, n, array, sym, file, tfile, binary>>

\* Wrong variant: both readers take vertex 0.
firstOffset_Zero(temp) == 0

\* The vertex whose in-edges begin at 0: readGraphFromGalois takes the first
\* destination, readGraphFromFile vertex 0.
firstOffset(temp) == IF binary THEN temp[1][1] ELSE 0

\* The in-edges from the out-edges: sorted triples of a destination, a source and
\* a weight.
TransposeOnTheFly ==
  /\ stage = "out" /\ tfile = None
  /\ LET triple(j) == LET v == ownerOf(file, j)
                          e == graph.out[v][j - begin(file, v) + 1]
                      IN <<e[1], v, e[2]>>
     IN \E temp \in {quickSort([j \in 1 .. file.m |-> triple(j - 1)], pairCmp)}:
        \E G \in {[m |-> file.m, offsets |-> offsetsOf(temp, firstOffset(temp)),
                   edges |-> [i \in 0 .. file.m - 1 |-> <<temp[i + 1][2], temp[i + 1][3]>>]]}:
           graph' = [graph EXCEPT !.in = [v \in V |-> neighbours(G, v)]]
  /\ stage' = "read"
  /\ UNCHANGED <<edges, n, array, sym, file, tfile, binary>>

-----------------------------------------------------------------------------
(* Counting a frontier, in the loaded graph                                   *)

\* Wrong variant: the edges of the other vertices are added as well.
GoutDegree_AllEdges(dense) ==
  LET FDense == [l, r \in Nat \X Nat |-> <<l[1] + r[1], l[2] + r[2]>>]
  IN reduce([i \in V |-> <<IF i \in dense THEN 1 ELSE 0, Len(graph.out[i])>>], n, FDense)

\* The number of active vertices and of their out-edges, added block by block.
GoutDegree(dense) ==
  LET FDense == [l, r \in Nat \X Nat |-> <<l[1] + r[1], l[2] + r[2]>>]
  IN reduce([i \in V |-> IF i \in dense THEN <<1, Len(graph.out[i])>> ELSE <<0, 0>>], n, FDense)

\* The tool gives up, reads temp[0] of no edges or frees a pointer that was not
\* set, or the edges are listed, or the graph is loaded.
Stop == stage \in {"aborted", "undefined", "listed", "read", "symmetric"} /\ UNCHANGED vars

Next == \/ MakeSymmetric \/ GraphFromEdges \/ WriteGraphToFile
        \/ AdjTranspose \/ AdjToGalois \/ GaloisToadj \/ AddWeights \/ AdjToEdgeArray
        \/ ReadOutEdges \/ ReadSymmetric \/ ReadTransposed \/ TransposeOnTheFly
        \/ Stop

Spec == Init /\ [][Next]_vars

-----------------------------------------------------------------------------
(* Properties                                                                 *)

Times(s, e) == Cardinality({i \in DOMAIN s: s[i] = e})

\* How often the edge from u to v is to be in the graph.
Wanted(u, v) ==
  IF sym THEN (IF u # v /\ (Times(edges, <<u, v>>) + Times(edges, <<v, u>>) > 0) THEN 1 ELSE 0)
         ELSE Times(edges, <<u, v>>)

TypeOK ==
  /\ stage \in {"edges", "array", "graph", "file", "out", "read", "symmetric",
               "listed", "aborted", "undefined"}
  /\ sym \in BOOLEAN /\ binary \in BOOLEAN
  /\ \A i \in DOMAIN array: array[i] \in V \X V
  /\ stage = "file" => /\ DOMAIN file.offsets = V
                       /\ \A v \in V: file.offsets[v] \in 0 .. file.m
                       /\ \A j \in 0 .. file.m - 1: file.data[j] \in V

Firsts(s) == [i \in DOMAIN s |-> s[i][1]]

\* The out-edges in memory, and the edges that are listed of a file, are the edges
\* of the list the tools started from: as often as they were listed, or, made
\* symmetric, both directions once each and no loops.
OutEdgesAreTheList ==
  \A u, v \in V:
    /\ stage \in {"out", "read", "symmetric"} => Times(Firsts(graph.out[u]), v) = Wanted(u, v)
    /\ stage = "listed" => Times(array, <<u, v>>) = Wanted(u, v)

\* Each edge keeps the weight with which it was written, from a text file or,
\* behind the padding, from a binary one.
WeightsStayWithTheirEdges ==
  stage \in {"out", "read", "symmetric"} /\ file.weighted =>
    \A v \in V: \A j \in DOMAIN graph.out[v]: graph.out[v][j][2] = begin(file, v) + j - 1

InEdgesAreTransposed ==
  \A u, v \in V: \A w \in 0 .. file.m:
    Times(graph.in[v], <<u, w>>) = Times(graph.out[u], <<v, w>>)

InEdgesAreSorted == \A v \in V: \A i, j \in DOMAIN graph.in[v]:
                      i < j => ~ cmpuF[graph.in[v][j], graph.in[v][i]]

\* The in-edges in memory are the out-edges reversed, with their weights, whichever
\* file they were read from or made of, and those of a vertex are sorted.
\* readGraphFromFile alone needs vertex 0 to have an in-edge when it makes them
\* itself, and a graph said to be symmetric has to be so in its weights as well:
\* the weights of the tools are not.
InEdgesAreOutEdges ==
  \/ stage = "symmetric" /\ ~ file.weighted
  \/ stage = "read" /\ (binary \/ tfile # None \/ \E u \in V: Wanted(u, 0) > 0)
  => InEdgesAreTransposed /\ (stage = "read" => InEdgesAreSorted)

\* A text file is read back as the numbers it was written of, in every chunk and
\* block of the writer and the reader.
numbers(f) ==
  LET k == Cardinality(DOMAIN f.data)
  IN [j \in 0 .. 1 + n + k |-> CASE j = 0 -> f.n
                               [] j = 1 -> f.m
                               [] j \in 2 .. 1 + n -> f.offsets[j - 2]
                               [] OTHER -> f.data[j - n - 2]]

TextIsReadBack ==
  stage = "file" /\ ~ binary =>
    numbersOf(writeArrayToStream(numbers(file), Cardinality(DOMAIN numbers(file)))) = numbers(file)

\* The counts by which edgeMap chooses a traversal are those of the frontier, for
\* every frontier on the loaded graph.
FrontierIsCounted ==
  stage = "read" =>
    \A dense \in SUBSET V:
      GoutDegree(dense) = <<Cardinality(dense), MapThenSumSet(LAMBDA v: Len(graph.out[v]), dense)>>

\* graphFromEdges gives up on no list without repeated edges.
RefusesOnlyRepeatedEdges ==
  stage = "aborted" => ~ sym /\ \E i, j \in DOMAIN edges: i # j /\ edges[i] = edges[j]

\* From the list to the graph in memory no edge and no weight is lost, and no list
\* is refused without a reason.
LoadedAsListed ==
  OutEdgesAreTheList /\ WeightsStayWithTheirEdges /\ RefusesOnlyRepeatedEdges

\* What IO.h says of its readers: if there is no transposed file, "do the
\* transpose on the fly".
TransposesOnTheFly == stage = "read" => InEdgesAreTransposed
=============================================================================
