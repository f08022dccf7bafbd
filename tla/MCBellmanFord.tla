--------------------------- MODULE MCBellmanFord ---------------------------
(***************************************************************************)
(* BellmanFord on small weighted graphs, every vertex a partition.         *)
(***************************************************************************)
EXTENDS BellmanFord

MCEdge == (0 .. N-1) \X (0 .. N-1) \X (-3 .. 3)
Identity == [v \in 0 .. N-1 |-> v]

graph(es, s, p) == [edges |-> es, source |-> s, part_ver |-> p]

\* Graphs without edges are not loaded.  One partitioned by source always takes the CSC traversal of -v vertex.
ways == {<<FALSE, FALSE>>, <<FALSE, TRUE>>, <<TRUE, TRUE>>}

\* Graphs on three of the vertices with the weights -1 and 2, no self-loops and
\* no parallel edges: all with at most four edges, and those with five edges
\* that are negative up to one.
Simple == {es \in SUBSET {e \in (0 .. 2) \X (0 .. 2) \X {-1, 2} : e[1] # e[2]} :
             /\ \/ Cardinality(es) \in 1 .. 4
                \/ Cardinality(es) = 5 /\ Cardinality({e \in es : e[3] = 2}) <= 1
             /\ \A e, f \in es : e[1] = f[1] /\ e[2] = f[2] => e = f}
SimpleGraphs == {graph(es, way[1], way[2]) : es \in Simple, way \in ways}

\* Several paths into vertices 1 and 3 and cycles through them, some of
\* negative weight; every subset of these edges is a graph.
cycles == {<<0, 1, 1>>, <<0, 2, 3>>, <<1, 3, 2>>, <<2, 3, -1>>, <<3, 1, -2>>,
           <<3, 2, 1>>, <<2, 1, -1>>, <<3, 3, -1>>}
CycleGraphs == {graph(es, way[1], way[2]) : es \in (SUBSET cycles) \ {{}}, way \in ways}

\* The first round activates the vertices 1 and 2, both in front of vertex 3 and
\* few enough for a sparse round: the parallel edges from 3 to 0 count in m.
both == {<<0, 1, 1>>, <<0, 2, 3>>, <<1, 3, 2>>, <<2, 3, -1>>} \union ({3} \X {0} \X (1 .. 3))
SparseGraphs == {graph(both \union es, way[1], way[2]) :
                   es \in SUBSET {<<3, 1, -2>>, <<3, 2, 1>>, <<3, 3, -1>>}, way \in ways}

MCGraphs == SimpleGraphs \union CycleGraphs \union SparseGraphs
=============================================================================
