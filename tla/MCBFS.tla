------------------------------- MODULE MCBFS -------------------------------
(***************************************************************************)
(* BFS on small graphs, every vertex a partition of its own.               *)
(***************************************************************************)
EXTENDS BFS

MCEdge == (0 .. N-1) \X (0 .. N-1)
Identity == [v \in 0 .. N-1 |-> v]

graph(es, s, p) == [edges |-> es, source |-> s, part_ver |-> p]

\* Every graph with the edge 0 -> 1 and some of the edges below, which give
\* two ways into vertices 2, 3 and 4 and ways back, under each partitioning.
\* With three edges out of vertex 4 a frontier of two vertices is small enough
\* for the sparse traversal.
optional == {<<0, 2>>, <<1, 3>>, <<2, 3>>, <<1, 2>>, <<3, 4>>, <<2, 4>>,
             <<4, 1>>, <<4, 0>>, <<4, 3>>}
AllGraphs == {graph(es \union {<<0, 1>>}, s, p) :
                es \in SUBSET optional, s \in BOOLEAN, p \in BOOLEAN}
=============================================================================
