--------------------------- MODULE MCComponents ---------------------------
(***************************************************************************)
(* Components on small graphs.  Every vertex is a partition of its own,    *)
(* which allows every interleaving a coarser partitioning allows.          *)
(***************************************************************************)
EXTENDS Components

MCEdge == (0 .. N-1) \X (0 .. N-1)
SimpleEdge == {e \in (0 .. 2) \X (0 .. 2) : e[1] # e[2]}
Identity == [v \in 0 .. N-1 |-> v]

graph(es, s, p) == [edges |-> es, source |-> s, part_ver |-> p]

\* Every directed graph with edges on three of the vertices (one without is not
\* loaded), except that a graph partitioned by source always takes the CSC
\* traversal of -v vertex.
AllGraphs == {graph(es, s, p) : es \in (SUBSET SimpleEdge) \ {{}},
                                <<s, p>> \in {<<FALSE, FALSE>>, <<FALSE, TRUE>>,
                                              <<TRUE, TRUE>>}}

\* A graph whose first round may leave the active sources 2 and 3 in front of
\* vertex 4, so that a sparse round follows and its output holds duplicates.
\* The edges of idle never lower a label; they make m large enough.
diamond == {<<0, 2>>, <<1, 3>>, <<2, 4>>, <<3, 4>>}
idle == ({0, 1, 5} \X {0}) \union ({1, 5} \X {1}) \union {<<5, 5>>}
SparseGraphs == {graph(diamond \union idle, FALSE, TRUE)}

MCGraphs == AllGraphs \union SparseGraphs

\* Graphs partitioned by source whose dense rounds traverse the COO lists.
CooBySourceGraphs == {graph(es, TRUE, FALSE) : es \in (SUBSET SimpleEdge) \ {{}}}
=============================================================================
