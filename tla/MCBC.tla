-------------------------------- MODULE MCBC --------------------------------
(***************************************************************************)
(* BC on small graphs, every vertex a partition of its own.                *)
(***************************************************************************)
EXTENDS BC

MCEdge == (0 .. N-1) \X (0 .. N-1)
Identity == [v \in 0 .. N-1 |-> v]

graph(es, s, p) == [edges |-> es, source |-> s, part_ver |-> p]

\* Undirected graphs: some of these edges, each in both directions.  With all
\* of 01, 02, 03, 14, 24 and 34, three shortest paths lead to vertex 4.  COO
\* lists grouped by source race (see MCComponents) and are left out.
undirected == {<<0, 1>>, <<0, 2>>, <<0, 3>>, <<1, 4>>, <<2, 4>>, <<3, 4>>,
               <<1, 2>>, <<2, 3>>}
both(es) == es \union {<<e[2], e[1]>> : e \in es}
AllUndirected ==
  {graph(both(es), p[1], p[2]) :
     es \in (SUBSET undirected) \ {{}}, p \in {<<FALSE, FALSE>>, <<FALSE, TRUE>>, <<TRUE, TRUE>>}}

\* Directed graphs in which every vertex has an edge in each direction, so that
\* neither the out-degrees nor CSCV miss an edge once they are transposed; the
\* COO lists are not used under -v vertex.  The edges out of vertex 4 make the
\* frontier {1, 2} small enough for a sparse round.
optional == {<<0, 2>>, <<0, 3>>, <<1, 2>>, <<2, 1>>, <<1, 3>>, <<2, 3>>}
AllDirected ==
  {graph(es \union {<<0, 1>>, <<1, 4>>, <<2, 4>>, <<3, 4>>} \union ({4} \X (0 .. 3)), s, TRUE) :
     es \in SUBSET optional, s \in BOOLEAN}

\* Directed graphs that may end in vertices without out-edges, where every vertex
\* with an out-edge has an in-edge, so that CSCV lacks none of the backward phase.
MayEnd ==
  {es \in SUBSET {<<0, 1>>, <<1, 0>>, <<0, 2>>, <<1, 2>>, <<1, 3>>, <<2, 3>>, <<2, 4>>, <<3, 1>>, <<3, 4>>} :
     /\ {<<0, 1>>, <<1, 0>>} \subseteq es
     /\ \A e \in es : \E f \in es : dst(f) = src(e)}
AllEnding == {graph(es, s, TRUE) : es \in MayEnd, s \in BOOLEAN}

\* The last vertex has no out-edge.
DeadEnd == {graph({<<0, 1>>, <<1, 0>>, <<1, 2>>}, FALSE, TRUE)}

\* The same under -v edge, where dense rounds use the COO lists.
DirectedByEdge == {[g EXCEPT !.part_ver = FALSE] : g \in {x \in AllDirected : ~x.source}}

\* No edge leads to the start.
NoWayBack == {graph({<<0, 1>>, <<1, 2>>, <<2, 1>>}, FALSE, TRUE)}

\* transpose() leaves the COO lists, or CSCV lacks a vertex.
HalfTransposed == DirectedByEdge \union NoWayBack

WellBehaved == AllUndirected \union AllDirected \union AllEnding
=============================================================================
