----------------------------- MODULE MCPageRank -----------------------------
(* Instances of PageRank: graphs on three vertices, with a fourth one that    *)
(* is isolated or leads to the others.                                       *)
EXTENDS FrontierMemory

\* An edge and its weight.
edge(u, v) == <<u, v, 1 + u + 2 * v>>
mcEdge == {edge(u, v) : u, v \in 0 .. 3}

\* In sparse rounds 0 and 1 add to the rank of 2 at the same time, and the
\* frontiers hold duplicates.
Race == {edge(3, 0), edge(3, 1), edge(3, 2), edge(0, 2), edge(1, 2), edge(2, 0)}

\* All graphs whose edges come from a set of five, and two with loops.
Chosen ==
  ((SUBSET {edge(0, 1), edge(1, 2), edge(2, 0), edge(1, 0), edge(0, 2)}) \ {{}})
    \union {{edge(0, 0), edge(0, 1), edge(1, 2), edge(2, 2)},
            {edge(0, 0), edge(1, 1), edge(2, 2), edge(3, 3)}, Race}

Flags == {<<FALSE, FALSE>>, <<FALSE, TRUE>>, <<TRUE, TRUE>>}

mcGraphs == {[edges |-> E, source |-> f[1], part_ver |-> f[2]] :
               E \in Chosen, f \in Flags}

\* Such that the divisions by N, by the degrees and by the damping are exact.
mcUnit == 3 * 4 * 16 * 16 * 16
mcDamping == <<1, 2>>
mcEpsilon2s == {<<0, 1>>, <<1, 4>>}
OwnPart == [v \in Vertex |-> v]
=============================================================================
