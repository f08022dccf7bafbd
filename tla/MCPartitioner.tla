---------------------------- MODULE MCPartitioner ----------------------------
(***************************************************************************)
(* Partitioner on short sequences of degrees, and COOLists on graphs.      *)
(***************************************************************************)
EXTENDS COOLists

input(in, out, source, part_ver, relabel, parts, nodes) ==
  [n |-> Cardinality(DOMAIN in), in |-> in, out |-> out, source |-> source,
   part_ver |-> part_ver, relabel |-> relabel, parts |-> parts, nodes |-> nodes]

Seqs(n, max) == [0 .. n-1 -> 0 .. max]
total(f) == MapThenSumSet(LAMBDA v : f[v], DOMAIN f)

\* By destination: every sequence of in-degrees up to 4 of up to four vertices.
ByDestination ==
  {input(in, in, FALSE, pv, rl, parts, 1) :
     in \in UNION {Seqs(n, 4) : n \in 1 .. 4},
     pv \in BOOLEAN, rl \in BOOLEAN, parts \in 1 .. 3}

\* By source, with vertices that have edges in one direction only.
BySource ==
  {input(f[1], f[2], TRUE, FALSE, rl, 2, 2) :
     f \in {x \in Seqs(4, 2) \X Seqs(4, 2) : total(x[1]) = total(x[2])}, rl \in BOOLEAN}

\* Up to six vertices, on two nodes.
Longer ==
  {input(in, in, FALSE, pv, rl, 4, 2) :
     in \in Seqs(6, 2), pv \in BOOLEAN, rl \in BOOLEAN}

\* More partitions than the nodes can share, or fewer than there are nodes.
Uneven ==
  {input(in, in, FALSE, pv, rl, x[1], x[2]) :
     in \in Seqs(4, 2), pv \in BOOLEAN, rl \in BOOLEAN, x \in {<<3, 2>>, <<5, 3>>, <<1, 2>>}}

AllInputs == ByDestination \union BySource \union Longer \union Uneven

\* A graph with given in-degrees: the sources are the next vertices.
graph(n, degree, part, pv, nodes) ==
  [n |-> n, vebo |-> TRUE, part |-> part, part_ver |-> pv, source |-> FALSE,
   hilbert |-> TRUE, nodes |-> nodes,
   edges |-> UNION {{<<(v + j) % n, v>> : j \in 1 .. degree[v]} : v \in 0 .. n-1}]

\* Five vertices of degree up to 3, and eight or nine of which one or two have
\* degree 6 and the others 1 or 0, so that batches occur.
Reorder ==
  {graph(5, d, part, FALSE, 1) : d \in Seqs(5, 3), part \in {2, 3}}
    \union UNION {{graph(n, d, 2, TRUE, 2) :
                    d \in {x \in [0 .. n - 1 -> {0, 1, 6}] :
                             \A v \in 0 .. n - 2 : x[v] >= x[v + 1]}} : n \in {8, 9}}

\* Four vertices as they are, by source or destination and with both orders.
AsRead ==
  {[graph(4, d, part, FALSE, 1) EXCEPT !.vebo = FALSE, !.source = s, !.hilbert = h] :
     d \in Seqs(4, 4), part \in 1 .. 3, s \in BOOLEAN, h \in BOOLEAN}

\* Three partitions on two nodes, as read and as VEBO writes them.
LeftOver ==
  {[graph(4, d, 3, FALSE, 2) EXCEPT !.vebo = b] : d \in Seqs(4, 2), b \in BOOLEAN}

RawGraphs == Reorder \union AsRead \union LeftOver
=============================================================================
