------------------------------ MODULE COOLists ------------------------------
(***************************************************************************)
(* The COO lists of a partitioned_graph (graphgrind/graph-numa.h).  When   *)
(* the vertices have been cut, each partition that the loops visit copies  *)
(* the edges into its vertices (or out of them, -P source) to a list of    *)
(* its own and sorts it, by source or along a Hilbert curve.  With -v      *)
(* vertex no lists are made.  The graph is one of VEBO's, as it was read   *)
(* or as VEBO wrote it.                                                    *)
(***************************************************************************)
EXTENDS VEBO, Sequences

VARIABLE lists  \* localEdgeList, of the partitions that were visited

-----------------------------------------------------------------------------
(***************************************************************************)
(* The curve through a square whose side is a power of 2.                  *)
(***************************************************************************)
roundUpPow2(x) ==
  LET pow2[b \in 0 .. x] == IF b = 0 THEN 1 ELSE 2 * pow2[b - 1]
  IN Min({p \in {pow2[b] : b \in 0 .. x} : p >= x})

\* (x & s) > 0, for s a power of 2; rot makes x negative.
bit(x, s) == (x \div s) % 2

rot(s, x, y, rx, ry) ==
  IF ry = 1 THEN <<x, y>>
  ELSE IF rx = 1 THEN <<s - 1 - y, s - 1 - x>>
  ELSE <<y, x>>

\* The position of a point on the curve.
xy2d(side, x, y) ==
  LET walk[s \in 0 .. side] ==
        [p \in Int \X Int |->
           IF s = 0 THEN 0
           ELSE LET rx == bit(p[1], s)
                    ry == bit(p[2], s)
                IN s * s * (IF rx = 1 THEN 3 - ry ELSE ry)
                     + walk[s \div 2][rot(s, p[1], p[2], rx, ry)]]
  IN walk[side \div 2][<<x, y>>]

\* The point at a position: the class defines it and calls it nowhere.  z holds what
\* is left of the position, and the point so far.
d2xy(side, d) ==
  LET walk[s \in 1 .. 2 * side] ==
        [z \in Nat \X (Int \X Int) |->
           IF s >= side THEN z[2]
           ELSE LET rx == (z[1] \div 2) % 2
                    ry == (z[1] + rx) % 2
                    to == rot(s, z[2][1], z[2][2], rx, ry)
                IN walk[2 * s][<<z[1] \div 4, <<to[1] + s * rx, to[2] + s * ry>>>>]]
  IN walk[1][<<d, <<0, 0>>>>]

-----------------------------------------------------------------------------
\* The edges of the graph that graphgrind has read.
Written ==
  LET inter(v) == IF Reordered THEN CHOOSE new \in DOMAIN fNinter : fNinter[new] = v ELSE v
  IN {<<inter(e[1]), inter(e[2])>> : e \in G.edges}

\* The end of an edge that decides on its partition.
home(e) == IF g.source THEN e[1] ELSE e[2]

\* wrong variant: the first vertex of the next range comes in as well
COOPartition_Inclusive(p) == {e \in Written : home(e) \in starts["coo"][p] .. starts["coo"][p + 1]}

\* COOPartitionByDest and COOPartitionBySour
COOPartition(p) == {e \in Written : home(e) \in ElementsOf("coo", p)}

\* The side of the square is taken from the number of edges; edges beyond it
\* may share a position.
e2d(E) == [e \in E |-> xy2d(roundUpPow2(Cardinality(E)), e[1], e[2])]

CSRDestSort(e, f) == e[1] < f[1] \/ (e[1] = f[1] /\ e[2] < f[2])

\* The edges by position, or by source and destination; where positions are
\* equal, in the latter order.
mysort(E) ==
  LET at == IF G.hilbert THEN e2d(E) ELSE [e \in E |-> 0]
      before(e, f) == at[e] < at[f] \/ (at[e] = at[f] /\ CSRDestSort(e, f))
  IN [j \in 1 .. Cardinality(E) |->
        CHOOSE e \in E : Cardinality({f \in E : before(f, e)}) = j - 1]

\* The lists are made between the two partitioners, if they are made.
LInit == VInit /\ lists = [p \in {} |-> <<>>]

LNext ==
  /\ VNext
  /\ lists' = IF which = "coo" /\ which' = "csc" /\ ~g.part_ver
              THEN [p \in VisitedPartitions |-> mysort(COOPartition(p))]
              ELSE lists

LSpec == LInit /\ [][LNext]_<<vars, veboVars, lists>>

-----------------------------------------------------------------------------
Made == control = "ready" /\ ~g.part_ver

\* How often an edge is in the list of a partition.
Copies(e, p) == Cardinality({j \in DOMAIN lists[p] : lists[p][j] = e})

(***************************************************************************)
(* From the file that VEBO read to the lists that edgeMap goes through:    *)
(* every edge is in one list once, under its new numbers, and nothing else *)
(* is in the lists.  Only the edges of partitions left over, when the      *)
(* nodes do not share them evenly, are in none.                            *)
(***************************************************************************)
EachEdgeListedOnce ==
  Made =>
    /\ \A e \in Written : MapThenSumSet(LAMBDA p : Copies(e, p), VisitedPartitions)
                             = IF home(e) < starts["coo"][Leftover] THEN 1 ELSE 0
    /\ \A p \in VisitedPartitions : \A j \in DOMAIN lists[p] : lists[p][j] \in Written
    /\ Cardinality(Written) = Cardinality(G.edges)

(***************************************************************************)
(* Two edges into one vertex are in the same list unless the graph is      *)
(* partitioned by source: edgeMap updates without atomics then, and        *)
(* Components assumes no more of the partitions.                           *)
(***************************************************************************)
DestinationsAreOwned ==
  Made /\ ~g.source =>
    \A p, q \in VisitedPartitions :
      (\E j \in DOMAIN lists[p], l \in DOMAIN lists[q] : lists[p][j][2] = lists[q][l][2]) => p = q

(***************************************************************************)
(* A list with at least as many edges as the graph has vertices follows    *)
(* the curve: a later edge is at a later position of it.                   *)
(***************************************************************************)
FollowsTheCurve ==
  Made /\ G.hilbert =>
    \A p \in VisitedPartitions :
      LET side == roundUpPow2(Len(lists[p]))
          position(e) == CHOOSE d \in 0 .. side * side - 1 : d2xy(side, d) = e
      IN Len(lists[p]) >= g.n =>
           \A j, l \in DOMAIN lists[p] : j < l => position(lists[p][j]) < position(lists[p][l])
\* What the dense traversal takes for granted of its lists.
ListsAreRight == EachEdgeListedOnce /\ DestinationsAreOwned /\ FollowsTheCurve

-----------------------------------------------------------------------------
(***************************************************************************)
(* The inductive invariant of the lists (COOLists_proofs), with those of   *)
(* Partitioner and VEBO.                                                   *)
(***************************************************************************)
\* The edges end at vertices of the graph that is cut.
SameVertices == RawType(G) /\ (G.edges # {} => g.n = G.n)

\* The lists stay what they were made from the first cuts.
ListsHold ==
  which = "csc" /\ ~g.part_ver => lists = [p \in VisitedPartitions |-> mysort(COOPartition(p))]

ListInv == SameVertices /\ ListsHold
=============================================================================
