----------------------------- MODULE MCGraphFiles -----------------------------
(* Instances of GraphFiles.                                                   *)
EXTENDS GraphFiles

\* All lists of up to three edges on three vertices, loops and repetitions
\* included, and longer ones on five vertices, which take three blocks to scan
\* and two partitions to sort: their destinations leave gaps everywhere.
Short == UNION {[1 .. k -> (0 .. 2) \X (0 .. 2)]: k \in 1 .. 3}
Long == {[i \in 1 .. 6 |-> <<(7 * i) % 5, to[i]>>]: to \in {f \in [1 .. 6 -> {1, 3, 4}]: f[1] = 1}}

mcEdgeLists == Short \union Long
mcTableOrders(E) ==
  LET up == [i \in 1 .. Cardinality(E) |->
               CHOOSE e \in E: Cardinality({d \in E: cmpuF[d, e]}) = i - 1]
  IN {up, Reverse(up)}
===============================================================================
