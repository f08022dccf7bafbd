-------------------------------- MODULE MCHash --------------------------------
(* Instances of HashTable.                                                    *)
EXTENDS HashTable

\* One cluster that wraps around the end of the table; two clusters that run
\* into each other, the lower first index with the lower keys.
WrapAround == [k \in Key |-> m - 1]
Merging == [k \in Key |-> IF k = 2 THEN 0 ELSE m - 1]

mcHashStructs ==
  {[hash |-> f, replaces |-> r]: f \in {WrapAround, Merging}, r \in BOOLEAN}

\* The strands of a loop are interchangeable: their elements come in order.
mcArgs(k) ==
  {a \in [Strand -> IF k = "insert" THEN Elem ELSE Key \X {0}]:
     \A i, j \in Strand: i < j => \/ a[i][1] < a[j][1]
                                  \/ a[i][1] = a[j][1] /\ a[i][2] <= a[j][2]}
===============================================================================
