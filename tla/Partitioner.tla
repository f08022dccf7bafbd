----------------------------- MODULE Partitioner -----------------------------
(***************************************************************************)
(* The construction of a partitioned_graph (graphgrind/graph-numa.h): the  *)
(* vertices are cut into consecutive ranges, one per partition, first all  *)
(* of them for the COO lists and then those with in-edges for the CSC      *)
(* array.  Ranges hold equally many vertices (-v vertex), about equally    *)
(* many edges (-v edge), or end where the in-degree rises (-o, for graphs  *)
(* that were reordered).  compute_starts turns sizes into start positions, *)
(* and the loops of graphgrind/partitioner.h visit the ranges node by      *)
(* node of the machine.                                                    *)
(*                                                                         *)
(* The array of sizes has one entry more than there are partitions, which  *)
(* holds the number of elements; the array of edge counts has not.         *)
(***************************************************************************)
EXTENDS Integers, FiniteSetsExt

CONSTANTS
  Inputs,   \* what the program may be started on, see InputType
  Garbage   \* the values that memory behind an array may hold

\* in and out are the degrees of the vertices 0 .. n-1.
InputType(x) ==
  /\ x.n \in Nat
  /\ x.in \in [0 .. x.n - 1 -> Nat] /\ x.out \in [0 .. x.n - 1 -> Nat]
  /\ {x.source, x.part_ver, x.relabel} \subseteq BOOLEAN
  /\ x.parts \in Nat \ {0}              \* -c
  /\ x.nodes \in Nat \ {0}              \* num_numa_node

ASSUME InputAssumption == \A x \in Inputs : InputType(x)
ASSUME GarbageAssumption == Garbage \subseteq Nat /\ Garbage # {}

VARIABLES
  g,         \* the input
  control,        \* "size": cutting; "starts": compute_starts; "ready", "abort"
             \* (a failed assertion), "overrun" (a write behind an array),
             \* "exit" (a mapping of no bytes, which mmap refuses)
  which,     \* the partitioner under construction: "coo", then "csc"
  i,         \* the loop variable
  counter,   \* the partition being filled
  sizeArr,   \* vertices per partition, and the number of elements
  edges,     \* edges per partition
  startID,
  starts     \* the start positions of both partitioners

vars == <<g, control, which, i, counter, sizeArr, edges, startID, starts>>

-----------------------------------------------------------------------------
LastPart == g.parts - 1

\* The vertices that are cut: all of them, or those with an entry in CSCV.
Listed(w) == {v \in 0 .. g.n - 1 : w = "csc" => g.in[v] # 0}

elements(w) == Cardinality(Listed(w))

size == elements(which)

\* The k-th of them.
vertexAt(k) ==
  CHOOSE v \in Listed(which) : Cardinality({u \in Listed(which) : u < v}) = k

inDegree(k) == g.in[vertexAt(k)]

degrees(k) == IF g.source THEN g.out[vertexAt(k)] ELSE inDegree(k)

m == MapThenSumSet(LAMBDA v : g.in[v], 0 .. g.n - 1)

averageDegree == m \div g.parts

NoSizes(n) == [p \in 0 .. g.parts |-> IF p = g.parts THEN n ELSE 0]

BeginSizes(w) ==
  /\ which' = w
  /\ i' = 0 /\ counter' = 0 /\ startID' = 0
  /\ sizeArr' = NoSizes(elements(w))
  /\ edges' = [p \in 0 .. LastPart |-> 0]
  /\ control' = "size"

\* A graph without edges is not even loaded: its arrays are mapped as well.
Loaded == IF m = 0 THEN "exit" ELSE "size"

Init ==
  /\ g \in Inputs
  /\ which = "coo" /\ control = Loaded
  /\ i = 0 /\ counter = 0 /\ startID = 0
  /\ sizeArr = NoSizes(g.n)
  /\ edges = [p \in 0 .. LastPart |-> 0]
  /\ starts = [w \in {"coo", "csc"} |-> [p \in 0 .. g.parts |-> 0]]

-----------------------------------------------------------------------------
(***************************************************************************)
(* Cutting.                                                                *)
(***************************************************************************)
\* wrong variant: the remainder is dropped
EqualSizes_NoRemainder ==
  [p \in 0 .. g.parts |-> IF p = g.parts THEN size ELSE size \div g.parts]

EqualSizes ==
  [p \in 0 .. g.parts |->
     CASE p = g.parts -> size
       [] p = LastPart    -> size - LastPart * (size \div g.parts)
       [] OTHER       -> size \div g.parts]

\* partitionByVertex without -o
CutByVertex ==
  /\ control = "size"
  /\ g.part_ver /\ ~g.relabel
  /\ sizeArr' = EqualSizes
  /\ control' = "starts"
  /\ i' = 0
  /\ UNCHANGED <<g, which, counter, edges, startID, starts>>

\* The vertex i joins the partition being filled.
Place ==
  /\ sizeArr' = [sizeArr EXCEPT ![counter] = @ + 1]
  /\ i' = i + 1
  /\ UNCHANGED <<g, control, which, startID, starts>>

\* wrong variant: a partition also ends between equal degrees
Rises_OrEqual == i < size - 1 /\ inDegree(i + 1) >= inDegree(i)

Rises == i < size - 1 /\ inDegree(i + 1) > inDegree(i)

\* One turn of the loops of -o.
PlaceRelabelled ==
  /\ control = "size" /\ i < size
  /\ g.relabel
  /\ counter' = IF Rises /\ counter < LastPart THEN counter + 1 ELSE counter
  /\ Place
  /\ UNCHANGED edges

\* degrees[i+1], which lies behind the array in the last turn.
NextDegree == IF i < size - 1 THEN {degrees(i + 1)} ELSE Garbage

ClosesEarly(e, next) == e < averageDegree /\ 10 * (next + e) > 11 * averageDegree

\* wrong variant: a full partition goes on filling
IsFull_TwiceAverage(e) == e >= 2 * averageDegree

\* wrong variant: off by one
IsFull_OffByOne(e) == e >= averageDegree - 1

IsFull(e) == e >= averageDegree

\* One turn of the loop of partitionByDegree without -o.  The first test may
\* leave the last partition, the second one does not.
PlaceByDegree ==
  /\ control = "size" /\ i < size
  /\ ~g.part_ver /\ ~g.relabel
  /\ counter <= LastPart
  /\ LET e == edges[counter] + degrees(i) IN
     \E next \in NextDegree :
       LET c == IF ClosesEarly(e, next) THEN counter + 1 ELSE counter
           filled == IF c = counter THEN e ELSE 0
       IN /\ edges' = [edges EXCEPT ![counter] = e]
          /\ counter' = IF c < LastPart /\ IsFull(filled) THEN c + 1 ELSE c
  /\ Place

\* The next turn adds to edges[numOfNode], behind the array, and counts the
\* vertex in the entry of sizeArr that holds the number of elements.
Overrun ==
  /\ control = "size" /\ i < size
  /\ ~g.part_ver /\ ~g.relabel
  /\ counter > LastPart
  /\ control' = "overrun"
  /\ UNCHANGED <<g, which, i, counter, sizeArr, edges, startID, starts>>

\* assert( counter+1 == numOfNode ) under -v edge
EndOfSizes ==
  /\ control = "size" /\ i = size
  /\ ~(g.part_ver /\ ~g.relabel)
  /\ IF ~g.part_ver /\ counter + 1 # g.parts
     THEN control' = "abort" /\ UNCHANGED i
     ELSE control' = "starts" /\ i' = 0
  /\ UNCHANGED <<g, which, counter, sizeArr, edges, startID, starts>>

-----------------------------------------------------------------------------
\* One turn of the loop of compute_starts.
ComputeStarts ==
  /\ control = "starts" /\ i <= g.parts
  /\ starts' = [starts EXCEPT ![which][i] = startID]
  /\ startID' = startID + sizeArr[i]
  /\ i' = i + 1
  /\ UNCHANGED <<g, control, which, counter, sizeArr, edges>>

\* The loops of partitioner.h run num_per_node partitions for every node.
perNode == g.parts \div g.nodes

\* wrong variant: those of the first node only
VisitedPartitions_OneNode == 0 .. perNode - 1

VisitedPartitions == 0 .. perNode * g.nodes - 1

\* The first of the partitions left over when every node has its share.
Leftover == g.parts - (g.parts % g.nodes)

ElementsOf(w, p) == starts[w][p] .. starts[w][p+1] - 1

\* The edges of the COO list of a partition.
totalSize(p) == MapThenSumSet(degrees, ElementsOf("coo", p))

\* With -v vertex there are no lists.
AnEmptyList == ~g.part_ver /\ \E p \in VisitedPartitions : totalSize(p) = 0

\* local_allocate maps num_edges entries for each list.
MmapFailed ==
  /\ control = "starts" /\ i > g.parts
  /\ which = "coo"
  /\ AnEmptyList
  /\ control' = "exit"
  /\ UNCHANGED <<g, which, i, counter, sizeArr, edges, startID, starts>>

\* The CSC array is cut after the COO lists have been built.
NextPartitioner ==
  /\ control = "starts" /\ i > g.parts
  /\ which = "coo"
  /\ ~AnEmptyList
  /\ BeginSizes("csc")
  /\ UNCHANGED <<g, starts>>

Ready ==
  /\ control = "starts" /\ i > g.parts
  /\ which = "csc"
  /\ control' = "ready"
  /\ UNCHANGED <<g, which, i, counter, sizeArr, edges, startID, starts>>

Stopped ==
  /\ control \in {"ready", "abort", "overrun", "exit"}
  /\ UNCHANGED vars

Next ==
  \/ CutByVertex \/ PlaceRelabelled \/ PlaceByDegree \/ Overrun \/ EndOfSizes
  \/ ComputeStarts \/ MmapFailed \/ NextPartitioner \/ Ready
  \/ Stopped

Spec == Init /\ [][Next]_vars
-----------------------------------------------------------------------------
(***************************************************************************)
(* Types; the counter is at most one past the last partition.              *)
(***************************************************************************)
TypeOK ==
  /\ InputType(g)
  /\ control \in {"size", "starts", "ready", "abort", "overrun", "exit"}
  /\ which \in {"coo", "csc"}
  /\ i \in Nat
  /\ counter \in 0 .. g.parts
  /\ sizeArr \in [0 .. g.parts -> Nat]
  /\ edges \in [0 .. LastPart -> Nat]
  /\ startID \in Nat
  /\ starts \in [{"coo", "csc"} -> [0 .. g.parts -> Nat]]

(***************************************************************************)
(* The ranges of both partitioners follow each other from the first        *)
(* element to the last: no element is lost or in two ranges, under every   *)
(* rule of cutting and whatever lies behind the degrees.                   *)
(***************************************************************************)
RangesTile ==
  control = "ready" => \A w \in {"coo", "csc"} :
    /\ starts[w][0] = 0
    /\ starts[w][g.parts] = elements(w)
    /\ \A p \in 0 .. LastPart : starts[w][p] <= starts[w][p+1]

(***************************************************************************)
(* map_partitionL and map_vertexL visit every element exactly once, but    *)
(* those of the partitions left over when the number of nodes does not     *)
(* divide that of the partitions: nobody visits these.                     *)
(***************************************************************************)
VisitedOnce ==
  control = "ready" => \A w \in {"coo", "csc"} : \A k \in 0 .. elements(w) - 1 :
    Cardinality({p \in VisitedPartitions : k \in ElementsOf(w, p)})
      = IF k < starts[w][Leftover] THEN 1 ELSE 0

(***************************************************************************)
(* With -v edge the partitions before the last one hold the average number *)
(* of edges up to one vertex: they were below it before their last vertex  *)
(* and, if they still are, the next vertex would take them 10% above it.   *)
(* Ranges and edge counts agree.                                           *)
(***************************************************************************)
EdgesAreBalanced ==
  control = "ready" /\ ~g.part_ver /\ ~g.relabel =>
    \A p \in 0 .. LastPart :
      LET final == starts["csc"][p+1] - 1
          e == edges[p]
      IN /\ e = MapThenSumSet(degrees, ElementsOf("csc", p))
         /\ p < LastPart /\ ElementsOf("csc", p) # {} =>
              /\ averageDegree > 0 => e - degrees(final) < averageDegree
              /\ IsFull(e) \/ final = size - 1 \/ 10 * (e + degrees(final + 1)) > 11 * averageDegree

\* Where the in-degree rises.
rises == {k \in 1 .. size - 1 : inDegree(k) > inDegree(k - 1)}

(***************************************************************************)
(* With -o a partition ends exactly where the in-degree rises, as long as  *)
(* there are partitions left: VEBO orders the vertices of a partition by   *)
(* falling degree, so this finds the partitions it made.                   *)
(***************************************************************************)
CutWhereDegreesRise ==
  control = "ready" /\ g.relabel =>
    LET cuts == {starts["csc"][p] : p \in 1 .. LastPart} \ {0, size}
    IN /\ cuts \subseteq rises
       /\ \A k \in rises : k \in cuts \/ Cardinality({j \in rises : j < k}) >= LastPart

\* What may leave a list without edges.
Reason ==
  IF g.relabel
  THEN Cardinality(rises) < LastPart \/ degrees(0) = 0 \/ g.source
  ELSE \E p \in VisitedPartitions :
         /\ totalSize(p) = 0
         /\ \/ starts["coo"][p+1] = g.n
            \/ 10 * degrees(starts["coo"][p+1]) > 11 * averageDegree

(***************************************************************************)
(* The program exits while it makes the lists only if there are fewer      *)
(* edges than partitions, or if, with -v edge, no edges are left for the   *)
(* last vertices or vertices without edges come before one that alone      *)
(* exceeds the average, or if, with -o, there are too few places to cut or *)
(* the first vertex has no in-edge.  With -o and -P source it may always   *)
(* do so: the in-degrees tell where to cut, but the lists hold out-edges.  *)
(***************************************************************************)
ExitsForAReason == control = "exit" /\ m > 0 /\ averageDegree > 0 => Reason

-----------------------------------------------------------------------------
(***************************************************************************)
(* The inductive invariant of the cutting (COOLists_proofs).               *)
(***************************************************************************)
\* Where a partition starts if the sizes so far are final.
startOf(p) == MapThenSumSet(LAMBDA q : sizeArr[q], 0 .. p - 1)

\* The start positions of a partitioner that has been built.
Tiles(w) ==
  /\ starts[w][0] = 0
  /\ starts[w][g.parts] = elements(w)
  /\ \A p \in 0 .. LastPart : starts[w][p] <= starts[w][p+1]

\* The sizes add up to the elements that have been placed, and the start
\* positions computed so far to the sizes before them.
SizesAddUp ==
  /\ sizeArr[g.parts] = size
  /\ g.relabel => counter <= LastPart
  /\ control = "size" => i <= size /\ startOf(g.parts) = i /\ startID = 0
  /\ control = "starts" =>
       /\ startOf(g.parts) = size
       /\ i <= g.parts + 1
       /\ i <= g.parts => startID = startOf(i)
       /\ \A p \in 0 .. g.parts : p < i => starts[which][p] = startOf(p)
  /\ which = "csc" => Tiles("coo")
  /\ control = "ready" => which = "csc" /\ Tiles("csc")

\* The partitions up to the counter follow each other, and those behind it
\* are empty.
Contiguous ==
  control = "size" =>
    /\ \A p \in 0 .. LastPart : p > counter => sizeArr[p] = 0 /\ edges[p] = 0
    /\ counter <= LastPart => startOf(counter) + sizeArr[counter] = i

\* A partition counts the edges of its vertices.
placed(p) == startOf(p) .. startOf(p) + sizeArr[p] - 1
Counts(p) == edges[p] = MapThenSumSet(degrees, placed(p))

\* A partition was left when it was about full.
ClosedAt(p, end) ==
  placed(p) # {} =>
    LET final == end - 1
    IN /\ averageDegree > 0 => edges[p] - degrees(final) < averageDegree
       /\ IsFull(edges[p]) \/ final = size - 1 \/ 10 * (edges[p] + degrees(final + 1)) > 11 * averageDegree

ClosedWhenFull ==
  control \in {"size", "starts", "ready"} /\ ~g.part_ver /\ ~g.relabel =>
    /\ \A p \in 0 .. LastPart : Counts(p)
    /\ \A p \in 0 .. LastPart : p < counter => ClosedAt(p, startOf(p + 1))
    /\ control = "size" /\ averageDegree > 0 /\ counter < LastPart =>
         edges[counter] < averageDegree
    /\ control # "size" => counter = LastPart
    /\ control = "ready" => \A p \in 0 .. g.parts : starts["csc"][p] = startOf(p)

CutInv == TypeOK /\ SizesAddUp /\ Contiguous /\ ClosedWhenFull

begins == [p \in 0 .. g.parts |-> startOf(p)]

\* k is the p-th of the places R.
IsPlace(p, R, k) == k \in R /\ Cardinality({j \in R : j < k}) = p - 1

\* The partitions begin at the first of the places R; when there are too few, the
\* last partitions are empty.
BeginAt(R, f, n) ==
  \E c \in 0 .. LastPart :
    /\ \A p \in 1 .. c : IsPlace(p, R, f[p])
    /\ \A p \in c + 1 .. LastPart : f[p] = n
    /\ c < LastPart => Cardinality(R) = c

\* Where the in-degree rises from one vertex to the next.
vertexRises == {v \in 1 .. g.n - 1 : g.in[v] > g.in[v - 1]}

\* With -o the partitions so far begin where the in-degree rises, and no rise
\* was left out while there were partitions.
CutsAtRises ==
  g.relabel =>
    /\ control = "size" =>
         /\ \A p \in 1 .. counter : IsPlace(p, rises, startOf(p))
         /\ counter < LastPart => Cardinality({k \in rises : k <= i}) = counter
    /\ control = "starts" => BeginAt(rises, begins, size)
    /\ control = "ready" => BeginAt(rises, starts["csc"], size)
    /\ which = "csc" => BeginAt(vertexRises, starts["coo"], g.n)

\* With -v edge no partition that was left is without vertices.
NoneEmpty ==
  control \in {"size", "starts"} /\ ~g.part_ver /\ ~g.relabel /\ averageDegree > 0 =>
    \A p \in 0 .. LastPart : p < counter => sizeArr[p] # 0

ReasonInv == CutsAtRises /\ NoneEmpty /\ ExitsForAReason
=============================================================================
