-------------------------------- MODULE VEBO --------------------------------
(***************************************************************************)
(* The reordering of graphtools/VEBO.C: the vertices are placed on as many *)
(* partitions as the graph will be cut into, by falling in-degree and on   *)
(* the partition with the fewest edges so far, then those without in-edges *)
(* fill the partitions up; the vertices are renumbered partition by        *)
(* partition and the graph is written.  graphgrind reads it with -o and    *)
(* cuts it again where the in-degree rises: the module goes on as          *)
(* Partitioner, whose input g is then the graph that was written.          *)
(***************************************************************************)
EXTENDS Partitioner

CONSTANT Raw  \* the graphs VEBO may be run on, see RawType

RawType(x) ==
  /\ x.n \in Nat \ {0}
  /\ x.edges \subseteq (0 .. x.n - 1) \X (0 .. x.n - 1)
  /\ x.vebo \in BOOLEAN                 \* is the graph reordered?
  /\ x.part \in Nat \ {0}               \* -p of VEBO, -c of graphgrind
  /\ {x.part_ver, x.source, x.hilbert} \subseteq BOOLEAN  \* -v, -P, EDGES_HILBERT
  /\ x.nodes \in Nat \ {0}

ASSUME RawAssumption == \A x \in Raw : RawType(x)

VARIABLES
  G,         \* the graph read
  stage,     \* "assign": phase 1; "zero": phase 2; "fill"; "written"; "wild":
             \* more places are filled than there are vertices
  class,     \* the degree class of phase 1
  k,         \* how many of its vertices are placed; in phase 2, how many zeros
  perDeg,    \* how many vertices of a class go to a partition
  load,      \* edges
  ver_size,
  fNinter    \* the old number of a new one

placement == <<class, k, perDeg, load, ver_size>>
veboVars == <<G, stage, placement, fNinter>>

Part == 0 .. G.part - 1
Old == 0 .. G.n - 1
avg == G.n \div G.part
extra == G.n % G.part

inDegreeOf(v, E) == Cardinality({e \in E : e[2] = v})
outDegreeOf(v, E) == Cardinality({e \in E : e[1] = v})
deg(v) == inDegreeOf(v, G.edges)

\* What graphgrind makes of a file with the edges E.
inputOf(x, E) ==
  [n |-> x.n,
   in |-> [v \in 0 .. x.n - 1 |-> inDegreeOf(v, E)],
   out |-> [v \in 0 .. x.n - 1 |-> outDegreeOf(v, E)],
   source |-> x.source, part_ver |-> x.part_ver, relabel |-> x.vebo,
   parts |-> x.part, nodes |-> x.nodes]

\* A graph of which only the degrees are known, in g.
Unknown == [n |-> 1, edges |-> {}, vebo |-> FALSE, part |-> 1, part_ver |-> FALSE,
            source |-> FALSE, hilbert |-> FALSE, nodes |-> 1]

\* Does u come before v?
LargePairSort(u, v) == deg(u) > deg(v) \/ (deg(u) = deg(v) /\ u < v)

check(i0) == CHOOSE v \in Old : Cardinality({u \in Old : LargePairSort(u, v)}) = i0

\* The degrees that occur, from high to low; one that does not occur has the
\* class 0, with which degreeN is initialised.
Degrees == {deg(v) : v \in Old}
classes == Cardinality(Degrees)
degreePerN(j) == CHOOSE d \in Degrees : Cardinality({e \in Degrees : e > d}) = j
degreeN(d) == IF d \in Degrees THEN Cardinality({e \in Degrees : e > d}) ELSE 0

\* The vertices of degree zero are left to phase 2, but for check[0].
same(j) ==
  IF degreePerN(j) # 0 THEN Cardinality({v \in Old : deg(v) = degreePerN(j)})
  ELSE IF j = 0 THEN 1 ELSE 0

czero == Cardinality({v \in Old \ {check(0)} : deg(v) = 0})
Dzero == czero \div G.part

\* The first of the partitions with the least value.
least(f) == CHOOSE p \in Part : \A q \in Part : f[p] < f[q] \/ (f[p] = f[q] /\ p <= q)

VInit ==
  \/ /\ Init
     /\ G = Unknown
     /\ stage = "written"
     /\ class = 0 /\ k = 0 /\ perDeg = <<>> /\ load = <<>> /\ ver_size = <<>>
     /\ fNinter = <<>>
  \/ /\ G \in Raw
     /\ g = inputOf(G, G.edges)
     /\ which = "coo" /\ control = Loaded
     /\ i = 0 /\ counter = 0 /\ startID = 0
     /\ sizeArr = NoSizes(g.n)
     /\ edges = [p \in 0 .. LastPart |-> 0]
     /\ starts = [w \in {"coo", "csc"} |-> [p \in 0 .. g.parts |-> 0]]
     /\ stage = IF G.vebo THEN "assign" ELSE "written"
     /\ class = 0 /\ k = 0
     /\ perDeg = [p \in Part |-> [j \in 0 .. classes - 1 |-> 0]]
     /\ load = [p \in Part |-> 0]
     /\ ver_size = [p \in Part |-> 0]
     /\ fNinter = <<>>

-----------------------------------------------------------------------------
(***************************************************************************)
(* Phase 1: one turn of the loop places one vertex, or a batch while the   *)
(* partition is far behind.                                                *)
(***************************************************************************)
\* How many vertices of degree d one turn places: several when the loads are far
\* apart.
batch(d) ==
  LET delta == Max({load[p] : p \in Part}) - Min({load[p] : p \in Part})
      remain == (same(class) - k) \div G.part
  IN IF delta > d /\ remain > 1 THEN remain ELSE 1

Assign ==
  /\ stage = "assign" /\ class < classes /\ k < same(class)
  /\ LET d == degreePerN(class)
         b == batch(d)
         p == least(load)
     IN /\ load' = [load EXCEPT ![p] = @ + d * b]
        /\ perDeg' = [perDeg EXCEPT ![p][degreeN(d)] = @ + b]
        /\ ver_size' = [ver_size EXCEPT ![p] = @ + b]
        /\ k' = k + b
  /\ UNCHANGED <<G, stage, class, fNinter>>

NextClass ==
  /\ stage = "assign" /\ class < classes /\ k >= same(class)
  /\ class' = class + 1
  /\ k' = 0
  /\ stage' = IF class' = classes THEN "zero" ELSE "assign"
  /\ UNCHANGED <<G, perDeg, load, ver_size, fNinter>>

-----------------------------------------------------------------------------
(***************************************************************************)
(* Phase 2: vertices without in-edges.  With less than one for each        *)
(* partition they go one by one to the smallest partition; otherwise every *)
(* partition is filled up to the average, and the first ones take one more *)
(* vertex each.  Nothing is taken back from a partition above the average. *)
(***************************************************************************)
\* What a partition takes above the average.
surplus(p) == IF p < extra THEN 1 ELSE 0

FillUp ==
  /\ stage = "zero"
  /\ extra = 0 \/ Dzero # 0
  /\ LET missing == [p \in Part |-> surplus(p) + IF ver_size[p] < avg THEN avg - ver_size[p] ELSE 0]
     IN /\ ver_size' = [p \in Part |-> ver_size[p] + missing[p]]
        /\ perDeg' = [p \in Part |-> [perDeg[p] EXCEPT ![degreeN(0)] = @ + missing[p]]]
  /\ stage' = "fill"
  /\ UNCHANGED <<G, class, k, load, fNinter>>

\* wrong variant: the vertices go to the partition with the fewest edges
smallest_ByEdges == least(load)

smallest == least(ver_size)

AddZero ==
  /\ stage = "zero"
  /\ extra # 0 /\ Dzero = 0
  /\ IF k < czero
     THEN /\ ver_size' = [ver_size EXCEPT ![smallest] = @ + 1]
          /\ perDeg' = [perDeg EXCEPT ![smallest][degreeN(0)] = @ + 1]
          /\ k' = k + 1
          /\ UNCHANGED stage
     ELSE stage' = "fill" /\ UNCHANGED <<ver_size, perDeg, k>>
  /\ UNCHANGED <<G, class, load, fNinter>>

-----------------------------------------------------------------------------
(***************************************************************************)
(* The sorted vertices are dealt out class by class, and within a class    *)
(* partition by partition.  place <<j, p, a>> is the a-th of the class j on *)
(* the partition p.                                                        *)
(***************************************************************************)
upTo(f, n0) == MapThenSumSet(LAMBDA x : f[x], 0 .. n0 - 1)

perClass(j) == MapThenSumSet(LAMBDA p : perDeg[p][j], Part)

Places ==
  {x \in (0 .. classes - 1) \X Part \X (0 .. upTo(ver_size, G.part)) : x[3] < perDeg[x[2]][x[1]]}

real(x) ==
  MapThenSumSet(perClass, 0 .. x[1] - 1)
    + MapThenSumSet(LAMBDA p : perDeg[p][x[1]], 0 .. x[2] - 1) + x[3]

\* size[p] + ver_size[p]
index(x) == upTo(ver_size, x[2]) + upTo(perDeg[x[2]], x[1]) + x[3]

\* Filling, relabelling and writing; new numbers are read by graphgrind.
Write ==
  /\ stage = "fill"
  /\ IF upTo(ver_size, G.part) > G.n
     THEN stage' = "wild" /\ UNCHANGED <<fNinter, g>>
     ELSE /\ stage' = "written"
          /\ fNinter' = [new \in {index(x) : x \in Places} |->
                           check(real(CHOOSE x \in Places : index(x) = new))]
          /\ LET inter(old) == CHOOSE new \in DOMAIN fNinter' : fNinter'[new] = old
             IN g' = inputOf(G, {<<inter(e[1]), inter(e[2])>> : e \in G.edges})
  /\ UNCHANGED <<G, placement>>

VNext ==
  \/ (Assign \/ NextClass \/ FillUp \/ AddZero) /\ UNCHANGED vars
  \/ Write /\ UNCHANGED <<control, which, i, counter, sizeArr, edges, startID, starts>>
  \/ stage = "written" /\ Next /\ UNCHANGED veboVars
  \/ stage = "wild" /\ UNCHANGED <<vars, veboVars>>

VSpec == VInit /\ [][VNext]_<<vars, veboVars>>

-----------------------------------------------------------------------------
Reordered == DOMAIN fNinter # {}

(* Types; no more edges are placed than there are.                         *)
VTypeOK ==
  /\ TypeOK
  /\ RawType(G)
  /\ stage \in {"assign", "zero", "fill", "written", "wild"}
  /\ Reordered \/ stage # "written" =>
       /\ class \in 0 .. classes /\ k \in Nat
       /\ perDeg \in [Part -> [0 .. classes - 1 -> Nat]]
       /\ load \in [Part -> Nat] /\ ver_size \in [Part -> Nat]
       /\ upTo(load, G.part) <= Cardinality(G.edges)

\* The new numbers of a partition.
VertexOf(p) == upTo(ver_size, p) .. upTo(ver_size, p + 1) - 1

(***************************************************************************)
(* The numbers of the written graph are a permutation of the old ones, and *)
(* dealing the vertices out gives every partition the edges that phase 1   *)
(* counted for it.                                                         *)
(***************************************************************************)
PlacedAsPlanned ==
  Reordered =>
    /\ DOMAIN fNinter = Old
    /\ {fNinter[new] : new \in Old} = Old
    /\ \A p \in Part : MapThenSumSet(LAMBDA v : g.in[v], VertexOf(p)) = load[p]

(***************************************************************************)
(* The partitions of a written graph differ in edges by the largest degree *)
(* at most, the batches of phase 1 included, and none that was filled with *)
(* vertices without in-edges is more than one vertex above another one.    *)
(***************************************************************************)
PlacementIsBalanced ==
  Reordered =>
    \A p, q \in Part :
      /\ load[p] - load[q] <= Max(Degrees)
      /\ (\E v \in VertexOf(p) : g.in[v] = 0) => ver_size[p] - ver_size[q] <= 1

(***************************************************************************)
(* More places than vertices are filled only when the partitions are       *)
(* filled up to the average and phase 1 left one of them above it: nothing *)
(* is taken back from that one.                                            *)
(***************************************************************************)
WildOnlyIfOverfull ==
  stage = "wild" =>
    /\ extra = 0 \/ Dzero # 0
    /\ \E p \in Part : ver_size[p] - surplus(p) > avg

\* The placement is carried out, balanced, and fails for one reason only.
PlacementIsRight == PlacedAsPlanned /\ PlacementIsBalanced /\ WildOnlyIfOverfull

(***************************************************************************)
(* graphgrind cuts a reordered graph only where a partition of VEBO begins *)
(* and, if the in-degree rises from each of them to the next, at all these *)
(* places.                                                                 *)
(***************************************************************************)
CutsAreVebos ==
  control = "ready" /\ Reordered =>
    LET begin(p) == upTo(ver_size, p)
        cuts == {starts["coo"][p] : p \in 1 .. LastPart}
    IN /\ cuts \subseteq {begin(p) : p \in 1 .. G.part}
       /\ (\A p \in 1 .. G.part - 1 :
             begin(p) \in 1 .. G.n - 1 /\ g.in[begin(p)] > g.in[begin(p) - 1])
            => \A p \in Part : starts["coo"][p] = begin(p)
\* Whatever the degrees, and whoever ordered them, -o cuts where it should.
CutsAreRight == CutWhereDegreesRise /\ CutsAreVebos

-----------------------------------------------------------------------------
(***************************************************************************)
(* The inductive invariant of the placement (COOLists_proofs).             *)
(***************************************************************************)
\* Is there a placement, or the beginning of one?
Placing == stage # "written" \/ Reordered

\* All vertices of a class.
members(j) == Cardinality({v \in Old : deg(v) = degreePerN(j)})

\* Vertices and edges of a partition are those of its share of the classes.
SizesAgree == \A p \in Part : ver_size[p] = upTo(perDeg[p], classes)

edgesPerClass(p) == [j \in 0 .. classes - 1 |-> perDeg[p][j] * degreePerN(j)]
LoadsAgree == \A p \in Part : load[p] = upTo(edgesPerClass(p), classes)

\* The loads differ by the largest degree at most, or what lies between a load
\* and those below it is no more than the edges that are left of the class: a batch is
\* not larger than what the other partitions can still be given each.
Close == \A p, q \in Part : load[p] - load[q] <= Max(Degrees)

above(p) == [q \in Part |-> IF load[p] > load[q] THEN load[p] - load[q] ELSE 0]
CanCatchUp ==
  \A p \in Part : upTo(above(p), G.part) <= degreePerN(class) * (same(class) - k)

\* A partition is given edges only when all before it have some.
FirstComeFirst == \A p, q \in Part : p < q /\ load[q] > 0 => load[p] > 0

\* A partition with vertices of degree 0 is not larger than the others by more than one.
ZerosEven ==
  0 \in Degrees =>
    \A p, q \in Part : perDeg[p][degreeN(0)] > 0 => ver_size[p] <= ver_size[q] + 1

Assigning ==
  /\ class < classes /\ k <= same(class)
  /\ \A j \in 0 .. classes - 1 :
       perClass(j) = IF j < class THEN same(j) ELSE IF j = class THEN k ELSE 0
  /\ LoadsAgree /\ ZerosEven
  /\ Close \/ CanCatchUp

AddingZeros ==
  /\ k <= czero
  /\ \A j \in 0 .. classes - 1 : perClass(j) = same(j) + IF degreePerN(j) = 0 THEN k ELSE 0
  /\ LoadsAgree /\ ZerosEven /\ Close

\* All vertices have a place, or more places than vertices are filled.
Filled ==
  /\ Close
  /\ upTo(ver_size, G.part) >= G.n
  /\ IF upTo(ver_size, G.part) = G.n
     THEN /\ \A j \in 0 .. classes - 1 : perClass(j) = members(j)
          /\ LoadsAgree /\ ZerosEven
     ELSE /\ extra = 0 \/ Dzero # 0
          /\ \E p \in Part : ver_size[p] - surplus(p) > avg

\* The vertices are numbered by partition, and by falling degree within it.
Dealt ==
  /\ upTo(ver_size, G.part) = G.n
  /\ g.n = G.n /\ g.parts = G.part
  /\ DOMAIN fNinter = Old /\ {fNinter[new] : new \in Old} = Old
  /\ \A x \in Places : g.in[index(x)] = degreePerN(x[1])

\* While there is one, its counters have their shape.
PlacementType ==
  /\ RawType(G)
  /\ stage \in {"assign", "zero", "fill", "written", "wild"}
  /\ class \in 0 .. classes /\ k \in Nat
  /\ perDeg \in [Part -> [0 .. classes - 1 -> Nat]]
  /\ load \in [Part -> Nat] /\ ver_size \in [Part -> Nat]

\* What holds of it in the phases, from the first vertex to the graph that is cut.
PlacementInv ==
  Placing =>
    /\ PlacementType /\ SizesAgree /\ FirstComeFirst
    /\ stage = "assign" => Assigning
    /\ stage = "zero" => AddingZeros
    /\ stage \in {"fill", "written", "wild"} => Filled
    /\ stage = "wild" => upTo(ver_size, G.part) # G.n
    /\ stage = "written" => Dealt
=============================================================================
