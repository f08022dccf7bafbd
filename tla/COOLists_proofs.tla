--------------------------- MODULE COOLists_proofs ---------------------------
(***************************************************************************)
(* Proofs about Partitioner, VEBO and COOLists: the ranges of the          *)
(* partitions, for every graph, whatever lies behind the degrees, whether  *)
(* the graph is read as it is or was reordered by VEBO before; the         *)
(* placement of VEBO, and that graphgrind finds it again; and the lists of *)
(* edges, with the Hilbert curve that they follow.                         *)
(***************************************************************************)
EXTENDS COOLists, Lemmas

-----------------------------------------------------------------------------
(***************************************************************************)
(* Sums and elements.                                                      *)
(***************************************************************************)
\* The sums of the first entries of an array.
LEMMA PrefixSums ==
  ASSUME NEW Top \in Nat, NEW f \in [0 .. Top -> Nat]
  PROVE  /\ Total(f, 0 .. 0 - 1) = 0
         /\ \A p \in 0 .. Top : /\ Total(f, 0 .. p - 1) \in Nat
                              /\ Total(f, 0 .. p) = Total(f, 0 .. p - 1) + f[p]
                              /\ Total(f, 0 .. p) \in Nat
<1> DEFINE P == {p \in Nat : Total(f, 0 .. p - 1) \in Nat}
<1>1. Total(f, 0 .. 0 - 1) = 0
  <2>1. 0 .. 0 - 1 = {}
    OBVIOUS
  <2> QED BY <2>1, TotalEmpty
<1>2. ASSUME NEW p \in 0 .. Top
      PROVE  Total(f, 0 .. p) = Total(f, 0 .. p - 1) + f[p]
  <2>1. 0 .. p = (0 .. p - 1) \union {p} /\ p \notin 0 .. p - 1
    OBVIOUS
  <2>2. IsFiniteSet(0 .. p)
    <3>1. 0 \in Int /\ p \in Int
      OBVIOUS
    <3> QED BY <3>1, Intervals, Zenon
  <2>3. IsSummable(f, 0 .. p)
    BY <2>2 DEF IsSummable
  <2> QED BY <2>1, <2>3, TotalAdd
<1>3. \A p \in 0 .. Top : p \in P => p + 1 \in P
  <2> SUFFICES ASSUME NEW p \in 0 .. Top, p \in P PROVE p + 1 \in P
    OBVIOUS
  <2>1. Total(f, 0 .. p) \in Nat
    BY <1>2
  <2>2. (p + 1) - 1 = p
    OBVIOUS
  <2> QED BY <2>1, <2>2
<1>4. \A p \in 0 .. Top + 1 : p \in P
  <2>1. 0 \in P
    BY <1>1
  <2>2. \A p \in 0 .. (Top + 1) - 1 : p \in P => p + 1 \in P
    BY <1>3
  <2>3. Top + 1 \in Nat
    OBVIOUS
  <2> HIDE DEF P
  <2> QED BY <2>1, <2>2, <2>3, BoundedInduction
<1>5. \A p \in 0 .. Top : Total(f, 0 .. p - 1) \in Nat
  BY <1>4
<1>6. \A p \in 0 .. Top : Total(f, 0 .. p) \in Nat
  BY <1>2, <1>5
<1> QED BY <1>1, <1>2, <1>5, <1>6

\* The start positions are such sums, before a step and after it.
first(arr, p) == Total(arr, 0 .. p - 1)

\* A start position is the sum of the sizes before it.
LEMMA StartIsTotal == \A p : startOf(p) = first(sizeArr, p)
BY DEF startOf, first, Total, MapThenSumSet, MapThenFoldSet

\* The same of the state after a step.
LEMMA StartIsTotalThen ==
  /\ \A p : startOf(p)' = first(sizeArr', p)
  /\ startOf(counter)' = first(sizeArr', counter')
  /\ startOf(i)' = first(sizeArr', i')
  /\ startOf(g.parts)' = first(sizeArr', g.parts')
BY DEF startOf, first, Total, MapThenSumSet, MapThenFoldSet

\* The first start position is 0 and each further one adds a size.
StartsAreSums ==
  /\ startOf(0) = 0
  /\ \A p \in 0 .. g.parts : /\ startOf(p) \in Nat /\ startOf(p + 1) \in Nat
                             /\ startOf(p + 1) = startOf(p) + sizeArr[p]

\* Each is the one before and a size.
LEMMA StartFacts == TypeOK => StartsAreSums
<1> SUFFICES ASSUME TypeOK PROVE StartsAreSums
  OBVIOUS
<1>1. g.parts \in Nat /\ sizeArr \in [0 .. g.parts -> Nat]
  BY DEF TypeOK, InputType
<1>2. \A p \in 0 .. g.parts : (p + 1) - 1 = p
  BY <1>1
<1> QED BY <1>1, <1>2, PrefixSums, StartIsTotal DEF StartsAreSums, first

\* Growing sizes.
LEMMA StartsGrow ==
  ASSUME TypeOK, TypeOK', g' = g, counter \in 0 .. g.parts,
         sizeArr' = [sizeArr EXCEPT ![counter] = @ + 1]
  PROVE  \A p \in 0 .. g.parts + 1 :
           first(sizeArr', p) = IF p > counter THEN startOf(p) + 1 ELSE startOf(p)
<1>1. g.parts \in Nat /\ sizeArr \in [0 .. g.parts -> Nat] /\ sizeArr' \in [0 .. g.parts -> Nat]
  BY DEF TypeOK, InputType
<1> SUFFICES ASSUME NEW p \in 0 .. g.parts + 1
             PROVE  first(sizeArr', p) = IF p > counter THEN startOf(p) + 1 ELSE startOf(p)
  OBVIOUS
<1> DEFINE S == 0 .. p - 1
           f == sizeArr
           h == sizeArr'
<1>3. IsFiniteSet(S)
  <2>1. 0 \in Int /\ p - 1 \in Int
    BY <1>1
  <2> QED BY <2>1, Intervals, Zenon
<1>4. IsSummable(f, S) /\ IsSummable(h, S)
  <2>1. \A x \in S : x \in 0 .. g.parts
    BY <1>1
  <2>2. \A x \in S : f[x] \in Int /\ h[x] \in Int
    BY <2>1, <1>1
  <2> HIDE DEF S, f, h
  <2> QED BY <1>3, <2>2 DEF IsSummable
<1>5. ASSUME p > counter PROVE Total(h, S) = Total(f, S) + 1
  <2>1. counter \in S /\ h[counter] = f[counter] + 1 /\ \A x \in S \ {counter} : h[x] = f[x]
    BY <1>1, <1>5
  <2> HIDE DEF S, f, h
  <2> QED BY <1>4, <2>1, TotalIncrement
<1>6. ASSUME ~(p > counter) PROVE Total(h, S) = Total(f, S)
  <2>1. \A x \in S : h[x] = f[x]
    BY <1>1, <1>6
  <2> HIDE DEF S, f, h
  <2> QED BY <1>4, <2>1, TotalSame
<1> QED BY <1>5, <1>6, StartIsTotal DEF first

\* The elements that are cut are finitely many.
LEMMA ElementsAreFinite ==
  ASSUME InputType(g), NEW w \in {"coo", "csc"}
  PROVE  /\ Listed(w) \subseteq 0 .. g.n - 1 /\ IsFiniteSet(Listed(w))
         /\ elements(w) \in Nat
         /\ elements("coo") = g.n
<1>1. Listed(w) \subseteq 0 .. g.n - 1
  BY DEF Listed
<1>2. IsFiniteSet(0 .. g.n - 1) /\ Cardinality(0 .. g.n - 1) = g.n
  <2>1. 0 \in Int /\ g.n - 1 \in Int /\ g.n \in Nat
    BY DEF InputType
  <2>2. /\ IsFiniteSet(0 .. g.n - 1)
        /\ Cardinality(0 .. g.n - 1) = IF 0 > g.n - 1 THEN 0 ELSE (g.n - 1) - 0 + 1
    BY <2>1, Intervals, Zenon
  <2> QED BY <2>1, <2>2
<1>3. IsFiniteSet(Listed(w))
  BY <1>1, <1>2, FS_Subset
<1>4. Listed("coo") = 0 .. g.n - 1
  BY DEF Listed
<1> QED BY <1>1, <1>2, <1>3, <1>4, FS_CardinalityType DEF elements

\* Every position is that of a vertex, whose degree is a number.
LEMMA PositionsAreVertices ==
  ASSUME InputType(g), which \in {"coo", "csc"}, NEW j \in 0 .. size - 1
  PROVE  /\ vertexAt(j) \in Listed(which)
         /\ degrees(j) \in Nat /\ inDegree(j) \in Nat
<1> DEFINE R == {e \in Int \X Int : e[1] < e[2]}
<1>1. Listed(which) \subseteq 0 .. g.n - 1 /\ IsFiniteSet(Listed(which)) /\ size \in Nat
  BY ElementsAreFinite DEF size
<1>2. Orders(R, Listed(which))
  <2>1. \A x, y \in Int : <<x, y>> \in R <=> x < y
    OBVIOUS
  <2>2. Listed(which) \subseteq Int
    BY <1>1
  <2> HIDE DEF R
  <2> QED BY <2>1, <2>2 DEF Orders
<1>3. j \in Nat /\ j < Cardinality(Listed(which))
  BY <1>1 DEF size, elements
<1>4. PICK v \in Listed(which) : rank(R, Listed(which), v) = j
  <2> HIDE DEF R
  <2> QED BY <1>1, <1>2, <1>3, RankExists
<1>5. before(R, Listed(which), v) = {u \in Listed(which) : u < v}
  BY <1>1 DEF before
<1>6. Cardinality({u \in Listed(which) : u < v}) = j
  BY <1>4, <1>5 DEF rank
<1>7. vertexAt(j) \in Listed(which)
  BY <1>6 DEF vertexAt
<1>8. vertexAt(j) \in 0 .. g.n - 1
  BY <1>1, <1>7
<1> QED BY <1>7, <1>8 DEF degrees, inDegree, InputType

\* The degrees of some positions add up, position by position.
LEMMA SumIsTotal ==
  \A S : MapThenSumSet(degrees, S) = Total([j \in S |-> degrees(j)], S)
BY DEF Total, MapThenSumSet, MapThenFoldSet

\* No positions have no edges.
LEMMA SumOfNothing == MapThenSumSet(degrees, {}) = 0
BY SumIsTotal, TotalEmpty

\* One more position adds its degree.
LEMMA DegreesAddUp ==
  ASSUME InputType(g), which \in {"coo", "csc"},
         NEW a \in Nat, NEW b \in 0 .. size - 1, a <= b
  PROVE  /\ MapThenSumSet(degrees, a .. b) = MapThenSumSet(degrees, a .. b - 1) + degrees(b)
         /\ MapThenSumSet(degrees, a .. b - 1) \in Int
<1> DEFINE S == a .. b - 1
           f == [j \in S \union {b} |-> degrees(j)]
           h == [j \in S |-> degrees(j)]
<1>1. size \in Nat
  BY ElementsAreFinite DEF size
<1>2. a .. b = S \union {b} /\ b \notin S /\ S \union {b} \subseteq 0 .. size - 1
  BY <1>1
<1>3. \A j \in S \union {b} : f[j] \in Int
  BY <1>2, PositionsAreVertices
<1>4. IsFiniteSet(a .. b)
  <2>1. a \in Int /\ b \in Int
    BY <1>1
  <2> QED BY <2>1, Intervals, Zenon
<1>5. IsSummable(f, S \union {b})
  BY <1>2, <1>3, <1>4 DEF IsSummable
<1>6. IsSummable(f, S)
  <2> HIDE DEF f, S
  <2>1. S \in SUBSET (S \union {b})
    OBVIOUS
  <2> QED BY <1>5, <2>1, FS_Subset DEF IsSummable
<1>7. \A j \in S : h[j] = f[j]
  OBVIOUS
<1>8. f[b] = degrees(b)
  OBVIOUS
<1>9. MapThenSumSet(degrees, a .. b) = Total(f, S \union {b}) /\ MapThenSumSet(degrees, S) = Total(h, S)
  BY <1>2, SumIsTotal
<1>10. Total(h, S) = Total(f, S)
  <2> HIDE DEF h, f
  <2> QED BY <1>6, <1>7, TotalSame
<1>11. Total(f, S \union {b}) = Total(f, S) + f[b] /\ Total(f, S) \in Int
  <2> HIDE DEF f, S
  <2> QED BY <1>2, <1>5, TotalAdd
<1> HIDE DEF f, h
<1> QED BY <1>8, <1>9, <1>10, <1>11

\* What depends on the input and on the partitioner under construction only.
LEMMA SameElements ==
  ASSUME g' = g, which' = which
  PROVE  /\ size' = size /\ averageDegree' = averageDegree /\ LastPart' = LastPart
         /\ \A j : degrees(j)' = degrees(j)
         /\ \A e : IsFull(e)' = IsFull(e)
         /\ \A S : MapThenSumSet(degrees, S)' = MapThenSumSet(degrees, S)
<1>1. size' = size /\ averageDegree' = averageDegree /\ LastPart' = LastPart
  BY DEF size, elements, Listed, averageDegree, m, MapThenSumSet, MapThenFoldSet, LastPart
<1>2. \A j : degrees(j)' = degrees(j)
  BY DEF degrees, inDegree, vertexAt, Listed
<1>3. \A e : IsFull(e)' = IsFull(e)
  BY <1>1 DEF IsFull
<1>4. ASSUME NEW S PROVE MapThenSumSet(degrees, S)' = MapThenSumSet(degrees, S)
  <2>1. MapThenSumSet(degrees, S)' = Total([j \in S |-> degrees(j)'], S)
    BY DEF Total, MapThenSumSet, MapThenFoldSet
  <2>2. [j \in S |-> degrees(j)'] = [j \in S |-> degrees(j)]
    BY <1>2
  <2> QED BY <2>1, <2>2, SumIsTotal
<1> QED BY <1>1, <1>2, <1>3, <1>4

\* Whether the ranges tile depends on the graph and the start positions only.
LEMMA SameTiles ==
  ASSUME g' = g, starts' = starts, NEW w
  PROVE  Tiles(w)' = Tiles(w)
BY DEF Tiles, elements, Listed, LastPart

\* The average is a number.
LEMMA AverageIsNat ==
  ASSUME InputType(g)
  PROVE  averageDegree \in Nat
<1>1. m = Total(g.in, 0 .. g.n - 1)
  BY DEF m, Total, MapThenSumSet, MapThenFoldSet
<1>2. m \in Nat
  <2>1. CASE g.n = 0
    <3>1. 0 .. g.n - 1 = {}
      BY <2>1
    <3>2. m = Total(g.in, {})
      BY <1>1, <3>1, Zenon
    <3> QED BY <3>2, TotalEmpty
  <2>2. CASE g.n # 0
    <3>1. g.n - 1 \in Nat /\ g.in \in [0 .. g.n - 1 -> Nat]
      BY <2>2 DEF InputType
    <3> QED BY <1>1, <3>1, PrefixSums
  <2> QED BY <2>1, <2>2
<1> QED BY <1>2, Quotient DEF averageDegree, InputType

-----------------------------------------------------------------------------
(***************************************************************************)
(* The invariant of the cutting.                                           *)
(***************************************************************************)
\* A partitioner of which nothing has been built.
Fresh ==
  /\ InputType(g)
  /\ control \in {"size", "exit"} /\ which \in {"coo", "csc"}
  /\ i = 0 /\ counter = 0 /\ startID = 0
  /\ sizeArr = NoSizes(size)
  /\ edges = [p \in 0 .. LastPart |-> 0]
  /\ starts \in [{"coo", "csc"} -> [0 .. g.parts -> Nat]]
  /\ which = "csc" => Tiles("coo")

\* It has the invariant.
LEMMA FreshIsInvariant == Fresh => CutInv
<1> SUFFICES ASSUME Fresh PROVE CutInv
  OBVIOUS
<1>1. g.parts \in Nat \ {0} /\ InputType(g) /\ which \in {"coo", "csc"} /\ size \in Nat
  BY ElementsAreFinite DEF Fresh, InputType, size
<1>2. TypeOK
  BY <1>1 DEF Fresh, TypeOK, NoSizes, LastPart
<1>3. \A p \in 0 .. g.parts : p # g.parts => sizeArr[p] = 0
  BY <1>1 DEF Fresh, NoSizes
<1>4. \A p \in 0 .. g.parts : startOf(p) = 0
  <2> DEFINE P == {p \in Nat : startOf(p) = 0}
  <2>1. StartsAreSums
    BY <1>2, StartFacts
  <2>2. 0 \in P
    BY <2>1 DEF StartsAreSums
  <2>3. \A p \in 0 .. g.parts - 1 : p \in P => p + 1 \in P
    BY <1>1, <1>3, <2>1 DEF StartsAreSums
  <2>4. \A p \in 0 .. g.parts : p \in P
    <3> HIDE DEF P
    <3> QED BY <1>1, <2>2, <2>3, BoundedInduction
  <2> QED BY <2>4
<1>5. SizesAddUp
  BY <1>1, <1>4 DEF Fresh, SizesAddUp, NoSizes, LastPart
<1>6. Contiguous
  BY <1>1, <1>3, <1>4 DEF Fresh, Contiguous, LastPart
<1>7. \A p \in 0 .. LastPart : placed(p) = {}
  BY <1>1, <1>3, <1>4 DEF placed, LastPart
<1>8. \A p \in 0 .. LastPart : Counts(p)
  <2> SUFFICES ASSUME NEW p \in 0 .. LastPart PROVE Counts(p)
    OBVIOUS
  <2>1. edges[p] = 0
    BY DEF Fresh
  <2>2. MapThenSumSet(degrees, {}) = 0
    BY SumOfNothing
  <2> QED BY <1>7, <2>1, <2>2 DEF Counts
<1>9. ClosedWhenFull
  BY <1>1, <1>8 DEF Fresh, ClosedWhenFull, LastPart
<1> QED BY <1>2, <1>5, <1>6, <1>9 DEF CutInv

\* Types, and what every step needs of them.
LEMMA TypeFacts ==
  TypeOK => /\ InputType(g) /\ g.parts \in Nat /\ g.parts # 0 /\ LastPart \in Nat
            /\ LastPart = g.parts - 1
            /\ which \in {"coo", "csc"} /\ size \in Nat /\ averageDegree \in Nat
            /\ counter \in 0 .. g.parts
            /\ sizeArr \in [0 .. g.parts -> Nat] /\ edges \in [0 .. LastPart -> Nat]
BY ElementsAreFinite, AverageIsNat DEF TypeOK, InputType, size, LastPart

\* EqualSizes are numbers: the last partition is not smaller than the others.
LEMMA EqualSizesType ==
  TypeOK => /\ EqualSizes \in [0 .. g.parts -> Nat]
            /\ size \div g.parts \in Nat
            /\ LastPart * (size \div g.parts) <= size
<1> SUFFICES ASSUME TypeOK
             PROVE  /\ EqualSizes \in [0 .. g.parts -> Nat]
                    /\ size \div g.parts \in Nat
                    /\ LastPart * (size \div g.parts) <= size
  OBVIOUS
<1> DEFINE q == size \div g.parts
<1>1. size \in Nat /\ g.parts \in Nat \ {0} /\ LastPart = g.parts - 1
  BY TypeFacts
<1>2. q \in Nat /\ g.parts * q <= size
  BY <1>1, Quotient
<1>3. LastPart * q <= size /\ LastPart * q \in Nat
  <2> HIDE DEF q
  <2>1. LastPart * q = g.parts * q - q
    BY <1>1, <1>2
  <2> QED BY <1>1, <1>2, <2>1
<1>4. size - LastPart * q \in Nat
  <2> HIDE DEF q
  <2> QED BY <1>1, <1>3
<1>5. EqualSizes = [p \in 0 .. g.parts |->
                      CASE p = g.parts -> size
                        [] p = LastPart    -> size - LastPart * q
                        [] OTHER       -> q]
  BY DEF EqualSizes
<1> HIDE DEF q
<1>6. EqualSizes \in [0 .. g.parts -> Nat]
  BY <1>1, <1>2, <1>4, <1>5
<1> QED BY <1>2, <1>3, <1>6 DEF q

\* A step keeps the types.
LEMMA TypeStep == CutInv /\ [Next]_vars => TypeOK'
<1> SUFFICES ASSUME CutInv, [Next]_vars PROVE TypeOK'
  OBVIOUS
<1>1. TypeOK /\ SizesAddUp
  BY DEF CutInv
<1>2. g.parts \in Nat \ {0} /\ LastPart = g.parts - 1 /\ size \in Nat
  BY <1>1, TypeFacts
<1>3. CASE CutByVertex
  BY <1>1, <1>3, EqualSizesType DEF CutByVertex, TypeOK, LastPart
<1>4. CASE PlaceRelabelled
  BY <1>1, <1>2, <1>4 DEF PlaceRelabelled, Place, TypeOK, SizesAddUp, LastPart
<1>5. CASE PlaceByDegree
  <2>1. degrees(i) \in Nat
    <3>1. i \in 0 .. size - 1
      BY <1>1, <1>2, <1>5 DEF PlaceByDegree, TypeOK
    <3> QED BY <1>1, <3>1, PositionsAreVertices DEF TypeOK
  <2>2. counter \in 0 .. LastPart /\ edges[counter] + degrees(i) \in Nat
    BY <1>1, <1>2, <1>5, <2>1 DEF PlaceByDegree, TypeOK
  <2>3. edges' \in [0 .. LastPart -> Nat] /\ counter' \in 0 .. g.parts
    BY <1>1, <1>2, <1>5, <2>2 DEF PlaceByDegree, TypeOK
  <2>4. sizeArr' \in [0 .. g.parts -> Nat] /\ i' \in Nat
    BY <1>1, <1>2, <1>5, <2>2 DEF PlaceByDegree, Place, TypeOK
  <2> QED BY <1>1, <1>5, <2>3, <2>4 DEF PlaceByDegree, Place, TypeOK, LastPart
<1>6. CASE Overrun \/ EndOfSizes
  BY <1>1, <1>6 DEF Overrun, EndOfSizes, TypeOK, LastPart
<1>7. CASE ComputeStarts
  <2>1. i \in 0 .. g.parts /\ startID + sizeArr[i] \in Nat
    BY <1>1, <1>2, <1>7 DEF ComputeStarts, TypeOK
  <2>2. starts' \in [{"coo", "csc"} -> [0 .. g.parts -> Nat]]
    <3>1. [starts[which] EXCEPT ![i] = startID] \in [0 .. g.parts -> Nat]
      BY <1>1, <2>1 DEF TypeOK
    <3> QED BY <1>1, <1>7, <3>1 DEF ComputeStarts, TypeOK
  <2> QED BY <1>1, <1>7, <2>1, <2>2 DEF ComputeStarts, TypeOK, LastPart
<1>8. CASE NextPartitioner
  <2>1. elements("csc") \in Nat
    BY <1>1, ElementsAreFinite DEF TypeOK
  <2> QED BY <1>1, <1>2, <1>8, <2>1 DEF NextPartitioner, BeginSizes, NoSizes, TypeOK, LastPart
<1>9. CASE MmapFailed \/ Ready \/ Stopped \/ UNCHANGED vars
  BY <1>1, <1>9 DEF MmapFailed, Ready, Stopped, vars, TypeOK, LastPart
<1> QED BY <1>3, <1>4, <1>5, <1>6, <1>7, <1>8, <1>9 DEF Next

\* The equal sizes add up to the number of elements.
LEMMA CutByVertexStep == CutInv /\ CutByVertex => CutInv'
<1> SUFFICES ASSUME CutInv, CutByVertex PROVE CutInv'
  OBVIOUS
<1> DEFINE q == size \div g.parts
<1>1. TypeOK /\ SizesAddUp /\ TypeOK'
  BY TypeStep DEF CutInv, Next
<1>2. StartsAreSums'
  BY <1>1, StartFacts, PTL
<1>3. g.parts \in Nat /\ g.parts # 0 /\ LastPart = g.parts - 1 /\ LastPart \in Nat /\ size \in Nat
  BY <1>1, TypeFacts
<1>4. q \in Nat /\ LastPart * q \in Nat /\ LastPart * q <= size
  BY <1>1, <1>3, EqualSizesType
<1>5. g' = g /\ which' = which /\ starts' = starts /\ counter' = counter /\ startID' = startID
      /\ control = "size" /\ control' = "starts" /\ i' = 0 /\ g.part_ver /\ sizeArr' = EqualSizes
  BY DEF CutByVertex
<1>6. size' = size /\ LastPart' = LastPart /\ \A w : Tiles(w)' = Tiles(w)
  BY <1>5, SameElements, SameTiles
<1>7. /\ \A p \in 0 .. LastPart - 1 : sizeArr'[p] = q
      /\ sizeArr'[LastPart] = size - LastPart * q
      /\ sizeArr'[g.parts] = size
  BY <1>3, <1>5 DEF EqualSizes
<1>8. /\ first(sizeArr', 0) = 0
      /\ \A p \in 0 .. g.parts : /\ first(sizeArr', p) \in Nat
                                 /\ first(sizeArr', p + 1) = first(sizeArr', p) + sizeArr'[p]
  BY <1>2, <1>5, StartIsTotalThen DEF StartsAreSums
<1> HIDE DEF q
<1>9. \A p \in 0 .. LastPart : first(sizeArr', p) = p * q
  <2> DEFINE P == {p \in Nat : first(sizeArr', p) = p * q}
  <2>1. 0 \in P
    BY <1>4, <1>8
  <2>2. \A p \in 0 .. LastPart - 1 : p \in P => p + 1 \in P
    <3> SUFFICES ASSUME NEW p \in 0 .. LastPart - 1, p \in P PROVE p + 1 \in P
      OBVIOUS
    <3>1. first(sizeArr', p + 1) = p * q + q
      BY <1>3, <1>7, <1>8
    <3>2. p * q + q = (p + 1) * q
      BY <1>3, <1>4
    <3> QED BY <1>3, <3>1, <3>2
  <2>3. \A p \in 0 .. LastPart : p \in P
    <3> HIDE DEF P
    <3> QED BY <1>3, <2>1, <2>2, BoundedInduction
  <2> QED BY <2>3
<1>10. first(sizeArr', g.parts) = size
  <2>1. first(sizeArr', LastPart) = LastPart * q
    BY <1>3, <1>9
  <2>2. first(sizeArr', LastPart + 1) = LastPart * q + (size - LastPart * q)
    BY <1>3, <1>7, <1>8, <2>1
  <2>3. LastPart + 1 = g.parts
    BY <1>3
  <2> QED BY <1>3, <1>4, <2>2, <2>3
<1>11. SizesAddUp'
  BY <1>1, <1>3, <1>5, <1>6, <1>7, <1>8, <1>10, StartIsTotalThen DEF SizesAddUp
<1>12. Contiguous' /\ ClosedWhenFull'
  BY <1>5 DEF Contiguous, ClosedWhenFull
<1> QED BY <1>1, <1>11, <1>12 DEF CutInv

\* What placing a vertex on a partition does to the sizes.
LEMMA PlaceFacts ==
  ASSUME TypeOK, TypeOK', Place, counter \in 0 .. LastPart
  PROVE  /\ \A p \in 0 .. g.parts + 1 :
              first(sizeArr', p) = IF p > counter THEN startOf(p) + 1 ELSE startOf(p)
         /\ \A p \in 0 .. g.parts :
              sizeArr'[p] = IF p = counter THEN sizeArr[p] + 1 ELSE sizeArr[p]
         /\ g' = g /\ control' = control /\ which' = which /\ starts' = starts /\ startID' = startID
         /\ i' = i + 1
         /\ size' = size /\ LastPart' = LastPart
         /\ \A w : Tiles(w)' = Tiles(w)
<1>1. g' = g /\ control' = control /\ which' = which /\ starts' = starts /\ startID' = startID /\ i' = i + 1
      /\ sizeArr' = [sizeArr EXCEPT ![counter] = @ + 1]
  BY DEF Place
<1>2. counter \in 0 .. g.parts
  BY TypeFacts
<1>3. \A p \in 0 .. g.parts + 1 :
        first(sizeArr', p) = IF p > counter THEN startOf(p) + 1 ELSE startOf(p)
  BY <1>1, <1>2, StartsGrow
<1>4. \A p \in 0 .. g.parts :
        sizeArr'[p] = IF p = counter THEN sizeArr[p] + 1 ELSE sizeArr[p]
  BY <1>1, <1>2, TypeFacts
<1>5. size' = size /\ LastPart' = LastPart /\ \A w : Tiles(w)' = Tiles(w)
  BY <1>1, SameElements, SameTiles
<1> QED BY <1>1, <1>3, <1>4, <1>5

\* The sizes add up to the vertices that have been placed.
LEMMA PlaceKeepsSizes ==
  ASSUME TypeOK, TypeOK', SizesAddUp, Contiguous, Place, control = "size", i < size,
         counter \in 0 .. LastPart, g.relabel => counter' <= LastPart
  PROVE  SizesAddUp'
<1>1. g.parts \in Nat /\ g.parts # 0 /\ LastPart = g.parts - 1 /\ size \in Nat /\ i \in Nat
  BY TypeFacts DEF TypeOK
<1>2. first(sizeArr', g.parts) = startOf(g.parts) + 1 /\ sizeArr'[g.parts] = sizeArr[g.parts]
  BY <1>1, PlaceFacts
<1> QED BY <1>1, <1>2, PlaceFacts, StartIsTotalThen DEF SizesAddUp

\* The partition being filled ends with the last of them.
LEMMA PlaceKeepsContiguous ==
  ASSUME TypeOK, TypeOK', Contiguous, Place, control = "size",
         counter \in 0 .. LastPart, counter' \in counter .. counter + 2,
         \A p \in 0 .. LastPart : p # counter => edges'[p] = edges[p]
  PROVE  Contiguous'
<1>1. g.parts \in Nat /\ g.parts # 0 /\ LastPart = g.parts - 1 /\ i \in Nat
  BY TypeFacts DEF TypeOK
<1>2. StartsAreSums
  BY StartFacts
<1>3. /\ \A p \in 0 .. LastPart : p > counter => sizeArr[p] = 0 /\ edges[p] = 0
      /\ startOf(counter) + sizeArr[counter] = i
  BY DEF Contiguous
<1>4. \A p \in 0 .. LastPart : p > counter' => sizeArr'[p] = 0 /\ edges'[p] = 0
  BY <1>1, <1>3, PlaceFacts
<1>5. ASSUME counter' <= LastPart PROVE first(sizeArr', counter') + sizeArr'[counter'] = i + 1
  <2>1. counter' \in 0 .. g.parts
    BY <1>1, <1>5
  <2>2. CASE counter' = counter
    <3>1. first(sizeArr', counter) = startOf(counter) /\ sizeArr'[counter] = sizeArr[counter] + 1
      BY <1>1, PlaceFacts
    <3>2. startOf(counter) \in Nat /\ sizeArr[counter] \in Nat
      BY <1>1, <1>2, TypeFacts DEF StartsAreSums
    <3> QED BY <1>1, <1>3, <2>2, <3>1, <3>2
  <2>3. CASE counter' = counter + 1
    BY <1>1, <1>2, <1>3, <1>5, <2>1, <2>3, PlaceFacts DEF StartsAreSums
  <2>4. CASE counter' = counter + 2
    <3>1. startOf(counter + 1) = i /\ sizeArr[counter + 1] = 0
      BY <1>1, <1>2, <1>3, <1>5, <2>4 DEF StartsAreSums
    <3>2. startOf(counter + 2) = i /\ sizeArr[counter + 2] = 0
      <4>1. startOf((counter + 1) + 1) = startOf(counter + 1) + sizeArr[counter + 1]
        BY <1>1, <1>2, <1>5, <2>4 DEF StartsAreSums
      <4>2. (counter + 1) + 1 = counter + 2
        BY <1>1
      <4> QED BY <1>1, <1>3, <1>5, <2>4, <3>1, <4>1, <4>2
    <3> QED BY <1>1, <1>5, <2>1, <2>4, <3>2, PlaceFacts
  <2> QED BY <2>2, <2>3, <2>4
<1>6. LastPart' = LastPart /\ i' = i + 1
  BY PlaceFacts
<1> QED BY <1>4, <1>5, <1>6, StartIsTotalThen DEF Contiguous

\* Under -o every vertex is placed on one of the partitions.
LEMMA PlaceRelabelledStep == CutInv /\ PlaceRelabelled => CutInv'
<1> SUFFICES ASSUME CutInv, PlaceRelabelled PROVE CutInv'
  OBVIOUS
<1>1. TypeOK /\ SizesAddUp /\ Contiguous /\ TypeOK'
  BY TypeStep DEF CutInv, Next
<1>2. g.parts \in Nat /\ g.parts # 0 /\ LastPart = g.parts - 1
  BY <1>1, TypeFacts
<1>3. Place /\ control = "size" /\ i < size /\ g.relabel /\ edges' = edges
  BY DEF PlaceRelabelled
<1>4. counter \in 0 .. LastPart
  BY <1>1, <1>2, <1>3, TypeFacts DEF SizesAddUp
<1>5. counter' \in counter .. counter + 2 /\ counter' <= LastPart
  BY <1>2, <1>4 DEF PlaceRelabelled
<1>6. SizesAddUp'
  BY <1>1, <1>3, <1>4, <1>5, PlaceKeepsSizes
<1>7. Contiguous'
  BY <1>1, <1>3, <1>4, <1>5, PlaceKeepsContiguous
<1>8. ClosedWhenFull'
  <2>1. g' = g
    BY <1>3 DEF Place
  <2> QED BY <1>3, <2>1 DEF ClosedWhenFull
<1> QED BY <1>1, <1>6, <1>7, <1>8 DEF CutInv

\* The edges of a partition are those of its vertices, also of the vertex that
\* is placed now.
LEMMA PlaceKeepsCounts ==
  ASSUME TypeOK, TypeOK', Contiguous, Place, control = "size", i < size,
         counter \in 0 .. LastPart,
         edges' = [edges EXCEPT ![counter] = @ + degrees(i)],
         \A p \in 0 .. LastPart : Counts(p)
  PROVE  /\ \A p \in 0 .. LastPart : Counts(p)'
         /\ \A p \in 0 .. LastPart : p < counter => placed(p)' = placed(p)
         /\ \A p \in 0 .. LastPart : p > counter => placed(p)' = {}
<1>1. g.parts \in Nat /\ g.parts # 0 /\ LastPart = g.parts - 1 /\ i \in Nat /\ InputType(g)
      /\ which \in {"coo", "csc"} /\ size \in Nat /\ LastPart \in Nat
      /\ edges \in [0 .. LastPart -> Nat]
  BY TypeFacts DEF TypeOK
<1>2. /\ \A p \in 0 .. LastPart : p > counter => sizeArr[p] = 0 /\ edges[p] = 0
      /\ startOf(counter) + sizeArr[counter] = i
  BY DEF Contiguous
<1>3. \A S : MapThenSumSet(degrees, S)' = MapThenSumSet(degrees, S)
  BY PlaceFacts, SameElements
<1>4. \A p \in 0 .. g.parts : startOf(p) \in Nat /\ sizeArr[p] \in Nat
  BY StartFacts, TypeFacts DEF StartsAreSums
<1>5. \A p : placed(p)' = first(sizeArr', p) .. first(sizeArr', p) + sizeArr'[p] - 1
  BY StartIsTotalThen DEF placed
<1>6. ASSUME NEW p \in 0 .. LastPart, p < counter
      PROVE  placed(p)' = placed(p) /\ edges'[p] = edges[p]
  BY <1>1, <1>5, <1>6, PlaceFacts DEF placed
<1>7. ASSUME NEW p \in 0 .. LastPart, p > counter
      PROVE  placed(p)' = {} /\ edges'[p] = 0
  <2>1. first(sizeArr', p) = startOf(p) + 1 /\ sizeArr'[p] = 0 /\ edges'[p] = 0
    BY <1>1, <1>2, <1>7, PlaceFacts
  <2> DEFINE s == startOf(p)
  <2>2. placed(p)' = s + 1 .. s + 1 + 0 - 1 /\ s \in Nat
    BY <1>1, <1>4, <1>5, <2>1
  <2> HIDE DEF s
  <2>3. s + 1 .. s + 1 + 0 - 1 = {}
    BY <2>2
  <2> QED BY <2>1, <2>2, <2>3
<1>8. edges[counter] = MapThenSumSet(degrees, startOf(counter) .. i - 1)
      /\ placed(counter) = startOf(counter) .. i - 1
  <2>1. placed(counter) = startOf(counter) .. i - 1
    <3> DEFINE s == startOf(counter)
               l == sizeArr[counter]
    <3>1. s \in Nat /\ l \in Nat /\ s + l = i
      BY <1>1, <1>2, <1>4
    <3>2. placed(counter) = s .. s + l - 1
      BY DEF placed
    <3> HIDE DEF s, l
    <3>3. s + l - 1 = i - 1
      BY <3>1
    <3> QED BY <3>2, <3>3 DEF s
  <2>2. Counts(counter)
    OBVIOUS
  <2> QED BY <2>1, <2>2 DEF Counts
<1>9. \A c : c = counter =>
        /\ first(sizeArr', c) = startOf(c) /\ sizeArr'[c] = sizeArr[c] + 1
        /\ edges'[c] = edges[c] + degrees(i)
  BY <1>1, PlaceFacts
<1>10. ASSUME NEW c, c = counter PROVE Counts(c)'
  <2>1. placed(c)' = startOf(c) .. i
    <3> DEFINE s == startOf(c)
               l == sizeArr[c]
    <3>1. placed(c)' = s .. s + (l + 1) - 1 /\ s \in Nat /\ l \in Nat /\ s + l = i
      BY <1>1, <1>2, <1>4, <1>5, <1>9, <1>10
    <3> HIDE DEF s, l
    <3>2. s + (l + 1) - 1 = i
      BY <1>1, <3>1
    <3> QED BY <3>1, <3>2 DEF s
  <2>2. startOf(c) \in Nat /\ startOf(c) <= i /\ i \in 0 .. size - 1
    BY <1>1, <1>2, <1>4, <1>10
  <2>3. MapThenSumSet(degrees, startOf(c) .. i) =
          MapThenSumSet(degrees, startOf(c) .. i - 1) + degrees(i)
    BY <1>1, <2>2, DegreesAddUp
  <2>4. edges'[c] = MapThenSumSet(degrees, startOf(c) .. i)
    BY <1>8, <1>9, <1>10, <2>3
  <2> QED BY <1>3, <2>1, <2>4 DEF Counts
<1>11. ASSUME NEW p \in 0 .. LastPart PROVE Counts(p)'
  <2>1. CASE p < counter
    <3>1. Counts(p)
      OBVIOUS
    <3> QED BY <1>3, <1>6, <2>1, <3>1 DEF Counts
  <2>2. CASE p > counter
    BY <1>3, <1>7, <2>2, SumOfNothing DEF Counts
  <2>3. CASE p = counter
    BY <1>10, <2>3
  <2> QED BY <1>1, <2>1, <2>2, <2>3
<1> QED BY <1>6, <1>7, <1>11

\* -v edge: a partition is left when it is about full, and no partition before
\* the last one is full while it is being filled.
LEMMA PlaceByDegreeStep == CutInv /\ PlaceByDegree => CutInv'
<1> SUFFICES ASSUME CutInv, PlaceByDegree PROVE CutInv'
  OBVIOUS
<1> DEFINE e == edges[counter] + degrees(i)
           c(next) == IF ClosesEarly(e, next) THEN counter + 1 ELSE counter
           filled(next) == IF c(next) = counter THEN e ELSE 0
<1>1. TypeOK /\ SizesAddUp /\ Contiguous /\ ClosedWhenFull /\ TypeOK'
  BY TypeStep DEF CutInv, Next
<1>2. /\ g.parts \in Nat /\ g.parts # 0 /\ LastPart = g.parts - 1 /\ LastPart \in Nat
      /\ InputType(g) /\ which \in {"coo", "csc"} /\ size \in Nat /\ i \in Nat
      /\ edges \in [0 .. LastPart -> Nat] /\ averageDegree \in Nat
  BY <1>1, TypeFacts DEF TypeOK
<1>3. /\ Place /\ control = "size" /\ i < size /\ ~g.part_ver /\ ~g.relabel
      /\ counter \in 0 .. LastPart
      /\ edges' = [edges EXCEPT ![counter] = @ + degrees(i)]
  BY <1>1, <1>2, TypeFacts DEF PlaceByDegree
<1>4. PICK next \in NextDegree :
        counter' = IF c(next) < LastPart /\ IsFull(filled(next)) THEN c(next) + 1 ELSE c(next)
  BY DEF PlaceByDegree
<1>5. i \in 0 .. size - 1 /\ degrees(i) \in Nat /\ e \in Nat
  BY <1>2, <1>3, PositionsAreVertices
<1>6. counter' \in counter .. counter + 2
  BY <1>2, <1>3, <1>4
<1>7. SizesAddUp'
  BY <1>1, <1>3, PlaceKeepsSizes
<1>8. Contiguous'
  <2>1. \A p \in 0 .. LastPart : p # counter => edges'[p] = edges[p]
    BY <1>2, <1>3
  <2> QED BY <1>1, <1>3, <1>6, <2>1, PlaceKeepsContiguous
<1>9. /\ \A p \in 0 .. LastPart : Counts(p)
      /\ \A p \in 0 .. LastPart : p < counter => ClosedAt(p, startOf(p + 1))
      /\ averageDegree > 0 /\ counter < LastPart => edges[counter] < averageDegree
  BY <1>1, <1>3 DEF ClosedWhenFull
<1>10. /\ \A p \in 0 .. LastPart : Counts(p)'
       /\ \A p \in 0 .. LastPart : p < counter => placed(p)' = placed(p)
       /\ \A p \in 0 .. LastPart : p > counter => placed(p)' = {}
  BY <1>1, <1>3, <1>9, PlaceKeepsCounts
<1>11. /\ size' = size /\ averageDegree' = averageDegree /\ LastPart' = LastPart
       /\ \A j : degrees(j)' = degrees(j)
       /\ \A x : IsFull(x)' = IsFull(x)
       /\ g' = g /\ control' = control
  BY <1>1, <1>3, PlaceFacts, SameElements
<1>12. \A p \in 0 .. LastPart : p > counter => edges'[p] = 0 /\ sizeArr'[p] = 0
  <2>1. \A p \in 0 .. LastPart : p > counter => sizeArr[p] = 0 /\ edges[p] = 0
    BY <1>3 DEF Contiguous, CutInv
  <2> QED BY <1>1, <1>2, <1>3, <2>1, PlaceFacts
<1>13. first(sizeArr', counter + 1) = i + 1 /\ edges'[counter] = e
  <2>1. startOf(counter) + sizeArr[counter] = i
    BY <1>1, <1>3 DEF Contiguous
  <2>2. startOf(counter + 1) = startOf(counter) + sizeArr[counter]
    BY <1>1, <1>2, <1>3, StartFacts DEF StartsAreSums
  <2>3. counter + 1 \in 0 .. g.parts + 1
    BY <1>2, <1>3
  <2>4. first(sizeArr', counter + 1) = startOf(counter + 1) + 1
    BY <1>1, <1>2, <1>3, <2>3, PlaceFacts
  <2> QED BY <1>2, <1>3, <2>1, <2>2, <2>4
<1>14. ASSUME counter' > counter
       PROVE  /\ averageDegree > 0 => edges[counter] < averageDegree
              /\ IsFull(e) \/ i = size - 1 \/ 10 * (e + degrees(i + 1)) > 11 * averageDegree
  <2>1. CASE ClosesEarly(e, next)
    <3>1. e < averageDegree /\ 10 * (next + e) > 11 * averageDegree
      BY <2>1 DEF ClosesEarly
    <3>2. i = size - 1 \/ next = degrees(i + 1)
      BY <1>2, <1>3 DEF NextDegree
    <3>3. i < size - 1 => degrees(i + 1) \in Nat
      <4>1. i < size - 1 => i + 1 \in 0 .. size - 1
        BY <1>2
      <4> QED BY <1>2, <4>1, PositionsAreVertices
    <3>4. edges[counter] \in Nat
      BY <1>2, <1>3
    <3>5. i # size - 1 => 10 * (e + degrees(i + 1)) > 11 * averageDegree
      <4> SUFFICES ASSUME i # size - 1 PROVE 10 * (e + degrees(i + 1)) > 11 * averageDegree
        OBVIOUS
      <4>1. next = degrees(i + 1) /\ degrees(i + 1) \in Nat
        BY <1>2, <1>3, <3>2, <3>3
      <4>2. next + e = e + degrees(i + 1)
        BY <1>5, <4>1
      <4> QED BY <3>1, <4>2
    <3> QED BY <1>2, <1>5, <3>1, <3>4, <3>5
  <2>2. CASE ~ClosesEarly(e, next)
    <3>1. c(next) = counter /\ filled(next) = e
      BY <2>2
    <3>2. counter < LastPart /\ IsFull(e)
      BY <1>2, <1>3, <1>4, <1>14, <3>1
    <3> QED BY <1>9, <3>2
  <2> QED BY <2>1, <2>2
<1>15. ASSUME NEW p \in 0 .. LastPart, p < counter'
       PROVE  ClosedAt(p, startOf(p + 1))'
  <2>1. CASE p < counter
    <3>1. placed(p)' = placed(p) /\ edges'[p] = edges[p]
      BY <1>2, <1>3, <1>10, <2>1
    <3>2. startOf(p + 1)' = startOf(p + 1)
      <4>1. p + 1 \in 0 .. g.parts + 1 /\ ~(p + 1 > counter)
        BY <1>2, <1>3, <2>1
      <4> QED BY <1>1, <1>3, <4>1, PlaceFacts, StartIsTotalThen
    <3>3. ClosedAt(p, startOf(p + 1))
      BY <1>9, <2>1
    <3> QED BY <1>11, <3>1, <3>2, <3>3 DEF ClosedAt
  <2>2. CASE p = counter
    <3>1. startOf(p + 1)' = i + 1 /\ edges'[p] = e
      BY <1>13, <2>2, StartIsTotalThen
    <3>2. counter' > counter
      BY <1>2, <1>3, <1>6, <1>15, <2>2
    <3>3. /\ averageDegree > 0 => e - degrees(i) < averageDegree
          /\ IsFull(e) \/ i = size - 1 \/ 10 * (e + degrees(i + 1)) > 11 * averageDegree
      <4>1. e - degrees(i) = edges[counter]
        BY <1>2, <1>3, <1>5
      <4> QED BY <1>14, <3>2, <4>1
    <3>4. (i + 1) - 1 = i
      BY <1>2
    <3> QED BY <1>11, <3>1, <3>3, <3>4 DEF ClosedAt
  <2>3. CASE p > counter
    <3>1. placed(p)' = {}
      BY <1>10, <2>3
    <3> QED BY <3>1 DEF ClosedAt
  <2> QED BY <1>2, <1>3, <2>1, <2>2, <2>3
<1>16. averageDegree > 0 /\ counter' < LastPart => edges'[counter'] < averageDegree
  <2> SUFFICES ASSUME averageDegree > 0, counter' < LastPart
               PROVE  edges'[counter'] < averageDegree
    OBVIOUS
  <2>1. CASE counter' = counter
    <3>1. c(next) = counter
      BY <1>2, <1>3, <1>4, <2>1
    <3>2. ~IsFull(e)
      BY <1>2, <1>3, <1>4, <2>1, <3>1
    <3> QED BY <1>2, <1>5, <1>13, <2>1, <3>2 DEF IsFull
  <2>2. CASE counter' # counter
    <3>1. counter' \in 0 .. LastPart /\ counter' > counter
      BY <1>2, <1>3, <1>6, <2>2
    <3>2. edges'[counter'] = 0
      BY <1>12, <3>1
    <3> QED BY <3>2
  <2> QED BY <2>1, <2>2
<1>17. ClosedWhenFull'
  BY <1>3, <1>10, <1>11, <1>15, <1>16 DEF ClosedWhenFull
<1> QED BY <1>1, <1>7, <1>8, <1>17 DEF CutInv

\* Steps that neither place nor count a vertex.
LEMMA ClosedStays ==
  ASSUME g' = g, which' = which, counter' = counter, sizeArr' = sizeArr, edges' = edges
  PROVE  /\ \A p : Counts(p)' = Counts(p)
         /\ \A p : (p < counter => ClosedAt(p, startOf(p + 1)))' = (p < counter => ClosedAt(p, startOf(p + 1)))
         /\ LastPart' = LastPart
<1>1. \A p : startOf(p)' = startOf(p)
  BY StartIsTotal, StartIsTotalThen
<1>2. \A p : placed(p)' = placed(p)
  BY <1>1 DEF placed
<1>3. \A p : Counts(p)' = Counts(p)
  BY <1>2, SameElements DEF Counts
<1>4. \A p, end : ClosedAt(p, end)' = ClosedAt(p, end)
  BY <1>2, SameElements DEF ClosedAt
<1> QED BY <1>1, <1>3, <1>4, SameElements

\* The assertion under -v edge is the only thing that is tested.
LEMMA EndOfSizesStep == CutInv /\ EndOfSizes => CutInv'
<1> SUFFICES ASSUME CutInv, EndOfSizes PROVE CutInv'
  OBVIOUS
<1>1. TypeOK /\ SizesAddUp /\ Contiguous /\ ClosedWhenFull /\ TypeOK'
  BY TypeStep DEF CutInv, Next
<1>2. g.parts \in Nat /\ g.parts # 0 /\ LastPart = g.parts - 1 /\ counter \in 0 .. g.parts
  BY <1>1, TypeFacts
<1>3. /\ control = "size" /\ i = size /\ ~(g.part_ver /\ ~g.relabel)
      /\ control' = "abort" \/ (control' = "starts" /\ i' = 0 /\ (~g.part_ver => counter + 1 = g.parts))
      /\ g' = g /\ which' = which /\ counter' = counter /\ sizeArr' = sizeArr
      /\ edges' = edges /\ startID' = startID /\ starts' = starts
  BY DEF EndOfSizes
<1>4. SizesAddUp'
  <2>1. size' = size /\ LastPart' = LastPart /\ \A w : Tiles(w)' = Tiles(w)
    BY <1>3, SameElements, SameTiles
  <2>2. startOf(g.parts)' = startOf(g.parts)
    BY <1>3, StartIsTotal, StartIsTotalThen
  <2>3. first(sizeArr, 0) = 0
    BY <1>1, StartFacts, StartIsTotal DEF StartsAreSums
  <2>4. i' = 0 => startOf(i)' = 0
    BY <1>3, <2>3, StartIsTotalThen
  <2> QED BY <1>1, <1>2, <1>3, <2>1, <2>2, <2>4 DEF SizesAddUp
<1>5. Contiguous'
  BY <1>3 DEF Contiguous
<1>6. ClosedWhenFull'
  <2>1. CASE g.part_ver \/ g.relabel
    BY <1>3, <2>1 DEF ClosedWhenFull
  <2>2. CASE control' = "starts" /\ ~g.part_ver /\ ~g.relabel
    <3>1. \A p \in 0 .. LastPart : Counts(p) /\ (p < counter => ClosedAt(p, startOf(p + 1)))
      BY <1>1, <1>3, <2>2 DEF ClosedWhenFull
    <3>2. /\ \A p : Counts(p)' = Counts(p)
          /\ \A p : (p < counter => ClosedAt(p, startOf(p + 1)))'
                     = (p < counter => ClosedAt(p, startOf(p + 1)))
          /\ LastPart' = LastPart
      BY <1>3, ClosedStays
    <3>3. (\A p \in 0 .. LastPart : Counts(p))'
      BY <3>1, <3>2
    <3>4. (\A p \in 0 .. LastPart : p < counter => ClosedAt(p, startOf(p + 1)))'
      BY <3>1, <3>2
    <3>5. counter' = LastPart'
      BY <1>2, <1>3, <2>2, <3>2
    <3> QED BY <2>2, <3>3, <3>4, <3>5 DEF ClosedWhenFull
  <2> QED BY <1>3, <2>1, <2>2 DEF ClosedWhenFull
<1> QED BY <1>1, <1>4, <1>5, <1>6 DEF CutInv

\* compute_starts
LEMMA ComputeStartsStep == CutInv /\ ComputeStarts => CutInv'
<1> SUFFICES ASSUME CutInv, ComputeStarts PROVE CutInv'
  OBVIOUS
<1>1. TypeOK /\ SizesAddUp /\ Contiguous /\ ClosedWhenFull /\ TypeOK'
  BY TypeStep DEF CutInv, Next
<1>2. /\ g.parts \in Nat /\ g.parts # 0 /\ LastPart = g.parts - 1 /\ which \in {"coo", "csc"}
      /\ i \in Nat
  BY <1>1, TypeFacts DEF TypeOK
<1>3. /\ control = "starts" /\ i <= g.parts /\ control' = "starts"
      /\ starts' = [starts EXCEPT ![which] = [starts[which] EXCEPT ![i] = startID]]
      /\ startID' = startID + sizeArr[i] /\ i' = i + 1
      /\ g' = g /\ which' = which /\ counter' = counter /\ sizeArr' = sizeArr /\ edges' = edges
  BY DEF ComputeStarts
<1>4. \A w \in {"coo", "csc"} : w # which => starts'[w] = starts[w]
  BY <1>1, <1>2, <1>3 DEF TypeOK
<1>5. \A p \in 0 .. g.parts : starts'[which][p] = IF p = i THEN startID ELSE starts[which][p]
  BY <1>1, <1>2, <1>3 DEF TypeOK
<1>6. size' = size /\ LastPart' = LastPart /\ elements("coo")' = elements("coo")
  BY <1>3, SameElements DEF elements, Listed
<1>7. \A p : startOf(p)' = startOf(p)
  BY <1>3, StartIsTotal, StartIsTotalThen
<1>8. startOf(g.parts)' = startOf(g.parts)
  BY <1>3, StartIsTotal, StartIsTotalThen
<1>9. SizesAddUp'
  <2>1. which' = "csc" => Tiles("coo")'
    BY <1>1, <1>3, <1>4, <1>6 DEF SizesAddUp, Tiles
  <2>2. (i <= g.parts => startID = startOf(i))'
    <3>1. ASSUME i + 1 <= g.parts PROVE startID + sizeArr[i] = startOf(i + 1)
      BY <1>1, <1>2, <1>3, <3>1, StartFacts DEF SizesAddUp, StartsAreSums
    <3>2. startOf(i)' = startOf(i + 1)
      BY <1>3, StartIsTotal, StartIsTotalThen
    <3> QED BY <1>2, <1>3, <3>1, <3>2
  <2>3. \A p \in 0 .. g.parts : p < i' => starts'[which][p] = startOf(p)
    BY <1>1, <1>2, <1>3, <1>5 DEF SizesAddUp
  <2>4. i + 1 <= g.parts + 1
    BY <1>2, <1>3
  <2> QED BY <1>1, <1>3, <1>6, <1>7, <1>8, <2>1, <2>2, <2>3, <2>4 DEF SizesAddUp
<1>10. Contiguous' /\ ClosedWhenFull'
  <2>1. CASE g.part_ver \/ g.relabel
    BY <1>3, <2>1 DEF ClosedWhenFull, Contiguous
  <2>2. CASE ~g.part_ver /\ ~g.relabel
    BY <1>1, <1>3, <2>2, ClosedStays DEF ClosedWhenFull, Contiguous
  <2> QED BY <2>1, <2>2
<1> QED BY <1>1, <1>9, <1>10 DEF CutInv

\* When all the start positions have been computed, the ranges follow each
\* other.
LEMMA StartsTile ==
  ASSUME TypeOK, SizesAddUp, control = "starts", i > g.parts
  PROVE  Tiles(which) /\ \A p \in 0 .. g.parts : starts[which][p] = startOf(p)
<1>1. /\ g.parts \in Nat /\ g.parts # 0 /\ LastPart = g.parts - 1 /\ i \in Nat
      /\ sizeArr \in [0 .. g.parts -> Nat]
  BY TypeFacts DEF TypeOK
<1>2. \A p \in 0 .. g.parts : starts[which][p] = startOf(p)
  BY <1>1 DEF SizesAddUp
<1>3. startOf(g.parts) = elements(which)
  BY DEF SizesAddUp, size
<1>4. ASSUME NEW p \in 0 .. LastPart PROVE startOf(p) <= startOf(p + 1)
  <2>1. p \in 0 .. g.parts /\ sizeArr[p] \in Nat
    BY <1>1
  <2>2. startOf(p) \in Nat /\ startOf(p + 1) = startOf(p) + sizeArr[p]
    BY <2>1, StartFacts DEF StartsAreSums
  <2> QED BY <2>1, <2>2
<1>5. startOf(0) = 0
  BY StartFacts DEF StartsAreSums
<1> QED BY <1>1, <1>2, <1>3, <1>4, <1>5 DEF Tiles

\* The second partitioner is made when the first one is complete.
LEMMA NextPartitionerStep == CutInv /\ NextPartitioner => CutInv'
<1> SUFFICES ASSUME CutInv, NextPartitioner PROVE CutInv'
  OBVIOUS
<1>1. TypeOK /\ SizesAddUp /\ TypeOK'
  BY TypeStep DEF CutInv, Next
<1>2. Tiles("coo")
  BY <1>1, StartsTile DEF NextPartitioner
<1>3. g' = g /\ starts' = starts /\ which' = "csc"
  BY DEF NextPartitioner, BeginSizes
<1>4. Tiles("coo")' /\ elements("csc") = size'
  BY <1>2, <1>3, SameTiles DEF size, elements, Listed
<1>5. Fresh'
  BY <1>1, <1>3, <1>4 DEF NextPartitioner, BeginSizes, Fresh, TypeOK, NoSizes, LastPart
<1> QED BY <1>5, FreshIsInvariant, PTL

\* The graph is complete when the second one is.
LEMMA ReadyStep == CutInv /\ Ready => CutInv'
<1> SUFFICES ASSUME CutInv, Ready PROVE CutInv'
  OBVIOUS
<1>1. TypeOK /\ SizesAddUp /\ ClosedWhenFull /\ TypeOK'
  BY TypeStep DEF CutInv, Next
<1>2. /\ control = "starts" /\ i > g.parts /\ which = "csc" /\ control' = "ready"
      /\ g' = g /\ which' = which /\ counter' = counter /\ sizeArr' = sizeArr
      /\ edges' = edges /\ starts' = starts
  BY DEF Ready
<1>3. Tiles("csc") /\ Tiles("coo") /\ \A p \in 0 .. g.parts : starts["csc"][p] = startOf(p)
  BY <1>1, <1>2, StartsTile DEF SizesAddUp
<1>4. \A w : Tiles(w)' = Tiles(w)
  BY <1>2, SameTiles
<1>5. size' = size /\ LastPart' = LastPart
  BY <1>2, SameElements
<1>6. SizesAddUp'
  BY <1>1, <1>2, <1>3, <1>4, <1>5 DEF SizesAddUp
<1>7. ClosedWhenFull'
  <2>1. CASE g.part_ver \/ g.relabel
    BY <1>2, <2>1 DEF ClosedWhenFull
  <2>2. CASE ~g.part_ver /\ ~g.relabel
    <3>1. \A p : startOf(p)' = startOf(p)
      BY <1>2, StartIsTotal, StartIsTotalThen
    <3> QED BY <1>1, <1>2, <1>3, <2>2, <3>1, ClosedStays DEF ClosedWhenFull
  <2> QED BY <2>1, <2>2
<1>8. Contiguous'
  BY <1>2 DEF Contiguous
<1> QED BY <1>1, <1>6, <1>7, <1>8 DEF CutInv

\* The steps that only stop.
LEMMA StopStep == CutInv /\ (Overrun \/ MmapFailed \/ Stopped \/ UNCHANGED vars) => CutInv'
<1> SUFFICES ASSUME CutInv, Overrun \/ MmapFailed \/ Stopped \/ UNCHANGED vars
             PROVE  CutInv'
  OBVIOUS
<1>1. TypeOK /\ SizesAddUp /\ Contiguous /\ ClosedWhenFull /\ TypeOK'
  BY TypeStep DEF CutInv, Next
<1>2. /\ g' = g /\ which' = which /\ i' = i /\ counter' = counter /\ sizeArr' = sizeArr
      /\ edges' = edges /\ startID' = startID /\ starts' = starts
      /\ control' = control \/ control' \in {"overrun", "exit"}
  BY DEF Overrun, MmapFailed, Stopped, vars
<1>3. \A w : Tiles(w)' = Tiles(w)
  BY <1>2, SameTiles
<1>4. size' = size /\ LastPart' = LastPart /\ averageDegree' = averageDegree
  BY <1>2, SameElements
<1>5. /\ \A p : startOf(p)' = startOf(p)
      /\ startOf(g.parts)' = startOf(g.parts) /\ startOf(i)' = startOf(i)
      /\ startOf(counter)' = startOf(counter)
  BY <1>2, StartIsTotal, StartIsTotalThen
<1>6. SizesAddUp'
  BY <1>1, <1>2, <1>3, <1>4, <1>5 DEF SizesAddUp
<1>7. Contiguous'
  BY <1>1, <1>2, <1>4, <1>5 DEF Contiguous
<1>8. ClosedWhenFull'
  BY <1>1, <1>2, <1>4, <1>5, ClosedStays DEF ClosedWhenFull
<1> QED BY <1>1, <1>6, <1>7, <1>8 DEF CutInv

\* Every step keeps the invariant.
LEMMA CutStep == CutInv /\ [Next]_vars => CutInv'
BY CutByVertexStep, PlaceRelabelledStep, PlaceByDegreeStep, EndOfSizesStep, ComputeStartsStep,
   NextPartitionerStep, ReadyStep, StopStep DEF Next

-----------------------------------------------------------------------------
(***************************************************************************)
(* The properties of the ranges.                                           *)
(***************************************************************************)
\* The ranges of a complete graph follow each other.
LEMMA CutInvTiles == CutInv => RangesTile
BY DEF CutInv, SizesAddUp, Tiles, RangesTile

\* The partitions of a complete graph are about equally full.
LEMMA CutInvBalances == CutInv => EdgesAreBalanced
<1> SUFFICES ASSUME CutInv, control = "ready", ~g.part_ver, ~g.relabel, NEW p \in 0 .. LastPart
             PROVE  LET final == starts["csc"][p+1] - 1
                        e == edges[p]
                    IN /\ e = MapThenSumSet(degrees, ElementsOf("csc", p))
                       /\ p < LastPart /\ ElementsOf("csc", p) # {} =>
                            /\ averageDegree > 0 => e - degrees(final) < averageDegree
                            /\ \/ IsFull(e) \/ final = size - 1
                               \/ 10 * (e + degrees(final + 1)) > 11 * averageDegree
  BY DEF EdgesAreBalanced
<1>1. TypeOK /\ g.parts \in Nat /\ LastPart = g.parts - 1 /\ p \in 0 .. g.parts /\ p + 1 \in 0 .. g.parts
  BY TypeFacts DEF CutInv
<1>2. /\ Counts(p) /\ counter = LastPart
      /\ p < counter => ClosedAt(p, startOf(p + 1))
      /\ starts["csc"][p] = startOf(p) /\ starts["csc"][p + 1] = startOf(p + 1)
  BY <1>1 DEF CutInv, ClosedWhenFull
<1>3. ElementsOf("csc", p) = placed(p)
  <2> DEFINE s == startOf(p)
             t == startOf(p + 1)
             l == sizeArr[p]
  <2>1. t = s + l /\ s \in Nat /\ l \in Nat
    BY <1>1, StartFacts, TypeFacts DEF StartsAreSums
  <2>2. ElementsOf("csc", p) = s .. t - 1
    BY <1>2 DEF ElementsOf
  <2>3. placed(p) = s .. s + l - 1
    BY DEF placed
  <2> HIDE DEF s, t, l
  <2>4. t - 1 = s + l - 1
    BY <2>1
  <2> QED BY <2>2, <2>3, <2>4
<1> QED BY <1>2, <1>3 DEF Counts, ClosedAt

\* Later ranges start later.
LEMMA TilesGrow ==
  ASSUME TypeOK, NEW w \in {"coo", "csc"}, Tiles(w)
  PROVE  \A a \in 0 .. g.parts : \A b \in 0 .. g.parts : a <= b => starts[w][a] <= starts[w][b]
<1> DEFINE s(q) == starts[w][q]
<1>1. g.parts \in Nat /\ LastPart = g.parts - 1
  BY TypeFacts
<1>2. /\ \A q \in 0 .. g.parts : s(q) \in Nat
      /\ \A q \in 0 .. LastPart : s(q) <= s(q + 1)
  BY DEF TypeOK, Tiles
<1> SUFFICES ASSUME NEW a \in 0 .. g.parts
             PROVE  \A b \in 0 .. g.parts : a <= b => s(a) <= s(b)
  OBVIOUS
<1> DEFINE P == {b \in Nat : a <= b => s(a) <= s(b)}
<1>3. 0 \in P
  BY <1>2
<1>4. \A b \in 0 .. g.parts - 1 : b \in P => b + 1 \in P
  <2> SUFFICES ASSUME NEW b \in 0 .. g.parts - 1, b \in P PROVE b + 1 \in P
    OBVIOUS
  <2>1. s(b) <= s(b + 1) /\ s(a) \in Nat /\ s(b) \in Nat /\ s(b + 1) \in Nat
    BY <1>1, <1>2
  <2> QED BY <2>1
<1>5. \A b \in 0 .. g.parts : b \in P
  <2> HIDE DEF P
  <2> QED BY <1>1, <1>3, <1>4, BoundedInduction
<1> QED BY <1>5

\* Every position is in exactly one range.
LEMMA TilesPartition ==
  ASSUME TypeOK, NEW w \in {"coo", "csc"}, Tiles(w), NEW j \in 0 .. elements(w) - 1
  PROVE  \E p \in 0 .. LastPart : {q \in 0 .. LastPart : j \in ElementsOf(w, q)} = {p}
<1> DEFINE s(q) == starts[w][q]
<1>1. g.parts \in Nat /\ g.parts # 0 /\ LastPart = g.parts - 1 /\ elements(w) \in Nat
  BY TypeFacts, ElementsAreFinite
<1>2. \A q \in 0 .. g.parts : s(q) \in Nat
  BY DEF TypeOK
<1>3. /\ s(0) = 0 /\ s(g.parts) = elements(w)
      /\ \A q \in 0 .. LastPart : s(q) <= s(q + 1)
  BY DEF Tiles
<1>4. \E p \in 0 .. LastPart : s(p) <= j /\ j < s(p + 1)
  <2> SUFFICES ASSUME \A p \in 0 .. LastPart : s(p) <= j => ~(j < s(p + 1)) PROVE FALSE
    OBVIOUS
  <2> DEFINE P == {p \in Nat : s(p) <= j}
  <2>1. 0 \in P
    BY <1>3
  <2>2. \A p \in 0 .. g.parts - 1 : p \in P => p + 1 \in P
    <3> SUFFICES ASSUME NEW p \in 0 .. g.parts - 1, p \in P PROVE p + 1 \in P
      OBVIOUS
    <3>1. p \in 0 .. LastPart /\ p + 1 \in 0 .. g.parts
      BY <1>1
    <3>2. ~(j < s(p + 1)) /\ s(p + 1) \in Nat
      BY <1>2, <3>1
    <3> QED BY <3>1, <3>2
  <2>3. \A p \in 0 .. g.parts : p \in P
    <3> HIDE DEF P
    <3> QED BY <1>1, <2>1, <2>2, BoundedInduction
  <2>4. s(g.parts) <= j
    BY <1>1, <2>3
  <2> QED BY <1>1, <1>3, <2>4
<1>5. PICK p \in 0 .. LastPart : s(p) <= j /\ j < s(p + 1)
  BY <1>4
<1>6. \A a \in 0 .. g.parts : \A b \in 0 .. g.parts : a <= b => s(a) <= s(b)
  BY TilesGrow
<1>7. ASSUME NEW q \in 0 .. LastPart PROVE j \in ElementsOf(w, q) <=> s(q) <= j /\ j < s(q + 1)
  BY <1>1, <1>2 DEF ElementsOf
<1>8. ASSUME NEW q \in 0 .. LastPart, s(q) <= j, j < s(q + 1) PROVE q = p
  <2>1. CASE q < p
    <3>1. s(q + 1) <= s(p)
      BY <1>1, <1>6, <2>1
    <3>2. s(q + 1) \in Nat /\ s(p) \in Nat
      BY <1>1, <1>2
    <3> QED BY <1>1, <1>5, <1>8, <3>1, <3>2
  <2>2. CASE p < q
    <3>1. s(p + 1) <= s(q)
      BY <1>1, <1>6, <2>2
    <3>2. s(p + 1) \in Nat /\ s(q) \in Nat
      BY <1>1, <1>2
    <3> QED BY <1>1, <1>5, <1>8, <3>1, <3>2
  <2> QED BY <1>1, <2>1, <2>2
<1> HIDE DEF s
<1>9. {q \in 0 .. LastPart : j \in ElementsOf(w, q)} = {p}
  BY <1>5, <1>7, <1>8
<1> QED BY <1>9

\* A number less its remainder.
LEMMA Division ==
  ASSUME NEW a \in Nat, NEW b \in Nat, b # 0
  PROVE  a - (a % b) = (a \div b) * b /\ a - (a % b) \in 0 .. a
<1>1. a % b \in 0 .. b - 1 /\ a = b * (a \div b) + (a % b) /\ a \div b \in Nat
  OBVIOUS
<1>2. b * (a \div b) = (a \div b) * b /\ b * (a \div b) \in Nat
  BY <1>1
<1> QED BY <1>1, <1>2

\* The loops of partitioner.h visit the partitions that are not left over.
LEMMA LeftoverFacts ==
  TypeOK => Leftover \in 0 .. g.parts /\ VisitedPartitions = 0 .. Leftover - 1
<1> SUFFICES ASSUME TypeOK
             PROVE  Leftover \in 0 .. g.parts /\ VisitedPartitions = 0 .. Leftover - 1
  OBVIOUS
<1>1. g.parts \in Nat /\ g.nodes \in Nat /\ g.nodes # 0
  BY DEF TypeOK, InputType
<1>2. Leftover \in 0 .. g.parts /\ Leftover = perNode * g.nodes
  BY <1>1, Division DEF Leftover, perNode
<1> QED BY <1>2 DEF VisitedPartitions

\* A position is before the leftover partitions if its own one is.
LEMMA PositionsAreShared ==
  ASSUME TypeOK, NEW w \in {"coo", "csc"}, Tiles(w), NEW j \in 0 .. elements(w) - 1,
         NEW p \in 0 .. LastPart, j \in ElementsOf(w, p)
  PROVE  j < starts[w][Leftover] <=> p < Leftover
<1> DEFINE s(q) == starts[w][q]
<1>1. g.parts \in Nat /\ LastPart = g.parts - 1 /\ Leftover \in 0 .. g.parts
  BY LeftoverFacts, TypeFacts
<1>2. \A q \in 0 .. g.parts : s(q) \in Nat
  BY DEF TypeOK
<1>3. \A a \in 0 .. g.parts : \A b \in 0 .. g.parts : a <= b => s(a) <= s(b)
  BY TilesGrow
<1>4. s(p) <= j /\ j < s(p + 1) /\ p \in 0 .. g.parts /\ p + 1 \in 0 .. g.parts
  BY <1>1, <1>2 DEF ElementsOf
<1>5. CASE p < Leftover
  <2>1. s(p + 1) <= s(Leftover)
    BY <1>1, <1>3, <1>4, <1>5
  <2> HIDE DEF s
  <2>2. j < s(Leftover)
    BY <1>1, <1>2, <1>4, <2>1
  <2> QED BY <1>5, <2>2 DEF s
<1>6. CASE ~(p < Leftover)
  <2>1. s(Leftover) <= s(p)
    BY <1>1, <1>3, <1>4, <1>6
  <2> HIDE DEF s
  <2>2. ~(j < s(Leftover))
    BY <1>1, <1>2, <1>4, <2>1
  <2> QED BY <1>6, <2>2 DEF s
<1> QED BY <1>5, <1>6

\* The loops visit a position once or, if its partition is left over, never.
LEMMA CutInvVisits == CutInv => VisitedOnce
<1> SUFFICES ASSUME CutInv, control = "ready",
                    NEW w \in {"coo", "csc"}, NEW j \in 0 .. elements(w) - 1
             PROVE  Cardinality({p \in VisitedPartitions : j \in ElementsOf(w, p)})
                      = IF j < starts[w][Leftover] THEN 1 ELSE 0
  BY DEF VisitedOnce
<1> DEFINE visits == {p \in VisitedPartitions : j \in ElementsOf(w, p)}
<1>1. TypeOK /\ Tiles(w)
  BY DEF CutInv, SizesAddUp
<1>2. Leftover \in 0 .. g.parts /\ VisitedPartitions = 0 .. Leftover - 1 /\ g.parts \in Nat
      /\ LastPart = g.parts - 1
  BY <1>1, LeftoverFacts, TypeFacts
<1>3. PICK p \in 0 .. LastPart : {q \in 0 .. LastPart : j \in ElementsOf(w, q)} = {p}
  BY <1>1, TilesPartition
<1>4. j < starts[w][Leftover] <=> p < Leftover
  BY <1>1, <1>3, PositionsAreShared
<1>5. VisitedPartitions = {q \in 0 .. LastPart : q < Leftover}
  BY <1>2
<1>6. CASE p < Leftover
  <2>1. visits = {p}
    BY <1>3, <1>5, <1>6
  <2> QED BY <1>4, <1>6, <2>1, FS_Singleton
<1>7. CASE ~(p < Leftover)
  <2>1. visits = {}
    BY <1>3, <1>5, <1>7
  <2> QED BY <1>4, <1>7, <2>1, FS_EmptySet
<1> QED BY <1>6, <1>7

-----------------------------------------------------------------------------
(***************************************************************************)
(* Where -o cuts, and why the program exits.                               *)
(***************************************************************************)
\* The order of the numbers.
less == {e \in Int \X Int : e[1] < e[2]}

\* It orders every set of numbers; the rank is the number of smaller ones.
LEMMA LessOrders ==
  ASSUME NEW S, S \subseteq Int
  PROVE  Orders(less, S) /\ \A x \in S : rank(less, S, x) = Cardinality({j \in S : j < x})
<1>1. \A x, y \in Int : <<x, y>> \in less <=> x < y
  BY DEF less
<1>2. Orders(less, S)
  BY <1>1 DEF Orders
<1>3. ASSUME NEW x \in S PROVE before(less, S, x) = {j \in S : j < x}
  BY <1>1 DEF before
<1> QED BY <1>2, <1>3 DEF rank

\* The p-th place is one, and there is one for each number up to that of the places.
LEMMA PlacesAreUnique ==
  ASSUME NEW R, R \subseteq Int, IsFiniteSet(R)
  PROVE  /\ \A p, x, y : IsPlace(p, R, x) /\ IsPlace(p, R, y) => x = y
         /\ \A x \in R : /\ Cardinality({j \in R : j < x}) \in Nat
                         /\ Cardinality({j \in R : j < x}) < Cardinality(R)
<1>1. Orders(less, R) /\ \A x \in R : rank(less, R, x) = Cardinality({j \in R : j < x})
  BY LessOrders
<1>2. ASSUME NEW p, NEW x, NEW y, IsPlace(p, R, x), IsPlace(p, R, y) PROVE x = y
  <2>1. x \in R /\ y \in R /\ rank(less, R, x) = rank(less, R, y)
    BY <1>1, <1>2 DEF IsPlace
  <2> QED BY <1>1, <2>1, RankUnique
<1>3. ASSUME NEW x \in R
      PROVE  Cardinality({j \in R : j < x}) \in Nat /\ Cardinality({j \in R : j < x}) < Cardinality(R)
  <2>1. rank(less, R, x) \in Nat /\ rank(less, R, x) < Cardinality(R)
    BY <1>1, RankGrows
  <2> QED BY <1>1, <2>1
<1> QED BY <1>2, <1>3

\* The rises are finitely many places.
LEMMA RisesAreFinite ==
  ASSUME InputType(g), which \in {"coo", "csc"}
  PROVE  /\ rises \subseteq 1 .. size - 1 /\ rises \subseteq Int /\ IsFiniteSet(rises)
         /\ size \in Nat
<1>1. size \in Nat
  BY ElementsAreFinite DEF size
<1>2. IsFiniteSet(1 .. size - 1)
  <2>1. 1 \in Int /\ size - 1 \in Int
    BY <1>1
  <2> QED BY <2>1, Intervals, Zenon
<1>3. rises \subseteq 1 .. size - 1
  BY DEF rises
<1>4. IsFiniteSet(rises)
  BY <1>2, <1>3, FS_Subset
<1> QED BY <1>1, <1>3, <1>4

\* What depends on the graph and on the partitioner under construction only.
LEMMA SameRises ==
  ASSUME g' = g, which' = which
  PROVE  /\ rises' = rises /\ vertexRises' = vertexRises
         /\ \A p, R, x : IsPlace(p, R, x)' = IsPlace(p, R, x)
<1>1. size' = size
  BY SameElements
<1>2. \A j : inDegree(j)' = inDegree(j)
  BY DEF inDegree, vertexAt, Listed
<1>3. rises' = rises /\ vertexRises' = vertexRises
  BY <1>1, <1>2 DEF rises, vertexRises
<1> QED BY <1>3 DEF IsPlace

\* Nothing has been cut.
LEMMA FreshReasons ==
  ASSUME Fresh, control = "exit" => m = 0,
         which = "csc" /\ g.relabel => BeginAt(vertexRises, starts["coo"], g.n)
  PROVE  ReasonInv
<1>1. InputType(g) /\ which \in {"coo", "csc"} /\ counter = 0 /\ i = 0 /\ control \in {"size", "exit"}
  BY DEF Fresh
<1>2. {x \in rises : x <= i} = {}
  BY <1>1, RisesAreFinite
<1>3. Cardinality({x \in rises : x <= i}) = counter
  BY <1>1, <1>2, FS_EmptySet
<1>4. CutsAtRises
  <2>1. 1 .. counter = {}
    BY <1>1
  <2> QED BY <1>1, <1>3, <2>1 DEF CutsAtRises
<1>5. NoneEmpty
  <2>1. \A p \in 0 .. LastPart : ~(p < counter)
    BY <1>1
  <2> QED BY <2>1 DEF NoneEmpty
<1>6. ExitsForAReason
  BY <1>1 DEF ExitsForAReason
<1> QED BY <1>4, <1>5, <1>6 DEF ReasonInv

\* One turn of the loops of -o.
LEMMA PlaceRelabelledReasons == CutInv /\ ReasonInv /\ PlaceRelabelled => ReasonInv'
<1> SUFFICES ASSUME CutInv, ReasonInv, PlaceRelabelled PROVE ReasonInv'
  OBVIOUS
<1>1. TypeOK /\ SizesAddUp /\ Contiguous /\ TypeOK' /\ CutsAtRises
  BY TypeStep DEF CutInv, Next, ReasonInv
<1>2. /\ g.parts \in Nat /\ g.parts # 0 /\ LastPart = g.parts - 1 /\ i \in Nat
      /\ InputType(g) /\ which \in {"coo", "csc"}
  BY <1>1, TypeFacts DEF TypeOK
<1>3. Place /\ control = "size" /\ i < size /\ g.relabel
  BY DEF PlaceRelabelled
<1>4. counter \in 0 .. LastPart
  BY <1>1, <1>2, <1>3, TypeFacts DEF SizesAddUp
<1>5. /\ \A p \in 1 .. counter : IsPlace(p, rises, startOf(p))
      /\ counter < LastPart => Cardinality({x \in rises : x <= i}) = counter
      /\ which = "csc" => BeginAt(vertexRises, starts["coo"], g.n)
  BY <1>1, <1>3 DEF CutsAtRises
<1>6. /\ \A p \in 0 .. g.parts + 1 :
           first(sizeArr', p) = IF p > counter THEN startOf(p) + 1 ELSE startOf(p)
      /\ g' = g /\ control' = control /\ which' = which /\ starts' = starts /\ i' = i + 1
      /\ size' = size /\ LastPart' = LastPart
  BY <1>1, <1>3, <1>4, PlaceFacts
<1>7. /\ rises' = rises /\ vertexRises' = vertexRises
      /\ \A p, R, x : IsPlace(p, R, x)' = IsPlace(p, R, x)
  BY <1>6, SameRises
<1>8. rises \subseteq 1 .. size - 1 /\ rises \subseteq Int /\ IsFiniteSet(rises) /\ size \in Nat
  BY <1>2, RisesAreFinite
<1>9. Rises <=> i + 1 \in rises
  <2>1. (i + 1) - 1 = i
    BY <1>2
  <2> QED BY <1>2, <1>8, <2>1 DEF Rises, rises
<1>10. \A p \in 1 .. counter : startOf(p)' = startOf(p)
  BY <1>2, <1>4, <1>6, StartIsTotalThen
<1>11. first(sizeArr', counter + 1) = i + 1
  <2>1. startOf(counter) + sizeArr[counter] = i
    BY <1>1, <1>3, <1>4 DEF Contiguous
  <2>2. startOf(counter + 1) = startOf(counter) + sizeArr[counter]
    BY <1>1, <1>2, <1>4, StartFacts DEF StartsAreSums
  <2>3. counter + 1 \in 0 .. g.parts + 1 /\ counter + 1 > counter
    BY <1>2, <1>4
  <2> QED BY <1>6, <2>1, <2>2, <2>3
<1>12. {x \in rises : x < i + 1} = {x \in rises : x <= i}
  <2>1. \A x \in rises : x < i + 1 <=> x <= i
    BY <1>2, <1>8
  <2> QED BY <2>1
<1>13. CASE Rises /\ counter < LastPart
  <2>1. counter' = counter + 1
    BY <1>13 DEF PlaceRelabelled
  <2>2. Cardinality({x \in rises : x < i + 1}) = (counter + 1) - 1
    BY <1>4, <1>5, <1>12, <1>13
  <2>3. IsPlace(counter + 1, rises, i + 1)
    BY <1>9, <1>13, <2>2 DEF IsPlace
  <2>4. \A p \in 1 .. counter' : IsPlace(p, rises, startOf(p))'
    <3> SUFFICES ASSUME NEW p \in 1 .. counter' PROVE IsPlace(p, rises, startOf(p))'
      OBVIOUS
    <3>1. CASE p = counter + 1
      <4>1. startOf(p)' = i + 1
        BY <1>11, <3>1, StartIsTotalThen
      <4> QED BY <1>7, <2>3, <3>1, <4>1 DEF IsPlace
    <3>2. CASE p \in 1 .. counter
      BY <1>5, <1>7, <1>10, <3>2 DEF IsPlace
    <3> QED BY <1>4, <2>1, <3>1, <3>2
  <2>5. Cardinality({x \in rises : x <= i + 1}) = counter + 1
    <3>1. {x \in rises : x <= i + 1} = {x \in rises : x <= i} \union {i + 1}
      <4>1. i + 1 \in rises
        BY <1>9, <1>13
      <4>2. \A x \in rises : x <= i + 1 <=> x <= i \/ x = i + 1
        BY <1>2, <1>8
      <4> QED BY <1>2, <4>1, <4>2
    <3>2. i + 1 \notin {x \in rises : x <= i}
      BY <1>2
    <3>3. IsFiniteSet({x \in rises : x <= i})
      <4>1. {x \in rises : x <= i} \subseteq rises
        OBVIOUS
      <4> QED BY <1>8, <4>1, FS_Subset
    <3>4. Cardinality({x \in rises : x <= i} \union {i + 1}) = Cardinality({x \in rises : x <= i}) + 1
      BY <3>2, <3>3, FS_AddElement
    <3> QED BY <1>5, <1>13, <3>1, <3>4
  <2>6. CutsAtRises'
    BY <1>3, <1>5, <1>6, <1>7, <2>1, <2>4, <2>5 DEF CutsAtRises, BeginAt, IsPlace
  <2> QED BY <1>3, <1>6, <2>6 DEF ReasonInv, NoneEmpty, ExitsForAReason
<1>14. CASE ~(Rises /\ counter < LastPart)
  <2>1. counter' = counter
    BY <1>14 DEF PlaceRelabelled
  <2>2. \A p \in 1 .. counter' : IsPlace(p, rises, startOf(p))'
    BY <1>5, <1>7, <1>10, <2>1 DEF IsPlace
  <2>3. counter < LastPart => {x \in rises : x <= i + 1} = {x \in rises : x <= i}
    <3> SUFFICES ASSUME counter < LastPart
                 PROVE  {x \in rises : x <= i + 1} = {x \in rises : x <= i}
      OBVIOUS
    <3>1. i + 1 \notin rises
      BY <1>9, <1>14
    <3>2. \A x \in rises : x <= i + 1 <=> x <= i
      BY <1>2, <1>8, <3>1
    <3> QED BY <3>2
  <2>4. CutsAtRises'
    BY <1>3, <1>5, <1>6, <1>7, <2>1, <2>2, <2>3 DEF CutsAtRises, BeginAt, IsPlace
  <2> QED BY <1>3, <1>6, <2>4 DEF ReasonInv, NoneEmpty, ExitsForAReason
<1> QED BY <1>13, <1>14

\* Before the COO lists are made the elements are the vertices.
LEMMA VerticesAreListed ==
  ASSUME InputType(g), which = "coo"
  PROVE  /\ size = g.n /\ rises = vertexRises
         /\ \A x \in 0 .. g.n - 1 : vertexAt(x) = x
<1>1. Listed(which) = 0 .. g.n - 1 /\ g.n \in Nat
  BY DEF Listed, InputType
<1>2. size = g.n
  BY ElementsAreFinite DEF size
<1>3. \A v \in 0 .. g.n - 1 : Cardinality({u \in Listed(which) : u < v}) = v
  <2> SUFFICES ASSUME NEW v \in 0 .. g.n - 1
               PROVE  Cardinality({u \in Listed(which) : u < v}) = v
    OBVIOUS
  <2>1. {u \in Listed(which) : u < v} = 0 .. v - 1
    BY <1>1
  <2>2. 0 \in Int /\ v - 1 \in Int /\ v \in Nat
    BY <1>1
  <2>3. Cardinality(0 .. v - 1) = IF 0 > v - 1 THEN 0 ELSE (v - 1) - 0 + 1
    BY <2>2, Intervals, Zenon
  <2>4. Cardinality(0 .. v - 1) = v
    BY <2>2, <2>3
  <2> QED BY <2>1, <2>4
<1>4. ASSUME NEW x \in 0 .. g.n - 1 PROVE vertexAt(x) = x
  BY <1>1, <1>3 DEF vertexAt
<1>5. \A x \in 0 .. g.n - 1 : inDegree(x) = g.in[x]
  BY <1>4 DEF inDegree
<1>6. rises = vertexRises
  <2>1. \A x \in 1 .. g.n - 1 : x \in 0 .. g.n - 1 /\ x - 1 \in 0 .. g.n - 1
    BY <1>1
  <2> QED BY <1>2, <1>5, <2>1 DEF rises, vertexRises
<1> QED BY <1>2, <1>4, <1>6

\* One turn of the loop of -v edge: a partition that is left has the vertex.
LEMMA PlaceByDegreeReasons == CutInv /\ ReasonInv /\ PlaceByDegree => ReasonInv'
<1> SUFFICES ASSUME CutInv, ReasonInv, PlaceByDegree PROVE ReasonInv'
  OBVIOUS
<1> DEFINE e == edges[counter] + degrees(i)
           c(next) == IF ClosesEarly(e, next) THEN counter + 1 ELSE counter
           filled(next) == IF c(next) = counter THEN e ELSE 0
<1>1. TypeOK /\ SizesAddUp /\ TypeOK'
  BY TypeStep DEF CutInv, Next
<1>2. /\ g.parts \in Nat /\ g.parts # 0 /\ LastPart = g.parts - 1 /\ i \in Nat
      /\ averageDegree \in Nat /\ sizeArr \in [0 .. g.parts -> Nat]
  BY <1>1, TypeFacts DEF TypeOK
<1>3. Place /\ control = "size" /\ ~g.part_ver /\ ~g.relabel /\ counter \in 0 .. LastPart
  BY <1>1, <1>2, TypeFacts DEF PlaceByDegree
<1>4. PICK next \in NextDegree :
        counter' = IF c(next) < LastPart /\ IsFull(filled(next)) THEN c(next) + 1 ELSE c(next)
  BY DEF PlaceByDegree
<1>5. /\ g' = g /\ control' = control /\ which' = which /\ averageDegree' = averageDegree /\ LastPart' = LastPart
      /\ \A p \in 0 .. g.parts :
           sizeArr'[p] = IF p = counter THEN sizeArr[p] + 1 ELSE sizeArr[p]
  BY <1>1, <1>3, PlaceFacts, SameElements
<1>6. averageDegree > 0 => counter' <= counter + 1
  <2>1. averageDegree > 0 => ~IsFull(0)
    BY <1>2 DEF IsFull
  <2>2. CASE c(next) = counter
    BY <1>3, <1>4, <2>2
  <2>3. CASE c(next) # counter
    <3>1. c(next) = counter + 1 /\ filled(next) = 0
      BY <2>3
    <3> QED BY <1>3, <1>4, <2>1, <3>1
  <2> QED BY <2>2, <2>3
<1>7. NoneEmpty'
  <2>0. counter' \in 0 .. g.parts
    BY <1>1, <1>5 DEF TypeOK
  <2> SUFFICES ASSUME averageDegree > 0, NEW p \in 0 .. LastPart, p < counter'
               PROVE  sizeArr'[p] # 0
    BY <1>5 DEF NoneEmpty
  <2>1. p \in 0 .. counter /\ counter \in 0 .. g.parts
    <3>1. counter' <= counter + 1
      BY <1>6
    <3> QED BY <1>2, <1>3, <2>0, <3>1
  <2>2. CASE p = counter
    <3>1. sizeArr'[p] = sizeArr[p] + 1 /\ sizeArr[p] \in Nat
      BY <1>2, <1>5, <2>1, <2>2
    <3> QED BY <3>1
  <2>3. CASE p < counter
    <3>1. sizeArr[p] # 0
      BY <1>3, <2>3 DEF ReasonInv, NoneEmpty
    <3> QED BY <1>2, <1>5, <2>1, <2>3, <3>1
  <2> QED BY <1>3, <2>1, <2>2, <2>3
<1>8. CutsAtRises' /\ ExitsForAReason'
  BY <1>3, <1>5 DEF CutsAtRises, ExitsForAReason
<1> QED BY <1>7, <1>8 DEF ReasonInv

\* When the vertices have been placed, the partitions behind the counter are
\* empty.
LEMMA EndOfSizesReasons == CutInv /\ ReasonInv /\ EndOfSizes => ReasonInv'
<1> SUFFICES ASSUME CutInv, ReasonInv, EndOfSizes PROVE ReasonInv'
  OBVIOUS
<1>1. TypeOK /\ SizesAddUp /\ Contiguous /\ CutsAtRises /\ NoneEmpty
  BY DEF CutInv, ReasonInv
<1>2. /\ g.parts \in Nat /\ g.parts # 0 /\ LastPart = g.parts - 1 /\ counter \in 0 .. g.parts
      /\ InputType(g) /\ which \in {"coo", "csc"} /\ size \in Nat
      /\ sizeArr \in [0 .. g.parts -> Nat]
  BY <1>1, TypeFacts
<1>3. /\ control = "size" /\ i = size /\ control' \in {"abort", "starts"}
      /\ g' = g /\ which' = which /\ counter' = counter /\ sizeArr' = sizeArr
      /\ edges' = edges /\ starts' = starts
  BY DEF EndOfSizes
<1>4. /\ \A p : startOf(p)' = startOf(p)
      /\ begins' = begins
      /\ size' = size /\ LastPart' = LastPart /\ averageDegree' = averageDegree
      /\ rises' = rises /\ vertexRises' = vertexRises
  BY <1>3, StartIsTotal, StartIsTotalThen, SameElements, SameRises DEF begins
<1>5. ASSUME g.relabel PROVE BeginAt(rises, begins, size)
  <2>1. counter \in 0 .. LastPart
    BY <1>1, <1>2, <1>5 DEF SizesAddUp
  <2>2. /\ \A p \in 1 .. counter : IsPlace(p, rises, startOf(p))
        /\ counter < LastPart => Cardinality({x \in rises : x <= i}) = counter
    BY <1>1, <1>3, <1>5 DEF CutsAtRises
  <2>3. {x \in rises : x <= i} = rises
    BY <1>2, <1>3, RisesAreFinite
  <2>4. \A p \in 0 .. g.parts : p > counter => startOf(p) = size
    <3> DEFINE P == {p \in Nat : p > counter => startOf(p) = size}
    <3>1. 0 \in P
      BY <2>1
    <3>2. \A p \in 0 .. g.parts - 1 : p \in P => p + 1 \in P
      <4> SUFFICES ASSUME NEW p \in 0 .. g.parts - 1, p \in P, p + 1 > counter
                   PROVE  startOf(p + 1) = size
        BY <1>2
      <4>1. startOf(p + 1) = startOf(p) + sizeArr[p]
        BY <1>1, <1>2, StartFacts DEF StartsAreSums
      <4>2. CASE p = counter
        <5>1. startOf(p) + sizeArr[p] = i
          BY <1>1, <1>3, <2>1, <4>2 DEF Contiguous
        <5> QED BY <1>3, <4>1, <5>1
      <4>3. CASE p > counter
        <5>1. sizeArr[p] = 0
          BY <1>1, <1>2, <1>3, <4>3 DEF Contiguous
        <5> QED BY <1>2, <4>1, <4>3, <5>1
      <4> QED BY <2>1, <4>2, <4>3
    <3>3. \A p \in 0 .. g.parts : p \in P
      <4> HIDE DEF P
      <4> QED BY <1>2, <3>1, <3>2, BoundedInduction
    <3> QED BY <3>3
  <2>5. \A p \in 0 .. g.parts : begins[p] = startOf(p)
    BY DEF begins
  <2>6. \A p \in 1 .. counter : IsPlace(p, rises, begins[p])
    <3>1. \A p \in 1 .. counter : begins[p] = startOf(p)
      BY <1>2, <2>1, <2>5
    <3> QED BY <2>2, <3>1
  <2>7. \A p \in counter + 1 .. LastPart : begins[p] = size
    BY <1>2, <2>1, <2>4, <2>5
  <2>8. counter < LastPart => Cardinality(rises) = counter
    BY <2>2, <2>3
  <2> QED BY <2>1, <2>6, <2>7, <2>8 DEF BeginAt
<1>6. CutsAtRises'
  <2>1. BeginAt(rises, begins, size)' = BeginAt(rises, begins, size)
    BY <1>4 DEF BeginAt, IsPlace
  <2>2. g.relabel /\ which = "csc" => BeginAt(vertexRises, starts["coo"], g.n)
    BY <1>1 DEF CutsAtRises
  <2>3. BeginAt(vertexRises, starts["coo"], g.n)' = BeginAt(vertexRises, starts["coo"], g.n)
    BY <1>3, <1>4 DEF BeginAt, IsPlace
  <2> QED BY <1>3, <1>5, <2>1, <2>2, <2>3 DEF CutsAtRises
<1>7. NoneEmpty' /\ ExitsForAReason'
  BY <1>1, <1>3, <1>4 DEF NoneEmpty, ExitsForAReason
<1> QED BY <1>6, <1>7 DEF ReasonInv

\* compute_starts
LEMMA ComputeStartsReasons == CutInv /\ ReasonInv /\ ComputeStarts => ReasonInv'
<1> SUFFICES ASSUME CutInv, ReasonInv, ComputeStarts PROVE ReasonInv'
  OBVIOUS
<1>1. TypeOK /\ CutsAtRises /\ NoneEmpty
  BY DEF CutInv, ReasonInv
<1>2. g.parts \in Nat /\ LastPart = g.parts - 1 /\ which \in {"coo", "csc"}
  BY <1>1, TypeFacts
<1>3. /\ control = "starts" /\ control' = "starts"
      /\ starts' = [starts EXCEPT ![which] = [starts[which] EXCEPT ![i] = startID]]
      /\ g' = g /\ which' = which /\ counter' = counter /\ sizeArr' = sizeArr
  BY DEF ComputeStarts
<1>4. which = "csc" => starts'["coo"] = starts["coo"]
  BY <1>1, <1>3 DEF TypeOK
<1>5. /\ \A p : startOf(p)' = startOf(p)
      /\ begins' = begins
      /\ size' = size /\ LastPart' = LastPart /\ averageDegree' = averageDegree
      /\ rises' = rises /\ vertexRises' = vertexRises
  BY <1>3, StartIsTotal, StartIsTotalThen, SameElements, SameRises DEF begins
<1>6. CutsAtRises'
  <2>1. g.relabel => BeginAt(rises, begins, size)
    BY <1>1, <1>3 DEF CutsAtRises
  <2>2. BeginAt(rises, begins, size)' = BeginAt(rises, begins, size)
    BY <1>5 DEF BeginAt, IsPlace
  <2>3. g.relabel /\ which = "csc" => BeginAt(vertexRises, starts["coo"], g.n)
    BY <1>1 DEF CutsAtRises
  <2>4. which = "csc" =>
          BeginAt(vertexRises, starts["coo"], g.n)' = BeginAt(vertexRises, starts["coo"], g.n)
    BY <1>3, <1>4, <1>5 DEF BeginAt, IsPlace
  <2> QED BY <1>3, <2>1, <2>2, <2>3, <2>4 DEF CutsAtRises
<1>7. NoneEmpty' /\ ExitsForAReason'
  BY <1>1, <1>3, <1>5 DEF NoneEmpty, ExitsForAReason
<1> QED BY <1>6, <1>7 DEF ReasonInv

\* The partitions begin where the sizes say.
LEMMA BeginAtStarts ==
  ASSUME CutInv, ReasonInv, control = "starts", i > g.parts, g.relabel
  PROVE  BeginAt(rises, starts[which], size)
<1>1. TypeOK /\ SizesAddUp /\ g.parts \in Nat /\ LastPart = g.parts - 1
  BY TypeFacts DEF CutInv
<1>2. BeginAt(rises, begins, size)
  BY DEF ReasonInv, CutsAtRises
<1>3. \A p \in 0 .. g.parts : begins[p] = starts[which][p]
  BY <1>1, StartsTile DEF begins
<1>4. PICK c \in 0 .. LastPart :
        /\ \A p \in 1 .. c : IsPlace(p, rises, begins[p])
        /\ \A p \in c + 1 .. LastPart : begins[p] = size
        /\ c < LastPart => Cardinality(rises) = c
  BY <1>2 DEF BeginAt
<1>5. \A p \in 1 .. c : IsPlace(p, rises, starts[which][p])
  <2>1. \A p \in 1 .. c : p \in 0 .. g.parts
    BY <1>1, <1>4
  <2> QED BY <1>3, <1>4, <2>1
<1>6. \A p \in c + 1 .. LastPart : starts[which][p] = size
  BY <1>1, <1>3, <1>4
<1> QED BY <1>4, <1>5, <1>6 DEF BeginAt

\* The second partitioner.
LEMMA NextPartitionerReasons == CutInv /\ ReasonInv /\ NextPartitioner => ReasonInv'
<1> SUFFICES ASSUME CutInv, ReasonInv, NextPartitioner PROVE ReasonInv'
  OBVIOUS
<1>1. TypeOK /\ SizesAddUp /\ TypeOK' /\ InputType(g)
  BY TypeStep, TypeFacts DEF CutInv, Next
<1>2. Tiles("coo")
  BY <1>1, StartsTile DEF NextPartitioner
<1>3. /\ control = "starts" /\ i > g.parts /\ which = "coo" /\ control' = "size"
      /\ g' = g /\ starts' = starts /\ which' = "csc"
  BY DEF NextPartitioner, BeginSizes
<1>4. Tiles("coo")' /\ elements("csc") = size'
  BY <1>2, <1>3, SameTiles DEF size, elements, Listed
<1>5. Fresh'
  BY <1>1, <1>3, <1>4 DEF NextPartitioner, BeginSizes, Fresh, TypeOK, NoSizes, LastPart
<1>6. g.relabel => BeginAt(vertexRises, starts["coo"], g.n)
  <2>1. size = g.n /\ rises = vertexRises
    BY <1>1, <1>3, VerticesAreListed
  <2> QED BY <1>3, <2>1, BeginAtStarts
<1>7. vertexRises' = vertexRises /\ LastPart' = LastPart
  BY <1>3 DEF vertexRises, LastPart
<1>8. (which = "csc" /\ g.relabel => BeginAt(vertexRises, starts["coo"], g.n))'
  BY <1>3, <1>6, <1>7 DEF BeginAt, IsPlace
<1>9. (control = "exit" => m = 0)'
  BY <1>3
<1> QED BY <1>5, <1>8, <1>9, FreshReasons, PTL

\* The graph is complete.
LEMMA ReadyReasons == CutInv /\ ReasonInv /\ Ready => ReasonInv'
<1> SUFFICES ASSUME CutInv, ReasonInv, Ready PROVE ReasonInv'
  OBVIOUS
<1>1. /\ control = "starts" /\ i > g.parts /\ which = "csc" /\ control' = "ready"
      /\ g' = g /\ which' = which /\ starts' = starts
  BY DEF Ready
<1>2. /\ size' = size /\ LastPart' = LastPart
      /\ rises' = rises /\ vertexRises' = vertexRises
  BY <1>1, SameElements, SameRises
<1>3. g.relabel => BeginAt(rises, starts["csc"], size)
  BY <1>1, BeginAtStarts
<1>4. CutsAtRises'
  BY <1>1, <1>2, <1>3 DEF ReasonInv, CutsAtRises, BeginAt, IsPlace
<1> QED BY <1>1, <1>4 DEF ReasonInv, NoneEmpty, ExitsForAReason

\* Reasons depend on the graph and the start positions only.
LEMMA SameReason ==
  ASSUME g' = g, which' = which, starts' = starts
  PROVE  m' = m /\ averageDegree' = averageDegree /\ Reason' = Reason
<1>1. /\ averageDegree' = averageDegree /\ LastPart' = LastPart
      /\ \A j : degrees(j)' = degrees(j)
      /\ rises' = rises
      /\ \A S : MapThenSumSet(degrees, S)' = MapThenSumSet(degrees, S)
  BY SameElements, SameRises
<1>2. m' = m
  BY DEF m, MapThenSumSet, MapThenFoldSet
<1>3. ASSUME NEW p PROVE totalSize(p)' = totalSize(p)
  <2>1. ElementsOf("coo", p)' = ElementsOf("coo", p)
    BY DEF ElementsOf
  <2>2. totalSize(p)' = MapThenSumSet(degrees, ElementsOf("coo", p))'
    BY DEF totalSize
  <2>3. totalSize(p)' = Total([j \in ElementsOf("coo", p) |-> degrees(j)'], ElementsOf("coo", p))
    BY <2>1 DEF totalSize, Total, MapThenSumSet, MapThenFoldSet
  <2>4. [j \in ElementsOf("coo", p) |-> degrees(j)'] = [j \in ElementsOf("coo", p) |-> degrees(j)]
    BY <1>1
  <2> QED BY <2>3, <2>4, SumIsTotal DEF totalSize
<1>4. VisitedPartitions' = VisitedPartitions
  BY DEF VisitedPartitions, perNode
<1>5. \A p : degrees(starts["coo"][p + 1])' = degrees(starts["coo"][p + 1])
  BY <1>1
<1>6. degrees(0)' = degrees(0)
  BY <1>1
<1> QED BY <1>1, <1>2, <1>3, <1>4, <1>5, <1>6 DEF Reason

\* Some vertices have edges if one of them has.
LEMMA SomeEdges ==
  ASSUME InputType(g), which \in {"coo", "csc"}, NEW S \in SUBSET (0 .. size - 1),
         NEW j \in S, degrees(j) # 0
  PROVE  MapThenSumSet(degrees, S) # 0
<1> DEFINE f == [x \in S |-> degrees(x)]
<1>1. IsFiniteSet(S)
  <2>1. 0 \in Int /\ size - 1 \in Int
    BY RisesAreFinite
  <2>2. IsFiniteSet(0 .. size - 1)
    BY <2>1, Intervals, Zenon
  <2> QED BY <2>2, FS_Subset
<1>2. \A x \in S : f[x] \in Nat
  BY PositionsAreVertices
<1>3. f[j] # 0
  OBVIOUS
<1>4. Total(f, S) # 0
  <2> HIDE DEF f
  <2> QED BY <1>1, <1>2, <1>3, TotalNat
<1> QED BY <1>4, SumIsTotal

\* The vertices of a partition are its elements when its start position has
\* been computed.
LEMMA PlacedAreElements ==
  ASSUME TypeOK, NEW w, NEW p \in 0 .. LastPart,
         starts[w][p] = startOf(p), starts[w][p + 1] = startOf(p + 1)
  PROVE  ElementsOf(w, p) = placed(p)
<1> DEFINE s == startOf(p)
           t == startOf(p + 1)
           l == sizeArr[p]
<1>0. p \in 0 .. g.parts
  BY TypeFacts
<1>1. t = s + l /\ s \in Nat /\ l \in Nat
  BY <1>0, StartFacts, TypeFacts DEF StartsAreSums
<1>2. ElementsOf(w, p) = s .. t - 1
  BY DEF ElementsOf
<1>3. placed(p) = s .. s + l - 1
  BY DEF placed
<1> HIDE DEF s, t, l
<1>4. t - 1 = s + l - 1
  BY <1>1
<1> QED BY <1>2, <1>3, <1>4

\* The loops visit no partition behind the last one.
LEMMA VisitedAreParts ==
  TypeOK => VisitedPartitions \subseteq 0 .. LastPart
<1> SUFFICES ASSUME TypeOK PROVE VisitedPartitions \subseteq 0 .. LastPart
  OBVIOUS
<1>1. Leftover \in 0 .. g.parts /\ VisitedPartitions = 0 .. Leftover - 1 /\ g.parts \in Nat
  BY LeftoverFacts DEF TypeOK, InputType
<1> QED BY <1>1 DEF LastPart

\* Under -v edge a partition that was left without edges was left because
\* of the next vertex, or because there was none.
LEMMA EmptyByDegree ==
  ASSUME CutInv, ReasonInv, MmapFailed, averageDegree > 0, ~g.relabel
  PROVE  Reason
<1>1. TypeOK /\ SizesAddUp /\ ClosedWhenFull /\ NoneEmpty /\ InputType(g)
  BY TypeFacts DEF CutInv, ReasonInv
<1>2. g.parts \in Nat /\ g.parts # 0 /\ LastPart = g.parts - 1 /\ averageDegree \in Nat
      /\ size \in Nat /\ sizeArr \in [0 .. g.parts -> Nat]
  BY <1>1, TypeFacts
<1>3. control = "starts" /\ i > g.parts /\ which = "coo" /\ ~g.part_ver
  BY DEF MmapFailed, AnEmptyList
<1>4. PICK p \in VisitedPartitions : totalSize(p) = 0
  BY DEF MmapFailed, AnEmptyList
<1>5. p \in 0 .. LastPart /\ p \in 0 .. g.parts /\ p + 1 \in 0 .. g.parts
  BY <1>1, <1>2, <1>4, VisitedAreParts
<1>6. Tiles("coo") /\ \A q \in 0 .. g.parts : starts["coo"][q] = startOf(q)
  BY <1>1, <1>3, StartsTile
<1>7. size = g.n
  BY <1>1, <1>3, VerticesAreListed
<1>8. CASE p = LastPart
  <2>1. starts["coo"][p + 1] = g.n
    BY <1>2, <1>3, <1>6, <1>7, <1>8 DEF Tiles, size
  <2> QED BY <1>3, <1>4, <2>1 DEF Reason
<1>9. CASE p < LastPart
  <2> DEFINE t == startOf(p + 1)
  <2>1. counter = LastPart /\ Counts(p) /\ ClosedAt(p, t)
    BY <1>1, <1>3, <1>5, <1>9 DEF ClosedWhenFull
  <2>2. sizeArr[p] # 0 /\ sizeArr[p] \in Nat /\ startOf(p) \in Nat
    BY <1>1, <1>2, <1>3, <1>5, <1>9, <2>1, StartFacts DEF NoneEmpty, StartsAreSums
  <2>3. startOf(p) \in placed(p)
    BY <2>2 DEF placed
  <2>4. ElementsOf("coo", p) = placed(p)
    BY <1>1, <1>5, <1>6, PlacedAreElements
  <2>5. edges[p] = 0
    BY <1>4, <2>1, <2>4 DEF Counts, totalSize
  <2>6. ~IsFull(edges[p])
    BY <1>2, <2>5 DEF IsFull
  <2>7. t \in Nat /\ (t - 1) + 1 = t /\ starts["coo"][p + 1] = t
    BY <1>1, <1>5, <1>6, StartFacts DEF StartsAreSums
  <2>8. \/ t - 1 = size - 1
        \/ 10 * (edges[p] + degrees((t - 1) + 1)) > 11 * averageDegree
    BY <2>1, <2>3, <2>6 DEF ClosedAt
  <2> HIDE DEF t
  <2>9. CASE t - 1 = size - 1
    <3>1. t = g.n
      BY <1>2, <1>7, <2>7, <2>9
    <3> QED BY <1>3, <1>4, <2>7, <3>1 DEF Reason
  <2>10. CASE t - 1 # size - 1
    <3>1. 10 * (0 + degrees(t)) > 11 * averageDegree
      BY <2>5, <2>7, <2>8, <2>10
    <3>2. t <= size
      <4>1. starts["coo"][p + 1] <= starts["coo"][g.parts]
        BY <1>1, <1>2, <1>5, <1>6, TilesGrow
      <4>2. starts["coo"][g.parts] = size
        BY <1>3, <1>6 DEF Tiles, size
      <4> QED BY <2>7, <4>1, <4>2
    <3>3. degrees(t) \in Nat
      <4>1. t \in 0 .. size - 1
        BY <1>2, <2>7, <2>10, <3>2
      <4> QED BY <1>1, <1>3, <4>1, PositionsAreVertices
    <3>4. 10 * degrees(t) > 11 * averageDegree
      BY <3>1, <3>3
    <3> QED BY <1>3, <1>4, <2>7, <3>4 DEF Reason
  <2> QED BY <2>9, <2>10
<1> QED BY <1>2, <1>5, <1>8, <1>9

\* With -o, where there are enough places to cut, every partition has a vertex
\* with in-edges: its first one, but for the first partition.
LEMMA EmptyByRises ==
  ASSUME CutInv, ReasonInv, MmapFailed, m > 0, g.relabel
  PROVE  Reason
<1> SUFFICES ASSUME ~(Cardinality(rises) < LastPart), degrees(0) # 0, ~g.source
             PROVE  FALSE
  BY DEF Reason
<1> DEFINE s(p) == starts["coo"][p]
<1>1. TypeOK /\ SizesAddUp /\ InputType(g)
  BY TypeFacts DEF CutInv
<1>2. g.parts \in Nat /\ g.parts # 0 /\ LastPart = g.parts - 1 /\ size \in Nat
  BY <1>1, TypeFacts
<1>3. control = "starts" /\ i > g.parts /\ which = "coo"
  BY DEF MmapFailed
<1>4. PICK p \in VisitedPartitions : totalSize(p) = 0
  BY DEF MmapFailed, AnEmptyList
<1>5. p \in 0 .. LastPart
  BY <1>1, <1>4, VisitedAreParts
<1>6. Tiles("coo") /\ \A q \in 0 .. g.parts : s(q) \in Nat
  BY <1>1, <1>3, StartsTile DEF TypeOK
<1>7. size = g.n /\ s(g.parts) = size /\ s(0) = 0
  BY <1>1, <1>3, <1>6, VerticesAreListed DEF Tiles, size
<1>8. rises \subseteq 1 .. size - 1 /\ rises \subseteq Int /\ IsFiniteSet(rises)
  BY <1>1, <1>3, RisesAreFinite
<1>9. \A q \in 1 .. LastPart : IsPlace(q, rises, s(q))
  <2>1. BeginAt(rises, starts["coo"], size)
    BY <1>3, BeginAtStarts
  <2>2. PICK c \in 0 .. LastPart :
          /\ \A q \in 1 .. c : IsPlace(q, rises, starts["coo"][q])
          /\ c < LastPart => Cardinality(rises) = c
    BY <2>1 DEF BeginAt
  <2>3. c = LastPart
    BY <1>2, <2>2
  <2> QED BY <2>2, <2>3
<1>15. \A q \in 1 .. LastPart : s(q) \in rises /\ s(q) \in 1 .. size - 1
  <2> HIDE DEF s
  <2> QED BY <1>8, <1>9 DEF IsPlace
<1>10. size # 0
  <2>1. CASE g.n = 0
    <3>1. 0 .. g.n - 1 = {}
      BY <2>1
    <3>2. m = Total(g.in, {})
      BY <3>1 DEF m, Total, MapThenSumSet, MapThenFoldSet
    <3> QED BY <3>2, TotalEmpty
  <2> QED BY <1>7, <2>1
<1>11. s(p) < s(p + 1)
  <2>1. CASE p = LastPart /\ p = 0
    <3>1. p + 1 = g.parts
      BY <1>2, <2>1
    <3>2. s(p) = 0 /\ s(p + 1) = size
      BY <1>7, <2>1, <3>1
    <3> HIDE DEF s
    <3> QED BY <1>2, <1>10, <3>2
  <2>2. CASE p = LastPart /\ p # 0
    <3>1. p \in 1 .. LastPart /\ p + 1 = g.parts
      BY <1>2, <1>5, <2>2
    <3>2. s(p) \in 1 .. size - 1
      BY <1>15, <3>1
    <3> QED BY <1>2, <1>7, <3>1, <3>2
  <2>3. CASE p # LastPart /\ p = 0
    <3>1. p + 1 \in 1 .. LastPart
      BY <1>2, <1>5, <2>3
    <3>2. s(p + 1) \in 1 .. size - 1
      BY <1>15, <3>1
    <3> QED BY <1>2, <1>7, <2>3, <3>2
  <2>4. CASE p # LastPart /\ p # 0
    <3>1. p \in 1 .. LastPart /\ p + 1 \in 1 .. LastPart
      BY <1>2, <1>5, <2>4
    <3> DEFINE x == s(p)
               y == s(p + 1)
    <3>2. IsPlace(p, rises, x) /\ IsPlace(p + 1, rises, y)
      BY <1>9, <3>1
    <3> HIDE DEF x, y
    <3>3. x \in rises /\ y \in rises /\ rank(less, rises, x) = p - 1 /\ rank(less, rises, y) = (p + 1) - 1
      BY <1>8, <3>2, LessOrders DEF IsPlace
    <3>4. Orders(less, rises)
      BY <1>8, LessOrders
    <3>5. <<y, x>> \notin less
      <4> SUFFICES ASSUME <<y, x>> \in less PROVE FALSE
        OBVIOUS
      <4>1. rank(less, rises, y) < rank(less, rises, x)
        BY <1>8, <3>3, <3>4, RankGrows
      <4> QED BY <1>2, <1>5, <3>3, <4>1
    <3>6. x # y
      BY <1>2, <1>5, <3>3
    <3>7. x < y
      BY <1>8, <3>3, <3>5, <3>6 DEF less
    <3> QED BY <3>7 DEF x, y
  <2> QED BY <2>1, <2>2, <2>3, <2>4
<1>12. degrees(s(p)) # 0
  <2>1. CASE p = 0
    BY <1>7, <2>1
  <2>2. CASE p # 0
    <3> DEFINE x == s(p)
    <3>0. p \in 1 .. LastPart
      BY <1>2, <1>5, <2>2
    <3>1. x \in rises
      BY <1>15, <3>0
    <3> HIDE DEF x
    <3>2. inDegree(x) > inDegree(x - 1) /\ x \in 0 .. size - 1 /\ x - 1 \in 0 .. size - 1
      BY <1>2, <1>8, <3>1 DEF rises
    <3>3. inDegree(x) \in Nat /\ inDegree(x - 1) \in Nat
      BY <1>1, <1>3, <3>2, PositionsAreVertices
    <3>4. degrees(x) = inDegree(x)
      BY DEF degrees
    <3> QED BY <3>2, <3>3, <3>4 DEF x
  <2> QED BY <2>1, <2>2
<1>13. s(p) \in ElementsOf("coo", p) /\ ElementsOf("coo", p) \in SUBSET (0 .. size - 1)
  <2>1. p \in 0 .. g.parts /\ p + 1 \in 0 .. g.parts /\ g.parts \in 0 .. g.parts
    BY <1>2, <1>5
  <2>2. s(p) \in Nat /\ s(p + 1) \in Nat /\ s(p + 1) <= size
    BY <1>1, <1>2, <1>6, <1>7, <2>1, TilesGrow
  <2> HIDE DEF s
  <2>3. s(p) \in s(p) .. s(p + 1) - 1 /\ s(p) .. s(p + 1) - 1 \subseteq 0 .. size - 1
    BY <1>2, <1>11, <2>2
  <2> QED BY <2>3 DEF ElementsOf, s
<1>14. totalSize(p) # 0
  <2> HIDE DEF s
  <2> QED BY <1>1, <1>3, <1>12, <1>13, SomeEdges DEF totalSize
<1> QED BY <1>4, <1>14

\* mmap refuses a list without edges.
LEMMA MmapFailedReasons == CutInv /\ ReasonInv /\ MmapFailed => ReasonInv'
<1> SUFFICES ASSUME CutInv, ReasonInv, MmapFailed PROVE ReasonInv'
  OBVIOUS
<1>1. which = "coo" /\ control' = "exit" /\ g' = g /\ which' = which /\ starts' = starts
  BY DEF MmapFailed
<1>2. m > 0 /\ averageDegree > 0 => Reason
  BY EmptyByDegree, EmptyByRises
<1>3. ExitsForAReason'
  BY <1>1, <1>2, SameReason DEF ExitsForAReason
<1> QED BY <1>1, <1>3 DEF ReasonInv, CutsAtRises, NoneEmpty

\* Steps that leave the reasons alone.
LEMMA OtherReasons ==
  CutInv /\ ReasonInv /\ (CutByVertex \/ Overrun \/ Stopped \/ UNCHANGED vars) => ReasonInv'
<1> SUFFICES ASSUME CutInv, ReasonInv, CutByVertex \/ Overrun \/ Stopped \/ UNCHANGED vars
             PROVE  ReasonInv'
  OBVIOUS
<1>1. CASE CutByVertex
  BY <1>1 DEF CutByVertex, ReasonInv, CutsAtRises, NoneEmpty, ExitsForAReason
<1>2. CASE Overrun
  BY <1>2 DEF Overrun, ReasonInv, CutsAtRises, NoneEmpty, ExitsForAReason
<1>3. CASE Stopped \/ UNCHANGED vars
  <2>1. g' = g /\ control' = control /\ which' = which /\ i' = i /\ counter' = counter /\ sizeArr' = sizeArr
        /\ starts' = starts
    BY <1>3 DEF Stopped, vars
  <2>2. /\ \A p : startOf(p)' = startOf(p)
        /\ begins' = begins
        /\ size' = size /\ LastPart' = LastPart /\ averageDegree' = averageDegree
        /\ rises' = rises /\ vertexRises' = vertexRises
    BY <2>1, StartIsTotal, StartIsTotalThen, SameElements, SameRises DEF begins
  <2>3. CutsAtRises'
    BY <2>1, <2>2 DEF ReasonInv, CutsAtRises, BeginAt, IsPlace
  <2>4. NoneEmpty'
    BY <2>1, <2>2 DEF ReasonInv, NoneEmpty
  <2>5. ExitsForAReason'
    BY <2>1, SameReason DEF ReasonInv, ExitsForAReason
  <2> QED BY <2>3, <2>4, <2>5 DEF ReasonInv
<1> QED BY <1>1, <1>2, <1>3

\* Every step of graphgrind keeps the reasons.
LEMMA ReasonStep == CutInv /\ ReasonInv /\ [Next]_vars => ReasonInv'
BY PlaceRelabelledReasons, PlaceByDegreeReasons, EndOfSizesReasons, ComputeStartsReasons,
   NextPartitionerReasons, ReadyReasons, MmapFailedReasons, OtherReasons DEF Next

\* Where the partitions begin when the graph is complete.
LEMMA CutsFollowRises == CutInv /\ ReasonInv => CutWhereDegreesRise
<1> SUFFICES ASSUME CutInv, ReasonInv, control = "ready", g.relabel
             PROVE  LET cuts == {starts["csc"][p] : p \in 1 .. LastPart} \ {0, size}
                    IN /\ cuts \subseteq rises
                       /\ \A x \in rises : x \in cuts \/ Cardinality({j \in rises : j < x}) >= LastPart
  BY DEF CutWhereDegreesRise
<1> DEFINE s(p) == starts["csc"][p]
           cuts == {s(p) : p \in 1 .. LastPart} \ {0, size}
<1>1. TypeOK /\ InputType(g) /\ which \in {"coo", "csc"} /\ LastPart \in Nat
  BY TypeFacts DEF CutInv
<1>2. rises \subseteq 1 .. size - 1 /\ rises \subseteq Int /\ IsFiniteSet(rises) /\ size \in Nat
  BY <1>1, RisesAreFinite
<1>3. PICK c \in 0 .. LastPart :
        /\ \A p \in 1 .. c : IsPlace(p, rises, s(p))
        /\ \A p \in c + 1 .. LastPart : s(p) = size
        /\ c < LastPart => Cardinality(rises) = c
  BY DEF ReasonInv, CutsAtRises, BeginAt
<1>4. ASSUME NEW p \in 1 .. LastPart, s(p) # size PROVE s(p) \in rises
  <2>1. p \in 1 .. c
    BY <1>1, <1>3, <1>4
  <2> QED BY <1>3, <2>1 DEF IsPlace
<1>5. ASSUME NEW x \in rises, ~(Cardinality({j \in rises : j < x}) >= LastPart)
      PROVE  x \in cuts
  <2> DEFINE r == Cardinality({j \in rises : j < x})
  <2>1. r \in Nat /\ r < Cardinality(rises) /\ ~(r >= LastPart)
    BY <1>2, <1>5, PlacesAreUnique
  <2> HIDE DEF r
  <2>2. r + 1 \in 1 .. c /\ r + 1 \in 1 .. LastPart
    BY <1>1, <1>3, <2>1
  <2>3. (r + 1) - 1 = r
    BY <2>1
  <2>4. IsPlace(r + 1, rises, x)
    BY <1>5, <2>3 DEF IsPlace, r
  <2>5. s(r + 1) = x
    <3> HIDE DEF s
    <3>1. IsPlace(r + 1, rises, s(r + 1))
      BY <1>3, <2>2
    <3> QED BY <1>2, <2>4, <3>1, PlacesAreUnique
  <2>6. x # 0 /\ x # size
    BY <1>2, <1>5
  <2> QED BY <2>2, <2>5, <2>6
<1> QED BY <1>4, <1>5

-----------------------------------------------------------------------------
(***************************************************************************)
(* From Partitioner to COOLists: the graph is cut as VEBO has written it.  *)
(***************************************************************************)
\* Until VEBO has written a graph nothing has been cut.
NothingIsCut ==
  stage # "written" =>
    /\ Fresh /\ which = "coo"
    /\ control = "exit" => m = 0
    /\ G \in Raw /\ g = inputOf(G, G.edges)

\* The invariants of Partitioner, and where VEBO is before it.
GraphInv == CutInv /\ ReasonInv /\ NothingIsCut

\* What graphgrind reads has the shape of an input.
LEMMA ReadsInputs ==
  ASSUME NEW x, RawType(x), NEW E, IsFiniteSet(E)
  PROVE  /\ InputType(inputOf(x, E))
         /\ inputOf(x, E).n = x.n /\ inputOf(x, E).parts = x.part /\ inputOf(x, E).nodes = x.nodes
<1>1. ASSUME NEW v PROVE inDegreeOf(v, E) \in Nat /\ outDegreeOf(v, E) \in Nat
  <2>1. {e \in E : e[2] = v} \in SUBSET E /\ {e \in E : e[1] = v} \in SUBSET E
    OBVIOUS
  <2> QED BY <2>1, FS_Subset, FS_CardinalityType DEF inDegreeOf, outDegreeOf
<1> QED BY <1>1 DEF RawType, InputType, inputOf

\* The edges of a graph are finitely many, whatever their ends are called.
LEMMA EdgesAreFinite ==
  ASSUME NEW x, RawType(x), NEW f
  PROVE  IsFiniteSet(x.edges) /\ IsFiniteSet({<<f[e[1]], f[e[2]]>> : e \in x.edges})
<1> DEFINE V == 0 .. x.n - 1
           T == {<<f[e[1]], f[e[2]]>> : e \in x.edges}
           h == [e \in x.edges |-> <<f[e[1]], f[e[2]]>>]
<1>1. IsFiniteSet(V)
  <2>1. 0 \in Int /\ x.n - 1 \in Int
    BY DEF RawType
  <2> QED BY <2>1, Intervals, Zenon
<1>2. IsFiniteSet(V \X V)
  <2> HIDE DEF V
  <2> QED BY <1>1, FS_Product
<1>3. IsFiniteSet(x.edges)
  BY <1>2, FS_Subset DEF RawType
<1>4. h \in Surjection(x.edges, T)
  BY DEF Surjection
<1>5. IsFiniteSet(T)
  <2> HIDE DEF h, T
  <2> QED BY <1>3, <1>4, FS_Surjection
<1> QED BY <1>3, <1>5

\* A graph without in-edges has no edges.
EdgesShowInDegrees ==
  \A x, E :
    RawType(x) /\ IsFiniteSet(E) /\ g = inputOf(x, E) =>
      /\ E = {} => m = 0
      /\ m = 0 /\ E \subseteq (0 .. x.n - 1) \X (0 .. x.n - 1) => E = {}

\* A graph without edges has no degrees.
LEMMA NoEdgesNoDegrees == EdgesShowInDegrees
<1> SUFFICES ASSUME NEW x, RawType(x), NEW E, IsFiniteSet(E), g = inputOf(x, E)
             PROVE  /\ E = {} => m = 0
                    /\ m = 0 /\ E \subseteq (0 .. x.n - 1) \X (0 .. x.n - 1) => E = {}
  BY DEF EdgesShowInDegrees
<1> DEFINE V == 0 .. x.n - 1
<1>1. IsFiniteSet(V)
  <2>1. 0 \in Int /\ x.n - 1 \in Int
    BY DEF RawType
  <2> QED BY <2>1, Intervals, Zenon
<1>2. g.n = x.n /\ \A v \in V : g.in[v] = inDegreeOf(v, E)
  BY DEF inputOf
<1>3. m = Total(g.in, V)
  BY <1>2 DEF m, Total, MapThenSumSet, MapThenFoldSet
<1>4. \A v \in V : {e \in E : e[2] = v} \subseteq E /\ IsFiniteSet({e \in E : e[2] = v})
  BY FS_Subset
<1>5. \A v \in V : g.in[v] \in Nat /\ (g.in[v] = 0 <=> {e \in E : e[2] = v} = {})
  BY <1>2, <1>4, FS_CardinalityType, FS_EmptySet DEF inDegreeOf
<1> HIDE DEF V
<1>6. m = 0 <=> \A v \in V : g.in[v] = 0
  BY <1>1, <1>3, <1>5, TotalNat
<1>7. E = {} => m = 0
  BY <1>5, <1>6
<1>8. ASSUME m = 0, E \subseteq V \X V PROVE E = {}
  <2> SUFFICES ASSUME NEW e \in E PROVE FALSE
    OBVIOUS
  <2>1. e[2] \in V
    BY <1>8
  <2> QED BY <1>5, <1>6, <1>8, <2>1
<1> QED BY <1>7, <1>8 DEF V

\* VEBO writes a graph with as many vertices, for as many partitions.
LEMMA WriteFacts ==
  ASSUME Write, G \in Raw
  PROVE  /\ stage' \in {"wild", "written"} /\ G' = G
         /\ \/ g' = g
            \/ /\ InputType(g)'
               /\ g'.n = G.n /\ g'.parts = G.part /\ g'.nodes = G.nodes
               /\ G.edges = {} => m' = 0
<1> DEFINE inter(old) == CHOOSE new \in DOMAIN fNinter' : fNinter'[new] = old
           E == {<<inter(e[1]), inter(e[2])>> : e \in G.edges}
           f == [v \in Old |-> inter(v)]
<1>1. stage' \in {"wild", "written"} /\ G' = G /\ (g' = g \/ g' = inputOf(G, E))
  BY DEF Write
<1>2. RawType(G)
  BY RawAssumption
<1>3. E = {<<f[e[1]], f[e[2]]>> : e \in G.edges}
  <2>1. \A e \in G.edges : e[1] \in Old /\ e[2] \in Old
    BY <1>2 DEF RawType, Old
  <2>2. \A e \in G.edges : f[e[1]] = inter(e[1]) /\ f[e[2]] = inter(e[2])
    BY <2>1
  <2> HIDE DEF f, inter
  <2> QED BY <2>2
<1>4. IsFiniteSet(E)
  <2> HIDE DEF E, f
  <2> QED BY <1>2, <1>3, EdgesAreFinite
<1>7. G.edges = {} => E = {}
  OBVIOUS
<1> HIDE DEF E
<1>8. ASSUME g' = inputOf(G, E), G.edges = {} PROVE m' = 0
  <2>1. EdgesShowInDegrees'
    BY NoEdgesNoDegrees, PTL
  <2> QED BY <1>2, <1>4, <1>7, <1>8, <2>1 DEF EdgesShowInDegrees
<1>5. InputType(inputOf(G, E)) /\ inputOf(G, E).n = G.n /\ inputOf(G, E).parts = G.part
      /\ inputOf(G, E).nodes = G.nodes
  BY <1>2, <1>4, ReadsInputs
<1>6. InputType(g)' <=> InputType(g')
  BY DEF InputType
<1> QED BY <1>1, <1>5, <1>6, <1>8

\* Every vertex is an element of the first partitioner.
LEMMA AllAreListed == InputType(g) => elements("coo") = g.n
BY ElementsAreFinite

\* Before the cutting nothing is wrong.
LEMMA FirstReasons == Fresh /\ (control = "exit" => m = 0) /\ which = "coo" => ReasonInv
BY FreshReasons

\* The initial states have the invariant.
LEMMA GraphInit == LInit => GraphInv
<1> SUFFICES ASSUME LInit PROVE GraphInv
  OBVIOUS
<1>1. CASE Init /\ stage = "written"
  <2>1. InputType(g) /\ elements("coo") = g.n
    BY <1>1, InputAssumption, ElementsAreFinite DEF Init
  <2>2. Fresh
    BY <1>1, <2>1 DEF Init, Fresh, Loaded, NoSizes, size, LastPart, InputType
  <2>3. ReasonInv
    BY <1>1, <2>2, FreshReasons DEF Init, Loaded
  <2> QED BY <1>1, <2>2, <2>3, FreshIsInvariant DEF GraphInv, NothingIsCut
<1>2. CASE ~(Init /\ stage = "written")
  <2>1. /\ G \in Raw /\ g = inputOf(G, G.edges)
        /\ which = "coo" /\ control = Loaded /\ i = 0 /\ counter = 0 /\ startID = 0
        /\ sizeArr = NoSizes(g.n)
        /\ edges = [p \in 0 .. LastPart |-> 0]
        /\ starts = [w \in {"coo", "csc"} |-> [p \in 0 .. g.parts |-> 0]]
    BY <1>2 DEF LInit, VInit
  <2>2. InputType(g) /\ g.n = G.n /\ g.parts = G.part /\ g.nodes = G.nodes
    <3>1. RawType(G)
      BY <2>1, RawAssumption
    <3>2. IsFiniteSet(G.edges)
      BY <3>1, EdgesAreFinite
    <3> QED BY <2>1, <3>1, <3>2, ReadsInputs
  <2>3. elements("coo") = g.n
    BY <2>2, ElementsAreFinite
  <2>4. Fresh
    BY <2>1, <2>2, <2>3 DEF Fresh, Loaded, NoSizes, size, LastPart, InputType
  <2>5. control = "exit" => m = 0
    BY <2>1 DEF Loaded
  <2>6. ReasonInv
    BY <2>1, <2>4, <2>5, FreshReasons
  <2> QED BY <2>1, <2>4, <2>5, <2>6, FreshIsInvariant DEF GraphInv, NothingIsCut
<1> QED BY <1>1, <1>2

\* The steps of VEBO and those of graphgrind keep it.
LEMMA GraphStep == GraphInv /\ [LNext]_<<vars, veboVars, lists>> => GraphInv'
<1> SUFFICES ASSUME GraphInv, [LNext]_<<vars, veboVars, lists>> PROVE GraphInv'
  OBVIOUS
<1>1. CASE stage = "written" /\ Next /\ UNCHANGED veboVars
  <2>1. CutInv' /\ ReasonInv'
    BY <1>1, CutStep, ReasonStep DEF GraphInv
  <2> QED BY <1>1, <2>1 DEF GraphInv, NothingIsCut, veboVars
<1>2. CASE stage # "written" /\ UNCHANGED vars /\ G' = G
  <2>1. CutInv' /\ ReasonInv'
    BY <1>2, CutStep, ReasonStep DEF GraphInv
  <2>2. Fresh /\ which = "coo" /\ (control = "exit" => m = 0) /\ G \in Raw /\ g = inputOf(G, G.edges)
    BY <1>2 DEF GraphInv, NothingIsCut
  <2>4. m' = m
    BY <1>2, SameReason DEF vars
  <2>3. Fresh'
    <3>1. g' = g /\ which' = which /\ control' = control /\ i' = i /\ counter' = counter
          /\ startID' = startID /\ sizeArr' = sizeArr /\ edges' = edges /\ starts' = starts
      BY <1>2 DEF vars
    <3>2. size' = size /\ LastPart' = LastPart /\ Tiles("coo")' = Tiles("coo")
      BY <3>1, SameElements, SameTiles
    <3> QED BY <2>2, <3>1, <3>2 DEF Fresh, NoSizes
  <2> QED BY <1>2, <2>1, <2>2, <2>3, <2>4 DEF GraphInv, NothingIsCut, vars
<1>3. CASE UNCHANGED <<vars, veboVars, lists>>
  <2>1. CASE stage = "written"
    <3>1. CutInv' /\ ReasonInv'
      BY <1>3, CutStep, ReasonStep DEF GraphInv
    <3> QED BY <1>3, <2>1, <3>1 DEF GraphInv, NothingIsCut, veboVars
  <2>2. CASE stage # "written"
    BY <1>2, <1>3, <2>2 DEF veboVars
  <2> QED BY <2>1, <2>2
<1>4. CASE Write /\ UNCHANGED <<control, which, i, counter, sizeArr, edges, startID, starts>>
  <2>1. stage # "written"
    BY <1>4 DEF Write
  <2>2. /\ Fresh /\ which = "coo" /\ (control = "exit" => m = 0)
        /\ G \in Raw /\ g = inputOf(G, G.edges)
        /\ g.n = G.n /\ g.parts = G.part /\ g.nodes = G.nodes
    BY <2>1 DEF GraphInv, NothingIsCut, inputOf
  <2>3. /\ stage' \in {"wild", "written"} /\ G' = G
        /\ InputType(g)' /\ g'.n = g.n /\ g'.parts = g.parts /\ g'.nodes = g.nodes
    <3>1. CASE g' = g
      BY <1>4, <2>2, <3>1, WriteFacts DEF Fresh, InputType
    <3> QED BY <1>4, <2>2, <3>1, WriteFacts
  <2>4. size' = size
    <3>1. size = g.n
      BY <2>2, ElementsAreFinite DEF size, Fresh
    <3>2. (InputType(g) => elements("coo") = g.n)'
      BY AllAreListed, PTL
    <3>3. size' = elements("coo")'
      BY <1>4, <2>2 DEF size
    <3> QED BY <2>3, <3>1, <3>2, <3>3
  <2>5. Fresh'
    BY <1>4, <2>2, <2>3, <2>4 DEF Fresh, NoSizes, LastPart
  <2>6. CutInv'
    BY <2>5, FreshIsInvariant, PTL
  <2>7. which' = "coo" /\ control' = control
    BY <1>4, <2>2
  <2>8. control' = "exit" => m' = 0
    <3> SUFFICES ASSUME control = "exit" PROVE m' = 0
      BY <2>7
    <3>1. RawType(G) /\ IsFiniteSet(G.edges) /\ G.edges \subseteq (0 .. G.n - 1) \X (0 .. G.n - 1)
      BY <2>2, RawAssumption, EdgesAreFinite DEF RawType
    <3>2. G.edges = {}
      BY <2>2, <3>1, NoEdgesNoDegrees DEF EdgesShowInDegrees
    <3>3. ASSUME g' = g PROVE m' = m
      BY <3>3 DEF m, MapThenSumSet, MapThenFoldSet
    <3> QED BY <1>4, <2>2, <3>2, <3>3, WriteFacts
  <2>9. ReasonInv'
    <3>1. (Fresh /\ (control = "exit" => m = 0) /\ which = "coo" => ReasonInv)'
      BY FirstReasons, PTL
    <3> QED BY <2>5, <2>7, <2>8, <3>1
  <2>10. stage' # "written" => g' = inputOf(G', G'.edges)
    <3>1. stage' = "wild" => g' = g /\ G' = G
      BY <1>4, <2>2 DEF Write
    <3> QED BY <2>2, <2>3, <3>1
  <2> QED BY <2>2, <2>3, <2>5, <2>6, <2>7, <2>8, <2>9, <2>10 DEF GraphInv, NothingIsCut
<1>5. CASE stage = "wild" /\ UNCHANGED <<vars, veboVars>>
  BY <1>2, <1>5 DEF veboVars
<1>6. CASE (Assign \/ NextClass \/ FillUp \/ AddZero) /\ UNCHANGED vars
  <2>1. stage # "written" /\ G' = G
    BY <1>6 DEF Assign, NextClass, FillUp, AddZero
  <2> QED BY <1>2, <1>6, <2>1
<1> QED BY <1>1, <1>3, <1>4, <1>5, <1>6 DEF LNext, VNext

\* The sizes add up and the partitions are left when they are full, in every
\* state that graphgrind is in after it has read a graph.
THEOREM Invariance == LSpec => []GraphInv
<1>1. LInit => GraphInv
  BY GraphInit
<1>2. GraphInv /\ [LNext]_<<vars, veboVars, lists>> => GraphInv'
  BY GraphStep
<1> QED BY <1>1, <1>2, PTL DEF LSpec

\* partitionByVertex, partitionByDegree and compute_starts cut all vertices,
\* and all that have in-edges, into consecutive ranges.
THEOREM RangesFollowEachOther == LSpec => []RangesTile
<1>1. GraphInv => RangesTile
  BY CutInvTiles DEF GraphInv
<1> QED BY <1>1, Invariance, PTL

\* With -v edge no partition before the last one exceeds the average by more
\* than its last vertex, and none is left before another vertex would take it
\* 10% above, whatever lies behind the array of degrees.
THEOREM PartitionsAreBalanced == LSpec => []EdgesAreBalanced
<1>1. GraphInv => EdgesAreBalanced
  BY CutInvBalances DEF GraphInv
<1> QED BY <1>1, Invariance, PTL

\* With -o both partitioners cut exactly where the in-degree rises, as long as
\* there are partitions left: VEBO orders the vertices of a partition by falling
\* degree, so partitionByVertex and partitionByDegree find the partitions it made.
THEOREM CutsAreWhereDegreesRise == LSpec => []CutWhereDegreesRise
<1>1. GraphInv => CutWhereDegreesRise
  BY CutsFollowRises DEF GraphInv
<1> QED BY <1>1, Invariance, PTL

\* graphgrind exits in local_allocate only where the degrees leave a list
\* without edges, or there are fewer edges than partitions.
THEOREM ExitsHaveReasons == LSpec => []ExitsForAReason
<1>1. GraphInv => ExitsForAReason
  BY DEF GraphInv, ReasonInv
<1> QED BY <1>1, Invariance, PTL

\* map_partitionL and map_vertexL visit every element once, except for those of
\* the partitions left over when the nodes do not share them evenly.
THEOREM EveryElementIsVisitedOnce == LSpec => []VisitedOnce
<1>1. GraphInv => VisitedOnce
  BY CutInvVisits DEF GraphInv
<1> QED BY <1>1, Invariance, PTL

-----------------------------------------------------------------------------
(***************************************************************************)
(* Ranges that follow each other, and ranges within ranges.                *)
(***************************************************************************)
IsSizes(f, n) == n \in Nat /\ \A x \in 0 .. n - 1 : f[x] \in Nat

\* Where the ranges begin.
FirstFacts(f, n) ==
  /\ first(f, 0) = 0
  /\ \A p \in 0 .. n : first(f, p) \in Nat
  /\ \A p \in 0 .. n - 1 : first(f, p + 1) = first(f, p) + f[p]
  /\ \A p, q \in 0 .. n : p <= q => first(f, p) <= first(f, q)

\* They begin one behind the other.
LEMMA Firsts == \A f, n : IsSizes(f, n) => FirstFacts(f, n)
<1> SUFFICES ASSUME NEW f, NEW n, IsSizes(f, n) PROVE FirstFacts(f, n)
  OBVIOUS
<1>1. n \in Nat /\ \A x \in 0 .. n - 1 : f[x] \in Nat
  BY DEF IsSizes
<1>2. first(f, 0) = 0
  <2>1. 0 .. 0 - 1 = {}
    OBVIOUS
  <2> QED BY <2>1, TotalEmpty DEF first
<1>3. ASSUME NEW p \in 0 .. n - 1
      PROVE  first(f, p + 1) = first(f, p) + f[p] /\ first(f, p) \in Int
  <2>1. 0 .. (p + 1) - 1 = (0 .. p - 1) \union {p} /\ p \notin 0 .. p - 1
    BY <1>1
  <2>2. IsFiniteSet((0 .. p - 1) \union {p})
    <3>1. 0 \in Int /\ p \in Int /\ (0 .. p - 1) \union {p} = 0 .. p
      BY <1>1
    <3> QED BY <3>1, Intervals, Zenon
  <2>3. \A x \in (0 .. p - 1) \union {p} : f[x] \in Int
    BY <1>1
  <2>4. IsSummable(f, (0 .. p - 1) \union {p})
    BY <2>2, <2>3 DEF IsSummable
  <2>5. Total(f, (0 .. p - 1) \union {p}) = Total(f, 0 .. p - 1) + f[p] /\ Total(f, 0 .. p - 1) \in Int
    BY <2>1, <2>4, TotalAdd
  <2> QED BY <2>1, <2>5 DEF first
<1> DEFINE s(p) == first(f, p)
           P == {p \in Nat : s(p) \in Nat}
<1>4. \A p \in 0 .. n : s(p) \in Nat
  <2>1. 0 \in P
    BY <1>2
  <2>2. \A p \in 0 .. n - 1 : p \in P => p + 1 \in P
    BY <1>1, <1>3
  <2>3. \A p \in 0 .. n : p \in P
    <3> HIDE DEF P
    <3> QED BY <1>1, <2>1, <2>2, BoundedInduction
  <2> QED BY <2>3
<1>5. ASSUME NEW p \in 0 .. n PROVE \A q \in 0 .. n : p <= q => s(p) <= s(q)
  <2> DEFINE Q == {q \in Nat : p <= q => s(p) <= s(q)}
  <2>1. 0 \in Q
    BY <1>1, <1>4
  <2>2. \A q \in 0 .. n - 1 : q \in Q => q + 1 \in Q
    <3> SUFFICES ASSUME NEW q \in 0 .. n - 1, q \in Q, p <= q + 1 PROVE s(p) <= s(q + 1)
      BY <1>1
    <3>1. q \in 0 .. n /\ q + 1 \in 0 .. n
      BY <1>1
    <3>2. s(q + 1) = s(q) + f[q] /\ f[q] \in Nat /\ s(q) \in Nat /\ s(p) \in Nat
      BY <1>1, <1>3, <1>4, <3>1
    <3> HIDE DEF s
    <3> QED BY <1>1, <3>1, <3>2
  <2>3. \A q \in 0 .. n : q \in Q
    <3> HIDE DEF Q
    <3> QED BY <1>1, <2>1, <2>2, BoundedInduction
  <2> QED BY <2>3
<1> QED BY <1>2, <1>3, <1>4, <1>5 DEF FirstFacts

\* y is in the p-th range.
InRange(f, p, y) == first(f, p) <= y /\ y < first(f, p) + f[p]

\* Every position is in one range.
LEMMA OneRange ==
  \A f, n : IsSizes(f, n) =>
    /\ \A y \in 0 .. first(f, n) - 1 : \E p \in 0 .. n - 1 : InRange(f, p, y)
    /\ \A p, q \in 0 .. n - 1 : \A y \in Int : InRange(f, p, y) /\ InRange(f, q, y) => p = q
    /\ \A p \in 0 .. n - 1 : \A y \in Int : InRange(f, p, y) => y \in 0 .. first(f, n) - 1
<1> SUFFICES ASSUME NEW f, NEW n, IsSizes(f, n)
             PROVE
    /\ \A y \in 0 .. first(f, n) - 1 : \E p \in 0 .. n - 1 : InRange(f, p, y)
    /\ \A p, q \in 0 .. n - 1 : \A y \in Int : InRange(f, p, y) /\ InRange(f, q, y) => p = q
    /\ \A p \in 0 .. n - 1 : \A y \in Int : InRange(f, p, y) => y \in 0 .. first(f, n) - 1
  OBVIOUS
<1> DEFINE s(p) == first(f, p)
<1>1. n \in Nat /\ \A x \in 0 .. n - 1 : f[x] \in Nat
  BY DEF IsSizes
<1>2. /\ s(0) = 0
      /\ \A p \in 0 .. n : s(p) \in Nat
      /\ \A p \in 0 .. n - 1 : s(p + 1) = s(p) + f[p]
      /\ \A p, q \in 0 .. n : p <= q => s(p) <= s(q)
  BY Firsts DEF FirstFacts
<1>3. \A p, y : InRange(f, p, y) <=> s(p) <= y /\ y < s(p) + f[p]
  BY DEF InRange
<1> HIDE DEF s
<1>4. ASSUME NEW y \in 0 .. s(n) - 1, \A p \in 0 .. n - 1 : ~InRange(f, p, y) PROVE FALSE
  <2> DEFINE P == {p \in Nat : s(p) <= y}
  <2>1. 0 \in P
    BY <1>1, <1>2
  <2>2. \A p \in 0 .. n - 1 : p \in P => p + 1 \in P
    <3> SUFFICES ASSUME NEW p \in 0 .. n - 1, p \in P PROVE p + 1 \in P
      OBVIOUS
    <3>1. p \in 0 .. n /\ n \in 0 .. n /\ s(p) \in Nat /\ s(n) \in Nat /\ f[p] \in Nat
      BY <1>1, <1>2
    <3>2. ~(y < s(p) + f[p])
      BY <1>3, <1>4
    <3>3. s(p + 1) = s(p) + f[p]
      BY <1>2
    <3> QED BY <3>1, <3>2, <3>3
  <2>3. \A p \in 0 .. n : p \in P
    <3> HIDE DEF P
    <3> QED BY <1>1, <2>1, <2>2, BoundedInduction
  <2>4. s(n) <= y /\ s(n) \in Nat
    BY <1>1, <1>2, <2>3
  <2> QED BY <2>4
<1>5. ASSUME NEW p \in 0 .. n - 1, NEW q \in 0 .. n - 1, NEW y \in Int,
             InRange(f, p, y), InRange(f, q, y), p < q
      PROVE  FALSE
  <2>1. p + 1 \in 0 .. n /\ q \in 0 .. n /\ p + 1 <= q /\ p \in 0 .. n
    BY <1>1, <1>5
  <2>2. s(p + 1) <= s(q) /\ s(p + 1) = s(p) + f[p] /\ s(p) \in Nat /\ s(q) \in Nat /\ f[p] \in Nat
    BY <1>1, <1>2, <2>1
  <2> QED BY <1>3, <1>5, <2>2
<1>6. ASSUME NEW p \in 0 .. n - 1, NEW y \in Int, InRange(f, p, y) PROVE y \in 0 .. s(n) - 1
  <2>1. p + 1 \in 0 .. n /\ n \in 0 .. n /\ p + 1 <= n /\ p \in 0 .. n
    BY <1>1
  <2>2. s(p + 1) <= s(n) /\ s(p + 1) = s(p) + f[p] /\ s(p) \in Nat /\ s(n) \in Nat /\ f[p] \in Nat
    BY <1>1, <1>2, <2>1
  <2> QED BY <1>3, <1>6, <2>2
<1>7. \A p, q \in 0 .. n - 1 : p < q \/ q < p \/ p = q
  BY <1>1
<1> QED BY <1>4, <1>5, <1>6, <1>7 DEF s

\* The cells of a table of sizes with A rows and B columns: <<row, column, a>>.
Cells(h, A, B) == {x \in (0 .. A - 1) \X (0 .. B - 1) \X Nat : x[3] < h[x[1]][x[2]]}

\* They are dealt out row by row; r holds the sizes of the rows.
cell(r, h, x) == first(r, x[1]) + (first(h[x[1]], x[2]) + x[3])

IsTable(r, h, A, B) ==
  /\ A \in Nat /\ B \in Nat
  /\ \A x \in 0 .. A - 1 : IsSizes(h[x], B) /\ r[x] = first(h[x], B)

\* This numbers the cells.
LEMMA CellsAreNumbered ==
  \A r, h, A, B : IsTable(r, h, A, B) =>
    /\ IsSizes(r, A)
    /\ \A x \in Cells(h, A, B) :
         /\ cell(r, h, x) \in 0 .. first(r, A) - 1
         /\ InRange(r, x[1], cell(r, h, x))
    /\ \A x, y \in Cells(h, A, B) : cell(r, h, x) = cell(r, h, y) => x = y
    /\ \A z \in 0 .. first(r, A) - 1 : \E x \in Cells(h, A, B) : cell(r, h, x) = z
<1> SUFFICES ASSUME NEW r, NEW h, NEW A, NEW B, IsTable(r, h, A, B)
             PROVE
    /\ IsSizes(r, A)
    /\ \A x \in Cells(h, A, B) :
         /\ cell(r, h, x) \in 0 .. first(r, A) - 1
         /\ InRange(r, x[1], cell(r, h, x))
    /\ \A x, y \in Cells(h, A, B) : cell(r, h, x) = cell(r, h, y) => x = y
    /\ \A z \in 0 .. first(r, A) - 1 : \E x \in Cells(h, A, B) : cell(r, h, x) = z
  OBVIOUS
<1>1. A \in Nat /\ B \in Nat /\ \A i1 \in 0 .. A - 1 : IsSizes(h[i1], B) /\ r[i1] = first(h[i1], B)
  BY DEF IsTable
<1>2. IsSizes(r, A)
  <2>1. \A x \in 0 .. A - 1 : first(h[x], B) \in Nat
    <3> SUFFICES ASSUME NEW x \in 0 .. A - 1 PROVE first(h[x], B) \in Nat
      OBVIOUS
    <3>1. FirstFacts(h[x], B)
      BY <1>1, Firsts
    <3> QED BY <1>1, <3>1 DEF FirstFacts
  <2> QED BY <1>1, <2>1 DEF IsSizes
<1>3. \A p \in 0 .. A : first(r, p) \in Nat
  BY <1>2, Firsts DEF FirstFacts
<1>4. ASSUME NEW x \in Cells(h, A, B)
      PROVE  /\ x[1] \in 0 .. A - 1 /\ x[2] \in 0 .. B - 1 /\ x[3] \in Nat
             /\ first(h[x[1]], x[2]) \in Nat
             /\ InRange(h[x[1]], x[2], first(h[x[1]], x[2]) + x[3])
             /\ first(h[x[1]], x[2]) + x[3] \in 0 .. r[x[1]] - 1
             /\ first(r, x[1]) \in Nat /\ cell(r, h, x) \in Nat
             /\ InRange(r, x[1], cell(r, h, x))
  <2>1. x[1] \in 0 .. A - 1 /\ x[2] \in 0 .. B - 1 /\ x[3] \in Nat /\ x[3] < h[x[1]][x[2]]
    BY DEF Cells
  <2> DEFINE f == h[x[1]]
             b == first(f, x[2])
  <2>2. IsSizes(f, B) /\ r[x[1]] = first(f, B)
    BY <1>1, <2>1
  <2>3. b \in Nat /\ f[x[2]] \in Nat
    <3>1. FirstFacts(f, B) /\ x[2] \in 0 .. B
      BY <1>1, <2>1, <2>2, Firsts
    <3>2. b \in Nat
      BY <3>1 DEF FirstFacts
    <3>3. f[x[2]] \in Nat
      BY <2>1, <2>2 DEF IsSizes
    <3> QED BY <3>2, <3>3
  <2>4. InRange(f, x[2], b + x[3])
    BY <2>1, <2>3 DEF InRange
  <2>5. b + x[3] \in 0 .. r[x[1]] - 1
    <3>1. b + x[3] \in Int
      BY <2>1, <2>3
    <3> HIDE DEF f, b
    <3> QED BY <2>1, <2>2, <2>4, <3>1, OneRange
  <2>6. first(r, x[1]) \in Nat /\ r[x[1]] \in Nat
    BY <1>1, <1>2, <1>3, <2>1 DEF IsSizes
  <2>7. InRange(r, x[1], first(r, x[1]) + (b + x[3]))
    <3> HIDE DEF f, b
    <3> QED BY <2>1, <2>3, <2>5, <2>6 DEF InRange
  <2> QED BY <2>1, <2>3, <2>4, <2>5, <2>6, <2>7 DEF cell
<1>5. ASSUME NEW x \in Cells(h, A, B) PROVE cell(r, h, x) \in 0 .. first(r, A) - 1
  <2>1. cell(r, h, x) \in Int
    BY <1>4
  <2> QED BY <1>2, <1>4, <2>1, OneRange
<1>6. ASSUME NEW x \in Cells(h, A, B), NEW y \in Cells(h, A, B), cell(r, h, x) = cell(r, h, y)
      PROVE  x = y
  <2>1. cell(r, h, x) \in Int
    BY <1>4
  <2>2. x[1] = y[1]
    BY <1>2, <1>4, <1>6, <2>1, OneRange
  <2> DEFINE f == h[x[1]]
             b == first(f, x[2]) + x[3]
             c == first(f, y[2]) + y[3]
  <2>3. /\ InRange(f, x[2], b) /\ b \in Int /\ InRange(f, y[2], c) /\ c \in Int
        /\ first(f, x[2]) \in Nat /\ first(f, y[2]) \in Nat
    BY <1>4, <2>2
  <2>4. first(r, x[1]) + b = first(r, x[1]) + c /\ first(r, x[1]) \in Nat
    BY <1>4, <1>6, <2>2 DEF cell
  <2>5. b = c
    <3> HIDE DEF b, c
    <3> QED BY <2>3, <2>4
  <2>6. x[2] = y[2]
    <3>1. IsSizes(f, B) /\ x[2] \in 0 .. B - 1 /\ y[2] \in 0 .. B - 1
      BY <1>1, <1>4
    <3> HIDE DEF b, c, f
    <3> QED BY <2>3, <2>5, <3>1, OneRange
  <2>7. x[3] = y[3]
    <3>1. x[3] \in Nat /\ y[3] \in Nat
      BY <1>4
    <3> QED BY <2>3, <2>5, <2>6, <3>1
  <2> QED BY <2>2, <2>6, <2>7 DEF Cells
<1>7. ASSUME NEW z \in 0 .. first(r, A) - 1 PROVE \E x \in Cells(h, A, B) : cell(r, h, x) = z
  <2>1. PICK a \in 0 .. A - 1 : InRange(r, a, z)
    BY <1>2, OneRange
  <2> DEFINE y == z - first(r, a)
             f == h[a]
  <2>2. IsSizes(f, B) /\ r[a] = first(f, B) /\ first(r, a) \in Nat /\ z \in Int
    BY <1>1, <1>3
  <2>3. y \in 0 .. first(f, B) - 1
    <3>1. first(f, B) \in Nat
      BY <1>1, <1>2, <2>2 DEF IsSizes
    <3> HIDE DEF f
    <3> QED BY <2>1, <2>2, <3>1 DEF InRange
  <2>4. PICK b \in 0 .. B - 1 : InRange(f, b, y)
    <3> HIDE DEF y, f
    <3> QED BY <2>2, <2>3, OneRange
  <2>5. first(f, b) \in Nat /\ f[b] \in Nat
    <3> HIDE DEF f
    <3>1. b \in 0 .. B /\ b \in 0 .. B - 1
      BY <1>1
    <3>2. FirstFacts(f, B)
      BY <2>2, Firsts
    <3> QED BY <2>2, <3>1, <3>2 DEF FirstFacts, IsSizes
  <2> DEFINE t == y - first(f, b)
  <2>6. t \in Nat /\ t < f[b] /\ z = first(r, a) + (first(f, b) + t)
    <3> HIDE DEF f
    <3> QED BY <2>2, <2>4, <2>5 DEF InRange
  <2> HIDE DEF t
  <2>7. <<a, b, t>> \in Cells(h, A, B)
    BY <2>6 DEF Cells
  <2>8. cell(r, h, <<a, b, t>>) = z
    BY <2>6 DEF cell
  <2> QED BY <2>7, <2>8
<1> QED BY <1>2, <1>4, <1>5, <1>6, <1>7

-----------------------------------------------------------------------------
(***************************************************************************)
(* The degrees and the order of the vertices.                              *)
(***************************************************************************)
\* The sums of VEBO are those of the ranges.
LEMMA UpToIsFirst == \A f, n : upTo(f, n) = first(f, n)
BY DEF upTo, first, Total, MapThenSumSet, MapThenFoldSet

\* The vertices of a graph, and its edges, are finitely many.
LEMMA RawFacts ==
  RawType(G) => /\ G.n \in Nat /\ G.n # 0 /\ G.part \in Nat /\ G.part # 0
                /\ IsFiniteSet(G.edges) /\ G.edges \subseteq Old \X Old
                /\ IsFiniteSet(Old) /\ Cardinality(Old) = G.n
                /\ IsFiniteSet(Part) /\ Cardinality(Part) = G.part
                /\ \A v : deg(v) \in Nat
<1> SUFFICES ASSUME RawType(G)
             PROVE  /\ G.n \in Nat /\ G.n # 0 /\ G.part \in Nat /\ G.part # 0
                    /\ IsFiniteSet(G.edges) /\ G.edges \subseteq Old \X Old
                    /\ IsFiniteSet(Old) /\ Cardinality(Old) = G.n
                    /\ IsFiniteSet(Part) /\ Cardinality(Part) = G.part
                    /\ \A v : deg(v) \in Nat
  OBVIOUS
<1>1. /\ G.n \in Nat /\ G.n # 0 /\ G.part \in Nat /\ G.part # 0 /\ G.edges \subseteq Old \X Old
  BY DEF RawType, Old
<1>2. IsFiniteSet(Old) /\ Cardinality(Old) = G.n
  <2>1. 0 \in Int /\ G.n - 1 \in Int /\ ~(0 > G.n - 1) /\ (G.n - 1) - 0 + 1 = G.n
    BY <1>1
  <2> QED BY <2>1, Intervals, Zenon DEF Old
<1>3. IsFiniteSet(Part) /\ Cardinality(Part) = G.part
  <2>1. 0 \in Int /\ G.part - 1 \in Int /\ ~(0 > G.part - 1) /\ (G.part - 1) - 0 + 1 = G.part
    BY <1>1
  <2> QED BY <2>1, Intervals, Zenon DEF Part
<1>4. IsFiniteSet(G.edges)
  BY <1>1, <1>2, FS_Product, FS_Subset
<1>5. ASSUME NEW v PROVE deg(v) \in Nat
  <2>1. {e \in G.edges : e[2] = v} \in SUBSET G.edges
    OBVIOUS
  <2> QED BY <1>4, <2>1, FS_Subset, FS_CardinalityType DEF deg, inDegreeOf
<1> QED BY <1>1, <1>2, <1>3, <1>4, <1>5

\* The larger one first.
greater == {e \in Int \X Int : e[1] > e[2]}

\* It orders every set of numbers; the rank is the number of larger ones.
LEMMA GreaterOrders ==
  ASSUME NEW S, S \subseteq Int
  PROVE  Orders(greater, S) /\ \A x \in S : rank(greater, S, x) = Cardinality({e \in S : e > x})
<1>1. \A x, y \in Int : <<x, y>> \in greater <=> x > y
  BY DEF greater
<1>2. Orders(greater, S)
  BY <1>1 DEF Orders
<1>3. ASSUME NEW x \in S PROVE before(greater, S, x) = {e \in S : e > x}
  BY <1>1 DEF before
<1> QED BY <1>2, <1>3 DEF rank

\* The degrees that occur are ranked by the classes.
ClassFacts ==
  /\ Degrees \subseteq Nat /\ classes \in Nat /\ classes # 0
  /\ \A v \in Old : deg(v) \in Degrees
  /\ \A j \in 0 .. classes - 1 : degreePerN(j) \in Degrees /\ degreeN(degreePerN(j)) = j
  /\ \A d \in Degrees : degreeN(d) \in 0 .. classes - 1 /\ degreePerN(degreeN(d)) = d
  /\ \A j, l \in 0 .. classes - 1 : j < l => degreePerN(j) > degreePerN(l)
  /\ degreeN(0) \in 0 .. classes - 1

\* Each class has a degree and each degree a class.
LEMMA ClassesAreRanks == RawType(G) => ClassFacts
<1> SUFFICES ASSUME RawType(G) PROVE ClassFacts
  OBVIOUS
<1>1. G.n \in Nat /\ G.n # 0 /\ IsFiniteSet(Old) /\ \A v : deg(v) \in Nat
  BY RawFacts
<1>2. /\ Degrees \subseteq Nat /\ Degrees \subseteq Int /\ \A v \in Old : deg(v) \in Degrees
  BY <1>1 DEF Degrees
<1>3. IsFiniteSet(Degrees)
  <2> DEFINE f == [v \in Old |-> deg(v)]
  <2>1. f \in Surjection(Old, Degrees)
    BY DEF Surjection, Degrees
  <2> QED BY <1>1, <2>1, FS_Surjection
<1>4. classes \in Nat /\ classes # 0
  <2>1. 0 \in Old
    BY <1>1 DEF Old
  <2>2. Degrees # {}
    BY <1>2, <2>1
  <2> QED BY <1>3, <2>2, FS_CardinalityType, FS_EmptySet DEF classes
<1>5. /\ Orders(greater, Degrees)
      /\ \A d \in Degrees : rank(greater, Degrees, d) = Cardinality({e \in Degrees : e > d})
  BY <1>2, GreaterOrders
<1> DEFINE r(d) == rank(greater, Degrees, d)
<1>6. \A j \in 0 .. classes - 1 : degreePerN(j) \in Degrees /\ r(degreePerN(j)) = j
  <2> SUFFICES ASSUME NEW j \in 0 .. classes - 1
               PROVE  degreePerN(j) \in Degrees /\ r(degreePerN(j)) = j
    OBVIOUS
  <2>1. j \in Nat /\ j < Cardinality(Degrees)
    BY <1>4 DEF classes
  <2>2. \E d \in Degrees : r(d) = j
    BY <1>3, <1>5, <2>1, RankExists
  <2>3. \E d \in Degrees : Cardinality({e \in Degrees : e > d}) = j
    BY <1>5, <2>2
  <2>4. degreePerN(j) \in Degrees /\ Cardinality({e \in Degrees : e > degreePerN(j)}) = j
    BY <2>3 DEF degreePerN
  <2> QED BY <1>5, <2>4
<1>7. \A d \in Degrees : /\ r(d) \in Nat /\ r(d) < classes /\ degreeN(d) = r(d)
                         /\ \A e \in Degrees : d > e => r(d) < r(e)
                         /\ \A e \in Degrees : r(d) = r(e) => d = e
  <2> SUFFICES ASSUME NEW d \in Degrees
               PROVE  /\ r(d) \in Nat /\ r(d) < classes /\ degreeN(d) = r(d)
                      /\ \A e \in Degrees : d > e => r(d) < r(e)
                      /\ \A e \in Degrees : r(d) = r(e) => d = e
    OBVIOUS
  <2>1. r(d) \in Nat /\ r(d) < Cardinality(Degrees)
        /\ \A e \in Degrees : <<d, e>> \in greater => r(d) < r(e)
    BY <1>3, <1>5, RankGrows
  <2>2. \A e \in Degrees : d > e => <<d, e>> \in greater
    BY <1>2 DEF greater
  <2>3. \A e \in Degrees : r(d) = r(e) => d = e
    BY <1>3, <1>5, RankUnique
  <2> QED BY <1>5, <2>1, <2>2, <2>3 DEF classes, degreeN
<1> HIDE DEF r
<1>8. \A d \in Degrees : degreeN(d) \in 0 .. classes - 1 /\ degreePerN(degreeN(d)) = d
  BY <1>4, <1>6, <1>7
<1>9. \A j, l \in 0 .. classes - 1 : j < l => degreePerN(j) > degreePerN(l)
  <2> SUFFICES ASSUME NEW j \in 0 .. classes - 1, NEW l \in 0 .. classes - 1, j < l
               PROVE  degreePerN(j) > degreePerN(l)
    OBVIOUS
  <2> DEFINE d == degreePerN(j)
             e == degreePerN(l)
  <2>1. d \in Degrees /\ e \in Degrees /\ r(d) = j /\ r(e) = l
    BY <1>6
  <2> HIDE DEF d, e
  <2>2. d \in Nat /\ e \in Nat
    BY <1>2, <2>1
  <2>3. ~(e > d) /\ e # d
    BY <1>7, <2>1
  <2> QED BY <2>2, <2>3 DEF d, e
<1>10. degreeN(0) \in 0 .. classes - 1
  BY <1>4, <1>8 DEF degreeN
<1> QED BY <1>2, <1>4, <1>6, <1>7, <1>8, <1>9, <1>10 DEF ClassFacts

\* The largest degree is that of the first class.
LEMMA LargestDegree ==
  RawType(G) => /\ Max(Degrees) \in Nat
                /\ \A d \in Degrees : d <= Max(Degrees)
                /\ Max(Degrees) = degreePerN(0)
<1> SUFFICES ASSUME RawType(G)
             PROVE  /\ Max(Degrees) \in Nat
                    /\ \A d \in Degrees : d <= Max(Degrees)
                    /\ Max(Degrees) = degreePerN(0)
  OBVIOUS
<1>1. ClassFacts
  BY ClassesAreRanks
<1>2. 0 \in 0 .. classes - 1
  BY <1>1 DEF ClassFacts
<1> DEFINE d == degreePerN(0)
<1>3. d \in Degrees /\ \A e \in Degrees : d >= e
  <2> SUFFICES ASSUME NEW e \in Degrees PROVE d >= e
    BY <1>1, <1>2 DEF ClassFacts
  <2> DEFINE j == degreeN(e)
  <2>1. j \in 0 .. classes - 1 /\ degreePerN(j) = e /\ e \in Nat /\ d \in Nat
    BY <1>1, <1>2 DEF ClassFacts
  <2>2. 0 < j => d > e
    BY <1>1, <1>2, <2>1 DEF ClassFacts
  <2>3. j = 0 => d = e
    BY <2>1
  <2> HIDE DEF j, d
  <2> QED BY <2>1, <2>2, <2>3
<1> HIDE DEF d
<1>4. Max(Degrees) \in Degrees /\ \A e \in Degrees : Max(Degrees) >= e
  BY <1>3 DEF Max
<1>5. Degrees \subseteq Nat
  BY <1>1 DEF ClassFacts
<1> DEFINE M == Max(Degrees)
<1>6. M \in Nat /\ d \in Nat /\ M >= d /\ d >= M
  BY <1>3, <1>4, <1>5
<1>7. M = d
  <2> HIDE DEF M
  <2> QED BY <1>6
<1>8. \A e \in Degrees : e <= M
  <2> SUFFICES ASSUME NEW e \in Degrees PROVE e <= M
    OBVIOUS
  <2>1. M >= e /\ e \in Nat
    BY <1>4, <1>5
  <2> HIDE DEF M
  <2> QED BY <1>6, <2>1
<1> QED BY <1>6, <1>7, <1>8 DEF d

\* LargePairSort as a set of pairs.
sorted == {e \in Old \X Old : LargePairSort(e[1], e[2])}

CheckFacts ==
  /\ \A x \in Old : check(x) \in Old /\ Cardinality({u \in Old : LargePairSort(u, check(x))}) = x
  /\ \A x, y \in Old : check(x) = check(y) => x = y
  /\ \A v \in Old : \E x \in Old : check(x) = v

\* check is a permutation.
LEMMA CheckIsPermutation == RawType(G) => CheckFacts
<1> SUFFICES ASSUME RawType(G) PROVE CheckFacts
  OBVIOUS
<1>1. /\ G.n \in Nat /\ IsFiniteSet(Old) /\ Cardinality(Old) = G.n
      /\ \A v : deg(v) \in Nat
  BY RawFacts
<1>2. Old \subseteq Nat
  BY <1>1 DEF Old
<1>3. \A u, v \in Old : <<u, v>> \in sorted <=> deg(u) > deg(v) \/ (deg(u) = deg(v) /\ u < v)
  BY DEF sorted, LargePairSort
<1>4. Orders(sorted, Old)
  <2>1. \A u \in Old : <<u, u>> \notin sorted
    BY <1>1, <1>2, <1>3
  <2>2. \A u, v, w \in Old : <<u, v>> \in sorted /\ <<v, w>> \in sorted => <<u, w>> \in sorted
    <3> SUFFICES ASSUME NEW u \in Old, NEW v \in Old, NEW w \in Old,
                        <<u, v>> \in sorted, <<v, w>> \in sorted
                 PROVE  <<u, w>> \in sorted
      OBVIOUS
    <3>1. deg(u) \in Nat /\ deg(v) \in Nat /\ deg(w) \in Nat /\ u \in Nat /\ v \in Nat /\ w \in Nat
      BY <1>1, <1>2
    <3> QED BY <1>3, <3>1
  <2>3. \A u, v \in Old : u = v \/ <<u, v>> \in sorted \/ <<v, u>> \in sorted
    <3> SUFFICES ASSUME NEW u \in Old, NEW v \in Old
                 PROVE  u = v \/ <<u, v>> \in sorted \/ <<v, u>> \in sorted
      OBVIOUS
    <3>1. deg(u) \in Nat /\ deg(v) \in Nat /\ u \in Nat /\ v \in Nat
      BY <1>1, <1>2
    <3> QED BY <1>3, <3>1
  <2> QED BY <2>1, <2>2, <2>3 DEF Orders
<1> DEFINE r(v) == rank(sorted, Old, v)
<1>5. \A v \in Old : r(v) = Cardinality({u \in Old : LargePairSort(u, v)})
  <2> SUFFICES ASSUME NEW v \in Old PROVE r(v) = Cardinality({u \in Old : LargePairSort(u, v)})
    OBVIOUS
  <2>1. before(sorted, Old, v) = {u \in Old : LargePairSort(u, v)}
    BY DEF before, sorted
  <2> QED BY <2>1 DEF rank
<1>6. \A x \in Old : check(x) \in Old /\ r(check(x)) = x
  <2> SUFFICES ASSUME NEW x \in Old PROVE check(x) \in Old /\ r(check(x)) = x
    OBVIOUS
  <2>1. x \in Nat /\ x < Cardinality(Old)
    BY <1>1 DEF Old
  <2>2. \E v \in Old : r(v) = x
    BY <1>1, <1>4, <2>1, RankExists
  <2>3. \E v \in Old : Cardinality({u \in Old : LargePairSort(u, v)}) = x
    BY <1>5, <2>2
  <2>4. check(x) \in Old /\ Cardinality({u \in Old : LargePairSort(u, check(x))}) = x
    BY <2>3 DEF check
  <2> QED BY <1>5, <2>4
<1>7. \A v \in Old : r(v) \in Old /\ check(r(v)) = v
  <2> SUFFICES ASSUME NEW v \in Old PROVE r(v) \in Old /\ check(r(v)) = v
    OBVIOUS
  <2>1. r(v) \in Nat /\ r(v) < G.n
    BY <1>1, <1>4, RankGrows
  <2>2. r(v) \in Old
    <3> HIDE DEF r
    <3> QED BY <1>1, <2>1 DEF Old
  <2>3. check(r(v)) \in Old /\ r(check(r(v))) = r(v)
    BY <1>6, <2>2
  <2> QED BY <1>1, <1>4, <2>2, <2>3, RankUnique
<1> HIDE DEF r
<1> QED BY <1>5, <1>6, <1>7 DEF CheckFacts

\* The class of a vertex.
classOf(v) == degreeN(deg(v))

\* How many vertices the classes have.
memberArr == [j \in 0 .. classes - 1 |-> members(j)]

\* Classes and degrees fall and rise against each other.
LEMMA ClassOfFacts ==
  RawType(G) =>
    /\ \A v \in Old : classOf(v) \in 0 .. classes - 1 /\ degreePerN(classOf(v)) = deg(v)
    /\ \A u, v \in Old : classOf(u) < classOf(v) <=> deg(u) > deg(v)
    /\ \A j \in 0 .. classes - 1 : \A v \in Old : deg(v) = degreePerN(j) <=> classOf(v) = j
<1> SUFFICES ASSUME RawType(G)
             PROVE
    /\ \A v \in Old : classOf(v) \in 0 .. classes - 1 /\ degreePerN(classOf(v)) = deg(v)
    /\ \A u, v \in Old : classOf(u) < classOf(v) <=> deg(u) > deg(v)
    /\ \A j \in 0 .. classes - 1 : \A v \in Old : deg(v) = degreePerN(j) <=> classOf(v) = j
  OBVIOUS
<1>1. ClassFacts
  BY ClassesAreRanks
<1>2. \A v \in Old : classOf(v) \in 0 .. classes - 1 /\ degreePerN(classOf(v)) = deg(v) /\ deg(v) \in Nat
  BY <1>1 DEF ClassFacts, classOf
<1>3. \A u, v \in Old : classOf(u) < classOf(v) <=> deg(u) > deg(v)
  <2> SUFFICES ASSUME NEW u \in Old, NEW v \in Old PROVE classOf(u) < classOf(v) <=> deg(u) > deg(v)
    OBVIOUS
  <2> DEFINE a == classOf(u)
             b == classOf(v)
  <2>1. a \in 0 .. classes - 1 /\ b \in 0 .. classes - 1 /\ classes \in Nat
        /\ degreePerN(a) = deg(u) /\ degreePerN(b) = deg(v) /\ deg(u) \in Nat /\ deg(v) \in Nat
    BY <1>1, <1>2 DEF ClassFacts
  <2> HIDE DEF a, b
  <2>2. (a < b => deg(u) > deg(v)) /\ (b < a => deg(v) > deg(u)) /\ (a = b => deg(u) = deg(v))
    BY <1>1, <2>1 DEF ClassFacts
  <2> QED BY <2>1, <2>2 DEF a, b
<1>4. \A j \in 0 .. classes - 1 : \A v \in Old : deg(v) = degreePerN(j) <=> classOf(v) = j
  BY <1>1, <1>2 DEF ClassFacts, classOf
<1> QED BY <1>2, <1>3, <1>4

MemberFacts ==
  /\ IsSizes(memberArr, classes)
  /\ \A j \in 0 .. classes : first(memberArr, j) = Cardinality({v \in Old : classOf(v) < j})
  /\ first(memberArr, classes) = G.n

\* They are added up class by class.
LEMMA MembersAddUp == RawType(G) => MemberFacts
<1> SUFFICES ASSUME RawType(G) PROVE MemberFacts
  OBVIOUS
<1> DEFINE S(j) == {v \in Old : classOf(v) < j}
           C(j) == {v \in Old : classOf(v) = j}
<1>1. classes \in Nat /\ IsFiniteSet(Old) /\ Cardinality(Old) = G.n
  BY RawFacts, ClassesAreRanks DEF ClassFacts
<1>2. \A v \in Old : classOf(v) \in 0 .. classes - 1
  BY ClassOfFacts
<1>3. \A j \in 0 .. classes - 1 : members(j) = Cardinality(C(j))
  <2> SUFFICES ASSUME NEW j \in 0 .. classes - 1 PROVE members(j) = Cardinality(C(j))
    OBVIOUS
  <2>1. {v \in Old : deg(v) = degreePerN(j)} = C(j)
    BY ClassOfFacts
  <2> QED BY <2>1 DEF members
<1>4. \A j : /\ IsFiniteSet(S(j)) /\ Cardinality(S(j)) \in Nat
             /\ IsFiniteSet(C(j)) /\ Cardinality(C(j)) \in Nat
  <2> SUFFICES ASSUME NEW j PROVE /\ IsFiniteSet(S(j)) /\ Cardinality(S(j)) \in Nat
                                  /\ IsFiniteSet(C(j)) /\ Cardinality(C(j)) \in Nat
    OBVIOUS
  <2>1. S(j) \in SUBSET Old /\ C(j) \in SUBSET Old
    OBVIOUS
  <2> HIDE DEF S, C
  <2> QED BY <1>1, <2>1, FS_Subset, FS_CardinalityType
<1>5. IsSizes(memberArr, classes)
  <2>1. \A j \in 0 .. classes - 1 : memberArr[j] \in Nat
    BY <1>3, <1>4 DEF memberArr
  <2> QED BY <1>1, <2>1 DEF IsSizes
<1>6. FirstFacts(memberArr, classes)
  BY <1>5, Firsts
<1> DEFINE P == {j \in Nat : first(memberArr, j) = Cardinality(S(j))}
<1>7. 0 \in P
  <2>1. S(0) = {}
    BY <1>1, <1>2
  <2> HIDE DEF S
  <2> QED BY <1>6, <2>1, FS_EmptySet DEF FirstFacts
<1>8. \A j \in 0 .. classes - 1 : j \in P => j + 1 \in P
  <2> SUFFICES ASSUME NEW j \in 0 .. classes - 1, j \in P PROVE j + 1 \in P
    OBVIOUS
  <2>1. S(j + 1) = S(j) \union C(j) /\ S(j) \intersect C(j) = {}
    BY <1>1, <1>2
  <2>2. Cardinality(S(j + 1)) = Cardinality(S(j)) + Cardinality(C(j))
    <3> HIDE DEF S, C
    <3>1. Cardinality(S(j) \union C(j)) = Cardinality(S(j)) + Cardinality(C(j)) - Cardinality(S(j) \intersect C(j))
      BY <1>4, FS_Union
    <3>2. Cardinality(S(j) \intersect C(j)) = 0
      BY <2>1, FS_EmptySet
    <3>3. Cardinality(S(j)) \in Nat /\ Cardinality(C(j)) \in Nat
      BY <1>4
    <3>4. Cardinality(S(j + 1)) = Cardinality(S(j) \union C(j))
      BY <2>1
    <3> DEFINE a == Cardinality(S(j))
               b == Cardinality(C(j))
    <3> HIDE DEF a, b
    <3>5. a \in Nat /\ b \in Nat /\ Cardinality(S(j + 1)) = a + b - 0
      BY <3>1, <3>2, <3>3, <3>4 DEF a, b
    <3> QED BY <3>5 DEF a, b
  <2>3. first(memberArr, j + 1) = first(memberArr, j) + memberArr[j]
    BY <1>6 DEF FirstFacts
  <2>4. memberArr[j] = Cardinality(C(j))
    BY <1>3 DEF memberArr
  <2> HIDE DEF S, C
  <2> QED BY <2>2, <2>3, <2>4
<1>9. \A j \in 0 .. classes : j \in P
  <2> HIDE DEF P
  <2> QED BY <1>1, <1>7, <1>8, BoundedInduction
<1>10. first(memberArr, classes) = G.n
  <2>1. S(classes) = Old
    BY <1>1, <1>2
  <2>2. classes \in P
    BY <1>1, <1>9
  <2> HIDE DEF S
  <2> QED BY <1>1, <2>1, <2>2
<1> QED BY <1>5, <1>9, <1>10 DEF MemberFacts

\* The place of a vertex in the order lies in the range of its class.
LEMMA CheckFollowsClasses ==
  RawType(G) => \A x \in Old : InRange(memberArr, classOf(check(x)), x)
<1> SUFFICES ASSUME RawType(G), NEW x \in Old PROVE InRange(memberArr, classOf(check(x)), x)
  OBVIOUS
<1> DEFINE v == check(x)
           c == classOf(v)
           L == {u \in Old : LargePairSort(u, v)}
           S == {u \in Old : classOf(u) < c}
           T == {u \in Old : classOf(u) < c + 1}
<1>1. v \in Old /\ Cardinality(L) = x
  BY CheckIsPermutation DEF CheckFacts
<1>2. classes \in Nat /\ c \in 0 .. classes - 1 /\ \A u \in Old : classOf(u) \in 0 .. classes - 1
  BY <1>1, ClassOfFacts, ClassesAreRanks DEF ClassFacts
<1>3. \A u \in Old : /\ deg(u) \in Nat /\ deg(v) \in Nat
                     /\ classOf(u) < c <=> deg(u) > deg(v)
                     /\ c < classOf(u) <=> deg(v) > deg(u)
  BY <1>1, ClassOfFacts, RawFacts
<1>4. G.n \in Nat /\ IsFiniteSet(Old) /\ Old \subseteq Nat
  BY RawFacts DEF Old
<1> HIDE DEF v, c
<1>5. S \subseteq L
  BY <1>3 DEF LargePairSort
<1>6. L \union {v} \subseteq T /\ v \notin L
  <2>1. \A u \in L : deg(u) >= deg(v)
    BY <1>3 DEF LargePairSort
  <2>2. \A u \in L : ~(c < classOf(u))
    BY <1>3, <2>1
  <2>3. \A u \in L : classOf(u) < c + 1
    BY <1>2, <2>2
  <2>4. classOf(v) < c + 1
    BY <1>2 DEF c
  <2>5. v \notin L
    BY <1>1, <1>3, <1>4 DEF LargePairSort
  <2> QED BY <1>1, <2>3, <2>4, <2>5
<1>7. IsFiniteSet(S) /\ IsFiniteSet(L) /\ IsFiniteSet(T)
  BY <1>4, FS_Subset
<1> HIDE DEF L, S, T
<1>8. Cardinality(S) <= Cardinality(L) /\ Cardinality(S) \in Nat /\ Cardinality(L) \in Nat
  BY <1>5, <1>7, FS_Subset, FS_CardinalityType
<1>9. Cardinality(L) + 1 <= Cardinality(T) /\ Cardinality(T) \in Nat
  <2>1. Cardinality(L \union {v}) = Cardinality(L) + 1
    BY <1>6, <1>7, FS_AddElement
  <2> QED BY <1>6, <1>7, <2>1, FS_Subset, FS_CardinalityType
<1>10. MemberFacts
  BY MembersAddUp
<1>11. first(memberArr, c) = Cardinality(S) /\ first(memberArr, c + 1) = Cardinality(T)
  <2>1. c \in 0 .. classes /\ c + 1 \in 0 .. classes
    BY <1>2
  <2> QED BY <1>10, <2>1 DEF MemberFacts, S, T
<1>12. first(memberArr, c + 1) = first(memberArr, c) + memberArr[c]
  BY <1>2, <1>10, Firsts DEF FirstFacts, MemberFacts
<1>13. InRange(memberArr, c, x)
  <2>1. memberArr[c] \in Nat
    BY <1>2, <1>10 DEF MemberFacts, IsSizes
  <2> QED BY <1>1, <1>8, <1>9, <1>11, <1>12, <2>1 DEF InRange
<1> QED BY <1>13 DEF c, v

\* What phase 1 places of a class, and what is left to phase 2.
LEMMA SameAndZero ==
  RawType(G) =>
    /\ czero \in Nat
    /\ \A j \in 0 .. classes - 1 :
         /\ same(j) \in Nat
         /\ degreePerN(j) # 0 => same(j) = members(j)
         /\ degreePerN(j) = 0 => same(j) + czero = members(j)
    /\ 0 \notin Degrees => czero = 0
    /\ \A j \in 0 .. classes - 1 : degreePerN(j) = 0 => 0 \in Degrees /\ degreeN(0) = j
<1> SUFFICES ASSUME RawType(G)
             PROVE
    /\ czero \in Nat
    /\ \A j \in 0 .. classes - 1 :
         /\ same(j) \in Nat
         /\ degreePerN(j) # 0 => same(j) = members(j)
         /\ degreePerN(j) = 0 => same(j) + czero = members(j)
    /\ 0 \notin Degrees => czero = 0
    /\ \A j \in 0 .. classes - 1 : degreePerN(j) = 0 => 0 \in Degrees /\ degreeN(0) = j
  OBVIOUS
<1> DEFINE Z == {v \in Old : deg(v) = 0}
           Y == {v \in Old \ {check(0)} : deg(v) = 0}
<1>1. ClassFacts /\ IsFiniteSet(Old) /\ G.n \in Nat /\ G.n # 0 /\ 0 \in Old
  BY RawFacts, ClassesAreRanks DEF Old
<1>2. IsFiniteSet(Z) /\ IsFiniteSet(Y) /\ Cardinality(Z) \in Nat /\ Cardinality(Y) \in Nat
  <2>1. Z \in SUBSET Old /\ Y \in SUBSET Old
    OBVIOUS
  <2> HIDE DEF Z, Y
  <2> QED BY <1>1, <2>1, FS_Subset, FS_CardinalityType
<1>3. \A j \in 0 .. classes - 1 : members(j) \in Nat
  BY MembersAddUp DEF MemberFacts, IsSizes, memberArr
<1>4. 0 \notin Degrees => czero = 0
  <2> SUFFICES ASSUME 0 \notin Degrees PROVE czero = 0
    OBVIOUS
  <2>1. Y = {}
    BY <1>1 DEF ClassFacts
  <2> QED BY <2>1, FS_EmptySet DEF czero
<1>5. check(0) \in Old /\ classOf(check(0)) = 0
  <2>1. check(0) \in Old /\ InRange(memberArr, classOf(check(0)), 0)
    BY <1>1, CheckIsPermutation, CheckFollowsClasses DEF CheckFacts
  <2> DEFINE c == classOf(check(0))
  <2>2. c \in 0 .. classes - 1 /\ classes \in Nat
    BY <1>1, <2>1, ClassOfFacts DEF ClassFacts
  <2>3. IsSizes(memberArr, classes) /\ FirstFacts(memberArr, classes)
    BY MembersAddUp, Firsts DEF MemberFacts
  <2>4. ASSUME c # 0 PROVE FALSE
    <3>1. members(0) # 0
      <4> DEFINE M == {v \in Old : deg(v) = degreePerN(0)}
      <4>1. 0 \in 0 .. classes - 1
        BY <2>2
      <4>2. degreePerN(0) \in Degrees
        BY <1>1, <4>1 DEF ClassFacts
      <4>3. M # {}
        BY <4>2 DEF Degrees
      <4>4. IsFiniteSet(M)
        BY <1>1, FS_Subset
      <4> HIDE DEF M
      <4>5. Cardinality(M) # 0
        BY <4>3, <4>4, FS_EmptySet
      <4> QED BY <4>5 DEF members, M
    <3>2. 0 \in 0 .. classes - 1 /\ 0 \in 0 .. classes /\ 1 \in 0 .. classes /\ c \in 0 .. classes /\ 1 <= c
      BY <2>2, <2>4
    <3> HIDE DEF c
    <3>3. first(memberArr, 0 + 1) = first(memberArr, 0) + memberArr[0] /\ first(memberArr, 0) = 0
      BY <2>3, <3>2 DEF FirstFacts
    <3>4. memberArr[0] = members(0) /\ members(0) \in Nat
      BY <1>3, <3>2 DEF memberArr
    <3>5. first(memberArr, 1) <= first(memberArr, c) /\ first(memberArr, c) \in Nat
      BY <2>3, <3>2 DEF FirstFacts
    <3>6. first(memberArr, c) <= 0
      BY <2>1 DEF InRange, c
    <3> QED BY <3>1, <3>3, <3>4, <3>5, <3>6
  <2> QED BY <2>1, <2>4
<1>6. ASSUME NEW j \in 0 .. classes - 1, degreePerN(j) = 0
      PROVE  /\ 0 \in Degrees /\ degreeN(0) = j
             /\ same(j) \in Nat /\ same(j) + czero = members(j)
  <2>1. 0 \in Degrees /\ degreeN(0) = j
    BY <1>1, <1>6 DEF ClassFacts
  <2>2. members(j) = Cardinality(Z)
    BY <1>6 DEF members
  <2>3. czero = Cardinality(Y)
    BY DEF czero
  <2>4. CASE j = 0
    <3>1. deg(check(0)) = 0
      BY <1>5, <1>6, <2>4, ClassOfFacts
    <3>2. Z = Y \union {check(0)} /\ check(0) \notin Y
      BY <1>5, <3>1
    <3> HIDE DEF Z, Y
    <3>3. Cardinality(Z) = Cardinality(Y) + 1
      BY <1>2, <3>2, FS_AddElement
    <3>4. same(j) = 1
      BY <1>6, <2>4 DEF same
    <3> QED BY <1>2, <2>1, <2>2, <2>3, <3>3, <3>4
  <2>5. CASE j # 0
    <3>1. deg(check(0)) # 0
      BY <1>5, <1>6, <2>5, ClassOfFacts
    <3>2. Z = Y
      BY <3>1
    <3>3. same(j) = 0
      BY <1>6, <2>5 DEF same
    <3> HIDE DEF Z, Y
    <3> QED BY <1>2, <2>1, <2>2, <2>3, <3>2, <3>3
  <2> QED BY <2>4, <2>5
<1>7. ASSUME NEW j \in 0 .. classes - 1, degreePerN(j) # 0
      PROVE  same(j) \in Nat /\ same(j) = members(j)
  BY <1>3, <1>7 DEF same, members
<1>8. czero \in Nat
  BY <1>2 DEF czero
<1> QED BY <1>4, <1>6, <1>7, <1>8

-----------------------------------------------------------------------------
(***************************************************************************)
(* The loads of phase 1.                                                   *)
(***************************************************************************)
\* above, Close and CanCatchUp of loads L.
aboveOf(L, P, p) == [q \in P |-> IF L[p] > L[q] THEN L[p] - L[q] ELSE 0]
CloseIn(L, P, D) == \A p, q \in P : L[p] - L[q] <= D
CatchUpIn(L, P, E) == \A p \in P : Total(aboveOf(L, P, p), P) <= E

\* What lies above others can be added up.
LEMMA AboveAddsUp ==
  \A L, P, p : IsFiniteSet(P) /\ (\A q \in P : L[q] \in Nat) /\ p \in P =>
    /\ IsSummable(aboveOf(L, P, p), P)
    /\ \A q \in P : aboveOf(L, P, p)[q] = (IF L[p] > L[q] THEN L[p] - L[q] ELSE 0)
    /\ \A q \in P : aboveOf(L, P, p)[q] \in Nat
    /\ Total(aboveOf(L, P, p), P) \in Nat
<1> SUFFICES ASSUME NEW L, NEW P, NEW p, IsFiniteSet(P), \A q \in P : L[q] \in Nat, p \in P
             PROVE
    /\ IsSummable(aboveOf(L, P, p), P)
    /\ \A q \in P : aboveOf(L, P, p)[q] = (IF L[p] > L[q] THEN L[p] - L[q] ELSE 0)
    /\ \A q \in P : aboveOf(L, P, p)[q] \in Nat
    /\ Total(aboveOf(L, P, p), P) \in Nat
  OBVIOUS
<1> DEFINE f == aboveOf(L, P, p)
<1>1. \A q \in P : f[q] = IF L[p] > L[q] THEN L[p] - L[q] ELSE 0
  BY DEF aboveOf
<1>2. \A q \in P : f[q] \in Nat
  BY <1>1
<1> HIDE DEF f
<1>3. IsSummable(f, P) /\ Total(f, P) \in Nat
  BY <1>2, TotalNat DEF IsSummable
<1> QED BY <1>1, <1>2, <1>3 DEF f

\* The least of the loads grows by w, which is not more than D, or can be
\* given to each other partition as well.
LeastTakes(P, L, a, D, w, E, H) ==
  /\ IsFiniteSet(P) /\ a \in P /\ D \in Nat /\ w \in Nat /\ E \in Int
  /\ \A q \in P : L[q] \in Nat /\ L[a] <= L[q]
  /\ w <= D \/ Cardinality(P \ {a}) * w <= E - w
  /\ \A q \in P : H[q] = IF q = a THEN L[a] + w ELSE L[q]

\* Growing the least load keeps the loads close, or within reach.
LEMMA LeastGrows ==
  \A P, L, a, D, w, E, H :
    LeastTakes(P, L, a, D, w, E, H) /\ (CloseIn(L, P, D) \/ CatchUpIn(L, P, E)) =>
      CloseIn(H, P, D) \/ CatchUpIn(H, P, E - w)
<1> SUFFICES ASSUME NEW P, NEW L, NEW a, NEW D, NEW w, NEW E, NEW H,
                    LeastTakes(P, L, a, D, w, E, H), CloseIn(L, P, D) \/ CatchUpIn(L, P, E)
             PROVE  CloseIn(H, P, D) \/ CatchUpIn(H, P, E - w)
  OBVIOUS
<1> IsFiniteSet(P) /\ a \in P /\ D \in Nat /\ w \in Nat /\ E \in Int
  BY DEF LeastTakes
<1> \A q \in P : L[q] \in Nat
  BY DEF LeastTakes
<1> \A q \in P : L[a] <= L[q]
  BY DEF LeastTakes
<1> w <= D \/ Cardinality(P \ {a}) * w <= E - w
  BY DEF LeastTakes
<1> \A q \in P : H[q] = IF q = a THEN L[a] + w ELSE L[q]
  BY DEF LeastTakes
<1>1. \A q \in P : H[q] \in Nat
  OBVIOUS
<1>2. CASE \A q \in P : L[q] <= L[a] + w
  <2>1. CASE w <= D
    <3>1. \A p, q \in P : H[p] <= L[a] + w /\ L[a] <= H[q]
      BY <1>2
    <3> QED BY <1>1, <2>1, <3>1 DEF CloseIn
  <2>2. CASE Cardinality(P \ {a}) * w <= E - w
    <3> SUFFICES ASSUME NEW p \in P PROVE Total(aboveOf(H, P, p), P) <= E - w
      BY DEF CatchUpIn
    <3> DEFINE f == aboveOf(H, P, p)
               c == [q \in P |-> IF q = a THEN 0 ELSE w]
    <3>1. /\ IsSummable(f, P) /\ Total(f, P) \in Nat
          /\ \A q \in P : f[q] = (IF H[p] > H[q] THEN H[p] - H[q] ELSE 0)
      BY <1>1, AboveAddsUp
    <3>2. \A q \in P : f[q] <= c[q]
      <4> SUFFICES ASSUME NEW q \in P PROVE f[q] <= c[q]
        OBVIOUS
      <4>1. H[p] <= L[a] + w /\ H[p] \in Nat /\ H[q] \in Nat /\ L[a] \in Nat /\ L[a] <= H[q]
        BY <1>1, <1>2
      <4>2. q = a => H[q] = L[a] + w
        OBVIOUS
      <4> QED BY <3>1, <4>1, <4>2
    <3>3. IsSummable(c, P) /\ IsSummable(c, P \ {a}) /\ IsFiniteSet(P \ {a})
      <4>1. IsFiniteSet(P \ {a})
        BY FS_Subset
      <4> QED BY <4>1 DEF IsSummable
    <3>4. Total(f, P) <= Total(c, P)
      <4> HIDE DEF f, c
      <4> QED BY <3>1, <3>2, <3>3, TotalMonotone
    <3>5. Total(c, P) = Total(c, P \ {a})
      <4>1. \A q \in P \ (P \ {a}) : c[q] = 0
        OBVIOUS
      <4> HIDE DEF c
      <4> QED BY <3>3, <4>1, TotalRestrict
    <3>6. Total(c, P \ {a}) = Cardinality(P \ {a}) * w
      <4>1. \A q \in P \ {a} : c[q] = w
        OBVIOUS
      <4> HIDE DEF c
      <4> QED BY <3>3, <4>1, TotalConstant
    <3> HIDE DEF f, c
    <3>7. Total(f, P) <= Cardinality(P \ {a}) * w /\ Cardinality(P \ {a}) * w \in Int
      <4>1. Cardinality(P \ {a}) \in Nat
        BY <3>3, FS_CardinalityType
      <4> QED BY <3>4, <3>5, <3>6, <4>1
    <3> QED BY <2>2, <3>1, <3>7 DEF f
  <2> QED BY <2>1, <2>2
<1>3. ASSUME NEW t \in P, L[t] > L[a] + w PROVE CloseIn(H, P, D) \/ CatchUpIn(H, P, E - w)
  <2>1. t # a
    BY <1>3
  <2>2. ASSUME CloseIn(L, P, D) PROVE CloseIn(H, P, D)
    <3> SUFFICES ASSUME NEW p \in P, NEW q \in P PROVE H[p] - H[q] <= D
      BY DEF CloseIn
    <3>1. L[p] - L[q] <= D /\ L[t] - L[q] <= D
      BY <2>2 DEF CloseIn
    <3>2. H[q] >= L[q] /\ (p = a => H[p] < L[t]) /\ (p # a => H[p] = L[p])
      BY <1>3
    <3>3. H[p] \in Nat /\ H[q] \in Nat /\ L[p] \in Nat /\ L[q] \in Nat /\ L[t] \in Nat
      BY <1>1
    <3> QED BY <3>1, <3>2, <3>3
  <2>3. ASSUME CatchUpIn(L, P, E) PROVE CatchUpIn(H, P, E - w)
    <3>1. ASSUME NEW p \in P, L[p] > L[a] + w PROVE Total(aboveOf(H, P, p), P) <= E - w
      <4> DEFINE f == aboveOf(L, P, p)
                 h == aboveOf(H, P, p)
      <4>1. /\ IsSummable(f, P) /\ Total(f, P) \in Nat
            /\ \A q \in P : f[q] = (IF L[p] > L[q] THEN L[p] - L[q] ELSE 0)
        BY AboveAddsUp
      <4>2. /\ IsSummable(h, P) /\ Total(h, P) \in Nat
            /\ \A q \in P : h[q] = (IF H[p] > H[q] THEN H[p] - H[q] ELSE 0)
        BY <1>1, AboveAddsUp
      <4>3. p # a /\ H[p] = L[p] /\ L[p] \in Nat /\ L[a] \in Nat
        BY <3>1
      <4>4. \A q \in P \ {a} : h[q] = f[q]
        BY <4>1, <4>2, <4>3
      <4>5. h[a] - f[a] = -w /\ f[a] \in Int /\ h[a] \in Int
        <5>1. f[a] = L[p] - L[a] /\ h[a] = L[p] - (L[a] + w)
          BY <3>1, <4>1, <4>2, <4>3
        <5> HIDE DEF f, h
        <5> QED BY <4>3, <5>1
      <4>6. Total(h, P) = Total(f, P) + (h[a] - f[a])
        <5> HIDE DEF f, h
        <5> QED BY <4>1, <4>2, <4>4, TotalChange
      <4>7. Total(f, P) <= E
        BY <2>3 DEF CatchUpIn
      <4> HIDE DEF f, h
      <4>8. Total(h, P) <= E - w
        BY <4>1, <4>5, <4>6, <4>7
      <4> QED BY <4>8 DEF h
    <3>2. ASSUME NEW p \in P, ~(L[p] > L[a] + w) PROVE Total(aboveOf(H, P, p), P) <= E - w
      <4> DEFINE f == aboveOf(H, P, p)
                 h == aboveOf(H, P, t)
      <4>1. /\ IsSummable(f, P) /\ Total(f, P) \in Nat
            /\ \A q \in P : f[q] = (IF H[p] > H[q] THEN H[p] - H[q] ELSE 0)
        BY <1>1, AboveAddsUp
      <4>2. /\ IsSummable(h, P) /\ Total(h, P) \in Nat
            /\ \A q \in P : h[q] = (IF H[t] > H[q] THEN H[t] - H[q] ELSE 0)
        BY <1>1, AboveAddsUp
      <4>3. H[p] <= H[t] /\ H[p] \in Nat /\ H[t] \in Nat
        BY <1>3, <2>1, <3>2
      <4>4. \A q \in P : f[q] <= h[q]
        <5> SUFFICES ASSUME NEW q \in P PROVE f[q] <= h[q]
          OBVIOUS
        <5>1. H[q] \in Nat
          BY <1>1
        <5>2. f[q] = (IF H[p] > H[q] THEN H[p] - H[q] ELSE 0)
              /\ h[q] = (IF H[t] > H[q] THEN H[t] - H[q] ELSE 0)
          BY <4>1, <4>2
        <5> HIDE DEF f, h
        <5> QED BY <4>3, <5>1, <5>2
      <4>5. Total(f, P) <= Total(h, P)
        <5> HIDE DEF f, h
        <5> QED BY <4>1, <4>2, <4>4, TotalMonotone
      <4>6. Total(h, P) <= E - w
        BY <1>3, <3>1
      <4> HIDE DEF f, h
      <4>7. Total(f, P) <= E - w
        BY <4>1, <4>2, <4>5, <4>6
      <4> QED BY <4>7 DEF f
    <3> QED BY <3>1, <3>2 DEF CatchUpIn
  <2> QED BY <2>2, <2>3
<1>4. \A q \in P : L[q] <= L[a] + w \/ L[q] > L[a] + w
  OBVIOUS
<1> QED BY <1>2, <1>3, <1>4

\* What is left of a class after a turn, in edges.
LEMMA BatchFits ==
  ASSUME NEW d \in Nat, NEW R \in Nat, NEW Q \in Nat, Q # 0, NEW b \in Nat, b = 1 \/ b = R \div Q,
         R # 0
  PROVE  /\ b <= R
         /\ d * (R - b) = d * R - d * b
         /\ b # 1 => (Q - 1) * (d * b) <= d * R - d * b
<1>1. b = R \div Q => Q * b <= R
  BY Quotient
<1>2. d * (R - b) = d * R - d * b
  OBVIOUS
<1>3. ASSUME b = R \div Q PROVE b <= R /\ (Q - 1) * (d * b) <= d * R - d * b
  <2> DEFINE c == R - Q * b
  <2>1. Q * b \in Nat /\ c \in Nat /\ R = Q * b + c
    BY <1>1, <1>3
  <2> HIDE DEF c
  <2>2. d * R = d * (Q * b) + d * c /\ d * c \in Nat
    BY <2>1
  <2>3. d * (Q * b) = Q * (d * b) /\ (Q - 1) * (d * b) = Q * (d * b) - d * b
    OBVIOUS
  <2>4. Q * b >= b
    <3>1. Q = 1 + (Q - 1) /\ Q - 1 \in Nat
      OBVIOUS
    <3>2. Q * b = b + (Q - 1) * b /\ (Q - 1) * b \in Nat
      BY <3>1
    <3> QED BY <3>2
  <2>5. d * b \in Nat /\ Q * (d * b) \in Nat /\ d * R \in Nat
    OBVIOUS
  <2> QED BY <2>1, <2>2, <2>3, <2>4, <2>5
<1> QED BY <1>2, <1>3

-----------------------------------------------------------------------------
(***************************************************************************)
(* The table of how many vertices of a class go to a partition.            *)
(***************************************************************************)
\* The parts of PlacementInv, of arrays that are given.
ClassSet == 0 .. classes - 1
perClassOf(D, j) == first([p \in Part |-> D[p][j]], G.part)
edgesOf(D, p) == [j \in ClassSet |-> D[p][j] * degreePerN(j)]
SizesOf(D, V) == \A p \in Part : V[p] = first(D[p], classes)
LoadsOf(D, L) == \A p \in Part : L[p] = first(edgesOf(D, p), classes)

\* The places of a class.
PerClassIs == \A j : perClass(j) = perClassOf(perDeg, j)

\* It holds by definition of the sums.
LEMMA PerClassAdds == PerClassIs
BY DEF PerClassIs, perClass, perClassOf, Part, first, Total, MapThenSumSet, MapThenFoldSet

\* What PlacementInv says of the arrays.
LEMMA ArraysNow ==
  /\ SizesAgree <=> SizesOf(perDeg, ver_size)
  /\ LoadsAgree <=> LoadsOf(perDeg, load)
  /\ \A j : perClass(j) = perClassOf(perDeg, j)
  /\ Close <=> CloseIn(load, Part, Max(Degrees))
  /\ CanCatchUp <=> CatchUpIn(load, Part, degreePerN(class) * (same(class) - k))
  /\ upTo(ver_size, G.part) = first(ver_size, G.part)
<1>1. SizesAgree <=> SizesOf(perDeg, ver_size)
  BY UpToIsFirst DEF SizesAgree, SizesOf
<1>2. LoadsAgree <=> LoadsOf(perDeg, load)
  BY UpToIsFirst DEF LoadsAgree, LoadsOf, edgesOf, edgesPerClass, ClassSet
<1>3. \A j : perClass(j) = perClassOf(perDeg, j)
  BY PerClassAdds DEF PerClassIs
<1>4. Close <=> CloseIn(load, Part, Max(Degrees))
  BY DEF Close, CloseIn
<1>5. CanCatchUp <=> CatchUpIn(load, Part, degreePerN(class) * (same(class) - k))
  <2>1. \A p : upTo(above(p), G.part) = Total(aboveOf(load, Part, p), Part)
    BY UpToIsFirst DEF above, aboveOf, first, Part
  <2> QED BY <2>1 DEF CanCatchUp, CatchUpIn
<1> QED BY <1>1, <1>2, <1>3, <1>4, <1>5, UpToIsFirst

\* Nothing that depends on the graph alone changes.
LEMMA SameGraph ==
  ASSUME G' = G
  PROVE  /\ Part' = Part /\ Old' = Old /\ Degrees' = Degrees /\ classes' = classes
         /\ ClassSet' = ClassSet /\ czero' = czero /\ avg' = avg /\ extra' = extra /\ Dzero' = Dzero
         /\ Max(Degrees)' = Max(Degrees)
         /\ \A j : degreePerN(j)' = degreePerN(j) /\ same(j)' = same(j) /\ members(j)' = members(j)
         /\ \A d : degreeN(d)' = degreeN(d)
         /\ degreeN(0)' = degreeN(0)
         /\ \A p : surplus(p)' = surplus(p)
<1>1. Part' = Part /\ Old' = Old /\ avg' = avg /\ extra' = extra
  BY DEF Part, Old, avg, extra
<1>2. \A v : deg(v)' = deg(v)
  BY DEF deg, inDegreeOf
<1>3. Degrees' = Degrees
  BY <1>1, <1>2 DEF Degrees
<1>4. classes' = classes /\ ClassSet' = ClassSet
  BY <1>3 DEF classes, ClassSet
<1>5. \A j : degreePerN(j)' = degreePerN(j)
  BY <1>3 DEF degreePerN
<1>6. \A d : degreeN(d)' = degreeN(d)
  BY <1>3 DEF degreeN
<1>7. \A j : same(j)' = same(j) /\ members(j)' = members(j)
  BY <1>1, <1>2, <1>5 DEF same, members
<1>8. check(0)' = check(0)
  BY <1>1, <1>2 DEF check, LargePairSort
<1>9. czero' = czero
  BY <1>1, <1>2, <1>8 DEF czero
<1>10. Dzero' = Dzero
  BY <1>9 DEF Dzero
<1>11. \A p : surplus(p)' = surplus(p)
  BY <1>1 DEF surplus
<1>12. Max(Degrees)' = Max(Degrees)
  BY <1>3 DEF Max
<1> QED BY <1>1, <1>3, <1>4, <1>5, <1>6, <1>7, <1>9, <1>10, <1>11, <1>12

\* The same after a step.
LEMMA ArraysThen ==
  ASSUME G' = G
  PROVE  /\ SizesAgree' <=> SizesOf(perDeg', ver_size')
         /\ LoadsAgree' <=> LoadsOf(perDeg', load')
         /\ \A j : perClass(j)' = perClassOf(perDeg', j)
         /\ Close' <=> CloseIn(load', Part, Max(Degrees))
         /\ class' = class =>
              (CanCatchUp' <=> CatchUpIn(load', Part, degreePerN(class) * (same(class) - k')))
         /\ upTo(ver_size, G.part)' = first(ver_size', G.part)
<1> USE SameGraph
<1>1. SizesAgree' <=> SizesOf(perDeg', ver_size')
  <2>1. \A p : upTo(perDeg[p], classes)' = first(perDeg'[p], classes)
    BY DEF upTo, first, Total, MapThenSumSet, MapThenFoldSet
  <2> QED BY <2>1 DEF SizesAgree, SizesOf
<1>2. LoadsAgree' <=> LoadsOf(perDeg', load')
  <2>1. \A p : edgesPerClass(p)' = edgesOf(perDeg', p)
    BY DEF edgesOf, edgesPerClass, ClassSet
  <2>2. \A p : upTo(edgesPerClass(p), classes)' = first(edgesPerClass(p)', classes)
    BY DEF upTo, first, Total, MapThenSumSet, MapThenFoldSet
  <2> QED BY <2>1, <2>2 DEF LoadsAgree, LoadsOf
<1>3. \A j : perClass(j)' = perClassOf(perDeg', j)
  <2>1. PerClassIs'
    BY PerClassAdds, PTL
  <2>2. \A j : perClass(j)' = perClassOf(perDeg, j)'
    BY <2>1 DEF PerClassIs
  <2>3. \A j : perClassOf(perDeg, j)' = perClassOf(perDeg', j)
    BY DEF perClassOf, first, Total, MapThenSumSet, MapThenFoldSet
  <2> QED BY <2>2, <2>3
<1>4. Close' <=> CloseIn(load', Part, Max(Degrees))
  BY DEF Close, CloseIn
<1>5. ASSUME class' = class
      PROVE  CanCatchUp' <=> CatchUpIn(load', Part, degreePerN(class) * (same(class) - k'))
  <2>1. \A p : above(p)' = aboveOf(load', Part, p)
    BY DEF above, aboveOf
  <2>2. \A p : upTo(above(p), G.part)' = Total(above(p)', Part)
    BY DEF upTo, first, Part, Total, MapThenSumSet, MapThenFoldSet
  <2>3. (degreePerN(class) * (same(class) - k))' = degreePerN(class) * (same(class) - k')
    BY <1>5
  <2> QED BY <2>1, <2>2, <2>3 DEF CanCatchUp, CatchUpIn
<1>6. upTo(ver_size, G.part)' = first(ver_size', G.part)
  BY DEF upTo, first, Total, MapThenSumSet, MapThenFoldSet
<1> QED BY <1>1, <1>2, <1>3, <1>4, <1>5, <1>6

\* One size grows.
OneMore(f, h, n, a, b) ==
  /\ a \in 0 .. n - 1 /\ b \in Nat /\ IsSizes(f, n)
  /\ \A x \in 0 .. n - 1 : h[x] = f[x] + IF x = a THEN b ELSE 0

\* So does the sum.
LEMMA FirstGrows ==
  \A f, h, n, a, b :
    OneMore(f, h, n, a, b) => IsSizes(h, n) /\ first(h, n) = first(f, n) + b
<1> SUFFICES ASSUME NEW f, NEW h, NEW n, NEW a, NEW b, OneMore(f, h, n, a, b)
             PROVE  IsSizes(h, n) /\ first(h, n) = first(f, n) + b
  OBVIOUS
<1> DEFINE S == 0 .. n - 1
<1>0. /\ a \in S /\ b \in Nat /\ IsSizes(f, n)
      /\ \A x \in S : h[x] = f[x] + IF x = a THEN b ELSE 0
  BY DEF OneMore
<1>1. n \in Nat /\ (\A x \in S : f[x] \in Nat) /\ (\A x \in S : h[x] \in Nat)
  BY <1>0 DEF IsSizes
<1>2. IsFiniteSet(S)
  <2>1. 0 \in Int /\ n - 1 \in Int
    BY <1>1
  <2> QED BY <2>1, Intervals, Zenon
<1>3. h[a] = f[a] + b /\ a \in S /\ \A x \in S \ {a} : h[x] = f[x]
  BY <1>0, <1>1
<1> HIDE DEF S
<1>4. IsSummable(f, S) /\ IsSummable(h, S)
  BY <1>1, <1>2 DEF IsSummable
<1>5. Total(h, S) = Total(f, S) + (h[a] - f[a])
  BY <1>3, <1>4, TotalChange
<1>6. Total(f, S) \in Int
  BY <1>4, TotalIsInt
<1>7. Total(h, S) = Total(f, S) + b
  BY <1>0, <1>1, <1>3, <1>5, <1>6
<1> QED BY <1>1, <1>7 DEF IsSizes, first, S

\* Equal sizes.
AllSame(f, h, n) == IsSizes(f, n) /\ \A x \in 0 .. n - 1 : h[x] = f[x]

\* They have the same sum.
LEMMA FirstSame ==
  \A f, h, n : AllSame(f, h, n) => IsSizes(h, n) /\ first(h, n) = first(f, n)
<1> SUFFICES ASSUME NEW f, NEW h, NEW n, AllSame(f, h, n)
             PROVE  IsSizes(h, n) /\ first(h, n) = first(f, n)
  OBVIOUS
<1> DEFINE S == 0 .. n - 1
<1>1. n \in Nat /\ (\A x \in S : f[x] \in Nat) /\ \A x \in S : h[x] = f[x]
  BY DEF IsSizes, AllSame
<1>2. IsFiniteSet(S)
  <2>1. 0 \in Int /\ n - 1 \in Int
    BY <1>1
  <2> QED BY <2>1, Intervals, Zenon
<1>3. IsSummable(f, S)
  BY <1>1, <1>2 DEF IsSummable
<1>4. Total(h, S) = Total(f, S)
  <2> HIDE DEF S
  <2> QED BY <1>1, <1>3, TotalSame
<1> QED BY <1>1, <1>4 DEF IsSizes, first

\* Sizes that add to others.
AllMore(f, h, w, n) ==
  IsSizes(f, n) /\ IsSizes(w, n) /\ \A x \in 0 .. n - 1 : h[x] = f[x] + w[x]

\* Their sums add up.
LEMMA FirstPlus ==
  \A f, h, w, n :
    AllMore(f, h, w, n) => IsSizes(h, n) /\ first(h, n) = first(f, n) + first(w, n)
<1> SUFFICES ASSUME NEW f, NEW h, NEW w, NEW n, AllMore(f, h, w, n)
             PROVE  IsSizes(h, n) /\ first(h, n) = first(f, n) + first(w, n)
  OBVIOUS
<1> DEFINE S == 0 .. n - 1
<1>1. n \in Nat /\ \A x \in S : f[x] \in Nat /\ w[x] \in Nat /\ h[x] = f[x] + w[x]
  BY DEF IsSizes, AllMore
<1>2. IsFiniteSet(S)
  <2>1. 0 \in Int /\ n - 1 \in Int
    BY <1>1
  <2> QED BY <2>1, Intervals, Zenon
<1>3. IsSummable(f, S) /\ IsSummable(w, S)
  BY <1>1, <1>2 DEF IsSummable
<1>4. Total(h, S) = Total(f, S) + Total(w, S)
  <2> HIDE DEF S
  <2> QED BY <1>1, <1>3, TotalPlus
<1>5. \A x \in S : h[x] \in Nat
  BY <1>1
<1> QED BY <1>1, <1>4, <1>5 DEF IsSizes, first

TableType(D) == D \in [Part -> [ClassSet -> Nat]]

\* What a table is summed up to.
LEMMA TableFacts ==
  \A D : RawType(G) /\ TableType(D) =>
    /\ \A p \in Part : IsSizes(D[p], classes) /\ IsSizes(edgesOf(D, p), classes)
    /\ \A j \in ClassSet : IsSizes([p \in Part |-> D[p][j]], G.part)
<1> SUFFICES ASSUME NEW D, RawType(G), TableType(D)
             PROVE
    /\ \A p \in Part : IsSizes(D[p], classes) /\ IsSizes(edgesOf(D, p), classes)
    /\ \A j \in ClassSet : IsSizes([p \in Part |-> D[p][j]], G.part)
  OBVIOUS
<1>1. classes \in Nat /\ G.part \in Nat /\ Part = 0 .. G.part - 1
  BY RawFacts, ClassesAreRanks DEF ClassFacts, Part
<1>2. \A j \in ClassSet : degreePerN(j) \in Nat
  BY ClassesAreRanks DEF ClassFacts, ClassSet
<1>3. \A p \in Part : \A j \in ClassSet : D[p][j] \in Nat
  BY DEF TableType
<1>4. \A p \in Part : \A j \in ClassSet : D[p][j] * degreePerN(j) \in Nat
  BY <1>2, <1>3
<1> QED BY <1>1, <1>3, <1>4 DEF IsSizes, edgesOf, ClassSet

\* In one class each partition is given some more.
TableMore(D, H, w, c) ==
  /\ c \in ClassSet /\ TableType(D) /\ TableType(H) /\ w \in [Part -> Nat]
  /\ \A q \in Part : \A j \in ClassSet : H[q][j] = D[q][j] + IF j = c THEN w[q] ELSE 0

\* What is added to a class is added to the sums of the partitions and to that of the class.
LEMMA TableGrows ==
  \A D, H, w, c : RawType(G) /\ TableMore(D, H, w, c) =>
    /\ \A q \in Part : first(H[q], classes) = first(D[q], classes) + w[q]
    /\ \A q \in Part : first(edgesOf(H, q), classes) = first(edgesOf(D, q), classes) + w[q] * degreePerN(c)
    /\ \A j \in ClassSet : j # c => perClassOf(H, j) = perClassOf(D, j)
    /\ perClassOf(H, c) = perClassOf(D, c) + first(w, G.part)
<1> SUFFICES ASSUME NEW D, NEW H, NEW w, NEW c, RawType(G), TableMore(D, H, w, c)
             PROVE
    /\ \A q \in Part : first(H[q], classes) = first(D[q], classes) + w[q]
    /\ \A q \in Part : first(edgesOf(H, q), classes) = first(edgesOf(D, q), classes) + w[q] * degreePerN(c)
    /\ \A j \in ClassSet : j # c => perClassOf(H, j) = perClassOf(D, j)
    /\ perClassOf(H, c) = perClassOf(D, c) + first(w, G.part)
  OBVIOUS
<1> c \in ClassSet /\ TableType(D) /\ TableType(H) /\ w \in [Part -> Nat]
  BY DEF TableMore
<1> \A q \in Part : \A j \in ClassSet : H[q][j] = D[q][j] + IF j = c THEN w[q] ELSE 0
  BY DEF TableMore
<1>1. /\ \A p \in Part : IsSizes(D[p], classes) /\ IsSizes(edgesOf(D, p), classes)
      /\ \A j \in ClassSet : IsSizes([p \in Part |-> D[p][j]], G.part)
  BY TableFacts
<1>2. c \in 0 .. classes - 1 /\ ClassSet = 0 .. classes - 1 /\ Part = 0 .. G.part - 1
  BY DEF ClassSet, Part
<1>3. ASSUME NEW q \in Part PROVE first(H[q], classes) = first(D[q], classes) + w[q]
  <2>1. OneMore(D[q], H[q], classes, c, w[q])
    BY <1>1, <1>2 DEF OneMore
  <2> QED BY <2>1, FirstGrows
<1>4. ASSUME NEW q \in Part
      PROVE  first(edgesOf(H, q), classes) = first(edgesOf(D, q), classes) + w[q] * degreePerN(c)
  <2> DEFINE f == edgesOf(D, q)
             h == edgesOf(H, q)
             b == w[q] * degreePerN(c)
  <2>1. \A j \in ClassSet : degreePerN(j) \in Nat
    BY ClassesAreRanks DEF ClassFacts, ClassSet
  <2>2. b \in Nat /\ w[q] \in Nat
    BY <2>1
  <2>3. \A j \in ClassSet : h[j] = f[j] + IF j = c THEN b ELSE 0
    <3> SUFFICES ASSUME NEW j \in ClassSet PROVE h[j] = f[j] + IF j = c THEN b ELSE 0
      OBVIOUS
    <3>1. h[j] = H[q][j] * degreePerN(j) /\ f[j] = D[q][j] * degreePerN(j)
      BY DEF edgesOf
    <3>2. D[q][j] \in Nat /\ degreePerN(j) \in Nat
      BY <2>1 DEF TableType
    <3>3. CASE j = c
      <4>1. H[q][j] = D[q][j] + w[q]
        BY <3>3
      <4>2. (D[q][j] + w[q]) * degreePerN(j) = D[q][j] * degreePerN(j) + w[q] * degreePerN(j)
        BY <2>2, <3>2
      <4> QED BY <3>1, <3>3, <4>1, <4>2
    <3>4. CASE j # c
      <4>1. H[q][j] = D[q][j]
        BY <3>2, <3>4
      <4>2. D[q][j] * degreePerN(j) \in Nat
        BY <3>2
      <4> QED BY <3>1, <3>4, <4>1, <4>2
    <3> QED BY <3>3, <3>4
  <2>4. IsSizes(f, classes)
    BY <1>1
  <2> HIDE DEF f, h, b
  <2>5. first(h, classes) = first(f, classes) + b
    <3>1. OneMore(f, h, classes, c, b)
      BY <1>2, <2>2, <2>3, <2>4 DEF OneMore
    <3> QED BY <3>1, FirstGrows
  <2> QED BY <2>5 DEF f, h, b
<1>5. ASSUME NEW j \in ClassSet, j # c PROVE perClassOf(H, j) = perClassOf(D, j)
  <2> DEFINE f == [p \in Part |-> D[p][j]]
             h == [p \in Part |-> H[p][j]]
  <2>1. \A p \in Part : D[p][j] \in Nat
    BY DEF TableType
  <2>2. \A p \in Part : h[p] = f[p]
    BY <1>5, <2>1
  <2>3. IsSizes(f, G.part)
    BY <1>1
  <2> HIDE DEF f, h
  <2>4. first(h, G.part) = first(f, G.part)
    <3>1. AllSame(f, h, G.part)
      BY <1>2, <2>2, <2>3 DEF AllSame
    <3> QED BY <3>1, FirstSame
  <2> QED BY <2>4 DEF f, h, perClassOf
<1>6. perClassOf(H, c) = perClassOf(D, c) + first(w, G.part)
  <2> DEFINE f == [p \in Part |-> D[p][c]]
             h == [p \in Part |-> H[p][c]]
  <2>1. \A p \in Part : h[p] = f[p] + w[p]
    OBVIOUS
  <2>2. IsSizes(f, G.part)
    BY <1>1
  <2>3. IsSizes(w, G.part)
    BY <1>2, RawFacts DEF IsSizes
  <2> HIDE DEF f, h
  <2>4. first(h, G.part) = first(f, G.part) + first(w, G.part)
    <3>1. AllMore(f, h, w, G.part)
      BY <1>2, <2>1, <2>2, <2>3 DEF AllMore
    <3> QED BY <3>1, FirstPlus
  <2> QED BY <2>4 DEF f, h, perClassOf
<1> QED BY <1>3, <1>4, <1>5, <1>6

\* Partitions and classes hold as many vertices.
LEMMA TableAddsUp ==
  \A D, V : RawType(G) /\ TableType(D) /\ SizesOf(D, V) =>
    /\ IsSizes(V, G.part)
    /\ IsSizes([j \in ClassSet |-> perClassOf(D, j)], classes)
    /\ first(V, G.part) = first([j \in ClassSet |-> perClassOf(D, j)], classes)
<1> SUFFICES ASSUME NEW D, NEW V, RawType(G), TableType(D), SizesOf(D, V)
             PROVE
    /\ IsSizes(V, G.part)
    /\ IsSizes([j \in ClassSet |-> perClassOf(D, j)], classes)
    /\ first(V, G.part) = first([j \in ClassSet |-> perClassOf(D, j)], classes)
  OBVIOUS
<1> DEFINE t == [j \in ClassSet |-> [p \in Part |-> D[p][j]]]
           cols == [j \in ClassSet |-> perClassOf(D, j)]
<1>1. /\ \A p \in Part : IsSizes(D[p], classes)
      /\ \A j \in ClassSet : IsSizes(t[j], G.part)
  BY TableFacts
<1>2. ClassSet = 0 .. classes - 1 /\ Part = 0 .. G.part - 1 /\ classes \in Nat /\ G.part \in Nat
  BY RawFacts, ClassesAreRanks DEF ClassSet, Part, ClassFacts
<1>3. \A f, n : IsSizes(f, n) => first(f, n) \in Nat
  <2> SUFFICES ASSUME NEW f, NEW n, IsSizes(f, n) PROVE first(f, n) \in Nat
    OBVIOUS
  <2>1. n \in 0 .. n /\ FirstFacts(f, n)
    BY Firsts DEF IsSizes
  <2> QED BY <2>1 DEF FirstFacts
<1>4. IsSizes(V, G.part)
  BY <1>1, <1>2, <1>3 DEF SizesOf, IsSizes
<1>5. \A j \in ClassSet : cols[j] = first(t[j], G.part)
  BY DEF perClassOf
<1>6. IsSizes(cols, classes)
  <2>1. \A j \in ClassSet : cols[j] \in Nat
    <3> SUFFICES ASSUME NEW j \in ClassSet PROVE cols[j] \in Nat
      OBVIOUS
    <3>1. IsSizes(t[j], G.part)
      BY <1>1
    <3> QED BY <1>3, <1>5, <3>1
  <2> HIDE DEF cols
  <2> QED BY <1>2, <2>1 DEF IsSizes
<1>7. IsFiniteSet(Part) /\ IsFiniteSet(ClassSet)
  <2>1. 0 \in Int /\ classes - 1 \in Int
    BY <1>2
  <2>2. IsFiniteSet(ClassSet)
    BY <1>2, <2>1, Intervals, Zenon
  <2> QED BY <2>2, RawFacts
<1>8. \A p \in Part : \A j \in ClassSet : D[p][j] \in Int /\ t[j][p] = D[p][j]
  BY DEF TableType
<1>9. \A p \in Part : V[p] = Total(D[p], ClassSet)
  BY <1>2 DEF SizesOf, first
<1>10. \A j \in ClassSet : cols[j] = Total(t[j], Part)
  BY <1>2, <1>5 DEF first
<1> HIDE DEF t, cols
<1>11. Total(V, Part) = Total(cols, ClassSet)
  <2>1. DoubleSum(Part, ClassSet, D, t, V, cols)
    BY <1>7, <1>8, <1>9, <1>10 DEF DoubleSum
  <2> QED BY <2>1, TotalExchange
<1> QED BY <1>2, <1>4, <1>6, <1>11 DEF first, cols

-----------------------------------------------------------------------------
(***************************************************************************)
(* A step of the placement gives partitions more vertices of one class.    *)
(***************************************************************************)
\* w[p] vertices of class c are placed on p.
Grows(w, c) ==
  /\ G' = G /\ c \in ClassSet /\ w \in [Part -> Nat]
  /\ TableType(perDeg')
  /\ \A q \in Part : \A j \in ClassSet : perDeg'[q][j] = perDeg[q][j] + IF j = c THEN w[q] ELSE 0
  /\ \A q \in Part : ver_size'[q] = ver_size[q] + w[q]

LoadsGrow(w, c) == \A q \in Part : load'[q] = load[q] + w[q] * degreePerN(c)

\* The sums remain right.
LEMMA PlacesGrow ==
  \A w, c : PlacementType /\ SizesAgree /\ LoadsAgree /\ Grows(w, c) =>
    /\ SizesAgree' /\ (LoadsGrow(w, c) => LoadsAgree')
    /\ \A j \in ClassSet : perClass(j)' = perClass(j) + IF j = c THEN first(w, G.part) ELSE 0
    /\ first(w, G.part) \in Nat
    /\ \A j \in ClassSet : perClass(j) \in Nat
<1> SUFFICES ASSUME NEW w, NEW c, PlacementType, SizesAgree, LoadsAgree, Grows(w, c)
             PROVE
    /\ SizesAgree' /\ (LoadsGrow(w, c) => LoadsAgree')
    /\ \A j \in ClassSet : perClass(j)' = perClass(j) + IF j = c THEN first(w, G.part) ELSE 0
    /\ first(w, G.part) \in Nat
    /\ \A j \in ClassSet : perClass(j) \in Nat
  OBVIOUS
<1>0. /\ G' = G /\ c \in ClassSet /\ w \in [Part -> Nat]
      /\ TableType(perDeg')
      /\ \A q \in Part : \A j \in ClassSet : perDeg'[q][j] = perDeg[q][j] + IF j = c THEN w[q] ELSE 0
      /\ \A q \in Part : ver_size'[q] = ver_size[q] + w[q]
  BY DEF Grows
<1>1. RawType(G) /\ TableType(perDeg)
  BY DEF PlacementType, TableType, ClassSet
<1>2. SizesOf(perDeg, ver_size) /\ LoadsOf(perDeg, load)
  BY ArraysNow
<1>3. TableMore(perDeg, perDeg', w, c)
  BY <1>0, <1>1 DEF TableMore
<1>4. /\ \A q \in Part : first(perDeg'[q], classes) = first(perDeg[q], classes) + w[q]
      /\ \A q \in Part : first(edgesOf(perDeg', q), classes)
                           = first(edgesOf(perDeg, q), classes) + w[q] * degreePerN(c)
      /\ \A j \in ClassSet : j # c => perClassOf(perDeg', j) = perClassOf(perDeg, j)
      /\ perClassOf(perDeg', c) = perClassOf(perDeg, c) + first(w, G.part)
  BY <1>1, <1>3, TableGrows
<1>5. SizesOf(perDeg', ver_size')
  BY <1>0, <1>2, <1>4 DEF SizesOf
<1>6. LoadsGrow(w, c) => LoadsOf(perDeg', load')
  BY <1>0, <1>2, <1>4 DEF LoadsOf, LoadsGrow
<1>7. SizesAgree' /\ (LoadsGrow(w, c) => LoadsAgree')
  BY <1>0, <1>5, <1>6, ArraysThen
<1>8. \A f, n : IsSizes(f, n) => first(f, n) \in Nat
  <2> SUFFICES ASSUME NEW f, NEW n, IsSizes(f, n) PROVE first(f, n) \in Nat
    OBVIOUS
  <2>1. n \in 0 .. n /\ FirstFacts(f, n)
    BY Firsts DEF IsSizes
  <2> QED BY <2>1 DEF FirstFacts
<1>9. first(w, G.part) \in Nat
  <2>1. IsSizes(w, G.part)
    BY <1>0, <1>1, RawFacts DEF IsSizes, Part
  <2> QED BY <1>8, <2>1
<1>10. \A j \in ClassSet : perClass(j) \in Nat
  <2> SUFFICES ASSUME NEW j \in ClassSet PROVE perClass(j) \in Nat
    OBVIOUS
  <2>1. IsSizes([p \in Part |-> perDeg[p][j]], G.part)
    BY <1>1, TableFacts
  <2>2. perClass(j) = perClassOf(perDeg, j)
    BY ArraysNow
  <2> QED BY <1>8, <2>1, <2>2 DEF perClassOf
<1>11. ASSUME NEW j \in ClassSet
       PROVE  perClass(j)' = perClass(j) + IF j = c THEN first(w, G.part) ELSE 0
  <2>1. perClass(j) = perClassOf(perDeg, j) /\ perClass(j)' = perClassOf(perDeg', j)
    BY <1>0, ArraysNow, ArraysThen
  <2> QED BY <1>4, <1>10, <2>1
<1> QED BY <1>7, <1>9, <1>10, <1>11

\* b vertices for p only.
oneOf(p, b) == [q \in Part |-> IF q = p THEN b ELSE 0]

\* It adds up to b.
LEMMA OneAddsUp ==
  \A p \in Part : \A b \in Nat :
    RawType(G) => oneOf(p, b) \in [Part -> Nat] /\ first(oneOf(p, b), G.part) = b
<1> SUFFICES ASSUME NEW p \in Part, NEW b \in Nat, RawType(G)
             PROVE  oneOf(p, b) \in [Part -> Nat] /\ first(oneOf(p, b), G.part) = b
  OBVIOUS
<1>1. IsFiniteSet(Part)
  BY RawFacts
<1>2. oneOf(p, b) \in [Part -> Nat] /\ oneOf(p, b)[p] = b /\ \A q \in Part \ {p} : oneOf(p, b)[q] = 0
  BY DEF oneOf
<1>3. IsSummable(oneOf(p, b), Part)
  BY <1>1, <1>2 DEF IsSummable
<1>4. Total(oneOf(p, b), Part) = b
  BY <1>2, <1>3, TotalSingle
<1> QED BY <1>2, <1>4 DEF first, Part

\* The least of some sizes is there, and it is the first one.
LEMMA LeastExists ==
  \A f : RawType(G) /\ f \in [Part -> Nat] =>
    /\ least(f) \in Part
    /\ \A q \in Part : f[least(f)] < f[q] \/ (f[least(f)] = f[q] /\ least(f) <= q)
<1> SUFFICES ASSUME NEW f, RawType(G), f \in [Part -> Nat]
             PROVE
    /\ least(f) \in Part
    /\ \A q \in Part : f[least(f)] < f[q] \/ (f[least(f)] = f[q] /\ least(f) <= q)
  OBVIOUS
<1> DEFINE R == {e \in Part \X Part : f[e[1]] > f[e[2]] \/ (f[e[1]] = f[e[2]] /\ e[1] > e[2])}
<1>1. IsFiniteSet(Part) /\ Part # {} /\ Part \subseteq Nat
  BY RawFacts DEF Part
<1>2. \A p, q \in Part : <<p, q>> \in R <=> f[p] > f[q] \/ (f[p] = f[q] /\ p > q)
  OBVIOUS
<1>3. Orders(R, Part)
  <2> HIDE DEF R
  <2>1. \A p \in Part : f[p] \in Nat /\ p \in Nat
    BY <1>1
  <2> QED BY <1>2, <2>1 DEF Orders
<1>4. PICK p \in Part : \A q \in Part \ {p} : <<q, p>> \in R
  <2> HIDE DEF R
  <2>1. IsFiniteSet(Part) /\ Orders(R, Part) /\ Part # {}
    BY <1>1, <1>3
  <2>2. \A S : IsFiniteSet(S) /\ Orders(R, S) /\ S # {} => \E x \in S : \A y \in S \ {x} : <<y, x>> \in R
    BY LastExists
  <2> QED BY <2>1, <2>2
<1>5. \A q \in Part : f[p] < f[q] \/ (f[p] = f[q] /\ p <= q)
  <2> SUFFICES ASSUME NEW q \in Part PROVE f[p] < f[q] \/ (f[p] = f[q] /\ p <= q)
    OBVIOUS
  <2>1. f[p] \in Nat /\ f[q] \in Nat /\ p \in Nat /\ q \in Nat
    BY <1>1, <1>4
  <2>2. q # p => f[q] > f[p] \/ (f[q] = f[p] /\ q > p)
    <3> HIDE DEF R
    <3> QED BY <1>2, <1>4
  <2> QED BY <2>1, <2>2
<1>6. \E x \in Part : \A q \in Part : f[x] < f[q] \/ (f[x] = f[q] /\ x <= q)
  BY <1>4, <1>5
<1> QED BY <1>6 DEF least

-----------------------------------------------------------------------------
(***************************************************************************)
(* Phase 1.                                                                *)
(***************************************************************************)
\* A class without places has none on any partition.
LEMMA NoneOfClass ==
  \A D, j : RawType(G) /\ TableType(D) /\ j \in ClassSet /\ perClassOf(D, j) = 0 =>
    \A p \in Part : D[p][j] = 0
<1> SUFFICES ASSUME NEW D, NEW j, RawType(G), TableType(D), j \in ClassSet, perClassOf(D, j) = 0,
                    NEW p \in Part
             PROVE  D[p][j] = 0
  OBVIOUS
<1> DEFINE f == [q \in Part |-> D[q][j]]
<1>1. IsFiniteSet(Part) /\ \A q \in Part : f[q] \in Nat
  BY RawFacts DEF TableType
<1>2. f[p] = D[p][j]
  OBVIOUS
<1>3. Total(f, Part) = 0
  BY DEF perClassOf, first, Part
<1> HIDE DEF f
<1> QED BY <1>1, <1>2, <1>3, TotalNat

\* Partitions without places are empty.
LEMMA NoneAtAll ==
  \A D, V : RawType(G) /\ TableType(D) /\ SizesOf(D, V) /\ (\A j \in ClassSet : perClassOf(D, j) = 0) =>
    \A p \in Part : V[p] = 0
<1> SUFFICES ASSUME NEW D, NEW V, RawType(G), TableType(D), SizesOf(D, V),
                    \A j \in ClassSet : perClassOf(D, j) = 0, NEW p \in Part
             PROVE  V[p] = 0
  OBVIOUS
<1> DEFINE f == D[p]
<1>1. \A j \in ClassSet : f[j] = 0
  BY NoneOfClass
<1>2. IsFiniteSet(ClassSet)
  <2>1. 0 \in Int /\ classes - 1 \in Int
    BY ClassesAreRanks DEF ClassFacts
  <2> QED BY <2>1, Intervals, Zenon DEF ClassSet
<1>3. V[p] = Total(f, ClassSet)
  BY DEF SizesOf, first, ClassSet
<1> HIDE DEF f
<1>4. Total(f, ClassSet) = 0
  BY <1>1, <1>2, TotalNat
<1> QED BY <1>3, <1>4

\* What a turn of phase 1 does.
LEMMA AssignFacts ==
  ASSUME PlacementInv, Assign
  PROVE  \E d \in Nat, b \in Nat, p \in Part :
           /\ d = degreePerN(class) /\ d <= Max(Degrees) /\ class \in ClassSet
           /\ b # 0 /\ k + b <= same(class) /\ k \in Nat /\ same(class) \in Nat
           /\ d * (same(class) - (k + b)) = d * (same(class) - k) - d * b
           /\ b # 1 => (G.part - 1) * (d * b) <= d * (same(class) - k) - d * b
           /\ \A q \in Part : load[p] < load[q] \/ (load[p] = load[q] /\ p <= q)
           /\ Grows(oneOf(p, b), class) /\ LoadsGrow(oneOf(p, b), class)
           /\ first(oneOf(p, b), G.part) = b
           /\ \A q \in Part : load'[q] = IF q = p THEN load[p] + d * b ELSE load[q]
           /\ \A q \in Part : ver_size'[q] = IF q = p THEN ver_size[p] + b ELSE ver_size[q]
           /\ load' \in [Part -> Nat] /\ ver_size' \in [Part -> Nat]
           /\ k' = k + b
<1> DEFINE d == degreePerN(class)
           b == batch(d)
           p == least(load)
           R == same(class) - k
<1>1. stage = "assign" /\ class < classes /\ k < same(class) /\ G' = G
      /\ load' = [load EXCEPT ![p] = @ + d * b]
      /\ perDeg' = [perDeg EXCEPT ![p][degreeN(d)] = @ + b]
      /\ ver_size' = [ver_size EXCEPT ![p] = @ + b]
      /\ k' = k + b
  BY DEF Assign
<1>2. PlacementType /\ RawType(G) /\ TableType(perDeg) /\ load \in [Part -> Nat]
      /\ ver_size \in [Part -> Nat] /\ class \in 0 .. classes /\ k \in Nat
  BY <1>1 DEF PlacementInv, Placing, PlacementType, TableType, ClassSet
<1>3. class \in ClassSet /\ d \in Nat /\ degreeN(d) = class /\ d \in Degrees
  <2>1. class \in 0 .. classes - 1
    BY <1>1, <1>2, ClassesAreRanks DEF ClassFacts
  <2> QED BY <1>2, <2>1, ClassesAreRanks DEF ClassFacts, ClassSet
<1>4. d <= Max(Degrees)
  BY <1>2, <1>3, LargestDegree
<1>5. same(class) \in Nat /\ R \in Nat /\ R # 0
  <2>1. same(class) \in Nat
    BY <1>2, <1>3, SameAndZero DEF ClassSet
  <2> QED BY <1>1, <1>2, <2>1
<1>6. b = 1 \/ (b = R \div G.part /\ b > 1)
  BY DEF batch
<1>7. G.part \in Nat /\ G.part # 0
  BY <1>2, RawFacts
<1>8. b \in Nat /\ b # 0
  <2>1. R \div G.part \in Nat
    BY <1>5, <1>7, Quotient
  <2> QED BY <1>6, <2>1
<1>9. p \in Part /\ \A q \in Part : load[p] < load[q] \/ (load[p] = load[q] /\ p <= q)
  BY <1>2, LeastExists
<1> HIDE DEF d, b, p
<1>10. /\ b <= R
       /\ d * (R - b) = d * R - d * b
       /\ b # 1 => (G.part - 1) * (d * b) <= d * R - d * b
  <2> HIDE DEF R
  <2> QED BY <1>3, <1>5, <1>6, <1>7, <1>8, BatchFits
<1>11. k + b <= same(class) /\ R - b = same(class) - (k + b)
  BY <1>2, <1>5, <1>8, <1>10
<1>12. oneOf(p, b) \in [Part -> Nat] /\ first(oneOf(p, b), G.part) = b
       /\ \A q \in Part : oneOf(p, b)[q] = IF q = p THEN b ELSE 0
  <2>1. \A q \in Part : oneOf(p, b)[q] = IF q = p THEN b ELSE 0
    BY DEF oneOf
  <2> QED BY <1>2, <1>8, <1>9, <2>1, OneAddsUp
<1>13. d * b \in Nat
  BY <1>3, <1>8
<1>14. /\ \A q \in Part : load'[q] = IF q = p THEN load[p] + d * b ELSE load[q]
       /\ load' \in [Part -> Nat]
  BY <1>1, <1>2, <1>9, <1>13
<1>15. /\ \A q \in Part : ver_size'[q] = IF q = p THEN ver_size[p] + b ELSE ver_size[q]
       /\ ver_size' \in [Part -> Nat]
  BY <1>1, <1>2, <1>8, <1>9
<1>16. TableType(perDeg')
  BY <1>1, <1>2, <1>3, <1>8, <1>9 DEF TableType
<1>17. \A q \in Part : \A j \in ClassSet :
         perDeg'[q][j] = perDeg[q][j] + IF j = class THEN oneOf(p, b)[q] ELSE 0
  <2> SUFFICES ASSUME NEW q \in Part, NEW j \in ClassSet
               PROVE  perDeg'[q][j] = perDeg[q][j] + IF j = class THEN oneOf(p, b)[q] ELSE 0
    OBVIOUS
  <2>1. perDeg[q] \in [ClassSet -> Nat] /\ perDeg[q][j] \in Nat
    BY <1>2 DEF TableType
  <2>2. oneOf(p, b)[q] = IF q = p THEN b ELSE 0
    BY <1>12
  <2>3. perDeg'[q][j] = IF q = p /\ j = class THEN perDeg[q][j] + b ELSE perDeg[q][j]
    BY <1>1, <1>2, <1>3, <1>9, <2>1 DEF TableType
  <2> QED BY <1>8, <2>1, <2>2, <2>3
<1>18. \A q \in Part : ver_size'[q] = ver_size[q] + oneOf(p, b)[q]
  BY <1>2, <1>8, <1>12, <1>15
<1>19. \A q \in Part : load'[q] = load[q] + oneOf(p, b)[q] * degreePerN(class)
  <2> SUFFICES ASSUME NEW q \in Part PROVE load'[q] = load[q] + oneOf(p, b)[q] * d
    BY DEF d
  <2>1. load[q] \in Nat /\ oneOf(p, b)[q] = IF q = p THEN b ELSE 0
    BY <1>2, <1>12
  <2>2. b * d = d * b /\ 0 * d = 0
    BY <1>3, <1>8
  <2> QED BY <1>14, <2>1, <2>2
<1>20. Grows(oneOf(p, b), class) /\ LoadsGrow(oneOf(p, b), class)
  BY <1>1, <1>3, <1>12, <1>16, <1>17, <1>18, <1>19 DEF Grows, LoadsGrow
<1>21. /\ d * (same(class) - (k + b)) = d * R - d * b
  BY <1>10, <1>11
<1>22. d = degreePerN(class)
  BY DEF d
<1> QED BY <1>1, <1>2, <1>3, <1>4, <1>5, <1>8, <1>9, <1>10, <1>11, <1>12, <1>14, <1>15, <1>20, <1>21, <1>22

\* A turn of phase 1 keeps the invariant.
LEMMA AssignStep == PlacementInv /\ Assign => PlacementInv'
<1> SUFFICES ASSUME PlacementInv, Assign PROVE PlacementInv'
  OBVIOUS
<1>1. PICK d \in Nat, b \in Nat, p \in Part :
           /\ d = degreePerN(class) /\ d <= Max(Degrees) /\ class \in ClassSet
           /\ b # 0 /\ k + b <= same(class) /\ k \in Nat /\ same(class) \in Nat
           /\ d * (same(class) - (k + b)) = d * (same(class) - k) - d * b
           /\ b # 1 => (G.part - 1) * (d * b) <= d * (same(class) - k) - d * b
           /\ \A q \in Part : load[p] < load[q] \/ (load[p] = load[q] /\ p <= q)
           /\ Grows(oneOf(p, b), class) /\ LoadsGrow(oneOf(p, b), class)
           /\ first(oneOf(p, b), G.part) = b
           /\ \A q \in Part : load'[q] = IF q = p THEN load[p] + d * b ELSE load[q]
           /\ \A q \in Part : ver_size'[q] = IF q = p THEN ver_size[p] + b ELSE ver_size[q]
           /\ load' \in [Part -> Nat] /\ ver_size' \in [Part -> Nat]
           /\ k' = k + b
  BY AssignFacts
<1>2. stage = "assign" /\ class < classes /\ k < same(class) /\ G' = G /\ class' = class
      /\ stage' = "assign"
  BY DEF Assign
<1>3. /\ PlacementType /\ SizesAgree /\ FirstComeFirst /\ Assigning
      /\ RawType(G) /\ TableType(perDeg) /\ load \in [Part -> Nat]
      /\ ver_size \in [Part -> Nat] /\ class \in 0 .. classes
  BY <1>2 DEF PlacementInv, Placing, PlacementType, TableType, ClassSet
<1>4. LoadsAgree /\ ZerosEven /\ (Close \/ CanCatchUp)
      /\ \A j \in ClassSet :
           perClass(j) = IF j < class THEN same(j) ELSE IF j = class THEN k ELSE 0
  BY <1>3 DEF Assigning, ClassSet
<1>5. /\ SizesAgree' /\ LoadsAgree'
      /\ \A j \in ClassSet : perClass(j)' = perClass(j) + IF j = class THEN b ELSE 0
  BY <1>1, <1>3, <1>4, PlacesGrow
<1>6. Part' = Part /\ classes' = classes /\ ClassSet' = ClassSet /\ Degrees' = Degrees
      /\ Max(Degrees)' = Max(Degrees) /\ RawType(G)' /\ degreeN(0)' = degreeN(0)
      /\ \A j : same(j)' = same(j)
  BY <1>2, <1>3, SameGraph DEF RawType
<1>7. classes \in Nat /\ \A j \in ClassSet : same(j) \in Nat /\ j \in Nat
  BY <1>3, ClassesAreRanks, SameAndZero DEF ClassFacts, ClassSet
<1>8. PlacementType'
  <2>1. TableType(perDeg')
    BY <1>1 DEF Grows
  <2>2. k' \in Nat
    BY <1>1
  <2> QED BY <1>1, <1>2, <1>3, <1>6, <2>1, <2>2 DEF PlacementType, TableType, ClassSet
<1>9. same(class)' = same(class) /\ same(class) \in Nat
  <2>1. same(class)' = same(class)
    BY <1>2, <1>6 DEF same, degreePerN, Old, deg, inDegreeOf
  <2> QED BY <1>1, <2>1
<1>10. \A j \in 0 .. classes' - 1 :
         perClass(j)' = IF j < class' THEN same(j)' ELSE IF j = class' THEN k' ELSE 0
  <2> SUFFICES ASSUME NEW j \in ClassSet
               PROVE  perClass(j)' = IF j < class THEN same(j) ELSE IF j = class THEN k' ELSE 0
    BY <1>2, <1>6 DEF ClassSet
  <2>1. perClass(j) = (IF j < class THEN same(j) ELSE IF j = class THEN k ELSE 0)
        /\ perClass(j)' = perClass(j) + IF j = class THEN b ELSE 0
    BY <1>4, <1>5
  <2>2. same(j) \in Nat /\ k' = k + b /\ k \in Nat /\ j \in Nat /\ class \in Nat
    BY <1>1, <1>3, <1>7
  <2> QED BY <2>1, <2>2
<1>11. FirstComeFirst'
  <2> SUFFICES ASSUME NEW q \in Part, NEW r \in Part, q < r, load'[r] > 0 PROVE load'[q] > 0
    BY <1>6 DEF FirstComeFirst
  <2>1. load[q] \in Nat /\ load[r] \in Nat /\ load[p] \in Nat /\ d * b \in Nat
    BY <1>1, <1>3
  <2>2. load'[q] = (IF q = p THEN load[p] + d * b ELSE load[q])
        /\ load'[r] = IF r = p THEN load[p] + d * b ELSE load[r]
    BY <1>1
  <2>3. load[r] > 0 => load[q] > 0
    BY <1>3 DEF FirstComeFirst
  <2>4. r = p => load[p] < load[q] \/ load[r] > 0
    <3>1. load[p] < load[q] \/ (load[p] = load[q] /\ p <= q)
      BY <1>1
    <3>2. q \in Int /\ r \in Int
      BY <1>3, RawFacts DEF Part
    <3> QED BY <3>1, <3>2, <2>1
  <2> QED BY <2>1, <2>2, <2>3, <2>4
<1>12. ZerosEven'
  <2> SUFFICES ASSUME 0 \in Degrees, NEW q \in Part, NEW r \in Part, perDeg'[q][degreeN(0)] > 0
               PROVE  ver_size'[q] <= ver_size'[r] + 1
    BY <1>6 DEF ZerosEven
  <2>1. PICK c \in ClassSet : c = degreeN(0) /\ degreePerN(c) = 0
    BY <1>3, ClassesAreRanks DEF ClassFacts, ClassSet
  <2>2. TableType(perDeg') /\ (perClass(c)' = perClassOf(perDeg', c))
    BY <1>1, <1>2, ArraysThen DEF Grows
  <2>3. CASE d # 0
    <3>1. c > class
      <4>1. \A j, l \in 0 .. classes - 1 : j < l => degreePerN(j) > degreePerN(l)
        BY <1>3, ClassesAreRanks DEF ClassFacts
      <4>2. class \in 0 .. classes - 1 /\ c \in 0 .. classes - 1
        BY <1>1, <2>1 DEF ClassSet
      <4>3. c < class => 0 > d
        BY <1>1, <2>1, <4>1, <4>2
      <4>4. c # class
        BY <1>1, <2>1, <2>3
      <4> QED BY <1>7, <4>2, <4>3, <4>4
    <3>2. perClass(c)' = 0
      <4>1. c \in Nat /\ class \in Nat
        BY <1>1, <1>7, <2>1
      <4>2. perClass(c) = 0
        BY <1>4, <2>1, <3>1, <4>1
      <4> QED BY <1>5, <2>1, <3>1, <4>1, <4>2
    <3>3. perDeg'[q][c] = 0
      BY <1>3, <2>1, <2>2, <3>2, NoneOfClass
    <3> QED BY <2>1, <3>3
  <2>4. CASE d = 0
    <3>1. class = 0 /\ same(class) = 1
      BY <1>1, <1>2, <2>4 DEF same
    <3>2. k = 0 /\ b = 1
      <4>1. k \in Nat /\ b \in Nat /\ b # 0 /\ k + b <= 1
        BY <1>1, <3>1
      <4> QED BY <4>1
    <3>3. \A j \in ClassSet : perClassOf(perDeg, j) = 0
      <4> SUFFICES ASSUME NEW j \in ClassSet PROVE perClassOf(perDeg, j) = 0
        OBVIOUS
      <4>1. perClass(j) = (IF j < class THEN same(j) ELSE IF j = class THEN k ELSE 0) /\ j \in Nat
        BY <1>4, <1>7
      <4>2. perClass(j) = 0
        BY <3>1, <3>2, <4>1
      <4> QED BY <4>2, ArraysNow
    <3>4. ver_size[q] = 0 /\ ver_size[r] = 0 /\ ver_size[p] = 0
      <4>1. SizesOf(perDeg, ver_size)
        BY <1>3, ArraysNow
      <4> QED BY <1>3, <3>3, <4>1, NoneAtAll
    <3>5. ver_size'[q] = (IF q = p THEN ver_size[p] + b ELSE ver_size[q])
          /\ ver_size'[r] = IF r = p THEN ver_size[p] + b ELSE ver_size[r]
      BY <1>1
    <3> QED BY <3>2, <3>4, <3>5
  <2> QED BY <2>3, <2>4
<1>13. Close' \/ CanCatchUp'
  <2> DEFINE D == Max(Degrees)
             w == d * b
             E == d * (same(class) - k)
  <2>1. IsFiniteSet(Part) /\ G.part \in Nat /\ Cardinality(Part) = G.part
    BY <1>3, RawFacts
  <2>2. D \in Nat /\ w \in Nat /\ E \in Int
    <3>1. same(class) - k \in Int
      BY <1>1
    <3> QED BY <1>1, <1>3, <3>1, LargestDegree
  <2>3. \A q \in Part : load[q] \in Nat /\ load[p] <= load[q]
    BY <1>1, <1>3
  <2>4. CloseIn(load, Part, D) \/ CatchUpIn(load, Part, E)
    BY <1>1, <1>4, ArraysNow
  <2>5. w <= D \/ Cardinality(Part \ {p}) * w <= E - w
    <3>1. Cardinality(Part \ {p}) = G.part - 1
      BY <1>1, <2>1, FS_RemoveElement
    <3>2. b = 1 => w = d
      OBVIOUS
    <3>3. b # 1 => (G.part - 1) * w <= E - w
      BY <1>1
    <3> HIDE DEF w, E
    <3> QED BY <1>1, <3>1, <3>2, <3>3
  <2>6. \A q \in Part : load'[q] = IF q = p THEN load[p] + w ELSE load[q]
    BY <1>1
  <2>7. d * (same(class) - k') = E - w
    BY <1>1
  <2> HIDE DEF D, w, E
  <2>8. CloseIn(load', Part, D) \/ CatchUpIn(load', Part, E - w)
    <3>1. LeastTakes(Part, load, p, D, w, E, load')
      BY <1>1, <2>1, <2>2, <2>3, <2>5, <2>6 DEF LeastTakes
    <3> QED BY <2>4, <3>1, LeastGrows
  <2>9. /\ Close' <=> CloseIn(load', Part, D)
        /\ CanCatchUp' <=> CatchUpIn(load', Part, d * (same(class) - k'))
    BY <1>1, <1>2, ArraysThen DEF D
  <2> QED BY <2>7, <2>8, <2>9
<1>14. Assigning'
  <2>1. (k <= same(class))'
    BY <1>1, <1>2, <1>9
  <2>2. class' < classes'
    BY <1>2, <1>6
  <2> QED BY <1>5, <1>10, <1>12, <1>13, <2>1, <2>2 DEF Assigning
<1> QED BY <1>2, <1>5, <1>8, <1>11, <1>14 DEF PlacementInv

-----------------------------------------------------------------------------
(***************************************************************************)
(* The next class, and phase 2.                                            *)
(***************************************************************************)
\* When nothing is left of a class, the loads are close.
LEMMA NothingLeft ==
  RawType(G) /\ load \in [Part -> Nat] /\ CatchUpIn(load, Part, 0) => Close
<1> SUFFICES ASSUME RawType(G), load \in [Part -> Nat], CatchUpIn(load, Part, 0) PROVE Close
  OBVIOUS
<1>1. IsFiniteSet(Part) /\ Max(Degrees) \in Nat
  BY RawFacts, LargestDegree
<1> SUFFICES ASSUME NEW p \in Part, NEW q \in Part PROVE load[p] - load[q] <= Max(Degrees)
  BY DEF Close
<1>2. load[p] \in Nat /\ load[q] \in Nat
  OBVIOUS
<1> DEFINE f == aboveOf(load, Part, p)
<1>3. /\ \A x \in Part : f[x] \in Nat
      /\ f[q] = (IF load[p] > load[q] THEN load[p] - load[q] ELSE 0)
      /\ Total(f, Part) \in Nat
  BY <1>1, AboveAddsUp
<1>4. Total(f, Part) <= 0
  BY DEF CatchUpIn
<1> HIDE DEF f
<1>5. f[q] = 0
  BY <1>1, <1>3, <1>4, TotalNat
<1> QED BY <1>1, <1>2, <1>3, <1>5

\* The next class begins, or phase 2.
LEMMA NextClassStep == PlacementInv /\ NextClass => PlacementInv'
<1> SUFFICES ASSUME PlacementInv, NextClass PROVE PlacementInv'
  OBVIOUS
<1>1. /\ stage = "assign" /\ class < classes /\ k >= same(class) /\ G' = G
      /\ class' = class + 1 /\ k' = 0
      /\ stage' = IF class + 1 = classes THEN "zero" ELSE "assign"
      /\ perDeg' = perDeg /\ load' = load /\ ver_size' = ver_size
  <2>1. class' = class + 1 /\ G' = G /\ stage' = IF class' = classes THEN "zero" ELSE "assign"
    BY DEF NextClass
  <2> QED BY <2>1 DEF NextClass
<1>2. /\ PlacementType /\ SizesAgree /\ FirstComeFirst /\ Assigning
      /\ RawType(G) /\ load \in [Part -> Nat]
      /\ ver_size \in [Part -> Nat] /\ class \in 0 .. classes /\ k \in Nat
  BY <1>1 DEF PlacementInv, Placing, PlacementType
<1>3. /\ LoadsAgree /\ ZerosEven /\ (Close \/ CanCatchUp) /\ k <= same(class)
      /\ \A j \in ClassSet :
           perClass(j) = IF j < class THEN same(j) ELSE IF j = class THEN k ELSE 0
  BY <1>2 DEF Assigning, ClassSet
<1>4. /\ Part' = Part /\ classes' = classes /\ ClassSet' = ClassSet /\ Degrees' = Degrees
      /\ Max(Degrees)' = Max(Degrees) /\ RawType(G)' /\ degreeN(0)' = degreeN(0)
      /\ czero' = czero
      /\ \A j : same(j)' = same(j) /\ degreePerN(j)' = degreePerN(j)
  BY <1>1, <1>2, SameGraph DEF RawType
<1>5. /\ classes \in Nat /\ class \in ClassSet /\ czero \in Nat
      /\ \A j \in ClassSet : same(j) \in Nat /\ j \in Nat /\ degreePerN(j) \in Nat
  BY <1>1, <1>2, ClassesAreRanks, SameAndZero DEF ClassFacts, ClassSet
<1>6. k = same(class)
  BY <1>1, <1>2, <1>3, <1>5
<1>7. Close
  <2>1. CASE Close
    BY <2>1
  <2>2. CASE CanCatchUp
    <3>1. degreePerN(class) * (same(class) - k) = 0
      BY <1>2, <1>5, <1>6
    <3>2. CatchUpIn(load, Part, 0)
      BY <2>2, <3>1, ArraysNow
    <3> QED BY <1>2, <3>2, NothingLeft
  <2> QED BY <1>3, <2>1, <2>2
<1>8. SizesAgree' /\ LoadsAgree' /\ Close' /\ \A j : perClass(j)' = perClass(j)
  BY <1>1, <1>2, <1>3, <1>7, ArraysNow, ArraysThen
<1>9. FirstComeFirst' /\ ZerosEven'
  BY <1>1, <1>2, <1>3, <1>4 DEF FirstComeFirst, ZerosEven
<1>10. PlacementType'
  <2>1. class' \in 0 .. classes' /\ k' \in Nat
    BY <1>1, <1>2, <1>4, <1>5
  <2> QED BY <1>1, <1>2, <1>4, <2>1 DEF PlacementType
<1>11. \A j \in ClassSet : perClass(j)' = IF j < class + 1 THEN same(j) ELSE 0
  <2> SUFFICES ASSUME NEW j \in ClassSet PROVE perClass(j)' = IF j < class + 1 THEN same(j) ELSE 0
    OBVIOUS
  <2>1. perClass(j)' = IF j < class THEN same(j) ELSE IF j = class THEN same(class) ELSE 0
    BY <1>3, <1>6, <1>8
  <2> QED BY <1>2, <1>5, <2>1
<1>12. CASE class + 1 # classes
  <2>1. class + 1 \in ClassSet /\ class' \in ClassSet
    BY <1>1, <1>2, <1>5, <1>12 DEF ClassSet
  <2>2. same(class)' \in Nat
    <3>1. same(class)' = same(class + 1)
      BY <1>1, <1>4 DEF same, degreePerN, Old, deg, inDegreeOf
    <3> QED BY <1>5, <2>1, <3>1
  <2>3. \A j \in ClassSet :
          perClass(j)' = IF j < class' THEN same(j)' ELSE IF j = class' THEN k' ELSE 0
    BY <1>1, <1>4, <1>11
  <2>4. class' < classes'
    BY <1>1, <1>2, <1>4, <1>5, <1>12
  <2>5. (k <= same(class))'
    BY <1>1, <2>2
  <2>6. Assigning'
    BY <1>4, <1>8, <1>9, <2>3, <2>4, <2>5 DEF Assigning, ClassSet
  <2> QED BY <1>1, <1>8, <1>9, <1>10, <1>12, <2>6 DEF PlacementInv
<1>13. CASE class + 1 = classes
  <2>1. \A j \in ClassSet : perClass(j)' = same(j)' + IF degreePerN(j)' = 0 THEN k' ELSE 0
    <3> SUFFICES ASSUME NEW j \in ClassSet PROVE perClass(j)' = same(j) + 0
      BY <1>1, <1>4
    <3>1. j < class + 1 /\ same(j) \in Nat
      BY <1>5, <1>13 DEF ClassSet
    <3> QED BY <1>11, <3>1
  <2>2. AddingZeros'
    BY <1>1, <1>4, <1>5, <1>8, <1>9, <2>1 DEF AddingZeros, ClassSet
  <2> QED BY <1>1, <1>8, <1>9, <1>10, <1>13, <2>2 DEF PlacementInv
<1> QED BY <1>12, <1>13

\* As many places as vertices.
AsManyAsMembers == \A j \in ClassSet : perClass(j) = members(j)

\* When every class has its places, there are as many as vertices.
LEMMA PlacesAddUp ==
  PlacementType /\ SizesAgree =>
    /\ upTo(ver_size, G.part) \in Nat
    /\ AsManyAsMembers => upTo(ver_size, G.part) = G.n
<1> SUFFICES ASSUME PlacementType, SizesAgree
             PROVE
    /\ upTo(ver_size, G.part) \in Nat
    /\ AsManyAsMembers => upTo(ver_size, G.part) = G.n
  OBVIOUS
<1> DEFINE cols == [j \in ClassSet |-> perClassOf(perDeg, j)]
<1>1. RawType(G) /\ TableType(perDeg) /\ SizesOf(perDeg, ver_size)
  BY ArraysNow DEF PlacementType, TableType, ClassSet
<1>2. /\ IsSizes(ver_size, G.part)
      /\ IsSizes(cols, classes)
      /\ first(ver_size, G.part) = first(cols, classes)
  BY <1>1, TableAddsUp
<1>3. upTo(ver_size, G.part) = first(cols, classes)
  BY <1>2, UpToIsFirst
<1>4. first(cols, classes) \in Nat
  <2> HIDE DEF cols
  <2>1. classes \in 0 .. classes /\ FirstFacts(cols, classes)
    BY <1>2, Firsts DEF IsSizes
  <2> QED BY <2>1 DEF FirstFacts
<1>5. ASSUME AsManyAsMembers PROVE first(cols, classes) = G.n
  <2>1. IsSizes(memberArr, classes) /\ first(memberArr, classes) = G.n
    BY <1>1, MembersAddUp DEF MemberFacts
  <2>2. \A j \in ClassSet : cols[j] = memberArr[j]
    BY <1>5, ArraysNow DEF AsManyAsMembers, memberArr, ClassSet
  <2> HIDE DEF cols
  <2>3. AllSame(memberArr, cols, classes)
    BY <2>1, <2>2 DEF AllSame, ClassSet
  <2> QED BY <2>1, <2>3, FirstSame
<1> QED BY <1>3, <1>4, <1>5

\* One vertex without in-edges, or the end of phase 2.
LEMMA AddZeroStep == PlacementInv /\ AddZero => PlacementInv'
<1> SUFFICES ASSUME PlacementInv, AddZero PROVE PlacementInv'
  OBVIOUS
<1>1. stage = "zero" /\ extra # 0 /\ Dzero = 0 /\ G' = G /\ class' = class /\ load' = load
  BY DEF AddZero
<1>2. /\ PlacementType /\ SizesAgree /\ FirstComeFirst /\ AddingZeros
      /\ RawType(G) /\ TableType(perDeg) /\ load \in [Part -> Nat]
      /\ ver_size \in [Part -> Nat] /\ class \in 0 .. classes /\ k \in Nat
  BY <1>1 DEF PlacementInv, Placing, PlacementType, TableType, ClassSet
<1>3. /\ LoadsAgree /\ ZerosEven /\ Close /\ k <= czero
      /\ \A j \in ClassSet : perClass(j) = same(j) + IF degreePerN(j) = 0 THEN k ELSE 0
  BY <1>2 DEF AddingZeros, ClassSet
<1>4. /\ Part' = Part /\ classes' = classes /\ ClassSet' = ClassSet /\ Degrees' = Degrees
      /\ Max(Degrees)' = Max(Degrees) /\ RawType(G)' /\ degreeN(0)' = degreeN(0)
      /\ czero' = czero
      /\ \A j : same(j)' = same(j) /\ degreePerN(j)' = degreePerN(j) /\ members(j)' = members(j)
  BY <1>1, <1>2, SameGraph DEF RawType
<1>5. /\ classes \in Nat /\ czero \in Nat /\ degreeN(0) \in ClassSet
      /\ \A j \in ClassSet : same(j) \in Nat /\ j \in Nat /\ degreePerN(j) \in Nat
      /\ \A j \in ClassSet : degreePerN(j) # 0 => same(j) = members(j)
      /\ \A j \in ClassSet : degreePerN(j) = 0 => same(j) + czero = members(j) /\ degreeN(0) = j
      /\ 0 \notin Degrees => czero = 0
  BY <1>2, ClassesAreRanks, SameAndZero DEF ClassFacts, ClassSet
<1>6. FirstComeFirst' /\ Close'
  BY <1>1, <1>2, <1>3, <1>4 DEF FirstComeFirst, Close
<1>7. CASE k < czero
  <2>1. PICK c \in ClassSet : c = degreeN(0) /\ degreePerN(c) = 0
    <3>1. 0 \in Degrees
      BY <1>2, <1>5, <1>7
    <3> QED BY <1>2, <1>5, <3>1, ClassesAreRanks DEF ClassFacts, ClassSet
  <2>2. PICK s \in Part : s = least(ver_size) /\ \A q \in Part : ver_size[s] <= ver_size[q]
    <3>1. /\ least(ver_size) \in Part
          /\ \A q \in Part : ver_size[least(ver_size)] < ver_size[q]
                             \/ (ver_size[least(ver_size)] = ver_size[q] /\ least(ver_size) <= q)
      BY <1>2, LeastExists
    <3>2. \A q \in Part : ver_size[least(ver_size)] <= ver_size[q]
      BY <1>2, <3>1
    <3> QED BY <3>1, <3>2
  <2>3. /\ ver_size' = [ver_size EXCEPT ![s] = @ + 1]
        /\ perDeg' = [perDeg EXCEPT ![s][c] = @ + 1]
        /\ k' = k + 1 /\ stage' = stage
    BY <1>7, <2>1, <2>2 DEF AddZero, smallest
  <2>4. /\ oneOf(s, 1) \in [Part -> Nat] /\ first(oneOf(s, 1), G.part) = 1
        /\ \A q \in Part : oneOf(s, 1)[q] = IF q = s THEN 1 ELSE 0
    <3>1. \A q \in Part : oneOf(s, 1)[q] = IF q = s THEN 1 ELSE 0
      BY DEF oneOf
    <3> QED BY <1>2, <3>1, OneAddsUp
  <2>5. /\ \A q \in Part : ver_size'[q] = IF q = s THEN ver_size[s] + 1 ELSE ver_size[q]
        /\ ver_size' \in [Part -> Nat]
    BY <1>2, <2>3
  <2>6. TableType(perDeg')
    BY <1>2, <2>1, <2>3 DEF TableType
  <2>7. \A q \in Part : \A j \in ClassSet :
          perDeg'[q][j] = perDeg[q][j] + IF j = c THEN oneOf(s, 1)[q] ELSE 0
    <3> SUFFICES ASSUME NEW q \in Part, NEW j \in ClassSet
                 PROVE  perDeg'[q][j] = perDeg[q][j] + IF j = c THEN oneOf(s, 1)[q] ELSE 0
      OBVIOUS
    <3>1. perDeg[q] \in [ClassSet -> Nat] /\ perDeg[q][j] \in Nat
      BY <1>2 DEF TableType
    <3>2. perDeg'[q][j] = IF q = s /\ j = c THEN perDeg[q][j] + 1 ELSE perDeg[q][j]
      BY <1>2, <2>1, <2>3, <3>1 DEF TableType
    <3> QED BY <2>4, <3>1, <3>2
  <2>8. Grows(oneOf(s, 1), c)
    <3>1. \A q \in Part : ver_size'[q] = ver_size[q] + oneOf(s, 1)[q]
      BY <1>2, <2>4, <2>5
    <3> QED BY <1>1, <2>1, <2>4, <2>6, <2>7, <3>1 DEF Grows
  <2>9. LoadsGrow(oneOf(s, 1), c)
    <3> SUFFICES ASSUME NEW q \in Part PROVE load'[q] = load[q] + oneOf(s, 1)[q] * degreePerN(c)
      BY DEF LoadsGrow
    <3>1. load[q] \in Nat /\ oneOf(s, 1)[q] \in Nat
      BY <1>2, <2>4
    <3> QED BY <1>1, <2>1, <3>1
  <2>10. /\ SizesAgree' /\ LoadsAgree'
         /\ \A j \in ClassSet : perClass(j)' = perClass(j) + IF j = c THEN 1 ELSE 0
    BY <1>2, <1>3, <2>4, <2>8, <2>9, PlacesGrow
  <2>11. \A j \in ClassSet : perClass(j)' = same(j)' + IF degreePerN(j)' = 0 THEN k' ELSE 0
    <3> SUFFICES ASSUME NEW j \in ClassSet
                 PROVE  perClass(j)' = same(j) + IF degreePerN(j) = 0 THEN k + 1 ELSE 0
      BY <1>4, <2>3
    <3>1. j = c <=> degreePerN(j) = 0
      BY <1>5, <2>1
    <3>2. perClass(j) = (same(j) + IF degreePerN(j) = 0 THEN k ELSE 0)
          /\ perClass(j)' = perClass(j) + IF j = c THEN 1 ELSE 0
      BY <1>3, <2>10
    <3> QED BY <1>2, <1>5, <3>1, <3>2
  <2>12. ZerosEven'
    <3> SUFFICES ASSUME 0 \in Degrees, NEW p \in Part, NEW q \in Part, perDeg'[p][c] > 0
                 PROVE  ver_size'[p] <= ver_size'[q] + 1
      BY <1>4, <2>1 DEF ZerosEven
    <3>1. ver_size[p] \in Nat /\ ver_size[q] \in Nat /\ ver_size[s] \in Nat /\ ver_size[s] <= ver_size[q]
      BY <1>2, <2>2
    <3>2. ver_size'[p] = (IF p = s THEN ver_size[s] + 1 ELSE ver_size[p])
          /\ ver_size'[q] = (IF q = s THEN ver_size[s] + 1 ELSE ver_size[q])
      BY <2>5
    <3>3. p # s => ver_size[p] <= ver_size[q] + 1
      <4>1. p # s => perDeg'[p][c] = perDeg[p][c]
        BY <1>2, <2>1, <2>3 DEF TableType
      <4> QED BY <1>3, <2>1, <4>1 DEF ZerosEven
    <3> QED BY <3>1, <3>2, <3>3
  <2>13. AddingZeros'
    <3>1. k' <= czero'
      BY <1>2, <1>4, <1>5, <1>7, <2>3
    <3> QED BY <1>4, <1>6, <2>10, <2>11, <2>12, <3>1 DEF AddingZeros, ClassSet
  <2>14. PlacementType'
    <3>1. k' \in Nat
      BY <1>2, <2>3
    <3> QED BY <1>1, <1>2, <1>4, <2>3, <2>5, <2>6, <3>1 DEF PlacementType, TableType, ClassSet
  <2> QED BY <1>1, <1>6, <2>3, <2>10, <2>13, <2>14 DEF PlacementInv
<1>8. CASE ~(k < czero)
  <2>1. stage' = "fill" /\ ver_size' = ver_size /\ perDeg' = perDeg /\ k' = k
    BY <1>8 DEF AddZero
  <2>2. k = czero
    BY <1>2, <1>3, <1>5, <1>8
  <2>3. AsManyAsMembers
    <3> SUFFICES ASSUME NEW j \in ClassSet PROVE perClass(j) = members(j)
      BY DEF AsManyAsMembers
    <3>1. perClass(j) = same(j) + IF degreePerN(j) = 0 THEN k ELSE 0
      BY <1>3
    <3>2. same(j) \in Nat
      BY <1>5
    <3> QED BY <1>5, <2>2, <3>1, <3>2
  <2>4. upTo(ver_size, G.part) = G.n /\ G.n \in Nat
    BY <1>2, <2>3, PlacesAddUp, RawFacts
  <2>5. /\ SizesAgree' /\ LoadsAgree' /\ (\A j : perClass(j)' = perClass(j))
        /\ upTo(ver_size, G.part)' = upTo(ver_size, G.part)
    BY <1>1, <1>2, <1>3, <2>1, ArraysNow, ArraysThen
  <2>6. ZerosEven'
    BY <1>3, <1>4, <2>1 DEF ZerosEven
  <2>7. \A j \in ClassSet : perClass(j)' = members(j)'
    BY <1>4, <2>3, <2>5 DEF AsManyAsMembers
  <2>8. Filled'
    BY <1>1, <1>4, <1>6, <2>4, <2>5, <2>6, <2>7 DEF Filled, ClassSet
  <2>9. PlacementType'
    BY <1>1, <1>2, <1>4, <2>1 DEF PlacementType, TableType, ClassSet
  <2> QED BY <1>6, <2>1, <2>5, <2>8, <2>9 DEF PlacementInv
<1> QED BY <1>7, <1>8

\* The vertices that a partition gets on the average, and what is left.
LEMMA AverageAndRest ==
  ASSUME NEW a \in Nat, NEW b \in Nat, b # 0
  PROVE  a \div b \in Nat /\ a % b \in 0 .. b - 1 /\ a = b * (a \div b) + (a % b)
OBVIOUS

\* What every partition is to have at least.
target == [p \in Part |-> avg + surplus(p)]

\* That are all the vertices.
LEMMA TargetsAddUp ==
  RawType(G) => /\ \A p \in Part : target[p] = avg + surplus(p) /\ target[p] \in Nat
                                   /\ surplus(p) \in 0 .. 1
                /\ avg \in Nat
                /\ Total(target, Part) = G.n
<1> SUFFICES ASSUME RawType(G)
             PROVE  /\ \A p \in Part : target[p] = avg + surplus(p) /\ target[p] \in Nat
                                       /\ surplus(p) \in 0 .. 1
                    /\ avg \in Nat
                    /\ Total(target, Part) = G.n
  OBVIOUS
<1>1. /\ G.n \in Nat /\ G.part \in Nat /\ G.part # 0
      /\ IsFiniteSet(Part) /\ Cardinality(Part) = G.part
  BY RawFacts
<1>2. avg \in Nat /\ extra \in 0 .. G.part - 1 /\ G.n = G.part * avg + extra
  BY <1>1, AverageAndRest DEF avg, extra
<1>3. \A p \in Part : target[p] = avg + surplus(p) /\ target[p] \in Nat /\ surplus(p) \in 0 .. 1
  BY <1>2 DEF target, surplus
<1> DEFINE f == [p \in Part |-> avg]
           h == [p \in Part |-> surplus(p)]
           U == 0 .. extra - 1
<1>4. \A p \in Part : f[p] = avg /\ h[p] = surplus(p) /\ h[p] \in Int /\ f[p] \in Int
  BY <1>2 DEF surplus
<1>5. U \subseteq Part /\ \A p \in Part \ U : h[p] = 0
  BY <1>1, <1>2 DEF Part, surplus
<1>6. \A p \in U : h[p] = 1
  BY <1>2, <1>5 DEF surplus
<1>7. IsFiniteSet(U) /\ Cardinality(U) = extra
  <2>1. 0 \in Int /\ extra - 1 \in Int /\ (extra - 1) - 0 + 1 = extra /\ (0 > extra - 1 => extra = 0)
    BY <1>2
  <2>2. IsFiniteSet(U) /\ Cardinality(U) = IF 0 > extra - 1 THEN 0 ELSE (extra - 1) - 0 + 1
    BY <2>1, Intervals, Zenon
  <2> QED BY <2>1, <2>2
<1> HIDE DEF f, h, U
<1>8. IsSummable(f, Part) /\ IsSummable(h, Part)
  BY <1>1, <1>4 DEF IsSummable
<1>9. Total(f, Part) = G.part * avg
  <2>1. avg \in Int
    BY <1>2
  <2> QED BY <1>1, <1>4, <2>1, TotalConstant
<1>10. Total(h, Part) = extra
  <2>1. Total(h, Part) = Total(h, U)
    BY <1>5, <1>8, TotalRestrict
  <2>2. Total(h, U) = extra * 1
    <3>1. 1 \in Int
      OBVIOUS
    <3> QED BY <1>6, <1>7, <3>1, TotalConstant
  <2> QED BY <1>2, <2>1, <2>2
<1>11. Total(target, Part) = Total(f, Part) + Total(h, Part)
  <2>1. \A p \in Part : target[p] = f[p] + h[p]
    BY <1>3, <1>4
  <2> QED BY <1>8, <2>1, TotalPlus
<1> QED BY <1>2, <1>3, <1>9, <1>10, <1>11

\* Sizes that reach their targets: there are enough places, and exactly so many when the
\* targets are met.
LEMMA TargetsReached ==
  \A V : RawType(G) /\ V \in [Part -> Nat] /\ (\A p \in Part : V[p] >= target[p]) =>
    /\ Total(V, Part) >= G.n
    /\ Total(V, Part) = G.n <=> \A p \in Part : V[p] = target[p]
<1> SUFFICES ASSUME NEW V, RawType(G), V \in [Part -> Nat], \A p \in Part : V[p] >= target[p]
             PROVE
    /\ Total(V, Part) >= G.n
    /\ Total(V, Part) = G.n <=> \A p \in Part : V[p] = target[p]
  OBVIOUS
<1> DEFINE f == [p \in Part |-> V[p] - target[p]]
<1>1. IsFiniteSet(Part) /\ G.n \in Nat /\ Total(target, Part) = G.n
      /\ \A p \in Part : target[p] \in Nat
  BY RawFacts, TargetsAddUp
<1>2. \A p \in Part : f[p] \in Nat /\ V[p] = target[p] + f[p] /\ (f[p] = 0 <=> V[p] = target[p])
  BY <1>1
<1> HIDE DEF f
<1>3. IsSummable(f, Part) /\ IsSummable(target, Part)
  BY <1>1, <1>2 DEF IsSummable
<1>4. Total(V, Part) = G.n + Total(f, Part)
  <2>1. Total(V, Part) = Total(target, Part) + Total(f, Part)
    BY <1>2, <1>3, TotalPlus
  <2> QED BY <1>1, <2>1
<1>5. Total(f, Part) \in Nat /\ (Total(f, Part) = 0 <=> \A p \in Part : f[p] = 0)
  BY <1>1, <1>2, TotalNat
<1>6. Total(V, Part) = G.n <=> Total(f, Part) = 0
  BY <1>1, <1>4, <1>5
<1> QED BY <1>1, <1>2, <1>4, <1>5, <1>6

\* If all classes but one have their places, so has that one.
LEMMA LastClass ==
  \A D, V, c :
    /\ RawType(G) /\ TableType(D) /\ SizesOf(D, V) /\ first(V, G.part) = G.n /\ c \in ClassSet
    /\ \A j \in ClassSet : j # c => perClassOf(D, j) = members(j)
    => perClassOf(D, c) = members(c)
<1> SUFFICES ASSUME NEW D, NEW V, NEW c,
                    RawType(G), TableType(D), SizesOf(D, V), first(V, G.part) = G.n, c \in ClassSet,
                    \A j \in ClassSet : j # c => perClassOf(D, j) = members(j)
             PROVE  perClassOf(D, c) = members(c)
  OBVIOUS
<1> DEFINE cols == [j \in ClassSet |-> perClassOf(D, j)]
<1>1. IsSizes(cols, classes) /\ first(cols, classes) = G.n
  BY TableAddsUp
<1>2. IsSizes(memberArr, classes) /\ first(memberArr, classes) = G.n
  BY MembersAddUp DEF MemberFacts
<1>3. \A j \in ClassSet : cols[j] = perClassOf(D, j) /\ memberArr[j] = members(j)
  BY DEF memberArr, ClassSet
<1>4. IsFiniteSet(ClassSet)
  <2>1. 0 \in Int /\ classes - 1 \in Int
    BY <1>2 DEF IsSizes
  <2> QED BY <2>1, Intervals, Zenon DEF ClassSet
<1> HIDE DEF cols
<1>5. IsSummable(cols, ClassSet) /\ IsSummable(memberArr, ClassSet)
      /\ Total(cols, ClassSet) = G.n /\ Total(memberArr, ClassSet) = G.n
  BY <1>1, <1>2, <1>4 DEF IsSummable, IsSizes, ClassSet, first
<1>6. \A j \in ClassSet \ {c} : cols[j] = memberArr[j]
  BY <1>3
<1>7. Total(cols, ClassSet) = Total(memberArr, ClassSet) + (cols[c] - memberArr[c])
  BY <1>5, <1>6, TotalChange
<1>8. cols[c] \in Int /\ memberArr[c] \in Int /\ G.n \in Nat
  BY <1>5, RawFacts DEF IsSummable
<1>9. cols[c] = memberArr[c]
  BY <1>5, <1>7, <1>8
<1> QED BY <1>3, <1>9

\* What FillUp adds.
missing == [p \in Part |-> surplus(p) + IF ver_size[p] < avg THEN avg - ver_size[p] ELSE 0]

\* It brings every partition to its target, and above it only one that phase 1 left there.
LEMMA FillUpFacts ==
  ASSUME PlacementType, FillUp
  PROVE  /\ missing \in [Part -> Nat]
         /\ Grows(missing, degreeN(0))
         /\ ver_size' \in [Part -> Nat] /\ TableType(perDeg')
         /\ \A p \in Part : ver_size'[p] >= target[p]
                            /\ (ver_size'[p] # target[p] => ver_size'[p] - surplus(p) > avg)
<1>1. G' = G
      /\ ver_size' = [p \in Part |-> ver_size[p] + missing[p]]
      /\ perDeg' = [p \in Part |-> [perDeg[p] EXCEPT ![degreeN(0)] = @ + missing[p]]]
  BY DEF FillUp, missing
<1>2. RawType(G) /\ TableType(perDeg) /\ ver_size \in [Part -> Nat] /\ degreeN(0) \in ClassSet
  BY ClassesAreRanks DEF PlacementType, TableType, ClassSet, ClassFacts
<1>3. avg \in Nat /\ \A p \in Part : target[p] = avg + surplus(p) /\ surplus(p) \in 0 .. 1
  BY <1>2, TargetsAddUp
<1>4. \A p \in Part : missing[p] = surplus(p) + IF ver_size[p] < avg THEN avg - ver_size[p] ELSE 0
  BY DEF missing
<1>5. missing \in [Part -> Nat]
  <2>1. \A p \in Part : missing[p] \in Nat
    BY <1>2, <1>3, <1>4
  <2> QED BY <2>1 DEF missing
<1>6. \A p \in Part : ver_size'[p] = ver_size[p] + missing[p]
  BY <1>1
<1>7. ver_size' \in [Part -> Nat]
  BY <1>1, <1>2, <1>5
<1>8. TableType(perDeg')
  BY <1>1, <1>2, <1>5 DEF TableType
<1>9. \A q \in Part : \A j \in ClassSet :
        perDeg'[q][j] = perDeg[q][j] + IF j = degreeN(0) THEN missing[q] ELSE 0
  <2> SUFFICES ASSUME NEW q \in Part, NEW j \in ClassSet
               PROVE  perDeg'[q][j] = perDeg[q][j] + IF j = degreeN(0) THEN missing[q] ELSE 0
    OBVIOUS
  <2>1. perDeg[q] \in [ClassSet -> Nat] /\ perDeg[q][j] \in Nat
    BY <1>2 DEF TableType
  <2>2. perDeg'[q][j] = IF j = degreeN(0) THEN perDeg[q][j] + missing[q] ELSE perDeg[q][j]
    BY <1>1, <2>1
  <2> QED BY <2>1, <2>2
<1>10. Grows(missing, degreeN(0))
  BY <1>1, <1>2, <1>5, <1>6, <1>8, <1>9 DEF Grows
<1>11. ASSUME NEW p \in Part
       PROVE  ver_size'[p] >= target[p] /\ (ver_size'[p] # target[p] => ver_size'[p] - surplus(p) > avg)
  <2>1. ver_size[p] \in Nat /\ target[p] = avg + surplus(p) /\ surplus(p) \in Nat
        /\ ver_size'[p] = ver_size[p] + missing[p]
    BY <1>2, <1>3, <1>6
  <2> QED BY <1>3, <1>4, <2>1
<1> QED BY <1>5, <1>7, <1>8, <1>10, <1>11

\* The partitions are filled up.
LEMMA FillUpStep == PlacementInv /\ FillUp => PlacementInv'
<1> SUFFICES ASSUME PlacementInv, FillUp PROVE PlacementInv'
  OBVIOUS
<1>1. /\ stage = "zero" /\ (extra = 0 \/ Dzero # 0) /\ G' = G /\ class' = class /\ load' = load
      /\ k' = k /\ stage' = "fill"
  BY DEF FillUp
<1>2. /\ PlacementType /\ SizesAgree /\ FirstComeFirst /\ AddingZeros
      /\ RawType(G) /\ TableType(perDeg) /\ load \in [Part -> Nat]
      /\ ver_size \in [Part -> Nat] /\ class \in 0 .. classes /\ k \in Nat
  BY <1>1 DEF PlacementInv, Placing, PlacementType, TableType, ClassSet
<1>3. /\ LoadsAgree /\ Close
      /\ \A j \in ClassSet : perClass(j) = same(j) + IF degreePerN(j) = 0 THEN k ELSE 0
  BY <1>2 DEF AddingZeros, ClassSet
<1>4. /\ Part' = Part /\ classes' = classes /\ ClassSet' = ClassSet /\ Degrees' = Degrees
      /\ Max(Degrees)' = Max(Degrees) /\ RawType(G)' /\ degreeN(0)' = degreeN(0)
      /\ extra' = extra /\ Dzero' = Dzero /\ avg' = avg
      /\ \A j : members(j)' = members(j)
      /\ \A p : surplus(p)' = surplus(p)
  BY <1>1, <1>2, SameGraph DEF RawType
<1>5. PICK c \in ClassSet : c = degreeN(0) /\ (0 \in Degrees => degreePerN(c) = 0)
                            /\ degreePerN(c) \in Nat
                            /\ (0 \notin Degrees => degreePerN(c) # 0)
  BY <1>2, ClassesAreRanks DEF ClassFacts, ClassSet
<1>6. \A j \in ClassSet : degreePerN(j) # 0 => perClass(j) = members(j)
  <2> SUFFICES ASSUME NEW j \in ClassSet, degreePerN(j) # 0 PROVE perClass(j) = members(j)
    OBVIOUS
  <2>1. same(j) \in Nat /\ same(j) = members(j)
    BY <1>2, SameAndZero DEF ClassSet
  <2> QED BY <1>3, <2>1
<1>7. \A j \in ClassSet : j # c => degreePerN(j) # 0
  BY <1>2, <1>5, SameAndZero DEF ClassSet
<1>8. /\ missing \in [Part -> Nat]
      /\ Grows(missing, c)
      /\ ver_size' \in [Part -> Nat] /\ TableType(perDeg')
      /\ \A p \in Part : ver_size'[p] >= target[p]
                         /\ (ver_size'[p] # target[p] => ver_size'[p] - surplus(p) > avg)
  BY <1>2, <1>5, FillUpFacts
<1>9. /\ SizesAgree' /\ (LoadsGrow(missing, c) => LoadsAgree')
      /\ \A j \in ClassSet : perClass(j)' = perClass(j) + IF j = c THEN first(missing, G.part) ELSE 0
      /\ \A j \in ClassSet : perClass(j) \in Nat
      /\ first(missing, G.part) \in Nat
  BY <1>2, <1>3, <1>8, PlacesGrow
<1>10. FirstComeFirst' /\ Close'
  BY <1>1, <1>2, <1>3, <1>4 DEF FirstComeFirst, Close
<1>11. PlacementType'
  BY <1>1, <1>2, <1>4, <1>8 DEF PlacementType, TableType, ClassSet
<1>12. /\ upTo(ver_size, G.part)' = Total(ver_size', Part)
       /\ first(ver_size', G.part) = Total(ver_size', Part)
  BY <1>1, ArraysThen DEF first, Part
<1>13. /\ Total(ver_size', Part) >= G.n
       /\ Total(ver_size', Part) = G.n <=> \A p \in Part : ver_size'[p] = target[p]
  BY <1>2, <1>8, TargetsReached
<1>14. ASSUME Total(ver_size', Part) = G.n
       PROVE  (\A j \in ClassSet : perClass(j)' = members(j)) /\ LoadsAgree' /\ ZerosEven'
  <2>1. \A j \in ClassSet : j # c => perClassOf(perDeg', j) = members(j)
    <3> SUFFICES ASSUME NEW j \in ClassSet, j # c PROVE perClassOf(perDeg', j) = members(j)
      OBVIOUS
    <3>1. perClass(j)' = perClass(j) + 0 /\ perClass(j) \in Nat /\ perClass(j) = members(j)
      BY <1>6, <1>7, <1>9
    <3>2. perClass(j)' = perClassOf(perDeg', j)
      BY <1>1, ArraysThen
    <3> QED BY <3>1, <3>2
  <2>2. SizesOf(perDeg', ver_size')
    BY <1>1, <1>9, ArraysThen
  <2>3. perClassOf(perDeg', c) = members(c)
    BY <1>2, <1>5, <1>8, <1>12, <1>14, <2>1, <2>2, LastClass
  <2>4. \A j \in ClassSet : perClass(j)' = members(j)
    <3>1. \A j : perClass(j)' = perClassOf(perDeg', j)
      BY <1>1, ArraysThen
    <3> QED BY <2>1, <2>3, <3>1
  <2>5. LoadsGrow(missing, c)
    <3> SUFFICES ASSUME NEW q \in Part PROVE load[q] = load[q] + missing[q] * degreePerN(c)
      BY <1>1 DEF LoadsGrow
    <3>1. load[q] \in Nat /\ missing[q] \in Nat
      BY <1>2, <1>8
    <3>2. degreePerN(c) = 0 \/ missing[q] = 0
      <4> SUFFICES ASSUME degreePerN(c) # 0 PROVE missing[q] = 0
        OBVIOUS
      <4>1. perClass(c)' = perClass(c) + first(missing, G.part) /\ perClass(c) = members(c)
            /\ perClass(c) \in Nat /\ perClass(c)' = members(c)
        BY <1>5, <1>6, <1>9, <2>4
      <4>2. Total(missing, Part) = 0
        BY <1>9, <4>1 DEF first, Part
      <4>3. IsFiniteSet(Part)
        BY <1>2, RawFacts
      <4> QED BY <1>8, <4>2, <4>3, TotalNat
    <3> QED BY <1>5, <3>1, <3>2
  <2>6. ZerosEven'
    <3> SUFFICES ASSUME NEW p \in Part, NEW q \in Part PROVE ver_size'[p] <= ver_size'[q] + 1
      BY <1>4 DEF ZerosEven
    <3>1. ver_size'[p] = target[p] /\ ver_size'[q] = target[q]
      BY <1>13, <1>14
    <3>2. avg \in Nat /\ target[p] = avg + surplus(p) /\ target[q] = avg + surplus(q)
          /\ surplus(p) \in 0 .. 1 /\ surplus(q) \in 0 .. 1
      BY <1>2, TargetsAddUp
    <3> QED BY <3>1, <3>2
  <2> QED BY <1>9, <2>4, <2>5, <2>6
<1>15. ASSUME Total(ver_size', Part) # G.n
       PROVE  \E p \in Part : ver_size'[p] - surplus(p) > avg
  BY <1>8, <1>13, <1>15
<1>16. Filled'
  <2>1. G.n' = G.n
    BY <1>1
  <2>2. (upTo(ver_size, G.part) >= G.n)'
    BY <1>12, <1>13, <2>1
  <2>3. (upTo(ver_size, G.part) = G.n)' <=> Total(ver_size', Part) = G.n
    BY <1>12, <2>1
  <2>4. ASSUME (upTo(ver_size, G.part) = G.n)'
        PROVE  (\A j \in 0 .. classes - 1 : perClass(j) = members(j))' /\ LoadsAgree' /\ ZerosEven'
    BY <1>4, <1>14, <2>3, <2>4 DEF ClassSet
  <2>5. ASSUME ~(upTo(ver_size, G.part) = G.n)'
        PROVE  ((extra = 0 \/ Dzero # 0) /\ \E p \in Part : ver_size[p] - surplus(p) > avg)'
    BY <1>1, <1>4, <1>15, <2>3, <2>5
  <2> QED BY <1>10, <2>2, <2>4, <2>5 DEF Filled
<1> QED BY <1>1, <1>9, <1>10, <1>11, <1>16 DEF PlacementInv

-----------------------------------------------------------------------------
(***************************************************************************)
(* The vertices are dealt out.                                             *)
(***************************************************************************)
\* The places by class.
byClass == [j \in ClassSet |-> [p \in Part |-> perDeg[p][j]]]

flip(x) == <<x[2], x[1], x[3]>>

\* A vertex goes before those of later classes.
LEMMA ClassesAddUp ==
  \A S : MapThenSumSet(perClass, S) = Total([x \in S |-> perClass(x)], S)
BY DEF Total, MapThenSumSet, MapThenFoldSet

\* The same of the partitions.
LEMMA PartitionsAddUp ==
  \A j, S : MapThenSumSet(LAMBDA p : perDeg[p][j], S) = Total([x \in S |-> perDeg[x][j]], S)
BY DEF Total, MapThenSumSet, MapThenFoldSet

\* The table of the partitions and that of the classes.
TablesAgree ==
  /\ IsTable(ver_size, perDeg, G.part, classes)
  /\ IsTable(memberArr, byClass, classes, G.part)
  /\ first(ver_size, G.part) = G.n /\ first(memberArr, classes) = G.n

\* Both number as many vertices as there are.
LEMMA PlacesMakeTables == PlacementType /\ SizesAgree /\ AsManyAsMembers => TablesAgree
<1> SUFFICES ASSUME PlacementType, SizesAgree, AsManyAsMembers PROVE TablesAgree
  OBVIOUS
<1>1. RawType(G) /\ TableType(perDeg) /\ SizesOf(perDeg, ver_size)
  BY ArraysNow DEF PlacementType, TableType, ClassSet
<1>2. /\ \A p \in Part : IsSizes(perDeg[p], classes)
      /\ \A j \in ClassSet : IsSizes([p \in Part |-> perDeg[p][j]], G.part)
  BY <1>1, TableFacts
<1>3. G.part \in Nat /\ classes \in Nat /\ ClassSet = 0 .. classes - 1 /\ Part = 0 .. G.part - 1
  BY <1>1, RawFacts, ClassesAreRanks DEF ClassFacts, ClassSet, Part
<1>4. IsTable(ver_size, perDeg, G.part, classes)
  BY <1>1, <1>2, <1>3 DEF IsTable, SizesOf
<1>5. \A j \in ClassSet : IsSizes(byClass[j], G.part) /\ memberArr[j] = first(byClass[j], G.part)
  <2> SUFFICES ASSUME NEW j \in ClassSet
               PROVE  IsSizes(byClass[j], G.part) /\ memberArr[j] = first(byClass[j], G.part)
    OBVIOUS
  <2>1. byClass[j] = [p \in Part |-> perDeg[p][j]] /\ memberArr[j] = members(j)
    BY DEF byClass, memberArr, ClassSet
  <2>2. perClass(j) = perClassOf(perDeg, j) /\ perClass(j) = members(j)
    BY ArraysNow DEF AsManyAsMembers
  <2> QED BY <1>2, <2>1, <2>2 DEF perClassOf
<1>6. IsTable(memberArr, byClass, classes, G.part)
  BY <1>3, <1>5 DEF IsTable
<1>7. first(memberArr, classes) = G.n
  BY <1>1, MembersAddUp DEF MemberFacts
<1>8. first(ver_size, G.part) = G.n
  BY PlacesAddUp, UpToIsFirst
<1> QED BY <1>4, <1>6, <1>7, <1>8 DEF TablesAgree

\* A place is a cell of both, and it is numbered in both.
LEMMA PlacesAreCells ==
  PlacementType /\ SizesAgree /\ AsManyAsMembers =>
    /\ \A x \in Places : /\ flip(x) \in Cells(perDeg, G.part, classes)
                         /\ index(x) = cell(ver_size, perDeg, flip(x))
                         /\ x \in Cells(byClass, classes, G.part)
                         /\ real(x) = cell(memberArr, byClass, x)
    /\ \A y \in Cells(perDeg, G.part, classes) : flip(y) \in Places /\ flip(flip(y)) = y
    /\ \A x \in Cells(byClass, classes, G.part) : x \in Places
<1> SUFFICES ASSUME PlacementType, SizesAgree, AsManyAsMembers
             PROVE
    /\ \A x \in Places : /\ flip(x) \in Cells(perDeg, G.part, classes)
                         /\ index(x) = cell(ver_size, perDeg, flip(x))
                         /\ x \in Cells(byClass, classes, G.part)
                         /\ real(x) = cell(memberArr, byClass, x)
    /\ \A y \in Cells(perDeg, G.part, classes) : flip(y) \in Places /\ flip(flip(y)) = y
    /\ \A x \in Cells(byClass, classes, G.part) : x \in Places
  OBVIOUS
<1>1. TablesAgree /\ RawType(G) /\ TableType(perDeg)
  BY PlacesMakeTables DEF PlacementType, TableType, ClassSet
<1>2. G.part \in Nat /\ classes \in Nat /\ G.n \in Nat
      /\ ClassSet = 0 .. classes - 1 /\ Part = 0 .. G.part - 1
  BY <1>1, RawFacts, ClassesAreRanks DEF ClassFacts, ClassSet, Part
<1>3. \A j \in ClassSet : \A p \in Part : byClass[j][p] = perDeg[p][j] /\ perDeg[p][j] \in Nat
  BY <1>1 DEF byClass, TableType
<1>4. upTo(ver_size, G.part) = G.n
  BY <1>1, UpToIsFirst DEF TablesAgree
<1>5. \A x : x \in Places <=>
        x \in ClassSet \X Part \X (0 .. G.n) /\ x[3] < perDeg[x[2]][x[1]]
  BY <1>2, <1>4 DEF Places
<1>6. \A y : y \in Cells(perDeg, G.part, classes) <=>
        y \in Part \X ClassSet \X Nat /\ y[3] < perDeg[y[1]][y[2]]
  BY <1>2 DEF Cells
<1>7. \A x : x \in Cells(byClass, classes, G.part) <=>
        x \in ClassSet \X Part \X Nat /\ x[3] < byClass[x[1]][x[2]]
  BY <1>2 DEF Cells
<1>8. ASSUME NEW y \in Cells(perDeg, G.part, classes) PROVE y[3] \in 0 .. G.n
  <2>1. cell(ver_size, perDeg, y) \in 0 .. first(ver_size, G.part) - 1
    BY <1>1, CellsAreNumbered DEF TablesAgree
  <2>2. y[1] \in Part /\ y[2] \in ClassSet /\ y[3] \in Nat
    BY <1>6
  <2>3. first(ver_size, y[1]) \in Nat
    <3>1. FirstFacts(ver_size, G.part)
      BY <1>1, CellsAreNumbered, Firsts DEF TablesAgree
    <3>2. y[1] \in 0 .. G.part
      BY <1>2, <2>2
    <3> QED BY <3>1, <3>2 DEF FirstFacts
  <2>4. first(perDeg[y[1]], y[2]) \in Nat
    <3>1. FirstFacts(perDeg[y[1]], classes)
      BY <1>1, <1>2, <2>2, Firsts DEF TablesAgree, IsTable
    <3>2. y[2] \in 0 .. classes
      BY <1>2, <2>2
    <3> QED BY <3>1, <3>2 DEF FirstFacts
  <2>5. first(ver_size, y[1]) + (first(perDeg[y[1]], y[2]) + y[3]) \in 0 .. G.n - 1
    BY <1>1, <2>1 DEF cell, TablesAgree
  <2> QED BY <1>2, <2>2, <2>3, <2>4, <2>5
<1>9. ASSUME NEW y \in Cells(perDeg, G.part, classes) PROVE flip(y) \in Places /\ flip(flip(y)) = y
  <2>1. y \in Part \X ClassSet \X Nat /\ y[3] < perDeg[y[1]][y[2]] /\ y[3] \in 0 .. G.n
    BY <1>6, <1>8
  <2> QED BY <1>5, <2>1 DEF flip
<1>10. ASSUME NEW x \in Cells(byClass, classes, G.part) PROVE x \in Places
  <2>1. x \in ClassSet \X Part \X Nat /\ x[3] < perDeg[x[2]][x[1]]
    BY <1>3, <1>7
  <2>2. flip(x) \in Cells(perDeg, G.part, classes)
    BY <1>6, <2>1 DEF flip
  <2>3. flip(x)[3] = x[3]
    BY DEF flip
  <2>4. x[3] \in 0 .. G.n
    BY <1>8, <2>2, <2>3
  <2> QED BY <1>5, <2>1, <2>4
<1>11. ASSUME NEW x \in Places
       PROVE  /\ flip(x) \in Cells(perDeg, G.part, classes)
              /\ x \in Cells(byClass, classes, G.part)
  <2>1. x \in ClassSet \X Part \X (0 .. G.n) /\ x[3] < perDeg[x[2]][x[1]] /\ x[3] \in Nat
    BY <1>2, <1>5
  <2>2. x[3] < byClass[x[1]][x[2]]
    BY <1>3, <2>1
  <2> QED BY <1>6, <1>7, <2>1, <2>2 DEF flip
<1>12. ASSUME NEW x \in Places PROVE index(x) = cell(ver_size, perDeg, flip(x))
  <2>1. x \in ClassSet \X Part \X (0 .. G.n)
    BY <1>5
  <2>2. flip(x)[1] = x[2] /\ flip(x)[2] = x[1] /\ flip(x)[3] = x[3]
    BY DEF flip
  <2>3. index(x) = first(ver_size, x[2]) + first(perDeg[x[2]], x[1]) + x[3]
    BY UpToIsFirst DEF index
  <2>4. first(ver_size, x[2]) \in Nat
    <3>1. FirstFacts(ver_size, G.part)
      BY <1>1, CellsAreNumbered, Firsts DEF TablesAgree
    <3>2. x[2] \in 0 .. G.part
      BY <1>2, <2>1
    <3> QED BY <3>1, <3>2 DEF FirstFacts
  <2>5. first(perDeg[x[2]], x[1]) \in Nat
    <3>1. FirstFacts(perDeg[x[2]], classes)
      BY <1>1, <1>2, <2>1, Firsts DEF TablesAgree, IsTable
    <3>2. x[1] \in 0 .. classes
      BY <1>2, <2>1
    <3> QED BY <3>1, <3>2 DEF FirstFacts
  <2> QED BY <2>1, <2>2, <2>3, <2>4, <2>5 DEF cell
<1>13. ASSUME NEW x \in Places PROVE real(x) = cell(memberArr, byClass, x)
  <2>1. x \in ClassSet \X Part \X (0 .. G.n) /\ x[1] \in 0 .. classes /\ x[2] \in 0 .. G.part
    BY <1>2, <1>5
  <2> DEFINE a == MapThenSumSet(perClass, 0 .. x[1] - 1)
             b == MapThenSumSet(LAMBDA p : perDeg[p][x[1]], 0 .. x[2] - 1)
  <2>2. real(x) = a + b + x[3]
    BY DEF real
  <2>3. a = first(memberArr, x[1])
    <3> DEFINE f == [l \in 0 .. x[1] - 1 |-> perClass(l)]
    <3>1. a = first(f, x[1])
      BY ClassesAddUp DEF first
    <3>2. \A l \in 0 .. x[1] - 1 : f[l] = memberArr[l] /\ l \in ClassSet
      BY <1>2, <2>1 DEF AsManyAsMembers, memberArr
    <3>3. IsSizes(memberArr, x[1])
      <4>1. IsSizes(memberArr, classes)
        BY <1>1, MembersAddUp DEF MemberFacts
      <4> QED BY <1>2, <2>1, <3>2, <4>1 DEF IsSizes
    <3> HIDE DEF f
    <3>4. AllSame(memberArr, f, x[1])
      BY <3>2, <3>3 DEF AllSame
    <3> QED BY <3>1, <3>4, FirstSame
  <2>4. b = first(byClass[x[1]], x[2])
    <3> DEFINE f == [l \in 0 .. x[2] - 1 |-> perDeg[l][x[1]]]
    <3>1. b = first(f, x[2])
      BY PartitionsAddUp DEF first
    <3>2. \A l \in 0 .. x[2] - 1 : f[l] = byClass[x[1]][l] /\ l \in Part /\ byClass[x[1]][l] \in Nat
      BY <1>2, <1>3, <2>1
    <3>3. IsSizes(byClass[x[1]], x[2])
      BY <1>2, <2>1, <3>2 DEF IsSizes
    <3> HIDE DEF f
    <3>4. AllSame(byClass[x[1]], f, x[2])
      BY <3>2, <3>3 DEF AllSame
    <3> QED BY <3>1, <3>4, FirstSame
  <2>5. first(memberArr, x[1]) \in Nat
    <3>1. FirstFacts(memberArr, classes)
      BY <1>1, CellsAreNumbered, Firsts DEF TablesAgree
    <3> QED BY <2>1, <3>1 DEF FirstFacts
  <2>6. first(byClass[x[1]], x[2]) \in Nat
    <3>1. FirstFacts(byClass[x[1]], G.part)
      BY <1>1, <1>2, <2>1, Firsts DEF TablesAgree, IsTable
    <3> QED BY <2>1, <3>1 DEF FirstFacts
  <2> HIDE DEF a, b
  <2> QED BY <2>1, <2>2, <2>3, <2>4, <2>5, <2>6 DEF cell
<1> QED BY <1>9, <1>10, <1>11, <1>12, <1>13

\* New numbers and sorted ones are permutations of the places.
Numbered ==
  /\ \A x \in Places : /\ index(x) \in Old /\ real(x) \in Old /\ x[1] \in ClassSet /\ x[2] \in Part
                       /\ InRange(ver_size, x[2], index(x))
                       /\ deg(check(real(x))) = degreePerN(x[1])
  /\ \A x, y \in Places : index(x) = index(y) => x = y
  /\ \A x, y \in Places : real(x) = real(y) => x = y
  /\ \A z \in Old : \E x \in Places : index(x) = z
  /\ \A z \in Old : \E x \in Places : real(x) = z

\* They are so when every class has its places.
LEMMA PlacesAreNumbered == PlacementType /\ SizesAgree /\ AsManyAsMembers => Numbered
<1> SUFFICES ASSUME PlacementType, SizesAgree, AsManyAsMembers PROVE Numbered
  OBVIOUS
<1>1. TablesAgree /\ RawType(G)
  BY PlacesMakeTables DEF PlacementType
<1>2. G.n \in Nat /\ classes \in Nat /\ ClassSet = 0 .. classes - 1 /\ Part = 0 .. G.part - 1
      /\ Old = 0 .. G.n - 1
  BY <1>1, RawFacts, ClassesAreRanks DEF ClassFacts, ClassSet, Part, Old
<1>3. /\ \A x \in Places : /\ flip(x) \in Cells(perDeg, G.part, classes)
                           /\ index(x) = cell(ver_size, perDeg, flip(x))
                           /\ x \in Cells(byClass, classes, G.part)
                           /\ real(x) = cell(memberArr, byClass, x)
      /\ \A y \in Cells(perDeg, G.part, classes) : flip(y) \in Places /\ flip(flip(y)) = y
      /\ \A x \in Cells(byClass, classes, G.part) : x \in Places
  BY PlacesAreCells
<1>4. /\ \A y \in Cells(perDeg, G.part, classes) :
           /\ cell(ver_size, perDeg, y) \in Old
           /\ InRange(ver_size, y[1], cell(ver_size, perDeg, y))
      /\ \A x, y \in Cells(perDeg, G.part, classes) :
           cell(ver_size, perDeg, x) = cell(ver_size, perDeg, y) => x = y
      /\ \A z \in Old : \E y \in Cells(perDeg, G.part, classes) : cell(ver_size, perDeg, y) = z
  <2>1. IsTable(ver_size, perDeg, G.part, classes) /\ first(ver_size, G.part) = G.n
    BY <1>1 DEF TablesAgree
  <2> QED BY <1>2, <2>1, CellsAreNumbered
<1>5. /\ \A y \in Cells(byClass, classes, G.part) :
           /\ cell(memberArr, byClass, y) \in Old
           /\ InRange(memberArr, y[1], cell(memberArr, byClass, y))
      /\ \A x, y \in Cells(byClass, classes, G.part) :
           cell(memberArr, byClass, x) = cell(memberArr, byClass, y) => x = y
      /\ \A z \in Old : \E y \in Cells(byClass, classes, G.part) : cell(memberArr, byClass, y) = z
  <2>1. IsTable(memberArr, byClass, classes, G.part) /\ first(memberArr, classes) = G.n
    BY <1>1 DEF TablesAgree
  <2> QED BY <1>2, <2>1, CellsAreNumbered
<1>6. \A x \in Places : x \in ClassSet \X Part \X Nat /\ flip(x) = <<x[2], x[1], x[3]>>
  <2>1. \A x \in Cells(byClass, classes, G.part) : x \in ClassSet \X Part \X Nat
    BY <1>2 DEF Cells
  <2> QED BY <1>3, <2>1 DEF flip
<1>7. ASSUME NEW x \in Places
      PROVE  /\ index(x) \in Old /\ real(x) \in Old /\ x[1] \in ClassSet /\ x[2] \in Part
             /\ InRange(ver_size, x[2], index(x)) /\ InRange(memberArr, x[1], real(x))
  <2>1. flip(x)[1] = x[2]
    BY <1>6
  <2> QED BY <1>3, <1>4, <1>5, <1>6, <2>1
<1>8. ASSUME NEW x \in Places PROVE deg(check(real(x))) = degreePerN(x[1])
  <2> DEFINE r == real(x)
             v == check(r)
  <2>1. r \in Old /\ v \in Old
    BY <1>1, <1>7, CheckIsPermutation DEF CheckFacts
  <2>2. InRange(memberArr, classOf(v), r) /\ InRange(memberArr, x[1], r)
    BY <1>1, <1>7, <2>1, CheckFollowsClasses
  <2>3. classOf(v) \in 0 .. classes - 1 /\ x[1] \in 0 .. classes - 1 /\ degreePerN(classOf(v)) = deg(v)
    BY <1>1, <1>2, <1>7, <2>1, ClassOfFacts
  <2>4. IsSizes(memberArr, classes) /\ r \in Int
    BY <1>1, <1>2, <2>1, MembersAddUp DEF MemberFacts
  <2> HIDE DEF r, v
  <2>5. classOf(v) = x[1]
    BY <2>2, <2>3, <2>4, OneRange
  <2> QED BY <2>3, <2>5 DEF v, r
<1>9. ASSUME NEW x \in Places, NEW y \in Places, index(x) = index(y) PROVE x = y
  <2>1. flip(x) = flip(y)
    BY <1>3, <1>4, <1>9
  <2> QED BY <1>6, <2>1
<1>10. ASSUME NEW x \in Places, NEW y \in Places, real(x) = real(y) PROVE x = y
  BY <1>3, <1>5, <1>10
<1>11. ASSUME NEW z \in Old PROVE \E x \in Places : index(x) = z
  <2>1. PICK y \in Cells(perDeg, G.part, classes) : cell(ver_size, perDeg, y) = z
    BY <1>4
  <2>2. flip(y) \in Places /\ flip(flip(y)) = y
    BY <1>3, <2>1
  <2>3. index(flip(y)) = z
    BY <1>3, <2>1, <2>2
  <2> QED BY <2>2, <2>3
<1>12. ASSUME NEW z \in Old PROVE \E x \in Places : real(x) = z
  BY <1>3, <1>5
<1> QED BY <1>7, <1>8, <1>9, <1>10, <1>11, <1>12 DEF Numbered

\* Edges keep their number when their ends are renamed one to one.
LEMMA RenamedDegrees ==
  ASSUME RawType(G), NEW f \in [Old -> Old],
         \A u, v \in Old : f[u] = f[v] => u = v
  PROVE  \A v \in Old :
           inDegreeOf(f[v], {<<f[e[1]], f[e[2]]>> : e \in G.edges}) = deg(v)
<1> DEFINE E == {<<f[e[1]], f[e[2]]>> : e \in G.edges}
<1> SUFFICES ASSUME NEW v \in Old PROVE inDegreeOf(f[v], E) = deg(v)
  OBVIOUS
<1> DEFINE S == {e \in G.edges : e[2] = v}
           T == {e \in E : e[2] = f[v]}
           h == [e \in S |-> <<f[e[1]], f[e[2]]>>]
<1>1. IsFiniteSet(S) /\ S \subseteq Old \X Old
  BY RawFacts, FS_Subset
<1>2. \A e \in S : h[e] = <<f[e[1]], f[e[2]]>> /\ h[e] \in T
  OBVIOUS
<1>3. \A e, d \in S : h[e] = h[d] => e = d
  <2> SUFFICES ASSUME NEW e \in S, NEW d \in S, h[e] = h[d] PROVE e = d
    OBVIOUS
  <2>1. f[e[1]] = f[d[1]] /\ f[e[2]] = f[d[2]]
    BY <1>2
  <2>2. e \in Old \X Old /\ d \in Old \X Old
    BY <1>1
  <2>3. e[1] = d[1] /\ e[2] = d[2]
    BY <2>1, <2>2
  <2> QED BY <2>2, <2>3
<1>4. \A y \in T : \E e \in S : h[e] = y
  <2> SUFFICES ASSUME NEW y \in T PROVE \E e \in S : h[e] = y
    OBVIOUS
  <2>1. PICK e \in G.edges : y = <<f[e[1]], f[e[2]]>>
    OBVIOUS
  <2>2. e \in Old \X Old /\ f[e[2]] = f[v]
    BY <2>1, RawFacts
  <2>3. e[2] = v
    BY <2>2
  <2> QED BY <2>1, <2>3
<1>5. h \in Bijection(S, T)
  <2>1. h \in [S -> T]
    BY <1>2
  <2> HIDE DEF S, T, h
  <2> QED BY <1>3, <1>4, <2>1 DEF Bijection, Injection, IsInjective, Surjection
<1>6. Cardinality(T) = Cardinality(S)
  <2> HIDE DEF S, T, h
  <2> QED BY <1>1, <1>5, FS_Bijection DEF ExistsBijection
<1> QED BY <1>6 DEF inDegreeOf, deg

\* What is said of the placement remains true while it is not changed.
LEMMA PlacementStays ==
  G' = G /\ UNCHANGED placement =>
    /\ SizesAgree => SizesAgree'
    /\ FirstComeFirst => FirstComeFirst'
    /\ Filled => Filled'
    /\ Assigning => Assigning'
    /\ AddingZeros => AddingZeros'
    /\ PlacementType /\ stage' \in {"assign", "zero", "fill", "written", "wild"} => PlacementType'
    /\ upTo(ver_size, G.part)' = upTo(ver_size, G.part)
    /\ Places' = Places
    /\ \A x : index(x)' = index(x)
    /\ \A j : degreePerN(j)' = degreePerN(j)
<1> SUFFICES ASSUME G' = G, UNCHANGED placement
             PROVE
    /\ SizesAgree => SizesAgree'
    /\ FirstComeFirst => FirstComeFirst'
    /\ Filled => Filled'
    /\ Assigning => Assigning'
    /\ AddingZeros => AddingZeros'
    /\ PlacementType /\ stage' \in {"assign", "zero", "fill", "written", "wild"} => PlacementType'
    /\ upTo(ver_size, G.part)' = upTo(ver_size, G.part)
    /\ Places' = Places
    /\ \A x : index(x)' = index(x)
    /\ \A j : degreePerN(j)' = degreePerN(j)
  OBVIOUS
<1>1. class' = class /\ k' = k /\ perDeg' = perDeg /\ load' = load /\ ver_size' = ver_size
  BY DEF placement
<1>2. /\ Part' = Part /\ classes' = classes /\ ClassSet' = ClassSet /\ Degrees' = Degrees
      /\ Max(Degrees)' = Max(Degrees) /\ degreeN(0)' = degreeN(0)
      /\ extra' = extra /\ Dzero' = Dzero /\ avg' = avg
      /\ czero' = czero
      /\ \A j : members(j)' = members(j) /\ degreePerN(j)' = degreePerN(j) /\ same(j)' = same(j)
      /\ \A p : surplus(p)' = surplus(p)
  BY SameGraph
<1>3. /\ SizesAgree' <=> SizesAgree
      /\ LoadsAgree' <=> LoadsAgree
      /\ \A j : perClass(j)' = perClass(j)
      /\ Close' <=> Close
      /\ CanCatchUp' <=> CanCatchUp
      /\ upTo(ver_size, G.part)' = upTo(ver_size, G.part)
  BY <1>1, ArraysNow, ArraysThen
<1>4. FirstComeFirst => FirstComeFirst'
  BY <1>1, <1>2 DEF FirstComeFirst
<1>5. ZerosEven => ZerosEven'
  BY <1>1, <1>2 DEF ZerosEven
<1>6. Filled => Filled'
  <2> SUFFICES ASSUME Filled PROVE Filled'
    OBVIOUS
  <2>1. Close /\ upTo(ver_size, G.part) >= G.n
    BY DEF Filled
  <2>2. Close' /\ (upTo(ver_size, G.part) >= G.n)'
    BY <1>3, <2>1
  <2>3. (upTo(ver_size, G.part) = G.n)' <=> upTo(ver_size, G.part) = G.n
    BY <1>3
  <2>4. ASSUME (upTo(ver_size, G.part) = G.n)'
        PROVE  (\A j \in 0 .. classes - 1 : perClass(j) = members(j))' /\ LoadsAgree' /\ ZerosEven'
    BY <1>2, <1>3, <1>5, <2>3, <2>4 DEF Filled
  <2>5. ASSUME ~(upTo(ver_size, G.part) = G.n)'
        PROVE  ((extra = 0 \/ Dzero # 0) /\ \E p \in Part : ver_size[p] - surplus(p) > avg)'
    BY <1>1, <1>2, <2>3, <2>5 DEF Filled
  <2> QED BY <2>2, <2>4, <2>5 DEF Filled
<1>7. PlacementType /\ stage' \in {"assign", "zero", "fill", "written", "wild"} => PlacementType'
  BY <1>1, <1>2 DEF PlacementType, RawType
<1>8. \A x : index(x)' = index(x)
  BY <1>1 DEF index, upTo, MapThenSumSet, MapThenFoldSet
<1>9. Places' = Places
  BY <1>1, <1>2, <1>3 DEF Places
<1>10. Assigning => Assigning'
  <2> SUFFICES ASSUME Assigning PROVE Assigning'
    OBVIOUS
  <2>1. (k <= same(class))'
    <3>1. same(class)' = same(class)
      BY <1>1, <1>2 DEF same, degreePerN, Old, deg, inDegreeOf
    <3> QED BY <1>1, <3>1 DEF Assigning
  <2>2. class' < classes'
    BY <1>1, <1>2 DEF Assigning
  <2>3. \A j \in 0 .. classes' - 1 :
          perClass(j)' = IF j < class' THEN same(j)' ELSE IF j = class' THEN k' ELSE 0
    BY <1>1, <1>2, <1>3 DEF Assigning
  <2> QED BY <1>3, <1>5, <2>1, <2>2, <2>3 DEF Assigning
<1>11. AddingZeros => AddingZeros'
  <2> SUFFICES ASSUME AddingZeros PROVE AddingZeros'
    OBVIOUS
  <2>1. k' <= czero'
    BY <1>1, <1>2 DEF AddingZeros
  <2>2. \A j \in 0 .. classes' - 1 :
          perClass(j)' = same(j)' + IF degreePerN(j)' = 0 THEN k' ELSE 0
    BY <1>1, <1>2, <1>3 DEF AddingZeros
  <2> QED BY <1>3, <1>5, <2>1, <2>2 DEF AddingZeros
<1> QED BY <1>2, <1>3, <1>4, <1>6, <1>7, <1>8, <1>9, <1>10, <1>11

\* The numbers that are written, and the graph that graphgrind reads.
LEMMA WritesRight ==
  ASSUME PlacementType, SizesAgree, AsManyAsMembers, Write, stage' = "written"
  PROVE  /\ g'.n = G.n /\ g'.parts = G.part
         /\ DOMAIN fNinter' = Old /\ {fNinter'[new] : new \in Old} = Old
         /\ \A x \in Places : g'.in[index(x)] = degreePerN(x[1])
<1> DEFINE F == fNinter'
           inter(old) == CHOOSE new \in DOMAIN F : F[new] = old
           f == [v \in Old |-> inter(v)]
           E == {<<inter(e[1]), inter(e[2])>> : e \in G.edges}
<1>1. Numbered /\ RawType(G) /\ CheckFacts
  BY PlacesAreNumbered, CheckIsPermutation DEF PlacementType
<1>2. /\ F = [new \in {index(x) : x \in Places} |->
                check(real(CHOOSE x \in Places : index(x) = new))]
      /\ g' = inputOf(G, E)
  BY DEF Write
<1>3. {index(x) : x \in Places} = Old
  BY <1>1 DEF Numbered
<1>4. \A x \in Places : F[index(x)] = check(real(x))
  <2> SUFFICES ASSUME NEW x \in Places PROVE F[index(x)] = check(real(x))
    OBVIOUS
  <2>1. (CHOOSE y \in Places : index(y) = index(x)) = x
    BY <1>1 DEF Numbered
  <2>2. index(x) \in {index(y) : y \in Places}
    OBVIOUS
  <2> HIDE DEF F
  <2> QED BY <1>2, <2>1, <2>2
<1>5. DOMAIN F = Old
  BY <1>2, <1>3
<1> HIDE DEF F
<1>6. \A z \in Old : F[z] \in Old
  <2> SUFFICES ASSUME NEW z \in Old PROVE F[z] \in Old
    OBVIOUS
  <2>1. PICK x \in Places : index(x) = z
    BY <1>1 DEF Numbered
  <2>2. real(x) \in Old
    BY <1>1, <2>1 DEF Numbered
  <2>3. check(real(x)) \in Old
    BY <1>1, <2>2 DEF CheckFacts
  <2>4. F[index(x)] = check(real(x))
    BY <1>4, <2>1
  <2> QED BY <2>1, <2>3, <2>4
<1>7. \A v \in Old : \E z \in Old : F[z] = v
  <2> SUFFICES ASSUME NEW v \in Old PROVE \E z \in Old : F[z] = v
    OBVIOUS
  <2>1. PICK y \in Old : check(y) = v
    BY <1>1 DEF CheckFacts
  <2>2. PICK x \in Places : real(x) = y
    BY <1>1, <2>1 DEF Numbered
  <2>3. index(x) \in Old
    BY <1>1, <2>2 DEF Numbered
  <2> QED BY <1>4, <2>1, <2>2, <2>3
<1>8. \A y, z \in Old : F[y] = F[z] => y = z
  <2> SUFFICES ASSUME NEW y \in Old, NEW z \in Old, F[y] = F[z] PROVE y = z
    OBVIOUS
  <2>1. PICK a \in Places : index(a) = y
    BY <1>1 DEF Numbered
  <2>2. PICK b \in Places : index(b) = z
    BY <1>1 DEF Numbered
  <2>3. check(real(a)) = check(real(b)) /\ real(a) \in Old /\ real(b) \in Old
    BY <1>1, <1>4, <2>1, <2>2 DEF Numbered
  <2>4. real(a) = real(b)
    BY <1>1, <2>3 DEF CheckFacts
  <2>5. a = b
    BY <1>1, <2>1, <2>2, <2>4 DEF Numbered
  <2> QED BY <2>1, <2>2, <2>5
<1>9. \A v \in Old : inter(v) \in Old /\ F[inter(v)] = v
  BY <1>5, <1>7
<1> HIDE DEF inter
<1>10. f \in [Old -> Old] /\ \A v \in Old : f[v] = inter(v)
  BY <1>9
<1>11. E = {<<f[e[1]], f[e[2]]>> : e \in G.edges}
  <2>1. \A e \in G.edges : e[1] \in Old /\ e[2] \in Old
    BY <1>1 DEF RawType, Old
  <2>2. \A e \in G.edges : f[e[1]] = inter(e[1]) /\ f[e[2]] = inter(e[2])
    BY <1>10, <2>1
  <2> HIDE DEF f
  <2> QED BY <2>2
<1> HIDE DEF E, f
<1>12. \A u, v \in Old : f[u] = f[v] => u = v
  BY <1>9, <1>10
<1>13. \A v \in Old : inDegreeOf(f[v], E) = deg(v)
  BY <1>1, <1>10, <1>11, <1>12, RenamedDegrees
<1>14. g'.n = G.n /\ g'.parts = G.part /\ \A v \in Old : g'.in[v] = inDegreeOf(v, E)
  BY <1>2 DEF inputOf, Old
<1>15. ASSUME NEW x \in Places PROVE g'.in[index(x)] = degreePerN(x[1])
  <2> DEFINE v == check(real(x))
  <2>1. index(x) \in Old /\ v \in Old /\ deg(v) = degreePerN(x[1]) /\ F[index(x)] = v
    BY <1>1, <1>4 DEF Numbered, CheckFacts
  <2> HIDE DEF v
  <2>2. f[v] = index(x)
    BY <1>8, <1>9, <1>10, <2>1
  <2> QED BY <1>13, <1>14, <2>1, <2>2
<1>16. {F[new] : new \in Old} = Old
  BY <1>6, <1>7
<1> QED BY <1>5, <1>14, <1>15, <1>16 DEF F

\* Writing keeps the invariant.
LEMMA WriteStep == PlacementInv /\ Write => PlacementInv'
<1> SUFFICES ASSUME PlacementInv, Write PROVE PlacementInv'
  OBVIOUS
<1>1. stage = "fill" /\ G' = G /\ UNCHANGED placement
  BY DEF Write
<1>2. PlacementType /\ SizesAgree /\ FirstComeFirst /\ Filled
  BY <1>1 DEF PlacementInv, Placing
<1>3. /\ SizesAgree' /\ FirstComeFirst' /\ Filled'
      /\ stage' \in {"assign", "zero", "fill", "written", "wild"} => PlacementType'
      /\ upTo(ver_size, G.part)' = upTo(ver_size, G.part)
      /\ Places' = Places
      /\ \A x : index(x)' = index(x)
      /\ \A j : degreePerN(j)' = degreePerN(j)
  BY <1>1, <1>2, PlacementStays
<1>4. upTo(ver_size, G.part) \in Nat /\ G.n \in Nat
  BY <1>2, PlacesAddUp, RawFacts DEF PlacementType
<1>5. CASE upTo(ver_size, G.part) > G.n
  <2>1. stage' = "wild"
    BY <1>5 DEF Write
  <2>2. (upTo(ver_size, G.part) # G.n)'
    BY <1>1, <1>3, <1>4, <1>5
  <2> QED BY <1>3, <2>1, <2>2 DEF PlacementInv
<1>6. CASE ~(upTo(ver_size, G.part) > G.n)
  <2>1. stage' = "written"
    BY <1>6 DEF Write
  <2>2. upTo(ver_size, G.part) = G.n
    BY <1>2, <1>4, <1>6 DEF Filled
  <2>3. AsManyAsMembers
    BY <1>2, <2>2 DEF Filled, AsManyAsMembers, ClassSet
  <2>4. /\ g'.n = G.n /\ g'.parts = G.part
        /\ DOMAIN fNinter' = Old /\ {fNinter'[new] : new \in Old} = Old
        /\ \A x \in Places : g'.in[index(x)] = degreePerN(x[1])
    BY <1>2, <2>1, <2>3, WritesRight
  <2>5. Old' = Old
    BY <1>1 DEF Old
  <2>6. Dealt'
    BY <1>1, <1>3, <2>2, <2>4, <2>5 DEF Dealt
  <2> QED BY <1>3, <2>1, <2>6 DEF PlacementInv
<1> QED BY <1>5, <1>6

\* Only a written graph has new numbers.
NumbersAreWritten == Reordered => stage = "written"

\* At first nothing is placed.
LEMMA PlacementInit == LInit => PlacementInv /\ NumbersAreWritten
<1> SUFFICES ASSUME LInit PROVE PlacementInv /\ NumbersAreWritten
  OBVIOUS
<1>1. fNinter = <<>>
  BY DEF LInit, VInit
<1>2. ~Reordered
  BY <1>1 DEF Reordered
<1>3. CASE stage = "written"
  BY <1>2, <1>3 DEF PlacementInv, Placing, NumbersAreWritten
<1>4. CASE stage # "written"
  <2>1. /\ G \in Raw /\ stage = "assign" /\ class = 0 /\ k = 0
        /\ perDeg = [p \in Part |-> [j \in ClassSet |-> 0]]
        /\ load = [p \in Part |-> 0] /\ ver_size = [p \in Part |-> 0]
    BY <1>4 DEF LInit, VInit, ClassSet
  <2>2. RawType(G)
    BY <2>1, RawAssumption
  <2>3. classes \in Nat /\ classes # 0 /\ ClassSet = 0 .. classes - 1 /\ IsFiniteSet(Part)
        /\ Part = 0 .. G.part - 1 /\ Max(Degrees) \in Nat
        /\ \A j \in ClassSet : degreePerN(j) \in Nat
    BY <2>2, RawFacts, ClassesAreRanks, LargestDegree DEF ClassFacts, ClassSet, Part
  <2>4. IsFiniteSet(ClassSet)
    <3>1. 0 \in Int /\ classes - 1 \in Int
      BY <2>3
    <3> QED BY <2>3, <3>1, Intervals, Zenon
  <2>5. \A p \in Part : \A j \in ClassSet : perDeg[p][j] = 0
    BY <2>1
  <2>6. SizesAgree
    <3> SUFFICES ASSUME NEW p \in Part PROVE Total(perDeg[p], ClassSet) = 0
      BY <2>1, <2>3, ArraysNow DEF SizesOf, first
    <3> DEFINE f == perDeg[p]
    <3>1. \A j \in ClassSet : f[j] = 0
      BY <2>5
    <3> HIDE DEF f
    <3>2. Total(f, ClassSet) = 0
      BY <2>4, <3>1, TotalNat
    <3> QED BY <3>2 DEF f
  <2>7. LoadsAgree
    <3> SUFFICES ASSUME NEW p \in Part PROVE Total(edgesOf(perDeg, p), ClassSet) = 0
      BY <2>1, <2>3, ArraysNow DEF LoadsOf, first
    <3> DEFINE f == edgesOf(perDeg, p)
    <3>1. \A j \in ClassSet : f[j] = 0
      BY <2>3, <2>5 DEF edgesOf
    <3> HIDE DEF f
    <3>2. Total(f, ClassSet) = 0
      BY <2>4, <3>1, TotalNat
    <3> QED BY <3>2 DEF f
  <2>8. \A j \in ClassSet : perClass(j) = 0
    <3> SUFFICES ASSUME NEW j \in ClassSet PROVE perClass(j) = 0
      OBVIOUS
    <3> DEFINE f == [p \in Part |-> perDeg[p][j]]
    <3>1. \A p \in Part : f[p] = 0
      BY <2>5
    <3>2. perClass(j) = Total(f, Part)
      BY <2>3, ArraysNow DEF perClassOf, first
    <3> HIDE DEF f
    <3>4. IsFiniteSet(Part)
      BY <2>3
    <3>3. Total(f, Part) = 0
      BY <3>1, <3>4, TotalNat
    <3> QED BY <3>2, <3>3
  <2>9. FirstComeFirst /\ Close
    BY <2>1, <2>3 DEF FirstComeFirst, Close
  <2>10. ZerosEven
    BY <2>2, <2>5, ClassesAreRanks DEF ZerosEven, ClassFacts, ClassSet
  <2>11. \A j \in ClassSet : j \in Nat /\ 0 \in ClassSet /\ same(j) \in Nat
    BY <2>2, <2>3, SameAndZero DEF ClassSet
  <2>12. Assigning
    <3>1. \A j \in 0 .. classes - 1 :
            perClass(j) = IF j < class THEN same(j) ELSE IF j = class THEN k ELSE 0
      BY <2>1, <2>3, <2>8, <2>11
    <3>2. 0 \in ClassSet
      BY <2>3
    <3> QED BY <2>1, <2>3, <2>7, <2>9, <2>10, <2>11, <3>1, <3>2 DEF Assigning
  <2>13. PlacementType
    BY <2>1, <2>2, <2>3 DEF PlacementType, ClassSet
  <2> QED BY <1>2, <2>1, <2>6, <2>9, <2>12, <2>13 DEF PlacementInv, NumbersAreWritten
<1> QED BY <1>3, <1>4

\* The steps of VEBO keep it, and those of graphgrind do not touch it.
LEMMA PlacementStep ==
  PlacementInv /\ NumbersAreWritten /\ [LNext]_<<vars, veboVars, lists>>
    => PlacementInv' /\ NumbersAreWritten'
<1> SUFFICES ASSUME PlacementInv, NumbersAreWritten, [LNext]_<<vars, veboVars, lists>>
             PROVE  PlacementInv' /\ NumbersAreWritten'
  OBVIOUS
<1>1. CASE Assign \/ NextClass \/ FillUp \/ AddZero
  <2>1. stage # "written" /\ fNinter' = fNinter
    BY <1>1 DEF Assign, NextClass, FillUp, AddZero
  <2>2. NumbersAreWritten'
    BY <2>1 DEF NumbersAreWritten, Reordered
  <2> QED BY <1>1, <2>2, AssignStep, NextClassStep, FillUpStep, AddZeroStep
<1>2. CASE Write
  <2>1. stage = "fill"
    BY <1>2 DEF Write
  <2>2. stage' = "wild" => fNinter' = fNinter
    BY <1>2 DEF Write
  <2>3. stage' \in {"wild", "written"}
    BY <1>2 DEF Write
  <2>4. NumbersAreWritten'
    BY <2>1, <2>2, <2>3 DEF NumbersAreWritten, Reordered
  <2> QED BY <1>2, <2>4, WriteStep
<1>3. CASE UNCHANGED veboVars /\ g' = g
  <2>1. /\ G' = G /\ UNCHANGED placement /\ stage' = stage /\ fNinter' = fNinter
    BY <1>3 DEF veboVars
  <2>2. Placing' <=> Placing
    BY <2>1 DEF Placing, Reordered
  <2>3. NumbersAreWritten'
    BY <2>1 DEF NumbersAreWritten, Reordered
  <2> SUFFICES ASSUME Placing PROVE PlacementInv'
    BY <2>2, <2>3 DEF PlacementInv
  <2>4. PlacementType /\ stage \in {"assign", "zero", "fill", "written", "wild"}
        /\ SizesAgree /\ FirstComeFirst
    BY DEF PlacementInv, PlacementType
  <2>5. /\ SizesAgree' /\ FirstComeFirst' /\ PlacementType'
        /\ Filled => Filled'
        /\ Assigning => Assigning'
        /\ AddingZeros => AddingZeros'
        /\ upTo(ver_size, G.part)' = upTo(ver_size, G.part)
        /\ Places' = Places
        /\ \A x : index(x)' = index(x)
        /\ \A j : degreePerN(j)' = degreePerN(j)
    BY <2>1, <2>4, PlacementStays
  <2>6. Dealt => Dealt'
    <3>1. Old' = Old
      BY <2>1 DEF Old
    <3> QED BY <1>3, <2>1, <2>5, <3>1 DEF Dealt
  <2> QED BY <2>1, <2>4, <2>5, <2>6 DEF PlacementInv
<1>4. CASE stage = "written" /\ Next /\ UNCHANGED veboVars
  <2>1. UNCHANGED vars => g' = g
    BY DEF vars
  <2>2. g' = g
    BY <1>4, <2>1 DEF Next, CutByVertex, PlaceRelabelled, PlaceByDegree, Place, Overrun, EndOfSizes,
                    ComputeStarts, MmapFailed, NextPartitioner, Ready, Stopped
  <2> QED BY <1>3, <1>4, <2>2
<1>5. CASE UNCHANGED <<vars, veboVars>>
  BY <1>3, <1>5 DEF vars
<1> QED BY <1>1, <1>2, <1>4, <1>5 DEF LNext, VNext

\* In a partition the degrees fall class by class.
LEMMA DealtDegrees ==
  ASSUME PlacementType, SizesAgree, AsManyAsMembers, Dealt,
         NEW p \in Part, NEW j \in ClassSet, NEW a \in Nat, a < perDeg[p][j]
  PROVE  /\ <<j, p, a>> \in Places
         /\ index(<<j, p, a>>) = first(ver_size, p) + (first(perDeg[p], j) + a)
         /\ g.in[first(ver_size, p) + (first(perDeg[p], j) + a)] = degreePerN(j)
<1> DEFINE x == <<j, p, a>>
<1>1. x \in Cells(byClass, classes, G.part)
  <2>1. byClass[j][p] = perDeg[p][j]
    BY DEF byClass
  <2> QED BY <2>1 DEF Cells, ClassSet, Part
<1>2. x \in Places
  BY <1>1, PlacesAreCells
<1>3. index(x) = cell(ver_size, perDeg, flip(x)) /\ flip(x) = <<p, j, a>>
  BY <1>2, PlacesAreCells DEF flip
<1>4. index(x) = first(ver_size, p) + (first(perDeg[p], j) + a)
  BY <1>3 DEF cell
<1>5. g.in[index(x)] = degreePerN(x[1])
  BY <1>2 DEF Dealt
<1> QED BY <1>2, <1>4, <1>5

\* Dealing them out gives each partition its edges.
LEMMA DealtLoads ==
  ASSUME PlacementType, SizesAgree, LoadsAgree, AsManyAsMembers, Dealt, NEW p \in Part
  PROVE  Total(g.in, first(ver_size, p) .. first(ver_size, p) + ver_size[p] - 1) = load[p]
<1> DEFINE b == first(ver_size, p)
           s(j) == first(perDeg[p], j)
           h == edgesOf(perDeg, p)
           R(j) == b .. b + s(j) - 1
           P == {j \in 0 .. classes : IsSummable(g.in, R(j)) /\ Total(g.in, R(j)) = first(h, j)}
<1>1. RawType(G) /\ TableType(perDeg)
  BY DEF PlacementType, TableType, ClassSet
<1>2. classes \in Nat /\ ClassSet = 0 .. classes - 1 /\ \A j \in ClassSet : degreePerN(j) \in Nat
  BY <1>1, ClassesAreRanks DEF ClassFacts, ClassSet
<1>3. IsSizes(perDeg[p], classes) /\ IsSizes(h, classes)
  BY <1>1, TableFacts
<1>4. FirstFacts(perDeg[p], classes) /\ FirstFacts(h, classes)
  BY <1>3, Firsts
<1>5. b \in Nat
  <2>1. FirstFacts(ver_size, G.part)
    BY PlacesMakeTables, CellsAreNumbered, Firsts DEF TablesAgree
  <2>2. p \in 0 .. G.part
    BY <1>1, RawFacts DEF Part
  <2> QED BY <2>1, <2>2 DEF FirstFacts
<1>6. /\ s(0) = 0 /\ first(h, 0) = 0
      /\ \A j \in 0 .. classes : s(j) \in Nat /\ first(h, j) \in Nat
      /\ \A j \in 0 .. classes - 1 : s(j + 1) = s(j) + perDeg[p][j] /\ first(h, j + 1) = first(h, j) + h[j]
  BY <1>4 DEF FirstFacts
<1>7. \A j \in ClassSet : h[j] = perDeg[p][j] * degreePerN(j) /\ perDeg[p][j] \in Nat
  BY <1>1 DEF edgesOf, TableType
<1>8. \A j \in ClassSet : \A a \in Nat : a < perDeg[p][j] => g.in[b + (s(j) + a)] = degreePerN(j)
  BY DealtDegrees
<1> HIDE DEF b, s, h
<1>9. 0 \in P
  <2>1. R(0) = {}
    BY <1>5, <1>6
  <2>2. IsSummable(g.in, {})
    BY FS_EmptySet DEF IsSummable
  <2>3. 0 \in 0 .. classes
    BY <1>2
  <2>4. IsSummable(g.in, R(0))
    BY <2>1, <2>2
  <2>5. Total(g.in, R(0)) = first(h, 0)
    <3>1. Total(g.in, {}) = 0
      BY TotalEmpty
    <3>2. Total(g.in, R(0)) = Total(g.in, {})
      BY <2>1
    <3> QED BY <1>6, <3>1, <3>2
  <2> HIDE DEF R
  <2> QED BY <2>3, <2>4, <2>5
<1>10. ASSUME NEW j \in 0 .. classes - 1, j \in P PROVE j + 1 \in P
  <2> DEFINE C == b + s(j) .. b + s(j) + perDeg[p][j] - 1
             d == degreePerN(j)
             w == perDeg[p][j]
  <2>1. j \in ClassSet /\ j \in 0 .. classes /\ j + 1 \in 0 .. classes
    BY <1>2
  <2>2. s(j) \in Nat /\ w \in Nat /\ d \in Nat /\ s(j + 1) = s(j) + w
    BY <1>2, <1>6, <1>7, <2>1
  <2>3. R(j + 1) = R(j) \union C /\ R(j) \intersect C = {}
    BY <1>5, <2>2
  <2>4. IsFiniteSet(C) /\ Cardinality(C) = w
    <3>1. b + s(j) \in Int /\ b + s(j) + w - 1 \in Int
          /\ (b + s(j) > b + s(j) + w - 1 => w = 0)
          /\ (b + s(j) + w - 1) - (b + s(j)) + 1 = w
      BY <1>5, <2>2
    <3>2. /\ IsFiniteSet(C)
          /\ Cardinality(C) = IF b + s(j) > b + s(j) + w - 1 THEN 0
                              ELSE (b + s(j) + w - 1) - (b + s(j)) + 1
      BY <3>1, Intervals, Zenon
    <3> QED BY <3>1, <3>2
  <2>5. \A v \in C : g.in[v] = d
    <3> SUFFICES ASSUME NEW v \in C PROVE g.in[v] = d
      OBVIOUS
    <3>1. v - (b + s(j)) \in Nat /\ v - (b + s(j)) < w /\ v = b + (s(j) + (v - (b + s(j))))
      BY <1>5, <2>2
    <3> QED BY <1>8, <2>1, <3>1
  <2> HIDE DEF C, R, d, w
  <2>6. IsSummable(g.in, R(j)) /\ Total(g.in, R(j)) = first(h, j)
    BY <1>10
  <2>7. IsSummable(g.in, C)
    BY <2>2, <2>4, <2>5 DEF IsSummable
  <2>8. IsSummable(g.in, R(j + 1))
    <3>1. IsFiniteSet(R(j) \union C)
      BY <2>6, <2>7, FS_Union DEF IsSummable
    <3> QED BY <2>3, <2>6, <2>7, <3>1 DEF IsSummable
  <2>9. Total(g.in, C) = w * d
    <3>1. d \in Int
      BY <2>2
    <3> QED BY <2>4, <2>5, <3>1, TotalConstant
  <2>10. Total(g.in, R(j) \union C) = Total(g.in, R(j)) + Total(g.in, C)
    BY <2>3, <2>6, <2>7, TotalUnion
  <2>11. first(h, j + 1) = first(h, j) + w * d
    BY <1>6, <1>7, <2>1 DEF w, d
  <2> QED BY <2>1, <2>3, <2>6, <2>8, <2>9, <2>10, <2>11
<1>11. \A j \in 0 .. classes : j \in P
  <2> HIDE DEF P
  <2> QED BY <1>2, <1>9, <1>10, BoundedInduction
<1>12. classes \in P
  BY <1>2, <1>11
<1>13. Total(g.in, R(classes)) = first(h, classes)
  BY <1>12
<1>14. ver_size[p] = s(classes) /\ load[p] = first(h, classes)
  BY ArraysNow DEF SizesOf, LoadsOf, s, h
<1> QED BY <1>13, <1>14 DEF b

\* VertexOf is the range of a partition.
LEMMA RangesOfPartitions ==
  ASSUME PlacementType, SizesAgree, AsManyAsMembers, NEW p \in Part
  PROVE  /\ VertexOf(p) = first(ver_size, p) .. first(ver_size, p) + ver_size[p] - 1
         /\ first(ver_size, p) \in Nat
         /\ \A v \in VertexOf(p) : v \in Old /\ InRange(ver_size, p, v)
<1>1. TablesAgree /\ RawType(G) /\ ver_size[p] \in Nat
  BY PlacesMakeTables DEF PlacementType
<1>2. G.part \in Nat /\ Part = 0 .. G.part - 1 /\ Old = 0 .. G.n - 1 /\ G.n \in Nat
  BY <1>1, RawFacts DEF Part, Old
<1>3. IsSizes(ver_size, G.part) /\ first(ver_size, G.part) = G.n
  BY <1>1, CellsAreNumbered DEF TablesAgree
<1>4. FirstFacts(ver_size, G.part)
  BY <1>3, Firsts
<1>5. first(ver_size, p + 1) = first(ver_size, p) + ver_size[p] /\ first(ver_size, p) \in Nat
  <2>1. p \in 0 .. G.part /\ p \in 0 .. G.part - 1
    BY <1>2
  <2> QED BY <1>4, <2>1 DEF FirstFacts
<1>6. VertexOf(p) = first(ver_size, p) .. first(ver_size, p) + ver_size[p] - 1
  <2>1. upTo(ver_size, p) = first(ver_size, p) /\ upTo(ver_size, p + 1) = first(ver_size, p + 1)
    BY UpToIsFirst
  <2>2. VertexOf(p) = first(ver_size, p) .. first(ver_size, p + 1) - 1
    BY <2>1, Zenon DEF VertexOf
  <2> QED BY <1>1, <1>5, <2>2
<1>7. ASSUME NEW v \in VertexOf(p) PROVE v \in Old /\ InRange(ver_size, p, v)
  <2>1. v \in Int /\ InRange(ver_size, p, v)
    BY <1>1, <1>5, <1>6 DEF InRange
  <2>2. v \in 0 .. first(ver_size, G.part) - 1
    BY <1>2, <1>3, <2>1, OneRange
  <2> QED BY <1>2, <1>3, <2>1, <2>2
<1> QED BY <1>5, <1>6, <1>7

\* The placement is right when it has been carried out.
LEMMA PlacementInvIsRight == PlacementInv /\ NumbersAreWritten => PlacementIsRight
<1> SUFFICES ASSUME PlacementInv, NumbersAreWritten PROVE PlacementIsRight
  OBVIOUS
<1>1. ASSUME stage = "wild" PROVE WildOnlyIfOverfull
  BY <1>1 DEF PlacementInv, Placing, Filled, WildOnlyIfOverfull
<1>2. ASSUME Reordered PROVE PlacedAsPlanned /\ PlacementIsBalanced
  <2>1. stage = "written" /\ PlacementType /\ SizesAgree /\ Filled /\ Dealt /\ RawType(G)
    BY <1>2 DEF NumbersAreWritten, PlacementInv, Placing, PlacementType
  <2>2. LoadsAgree /\ AsManyAsMembers /\ ZerosEven /\ Close
    BY <2>1 DEF Filled, Dealt, AsManyAsMembers, ClassSet
  <2>3. PlacedAsPlanned
    <3>1. ASSUME NEW p \in Part PROVE MapThenSumSet(LAMBDA v : g.in[v], VertexOf(p)) = load[p]
      <4>1. Total(g.in, VertexOf(p)) = load[p]
        BY <2>1, <2>2, DealtLoads, RangesOfPartitions
      <4> QED BY <4>1 DEF Total
    <3> QED BY <2>1, <3>1 DEF PlacedAsPlanned, Dealt
  <2>4. ASSUME NEW p \in Part, NEW q \in Part, NEW v \in VertexOf(p), g.in[v] = 0
        PROVE  ver_size[p] - ver_size[q] <= 1
    <3>1. v \in Old /\ InRange(ver_size, p, v)
      BY <2>1, <2>2, RangesOfPartitions
    <3>2. Numbered
      BY <2>1, <2>2, PlacesAreNumbered
    <3>3. PICK x \in Places : index(x) = v
      BY <3>1, <3>2 DEF Numbered
    <3>4. x[1] \in ClassSet /\ x[2] \in Part /\ InRange(ver_size, x[2], v)
      BY <3>2, <3>3 DEF Numbered
    <3>5. x[2] = p
      <4>1. IsSizes(ver_size, G.part)
        BY <2>1, <2>2, PlacesMakeTables, CellsAreNumbered DEF TablesAgree
      <4>2. p \in 0 .. G.part - 1 /\ x[2] \in 0 .. G.part - 1 /\ v \in Int
        BY <2>1, <3>1, <3>4, RawFacts DEF Part, Old
      <4> QED BY <3>1, <3>4, <4>1, <4>2, OneRange
    <3>6. degreePerN(x[1]) = 0
      BY <2>1, <2>4, <3>3 DEF Dealt
    <3>7. 0 \in Degrees /\ degreeN(0) = x[1]
      BY <2>1, <3>4, <3>6, SameAndZero DEF ClassSet
    <3>8. perDeg[p][degreeN(0)] > 0
      <4>1. x[3] < perDeg[p][x[1]] /\ x[3] \in Nat
        <5>1. x \in Cells(byClass, classes, G.part) /\ byClass[x[1]][x[2]] = perDeg[x[2]][x[1]]
          BY <2>1, <2>2, <3>3, <3>4, PlacesAreCells DEF byClass
        <5> QED BY <3>5, <5>1 DEF Cells
      <4>2. perDeg[p][x[1]] \in Nat
        BY <2>1, <3>4 DEF PlacementType, ClassSet
      <4> QED BY <3>7, <4>1, <4>2
    <3>9. ver_size[p] <= ver_size[q] + 1
      BY <2>2, <3>7, <3>8 DEF ZerosEven
    <3>10. ver_size[p] \in Nat /\ ver_size[q] \in Nat
      BY <2>1 DEF PlacementType
    <3> QED BY <3>9, <3>10
  <2> QED BY <2>2, <2>3, <2>4 DEF PlacementIsBalanced, Close
<1> QED BY <1>1, <1>2 DEF PlacementIsRight, PlacedAsPlanned, PlacementIsBalanced, WildOnlyIfOverfull

\* Whatever the graph, VEBO carries out a placement that is balanced, or fills more
\* places than there are vertices, for the one known reason.
THEOREM PlacementsAreRight == LSpec => []PlacementIsRight
<1>1. LInit => PlacementInv /\ NumbersAreWritten
  BY PlacementInit
<1>2. PlacementInv /\ NumbersAreWritten /\ [LNext]_<<vars, veboVars, lists>>
        => (PlacementInv /\ NumbersAreWritten)'
  BY PlacementStep
<1>3. PlacementInv /\ NumbersAreWritten => PlacementIsRight
  BY PlacementInvIsRight
<1> QED BY <1>1, <1>2, <1>3, PTL DEF LSpec

-----------------------------------------------------------------------------
(***************************************************************************)
(* graphgrind cuts where VEBO began a partition.                           *)
(***************************************************************************)
\* The placement has been carried out.
CarriedOut ==
  PlacementType /\ SizesAgree /\ LoadsAgree /\ AsManyAsMembers /\ FirstComeFirst /\ Dealt

\* The new number v stands for the a-th vertex of the class j in the partition p.
StandsFor(v, p, j, a) ==
  /\ p \in Part /\ j \in ClassSet /\ a \in Nat /\ a < perDeg[p][j]
  /\ v = first(ver_size, p) + (first(perDeg[p], j) + a)
  /\ InRange(ver_size, p, v)
  /\ g.in[v] = degreePerN(j)

\* Every new number stands for one.
LEMMA NumbersHavePlaces ==
  CarriedOut => \A v \in Old : \E p, j, a : StandsFor(v, p, j, a)
<1> SUFFICES ASSUME CarriedOut, NEW v \in Old PROVE \E p, j, a : StandsFor(v, p, j, a)
  OBVIOUS
<1>1. PlacementType /\ SizesAgree /\ AsManyAsMembers /\ Dealt
  BY DEF CarriedOut
<1>2. Numbered
  BY <1>1, PlacesAreNumbered
<1>3. PICK x \in Places : index(x) = v
  BY <1>2 DEF Numbered
<1>4. /\ x \in Cells(byClass, classes, G.part)
      /\ flip(x) = <<x[2], x[1], x[3]>> /\ index(x) = cell(ver_size, perDeg, flip(x))
  BY <1>1, <1>3, PlacesAreCells DEF flip
<1>5. x[1] \in ClassSet /\ x[2] \in Part /\ InRange(ver_size, x[2], v)
  BY <1>2, <1>3 DEF Numbered
<1>6. x[3] \in Nat /\ x[3] < perDeg[x[2]][x[1]]
  <2>1. byClass[x[1]][x[2]] = perDeg[x[2]][x[1]]
    BY <1>5 DEF byClass
  <2> QED BY <1>4, <2>1 DEF Cells
<1>7. v = first(ver_size, x[2]) + (first(perDeg[x[2]], x[1]) + x[3])
  BY <1>3, <1>4 DEF cell
<1>8. g.in[v] = degreePerN(x[1])
  BY <1>1, <1>3 DEF Dealt
<1> QED BY <1>5, <1>6, <1>7, <1>8 DEF StandsFor

\* What a carried out placement is made of.
CarriedFacts ==
  /\ RawType(G) /\ ClassFacts /\ classes \in Nat /\ ClassSet = 0 .. classes - 1
  /\ G.part \in Nat /\ G.part # 0 /\ Part = 0 .. G.part - 1
  /\ G.n \in Nat /\ Old = 0 .. G.n - 1
  /\ g.n = G.n /\ g.parts = G.part
  /\ IsSizes(ver_size, G.part) /\ FirstFacts(ver_size, G.part) /\ first(ver_size, G.part) = G.n
  /\ \A p \in Part : IsSizes(perDeg[p], classes) /\ FirstFacts(perDeg[p], classes)
  /\ \A p \in Part : IsSizes(edgesOf(perDeg, p), classes) /\ FirstFacts(edgesOf(perDeg, p), classes)
  /\ \A j \in ClassSet : degreePerN(j) \in Nat
  /\ \A p \in Part : ver_size[p] \in Nat /\ load[p] \in Nat
  /\ \A p \in Part : \A j \in ClassSet : perDeg[p][j] \in Nat

\* It has the shapes that the lemmas on sums ask for.
LEMMA CarriedOutFacts == CarriedOut => CarriedFacts
<1> SUFFICES ASSUME CarriedOut PROVE CarriedFacts
  OBVIOUS
<1>1. PlacementType /\ SizesAgree /\ AsManyAsMembers /\ Dealt /\ RawType(G) /\ TableType(perDeg)
  BY DEF CarriedOut, PlacementType, TableType, ClassSet
<1>2. ClassFacts
  BY <1>1, ClassesAreRanks
<1>3. classes \in Nat /\ ClassSet = 0 .. classes - 1 /\ \A j \in ClassSet : degreePerN(j) \in Nat
  BY <1>2 DEF ClassFacts, ClassSet
<1>4. G.part \in Nat /\ G.part # 0 /\ Part = 0 .. G.part - 1 /\ G.n \in Nat /\ Old = 0 .. G.n - 1
  BY <1>1, RawFacts DEF Part, Old
<1>5. IsSizes(ver_size, G.part) /\ first(ver_size, G.part) = G.n
  BY <1>1, PlacesMakeTables, CellsAreNumbered DEF TablesAgree
<1>6. \A p \in Part : IsSizes(perDeg[p], classes) /\ IsSizes(edgesOf(perDeg, p), classes)
  BY <1>1, TableFacts
<1>7. FirstFacts(ver_size, G.part)
  BY <1>5, Firsts
<1>8. \A p \in Part : FirstFacts(perDeg[p], classes) /\ FirstFacts(edgesOf(perDeg, p), classes)
  BY <1>6, Firsts
<1>9. /\ \A p \in Part : ver_size[p] \in Nat /\ load[p] \in Nat
      /\ \A p \in Part : \A j \in ClassSet : perDeg[p][j] \in Nat
  BY <1>1 DEF PlacementType, ClassSet
<1>10. g.n = G.n /\ g.parts = G.part
  BY <1>1 DEF Dealt
<1> QED BY <1>1, <1>2, <1>3, <1>4, <1>5, <1>6, <1>7, <1>8, <1>9, <1>10 DEF CarriedFacts

\* Within a partition the in-degree does not rise.
LEMMA RisesAreBegins ==
  CarriedOut => \A v \in vertexRises : \E p \in 1 .. G.part - 1 : v = first(ver_size, p)
<1> SUFFICES ASSUME CarriedOut, NEW v \in vertexRises
             PROVE  \E p \in 1 .. G.part - 1 : v = first(ver_size, p)
  OBVIOUS
<1>1. CarriedFacts
  BY CarriedOutFacts
<1>2. v \in Old /\ v - 1 \in Old /\ v \in Nat /\ v # 0 /\ g.in[v] > g.in[v - 1]
  BY <1>1 DEF vertexRises, CarriedFacts
<1>3. PICK p, j, a : StandsFor(v, p, j, a)
  BY <1>2, NumbersHavePlaces
<1>4. PICK q, l, b : StandsFor(v - 1, q, l, b)
  BY <1>2, NumbersHavePlaces
<1>5. p \in Part /\ q \in Part /\ p \in 0 .. G.part - 1 /\ q \in 0 .. G.part - 1
      /\ j \in ClassSet /\ l \in ClassSet /\ j \in 0 .. classes - 1 /\ l \in 0 .. classes - 1
  BY <1>1, <1>3, <1>4 DEF StandsFor, CarriedFacts
<1>6. first(ver_size, p) \in Nat /\ ver_size[p] \in Nat /\ G.part \in Nat /\ classes \in Nat
      /\ first(ver_size, 0) = 0
  <2>1. FirstFacts(ver_size, G.part) /\ ver_size[p] \in Nat /\ G.part \in Nat /\ classes \in Nat
    BY <1>1, <1>5 DEF CarriedFacts
  <2>2. p \in 0 .. G.part
    BY <1>5, <2>1
  <2> QED BY <2>1, <2>2 DEF FirstFacts
<1>7. ASSUME v # first(ver_size, p) PROVE FALSE
  <2>1. InRange(ver_size, p, v - 1)
    BY <1>2, <1>3, <1>6, <1>7 DEF StandsFor, InRange
  <2>2. q = p
    <3>1. InRange(ver_size, q, v - 1) /\ v - 1 \in Int /\ IsSizes(ver_size, G.part)
      BY <1>1, <1>2, <1>4 DEF StandsFor, CarriedFacts
    <3> QED BY <1>5, <2>1, <3>1, OneRange
  <2>3. FirstFacts(perDeg[p], classes)
    BY <1>1, <1>5 DEF CarriedFacts
  <2>4. /\ first(perDeg[p], j) \in Nat /\ first(perDeg[p], l) \in Nat
        /\ first(perDeg[p], j + 1) = first(perDeg[p], j) + perDeg[p][j]
        /\ first(perDeg[p], j + 1) \in Nat
        /\ j + 1 <= l => first(perDeg[p], j + 1) <= first(perDeg[p], l)
    <3>1. j \in 0 .. classes /\ l \in 0 .. classes /\ j + 1 \in 0 .. classes
      BY <1>5, <1>6
    <3> QED BY <1>5, <2>3, <3>1 DEF FirstFacts
  <2>5. /\ a \in Nat /\ b \in Nat /\ a < perDeg[p][j] /\ perDeg[p][j] \in Nat
        /\ v = first(ver_size, p) + (first(perDeg[p], j) + a)
        /\ v - 1 = first(ver_size, p) + (first(perDeg[p], l) + b)
    BY <1>1, <1>3, <1>4, <1>5, <2>2 DEF StandsFor, CarriedFacts
  <2>6. ~(j + 1 <= l)
    BY <1>6, <2>4, <2>5
  <2>7. l = j \/ l < j
    BY <1>5, <1>6, <2>6
  <2>8. degreePerN(l) >= degreePerN(j)
    <3>1. degreePerN(l) \in Nat /\ degreePerN(j) \in Nat
      BY <1>1, <1>5 DEF CarriedFacts
    <3>2. l < j => degreePerN(l) > degreePerN(j)
      BY <1>1, <1>5 DEF CarriedFacts, ClassFacts
    <3> QED BY <2>7, <3>1, <3>2
  <2>9. g.in[v] = degreePerN(j) /\ g.in[v - 1] = degreePerN(l)
        /\ degreePerN(l) \in Nat /\ degreePerN(j) \in Nat
    BY <1>1, <1>3, <1>4, <1>5 DEF StandsFor, CarriedFacts
  <2> QED BY <1>2, <2>8, <2>9
<1>8. v = first(ver_size, p)
  BY <1>7
<1>9. p # 0
  BY <1>2, <1>6, <1>8
<1>10. p \in 1 .. G.part - 1
  BY <1>5, <1>6, <1>9
<1> QED BY <1>8, <1>10

\* A partition has edges when one of its vertices has.
LEMMA EdgesAreCounted ==
  CarriedOut => \A v \in Old : g.in[v] > 0 =>
                  \E q \in Part : InRange(ver_size, q, v) /\ load[q] > 0
<1> SUFFICES ASSUME CarriedOut, NEW v \in Old, g.in[v] > 0
             PROVE  \E q \in Part : InRange(ver_size, q, v) /\ load[q] > 0
  OBVIOUS
<1>1. CarriedFacts
  BY CarriedOutFacts
<1>2. PICK q, j, a : StandsFor(v, q, j, a)
  BY NumbersHavePlaces
<1> DEFINE h == edgesOf(perDeg, q)
<1>3. q \in Part /\ j \in ClassSet /\ a \in Nat /\ a < perDeg[q][j] /\ perDeg[q][j] \in Nat
      /\ degreePerN(j) \in Nat /\ degreePerN(j) > 0
  BY <1>1, <1>2 DEF StandsFor, CarriedFacts
<1>4. h[j] = perDeg[q][j] * degreePerN(j)
  BY <1>3 DEF edgesOf
<1>5. h[j] \in Nat /\ h[j] > 0
  <2> DEFINE x == perDeg[q][j]
             y == degreePerN(j)
  <2>1. x \in Nat /\ x > 0 /\ y \in Nat /\ y > 0 /\ h[j] = x * y
    BY <1>3, <1>4
  <2> HIDE DEF x, y, h
  <2> QED BY <2>1
<1>6. FirstFacts(h, classes) /\ load[q] = first(h, classes)
  <2>1. LoadsAgree
    BY DEF CarriedOut
  <2>2. load[q] = first(h, classes)
    BY <1>3, <2>1, ArraysNow DEF LoadsOf
  <2> QED BY <1>1, <1>3, <2>2 DEF CarriedFacts
<1> HIDE DEF h
<1>7. /\ first(h, j) \in Nat /\ first(h, j + 1) = first(h, j) + h[j]
      /\ first(h, j + 1) <= first(h, classes) /\ first(h, classes) \in Nat
  <2>1. j \in 0 .. classes /\ j \in 0 .. classes - 1 /\ j + 1 \in 0 .. classes
        /\ classes \in 0 .. classes /\ j + 1 <= classes
    BY <1>1, <1>3 DEF CarriedFacts
  <2> QED BY <1>6, <2>1 DEF FirstFacts
<1>8. load[q] > 0
  BY <1>5, <1>6, <1>7
<1> QED BY <1>2, <1>3, <1>8 DEF StandsFor

\* The in-degree rises at the beginning of every partition but the first.
AllRise ==
  \A p \in 1 .. G.part - 1 :
    /\ first(ver_size, p) \in 1 .. G.n - 1
    /\ g.in[first(ver_size, p)] > g.in[first(ver_size, p) - 1]

\* Then no partition but the last is empty.
LEMMA NoneIsEmpty ==
  CarriedOut /\ InputType(g) /\ AllRise =>
    \A p \in 1 .. G.part - 2 : first(ver_size, p) < first(ver_size, p + 1)
<1> SUFFICES ASSUME CarriedOut, InputType(g), AllRise, NEW p \in 1 .. G.part - 2,
                    ~(first(ver_size, p) < first(ver_size, p + 1))
             PROVE  FALSE
  OBVIOUS
<1> DEFINE v == first(ver_size, p + 1)
<1>1. CarriedFacts
  BY CarriedOutFacts
<1>2. p \in Part /\ p + 1 \in 1 .. G.part - 1 /\ p \in 0 .. G.part - 1 /\ p + 1 \in 0 .. G.part
      /\ p \in 0 .. G.part
  BY <1>1 DEF CarriedFacts
<1>3. FirstFacts(ver_size, G.part) /\ ver_size[p] \in Nat
  BY <1>1, <1>2 DEF CarriedFacts
<1>4. v = first(ver_size, p) + ver_size[p] /\ first(ver_size, p) \in Nat /\ v \in Nat
  BY <1>2, <1>3 DEF FirstFacts
<1>5. ver_size[p] = 0
  BY <1>3, <1>4
<1>6. v \in 1 .. G.n - 1 /\ g.in[v] > g.in[v - 1]
  BY <1>2 DEF AllRise
<1>7. v \in Old /\ g.in[v] > 0
  <2>1. v \in Old /\ v - 1 \in 0 .. g.n - 1 /\ v \in 0 .. g.n - 1
    BY <1>1, <1>6 DEF CarriedFacts
  <2>2. g.in[v] \in Nat /\ g.in[v - 1] \in Nat
    BY <2>1 DEF InputType
  <2> QED BY <1>6, <2>1, <2>2
<1> HIDE DEF v
<1>8. PICK q \in Part : InRange(ver_size, q, v) /\ load[q] > 0
  BY <1>7, EdgesAreCounted
<1>9. q \in 0 .. G.part - 1 /\ q + 1 \in 0 .. G.part /\ ver_size[q] \in Nat /\ G.part \in Nat
  BY <1>1, <1>8 DEF CarriedFacts
<1>10. p < q
  <2> SUFFICES ASSUME q <= p PROVE FALSE
    BY <1>2, <1>9
  <2>1. first(ver_size, q + 1) = first(ver_size, q) + ver_size[q]
    BY <1>3, <1>9 DEF FirstFacts
  <2>2. q + 1 <= p + 1
    BY <1>2, <1>9
  <2>3. first(ver_size, q + 1) <= v
    BY <1>2, <1>3, <1>9, <2>2 DEF FirstFacts, v
  <2>4. first(ver_size, q + 1) \in Nat
    BY <1>3, <1>9 DEF FirstFacts
  <2> QED BY <1>4, <1>8, <2>1, <2>3, <2>4 DEF InRange
<1>11. load[p] > 0
  BY <1>2, <1>8, <1>10 DEF CarriedOut, FirstComeFirst
<1>12. load[p] = 0
  <2>1. Total(g.in, first(ver_size, p) .. first(ver_size, p) + ver_size[p] - 1) = load[p]
    BY <1>2, DealtLoads DEF CarriedOut
  <2>2. first(ver_size, p) .. first(ver_size, p) + ver_size[p] - 1 = {}
    BY <1>4, <1>5
  <2>3. Total(g.in, {}) = 0
    BY TotalEmpty
  <2> QED BY <2>1, <2>2, <2>3
<1> QED BY <1>11, <1>12

\* The partitions begin at the rises, in their order.
BeginsAreRises ==
  /\ IsFiniteSet(vertexRises) /\ vertexRises \subseteq Int
  /\ Cardinality(vertexRises) = G.part - 1
  /\ \A p \in 1 .. G.part - 1 : IsPlace(p, vertexRises, first(ver_size, p))

\* It is so when the in-degree rises at all of them.
LEMMA BeginsAreAllRises == CarriedOut /\ InputType(g) /\ AllRise => BeginsAreRises
<1> SUFFICES ASSUME CarriedOut, InputType(g), AllRise PROVE BeginsAreRises
  OBVIOUS
<1> DEFINE B(p) == first(ver_size, p)
           upto(p) == {B(q) : q \in 1 .. p - 1}
<1>1. CarriedFacts
  BY CarriedOutFacts
<1>2. G.part \in Nat /\ FirstFacts(ver_size, G.part) /\ G.n \in Nat /\ g.n = G.n
  BY <1>1 DEF CarriedFacts
<1>3. \A p \in 1 .. G.part - 1 : B(p) \in vertexRises /\ B(p) \in Nat
  BY <1>2 DEF AllRise, vertexRises
<1>4. \A v \in vertexRises : \E p \in 1 .. G.part - 1 : v = B(p)
  BY RisesAreBegins
<1>5. \A p, q \in 1 .. G.part - 1 : p < q => B(p) < B(q)
  <2> SUFFICES ASSUME NEW p \in 1 .. G.part - 1, NEW q \in 1 .. G.part - 1, p < q
               PROVE  B(p) < B(q)
    OBVIOUS
  <2>1. p \in 1 .. G.part - 2 /\ p + 1 \in 0 .. G.part /\ q \in 0 .. G.part /\ p + 1 <= q
    BY <1>2
  <2>2. B(p) < B(p + 1)
    BY <2>1, NoneIsEmpty
  <2>3. B(p + 1) <= B(q) /\ B(p + 1) \in Nat /\ B(q) \in Nat
    BY <1>2, <2>1 DEF FirstFacts
  <2>4. B(p) \in Nat
    BY <1>3
  <2> HIDE DEF B
  <2> QED BY <2>2, <2>3, <2>4
<1> HIDE DEF B
<1>6. \A p \in 1 .. G.part : IsFiniteSet(upto(p)) /\ Cardinality(upto(p)) = p - 1
  <2> SUFFICES ASSUME NEW p \in 1 .. G.part
               PROVE  IsFiniteSet(upto(p)) /\ Cardinality(upto(p)) = p - 1
    OBVIOUS
  <2> DEFINE S == 1 .. p - 1
             h == [q \in S |-> B(q)]
  <2>1. p \in Nat /\ S \subseteq 1 .. G.part - 1
    BY <1>2
  <2>2. IsFiniteSet(S) /\ Cardinality(S) = p - 1
    <3>1. 1 \in Int /\ p - 1 \in Int /\ (1 > p - 1 => p - 1 = 0) /\ (p - 1) - 1 + 1 = p - 1
      BY <2>1
    <3>2. /\ IsFiniteSet(S)
          /\ Cardinality(S) = IF 1 > p - 1 THEN 0 ELSE (p - 1) - 1 + 1
      BY <3>1, Intervals, Zenon
    <3> QED BY <3>1, <3>2
  <2>3. \A q, r \in S : h[q] = h[r] => q = r
    <3> SUFFICES ASSUME NEW q \in S, NEW r \in S, B(q) = B(r) PROVE q = r
      OBVIOUS
    <3>1. q \in 1 .. G.part - 1 /\ r \in 1 .. G.part - 1
      BY <2>1
    <3>2. B(q) \in Nat /\ B(r) \in Nat /\ (q < r => B(q) < B(r)) /\ (r < q => B(r) < B(q))
      BY <1>3, <1>5, <3>1
    <3> QED BY <3>1, <3>2
  <2>4. h \in [S -> upto(p)] /\ \A y \in upto(p) : \E q \in S : h[q] = y
    OBVIOUS
  <2> HIDE DEF S, h, upto
  <2>5. h \in Bijection(S, upto(p))
    BY <2>3, <2>4 DEF Bijection, Injection, IsInjective, Surjection
  <2> QED BY <2>2, <2>5, FS_Bijection DEF ExistsBijection
<1>7. ASSUME NEW p \in 1 .. G.part - 1 PROVE {y \in vertexRises : y < B(p)} = upto(p)
  <2>1. ASSUME NEW y \in vertexRises, y < B(p) PROVE y \in upto(p)
    <3>1. PICK q \in 1 .. G.part - 1 : y = B(q)
      BY <1>4
    <3>2. ~(p < q) /\ q # p
      BY <1>3, <1>5, <2>1, <3>1
    <3>3. q \in 1 .. p - 1
      BY <1>2, <3>1, <3>2
    <3> QED BY <3>1, <3>3
  <2>2. ASSUME NEW q \in 1 .. p - 1 PROVE B(q) \in vertexRises /\ B(q) < B(p)
    <3>1. q \in 1 .. G.part - 1 /\ q < p
      BY <1>2
    <3> QED BY <1>3, <1>5, <3>1
  <2> QED BY <2>1, <2>2
<1>8. vertexRises = upto(G.part)
  BY <1>3, <1>4
<1>9. G.part \in 1 .. G.part /\ \A p \in 1 .. G.part - 1 : p \in 1 .. G.part
  BY <1>1, <1>2 DEF CarriedFacts
<1>10. IsFiniteSet(vertexRises) /\ Cardinality(vertexRises) = G.part - 1
  BY <1>6, <1>8, <1>9
<1>11. vertexRises \subseteq Int
  BY DEF vertexRises
<1>12. ASSUME NEW p \in 1 .. G.part - 1 PROVE IsPlace(p, vertexRises, B(p))
  <2>1. Cardinality({y \in vertexRises : y < B(p)}) = p - 1
    BY <1>6, <1>7, <1>9
  <2> QED BY <1>3, <2>1 DEF IsPlace
<1> QED BY <1>10, <1>11, <1>12 DEF BeginsAreRises, B

\* Where graphgrind has cut.
LEMMA CutsAreBegins ==
  CarriedOut /\ InputType(g) /\ BeginAt(vertexRises, starts["coo"], g.n) =>
    /\ \A p \in 1 .. LastPart : \E q \in 1 .. G.part : starts["coo"][p] = first(ver_size, q)
    /\ AllRise => \A p \in 1 .. G.part - 1 : starts["coo"][p] = first(ver_size, p)
<1> SUFFICES ASSUME CarriedOut, InputType(g), BeginAt(vertexRises, starts["coo"], g.n)
             PROVE
    /\ \A p \in 1 .. LastPart : \E q \in 1 .. G.part : starts["coo"][p] = first(ver_size, q)
    /\ AllRise => \A p \in 1 .. G.part - 1 : starts["coo"][p] = first(ver_size, p)
  OBVIOUS
<1> DEFINE f == starts["coo"]
<1>1. CarriedFacts
  BY CarriedOutFacts
<1>2. /\ G.part \in Nat /\ G.part # 0 /\ LastPart = G.part - 1
      /\ first(ver_size, G.part) = g.n
  BY <1>1 DEF CarriedFacts, LastPart
<1>3. PICK c \in 0 .. LastPart :
        /\ \A p \in 1 .. c : IsPlace(p, vertexRises, f[p])
        /\ \A p \in c + 1 .. LastPart : f[p] = g.n
        /\ c < LastPart => Cardinality(vertexRises) = c
  BY DEF BeginAt
<1> HIDE DEF f
<1>4. ASSUME NEW p \in 1 .. LastPart PROVE \E q \in 1 .. G.part : f[p] = first(ver_size, q)
  <2>1. CASE p \in 1 .. c
    <3>1. f[p] \in vertexRises
      BY <1>3, <2>1 DEF IsPlace
    <3>2. PICK q \in 1 .. G.part - 1 : f[p] = first(ver_size, q)
      BY <3>1, RisesAreBegins
    <3>3. q \in 1 .. G.part
      BY <1>2
    <3> QED BY <3>2, <3>3
  <2>2. CASE p \in c + 1 .. LastPart
    <3>1. G.part \in 1 .. G.part
      BY <1>2
    <3> QED BY <1>2, <1>3, <2>2, <3>1
  <2>3. p \in 1 .. c \/ p \in c + 1 .. LastPart
    BY <1>2, <1>3
  <2> QED BY <2>1, <2>2, <2>3
<1>5. ASSUME AllRise, NEW p \in 1 .. G.part - 1 PROVE f[p] = first(ver_size, p)
  <2>1. BeginsAreRises
    BY <1>5, BeginsAreAllRises
  <2>2. c = LastPart
    BY <1>2, <1>3, <2>1 DEF BeginsAreRises
  <2>3. IsPlace(p, vertexRises, f[p]) /\ IsPlace(p, vertexRises, first(ver_size, p))
    BY <1>2, <1>3, <2>1, <2>2 DEF BeginsAreRises
  <2> QED BY <2>1, <2>3, PlacesAreUnique DEF BeginsAreRises
<1> QED BY <1>4, <1>5 DEF f

\* What VEBO writes is cut with -o.
RelabelIsSet == (stage # "written" => G.vebo) /\ (Reordered => g.relabel)

\* At first nothing is reordered.
LEMMA RelabelInit == LInit => RelabelIsSet
BY DEF LInit, VInit, RelabelIsSet, Reordered

\* VEBO runs only when -o will be given.
LEMMA RelabelStep ==
  RelabelIsSet /\ [LNext]_<<vars, veboVars, lists>> => RelabelIsSet'
<1> SUFFICES ASSUME RelabelIsSet, [LNext]_<<vars, veboVars, lists>> PROVE RelabelIsSet'
  OBVIOUS
<1>1. CASE Write
  <2>1. stage = "fill" /\ G' = G /\ G.vebo
    BY <1>1 DEF Write, RelabelIsSet
  <2>2. CASE g' = g /\ fNinter' = fNinter
    BY <2>1, <2>2 DEF RelabelIsSet, Reordered
  <2>3. CASE g'.relabel
    BY <2>1, <2>3 DEF RelabelIsSet
  <2>4. (g' = g /\ fNinter' = fNinter) \/ g'.relabel
    BY <1>1, <2>1 DEF Write, inputOf
  <2> QED BY <2>2, <2>3, <2>4
<1>2. CASE ~Write
  <2>1. UNCHANGED vars => g' = g
    BY DEF vars
  <2>2. Next => g' = g
    BY <2>1 DEF Next, CutByVertex, PlaceRelabelled, PlaceByDegree, Place, Overrun, EndOfSizes,
                ComputeStarts, MmapFailed, NextPartitioner, Ready, Stopped
  <2>3. /\ g' = g /\ G' = G /\ fNinter' = fNinter
        /\ stage' # "written" => stage # "written"
    BY <1>2, <2>1, <2>2 DEF LNext, VNext, veboVars, Assign, NextClass, FillUp, AddZero
  <2> QED BY <2>3 DEF RelabelIsSet, Reordered
<1> QED BY <1>1, <1>2

\* The cuts of a reordered graph.
LEMMA CutsAreThoseOfVebo ==
  GraphInv /\ PlacementInv /\ NumbersAreWritten /\ RelabelIsSet => CutsAreVebos
<1> SUFFICES ASSUME GraphInv, PlacementInv, NumbersAreWritten, RelabelIsSet,
                    control = "ready", Reordered
             PROVE  /\ {starts["coo"][p] : p \in 1 .. LastPart} \subseteq {upTo(ver_size, p) : p \in 1 .. G.part}
                    /\ (\A p \in 1 .. G.part - 1 :
                          /\ upTo(ver_size, p) \in 1 .. G.n - 1
                          /\ g.in[upTo(ver_size, p)] > g.in[upTo(ver_size, p) - 1])
                         => \A p \in Part : starts["coo"][p] = upTo(ver_size, p)
  BY DEF CutsAreVebos
<1>1. CarriedOut
  <2>1. stage = "written" /\ Placing /\ PlacementType /\ SizesAgree /\ FirstComeFirst /\ Filled /\ Dealt
    BY DEF NumbersAreWritten, PlacementInv, Placing
  <2> QED BY <2>1 DEF CarriedOut, Filled, Dealt, AsManyAsMembers, ClassSet
<1>2. InputType(g) /\ which = "csc" /\ Tiles("coo") /\ CutsAtRises /\ g.relabel
  BY DEF GraphInv, CutInv, ReasonInv, TypeOK, SizesAddUp, RelabelIsSet
<1>3. BeginAt(vertexRises, starts["coo"], g.n)
  BY <1>2 DEF CutsAtRises
<1>4. \A p : upTo(ver_size, p) = first(ver_size, p)
  BY UpToIsFirst
<1>5. starts["coo"][0] = 0 /\ first(ver_size, 0) = 0
  BY <1>1, <1>2, CarriedOutFacts DEF Tiles, CarriedFacts, FirstFacts
<1>6. \A p \in Part : p = 0 \/ p \in 1 .. G.part - 1
  BY <1>1, CarriedOutFacts DEF CarriedFacts
<1>7. \A p \in 1 .. LastPart : \E q \in 1 .. G.part : starts["coo"][p] = first(ver_size, q)
  BY <1>1, <1>2, <1>3, CutsAreBegins
<1>8. AllRise => \A p \in 1 .. G.part - 1 : starts["coo"][p] = first(ver_size, p)
  BY <1>1, <1>2, <1>3, CutsAreBegins
<1>9. {starts["coo"][p] : p \in 1 .. LastPart} \subseteq {upTo(ver_size, p) : p \in 1 .. G.part}
  BY <1>4, <1>7
<1>10. ASSUME \A p \in 1 .. G.part - 1 :
                 /\ upTo(ver_size, p) \in 1 .. G.n - 1
                 /\ g.in[upTo(ver_size, p)] > g.in[upTo(ver_size, p) - 1]
       PROVE  \A p \in Part : starts["coo"][p] = upTo(ver_size, p)
  <2>1. AllRise
    BY <1>4, <1>10 DEF AllRise
  <2> QED BY <1>4, <1>5, <1>6, <1>8, <2>1
<1> QED BY <1>9, <1>10

\* -o cuts a reordered graph where VEBO began its partitions and nowhere else, and
\* with any graph exactly where the in-degree rises.
THEOREM CutsFindThePartitions == LSpec => []CutsAreRight
<1>1. LInit => RelabelIsSet /\ PlacementInv /\ NumbersAreWritten /\ GraphInv
  BY RelabelInit, PlacementInit, GraphInit
<1>2. RelabelIsSet /\ PlacementInv /\ NumbersAreWritten /\ GraphInv
        /\ [LNext]_<<vars, veboVars, lists>>
        => (RelabelIsSet /\ PlacementInv /\ NumbersAreWritten /\ GraphInv)'
  BY RelabelStep, PlacementStep, GraphStep
<1>3. RelabelIsSet /\ PlacementInv /\ NumbersAreWritten /\ GraphInv => CutsAreRight
  BY CutsAreThoseOfVebo, CutsFollowRises DEF GraphInv, CutsAreRight
<1> QED BY <1>1, <1>2, <1>3, PTL DEF LSpec

-----------------------------------------------------------------------------
(***************************************************************************)
(* Recursive functions.                                                    *)
(***************************************************************************)
\* f is given on B, and elsewhere follows from an element nearer to B.
Recurses(S, B, b, prev, step, f) ==
  \A s \in S : f[s] = IF s \in B THEN b[s] ELSE step[<<s, f[prev[s]]>>]

\* It is nearer to B: mu counts down.
Descends(S, T, B, b, prev, step, mu, n) ==
  /\ n \in Nat /\ mu \in [S -> 0 .. n]
  /\ b \in [S -> T] /\ prev \in [S -> S]
  /\ \A s \in S : s \notin B => mu[prev[s]] < mu[s] /\ \A t \in T : step[<<s, t>>] \in T

\* Then there is such a function.
LEMMA RecursiveFunction ==
  \A S, T, B, b, prev, step, mu, n :
    Descends(S, T, B, b, prev, step, mu, n) =>
      \E f \in [S -> T] : Recurses(S, B, b, prev, step, f)
<1> SUFFICES ASSUME NEW S, NEW T, NEW B, NEW b, NEW prev, NEW step, NEW mu, NEW n,
                    Descends(S, T, B, b, prev, step, mu, n)
             PROVE  \E f \in [S -> T] : Recurses(S, B, b, prev, step, f)
  OBVIOUS
<1> DEFINE next(f) == [s \in S |-> IF s \in B THEN b[s] ELSE step[<<s, f[prev[s]]>>]]
           Good(f, j) == \A s \in S : mu[s] < j => f[s] = next(f)[s]
           P == {j \in Nat : \E f \in [S -> T] : Good(f, j)}
<1>1. /\ n \in Nat /\ \A s \in S : mu[s] \in 0 .. n
      /\ b \in [S -> T] /\ \A s \in S : prev[s] \in S
      /\ \A s \in S : s \notin B => mu[prev[s]] < mu[s] /\ \A t \in T : step[<<s, t>>] \in T
  BY DEF Descends
<1>2. \A f \in [S -> T] : next(f) \in [S -> T]
  <2> SUFFICES ASSUME NEW f \in [S -> T], NEW s \in S
               PROVE  (IF s \in B THEN b[s] ELSE step[<<s, f[prev[s]]>>]) \in T
    OBVIOUS
  <2>1. f[prev[s]] \in T
    BY <1>1
  <2> QED BY <1>1, <2>1
<1>3. 0 \in P
  <2>1. Good(b, 0)
    BY <1>1
  <2> QED BY <1>1, <2>1
<1>4. \A j \in 0 .. (n + 1) - 1 : j \in P => j + 1 \in P
  <2> SUFFICES ASSUME NEW j \in Nat, j \in P PROVE j + 1 \in P
    BY <1>1
  <2>1. PICK f \in [S -> T] : Good(f, j)
    OBVIOUS
  <2> DEFINE h == next(f)
  <2>2. h \in [S -> T]
    BY <1>2
  <2>3. ASSUME NEW s \in S, mu[s] < j + 1 PROVE h[s] = next(h)[s]
    <3>1. CASE s \in B
      BY <3>1
    <3>2. CASE s \notin B
      <4>1. mu[prev[s]] < j /\ prev[s] \in S
        BY <1>1, <2>3, <3>2
      <4>2. f[prev[s]] = h[prev[s]]
        BY <2>1, <4>1
      <4>3. h[s] = step[<<s, f[prev[s]]>>] /\ next(h)[s] = step[<<s, h[prev[s]]>>]
        BY <3>2
      <4> QED BY <4>2, <4>3
    <3> QED BY <3>1, <3>2
  <2>4. Good(h, j + 1)
    BY <2>3
  <2> HIDE DEF h, Good
  <2> QED BY <2>2, <2>4
<1>5. n + 1 \in P
  <2>1. n + 1 \in Nat /\ n + 1 \in 0 .. n + 1
    BY <1>1
  <2> HIDE DEF P
  <2> QED BY <1>3, <1>4, <2>1, BoundedInduction
<1>6. PICK f \in [S -> T] : Good(f, n + 1)
  BY <1>5
<1>7. ASSUME NEW s \in S PROVE f[s] = IF s \in B THEN b[s] ELSE step[<<s, f[prev[s]]>>]
  <2>1. mu[s] < n + 1
    BY <1>1
  <2> QED BY <1>6, <2>1
<1> QED BY <1>7 DEF Recurses

\* What a bit contributes.
quarter(s, x, y) == s * s * (IF bit(x, s) = 1 THEN 3 - bit(y, s) ELSE bit(y, s))
turned(s, x, y) == rot(s, x, y, bit(x, s), bit(y, s))

\* The walk of xy2d.
Walks(f, side) ==
  f = [s \in 0 .. side |-> [p \in Int \X Int |->
         IF s = 0 THEN 0 ELSE quarter(s, p[1], p[2]) + f[s \div 2][turned(s, p[1], p[2])]]]

walkOf(side) == CHOOSE f : Walks(f, side)

\* xy2d walks down from half the side.
LEMMA Xy2dWalks == \A side, x, y : xy2d(side, x, y) = walkOf(side)[side \div 2][<<x, y>>]
BY Zenon DEF xy2d, walkOf, Walks, quarter, turned

\* For every side there is one.
LEMMA WalkExists ==
  ASSUME NEW side \in Nat
  PROVE  Walks(walkOf(side), side) /\ walkOf(side) \in [0 .. side -> [Int \X Int -> Int]]
<1> DEFINE S == 0 .. side
           T == [Int \X Int -> Int]
           b == [s \in S |-> [p \in Int \X Int |-> 0]]
           prev == [s \in S |-> s \div 2]
           mu == [s \in S |-> s]
           step == [z \in S \X T |-> [p \in Int \X Int |->
                      quarter(z[1], p[1], p[2]) + z[2][turned(z[1], p[1], p[2])]]]
<1>1. \A s \in S : s \div 2 \in S /\ (s # 0 => s \div 2 < s)
  OBVIOUS
<1>2. ASSUME NEW s \in S, NEW x \in Int, NEW y \in Int
      PROVE  (s # 0 => quarter(s, x, y) \in Int) /\ turned(s, x, y) \in Int \X Int
  <2>1. s # 0 => x \div s \in Int /\ y \div s \in Int
    OBVIOUS
  <2>2. s # 0 => bit(x, s) \in {0, 1} /\ bit(y, s) \in {0, 1}
    BY <2>1 DEF bit
  <2>3. turned(s, x, y) \in Int \X Int
    BY DEF turned, rot
  <2>4. s * s \in Int
    OBVIOUS
  <2>5. s # 0 => quarter(s, x, y) \in Int
    BY <2>2, <2>4 DEF quarter
  <2> QED BY <2>3, <2>5
<1>3. Descends(S, T, {0}, b, prev, step, mu, side)
  <2>1. mu \in [S -> 0 .. side] /\ prev \in [S -> S] /\ b \in [S -> T]
    BY <1>1
  <2>2. ASSUME NEW s \in S, s \notin {0} PROVE mu[prev[s]] < mu[s]
    BY <1>1, <2>2
  <2>3. ASSUME NEW s \in S, s \notin {0}, NEW t \in T PROVE step[<<s, t>>] \in T
    <3>1. step[<<s, t>>] = [p \in Int \X Int |-> quarter(s, p[1], p[2]) + t[turned(s, p[1], p[2])]]
      OBVIOUS
    <3>2. \A p \in Int \X Int : quarter(s, p[1], p[2]) \in Int /\ t[turned(s, p[1], p[2])] \in Int
      BY <1>2, <2>3
    <3> QED BY <3>1, <3>2
  <2> HIDE DEF S, T, b, prev, step, mu
  <2> QED BY <2>1, <2>2, <2>3 DEF Descends
<1>4. PICK f \in [S -> T] : Recurses(S, {0}, b, prev, step, f)
  <2> HIDE DEF S, T, b, prev, step, mu
  <2> QED BY <1>3, RecursiveFunction
<1>5. Walks(f, side)
  <2> DEFINE row(s) == [p \in Int \X Int |->
               IF s = 0 THEN 0 ELSE quarter(s, p[1], p[2]) + f[s \div 2][turned(s, p[1], p[2])]]
  <2>1. ASSUME NEW s \in S PROVE f[s] = row(s)
    <3>1. CASE s = 0
      BY <1>4, <3>1 DEF Recurses
    <3>2. CASE s # 0
      <4>1. f[s] = step[<<s, f[s \div 2]>>] /\ f[s \div 2] \in T
        BY <1>1, <1>4, <3>2 DEF Recurses
      <4>2. step[<<s, f[s \div 2]>>] =
              [p \in Int \X Int |-> quarter(s, p[1], p[2]) + f[s \div 2][turned(s, p[1], p[2])]]
        BY <4>1
      <4> QED BY <3>2, <4>1, <4>2
    <3> QED BY <3>1, <3>2
  <2>2. f = [s \in S |-> row(s)]
    <3> HIDE DEF row, T
    <3> QED BY <1>4, <2>1
  <2> QED BY <2>2 DEF Walks
<1>6. Walks(walkOf(side), side)
  BY <1>5 DEF walkOf
<1> DEFINE W == walkOf(side)
           P == {j \in Nat : \A s \in S : s <= j => W[s] \in T}
<1>7. W = [s \in S |-> [p \in Int \X Int |->
            IF s = 0 THEN 0 ELSE quarter(s, p[1], p[2]) + W[s \div 2][turned(s, p[1], p[2])]]]
  BY <1>6 DEF Walks
<1> HIDE DEF W
<1>8. ASSUME NEW s \in S, s # 0 => W[s \div 2] \in T PROVE W[s] \in T
  <2>1. W[s] = [p \in Int \X Int |->
            IF s = 0 THEN 0 ELSE quarter(s, p[1], p[2]) + W[s \div 2][turned(s, p[1], p[2])]]
    BY <1>7
  <2>2. CASE s = 0
    BY <2>1, <2>2
  <2>3. CASE s # 0
    <3>1. \A p \in Int \X Int : quarter(s, p[1], p[2]) \in Int /\ W[s \div 2][turned(s, p[1], p[2])] \in Int
      BY <1>2, <1>8, <2>3
    <3> QED BY <2>1, <2>3, <3>1
  <2> QED BY <2>2, <2>3
<1>9. 0 \in P
  BY <1>8
<1>10. \A j \in 0 .. side - 1 : j \in P => j + 1 \in P
  <2> SUFFICES ASSUME NEW j \in 0 .. side - 1, j \in P PROVE j + 1 \in P
    OBVIOUS
  <2>1. ASSUME NEW s \in S, s <= j + 1 PROVE W[s] \in T
    <3>1. s # 0 => s \div 2 \in S /\ s \div 2 <= j
      BY <1>1, <2>1
    <3>2. s # 0 => W[s \div 2] \in T
      BY <3>1
    <3> HIDE DEF T
    <3> QED BY <1>8, <3>2
  <2>2. j + 1 \in Nat
    OBVIOUS
  <2> HIDE DEF S, T
  <2> QED BY <2>1, <2>2
<1>11. side \in P
  <2>1. side \in 0 .. side
    OBVIOUS
  <2> HIDE DEF P
  <2> QED BY <1>9, <1>10, <2>1, BoundedInduction
<1>12. \A s \in S : W[s] \in T
  BY <1>11
<1>13. W \in [S -> T]
  <2> HIDE DEF T
  <2> QED BY <1>7, <1>12
<1> QED BY <1>6, <1>13 DEF W

\* What it computes.
WalkFacts(W, side) ==
  /\ \A s \in 0 .. side : \A x, y \in Int : W[s][<<x, y>>] \in Int
  /\ \A x, y \in Int : W[0][<<x, y>>] = 0
  /\ \A s \in 1 .. side : \A x, y \in Int :
       W[s][<<x, y>>] = quarter(s, x, y) + W[s \div 2][turned(s, x, y)]

\* It adds up the quarters on the way.
LEMMA WalkIs == \A side \in Nat : WalkFacts(walkOf(side), side)
<1> SUFFICES ASSUME NEW side \in Nat PROVE WalkFacts(walkOf(side), side)
  OBVIOUS
<1> DEFINE W == walkOf(side)
<1>1. /\ W = [s \in 0 .. side |-> [p \in Int \X Int |->
            IF s = 0 THEN 0 ELSE quarter(s, p[1], p[2]) + W[s \div 2][turned(s, p[1], p[2])]]]
      /\ W \in [0 .. side -> [Int \X Int -> Int]]
  BY WalkExists DEF Walks
<1> HIDE DEF W
<1>2. ASSUME NEW s \in 0 .. side, NEW x \in Int, NEW y \in Int
      PROVE  W[s][<<x, y>>] = IF s = 0 THEN 0 ELSE quarter(s, x, y) + W[s \div 2][turned(s, x, y)]
  <2>1. W[s] = [p \in Int \X Int |->
            IF s = 0 THEN 0 ELSE quarter(s, p[1], p[2]) + W[s \div 2][turned(s, p[1], p[2])]]
    BY <1>1
  <2>2. <<x, y>> \in Int \X Int
    OBVIOUS
  <2> QED BY <2>1, <2>2
<1>3. \A s \in 0 .. side : \A x, y \in Int : W[s][<<x, y>>] \in Int
  BY <1>1
<1>4. \A x, y \in Int : W[0][<<x, y>>] = 0
  <2>1. 0 \in 0 .. side
    OBVIOUS
  <2> QED BY <1>2, <2>1
<1>5. \A s \in 1 .. side : \A x, y \in Int :
        W[s][<<x, y>>] = quarter(s, x, y) + W[s \div 2][turned(s, x, y)]
  <2>1. \A s \in 1 .. side : s \in 0 .. side /\ s # 0
    OBVIOUS
  <2> QED BY <1>2, <2>1
<1> QED BY <1>3, <1>4, <1>5 DEF WalkFacts, W

-----------------------------------------------------------------------------
(***************************************************************************)
(* The sides of the squares.                                               *)
(***************************************************************************)
\* e holds the powers of 2, up to the n-th.
Doubles(e, n) ==
  /\ n \in Nat /\ e[0] = 1
  /\ \A b \in 0 .. n : e[b] \in Nat /\ e[b] > b
  /\ \A b \in 0 .. n - 1 : e[b + 1] = 2 * e[b]

\* pow2 of roundUpPow2.
powersTo(x) == CHOOSE f : f = [b \in 0 .. x |-> IF b = 0 THEN 1 ELSE 2 * f[b - 1]]

\* They are the powers of 2.
LEMMA PowersDouble == \A x \in Nat : Doubles(powersTo(x), x)
<1> SUFFICES ASSUME NEW x \in Nat PROVE Doubles(powersTo(x), x)
  OBVIOUS
<1> DEFINE S == 0 .. x
           b == [s \in S |-> 1]
           prev == [s \in S |-> IF s = 0 THEN 0 ELSE s - 1]
           mu == [s \in S |-> s]
           step == [z \in S \X Nat |-> 2 * z[2]]
           e == powersTo(x)
           P == {j \in Nat : e[j] \in Nat /\ e[j] > j}
<1>1. Descends(S, Nat, {0}, b, prev, step, mu, x)
  BY DEF Descends
<1>2. PICK f \in [S -> Nat] : Recurses(S, {0}, b, prev, step, f)
  <2> HIDE DEF S, b, prev, step, mu
  <2> QED BY <1>1, RecursiveFunction
<1>3. f = [s \in S |-> IF s = 0 THEN 1 ELSE 2 * f[s - 1]]
  <2>1. ASSUME NEW s \in S PROVE f[s] = IF s = 0 THEN 1 ELSE 2 * f[s - 1]
    <3>1. prev[s] \in S /\ f[prev[s]] \in Nat /\ (s # 0 => prev[s] = s - 1)
      OBVIOUS
    <3>2. step[<<s, f[prev[s]]>>] = 2 * f[prev[s]]
      BY <3>1
    <3>3. f[s] = IF s \in {0} THEN b[s] ELSE step[<<s, f[prev[s]]>>]
      BY <1>2 DEF Recurses
    <3> QED BY <3>1, <3>2, <3>3
  <2> HIDE DEF S
  <2> QED BY <1>2, <2>1
<1>4. e = [s \in S |-> IF s = 0 THEN 1 ELSE 2 * e[s - 1]]
  BY <1>3 DEF powersTo
<1> HIDE DEF e
<1>5. e[0] = 1 /\ \A s \in 0 .. x - 1 : e[s + 1] = 2 * e[s]
  <2>1. 0 \in S
    OBVIOUS
  <2>2. ASSUME NEW s \in 0 .. x - 1 PROVE s + 1 \in S /\ s + 1 # 0 /\ (s + 1) - 1 = s
    OBVIOUS
  <2> HIDE DEF S
  <2> QED BY <1>4, <2>1, <2>2
<1>6. \A j \in 0 .. x : j \in P
  <2>1. 0 \in P
    BY <1>5
  <2>2. \A j \in 0 .. x - 1 : j \in P => j + 1 \in P
    BY <1>5
  <2> HIDE DEF P
  <2> QED BY <2>1, <2>2, BoundedInduction
<1> QED BY <1>5, <1>6 DEF Doubles, e

\* A set of numbers has a least one.
LEMMA LeastNumber ==
  ASSUME NEW S \in SUBSET Nat, S # {}
  PROVE  Min(S) \in S /\ \A y \in S : Min(S) <= y
<1> DEFINE Has == \E x \in S : \A y \in S : x <= y
           P == {j \in Nat : (\E y \in S : y <= j) => Has}
<1>1. 0 \in P
  <2>1. \A y \in S : y <= 0 => \A z \in S : y <= z
    OBVIOUS
  <2> QED BY <2>1
<1>2. \A j \in Nat : j \in P => j + 1 \in P
  <2> SUFFICES ASSUME NEW j \in Nat, j \in P, NEW y \in S, y <= j + 1 PROVE Has
    OBVIOUS
  <2>1. CASE \E z \in S : z <= j
    BY <2>1
  <2>2. CASE ~\E z \in S : z <= j
    <3>1. \A z \in S : y <= z
      BY <2>2
    <3> QED BY <3>1
  <2> QED BY <2>1, <2>2
<1>3. PICK y \in S : TRUE
  OBVIOUS
<1>4. y \in P
  <2>1. y \in Nat
    OBVIOUS
  <2> HIDE DEF P
  <2> QED BY <1>1, <1>2, <2>1, SetInduction
<1>5. Has
  <2>1. y <= y
    OBVIOUS
  <2> HIDE DEF Has
  <2> QED BY <1>4, <2>1
<1> QED BY <1>5 DEF Min

\* The side is one of them, and not smaller than the number it is taken from.
LEMMA SideIsPower ==
  \A x \in Nat : roundUpPow2(x) >= x /\ \E e, n : Doubles(e, n) /\ e[n] = roundUpPow2(x)
<1> SUFFICES ASSUME NEW x \in Nat
             PROVE  roundUpPow2(x) >= x /\ \E e, n : Doubles(e, n) /\ e[n] = roundUpPow2(x)
  OBVIOUS
<1> DEFINE e == powersTo(x)
           S == {p \in {e[b] : b \in 0 .. x} : p >= x}
<1>1. roundUpPow2(x) = Min(S)
  BY Zenon DEF roundUpPow2, powersTo
<1>2. Doubles(e, x)
  BY PowersDouble
<1> HIDE DEF e
<1>3. S \in SUBSET Nat /\ S # {}
  <2>1. x \in 0 .. x /\ e[x] >= x
    BY <1>2 DEF Doubles
  <2> QED BY <1>2, <2>1 DEF Doubles
<1>4. Min(S) \in S
  <2> HIDE DEF S
  <2> QED BY <1>3, LeastNumber
<1>5. PICK n \in 0 .. x : Min(S) = e[n] /\ e[n] >= x
  BY <1>4
<1>6. Doubles(e, n)
  BY <1>2 DEF Doubles
<1> HIDE DEF S
<1> QED BY <1>1, <1>5, <1>6

-----------------------------------------------------------------------------
(***************************************************************************)
(* The curve.                                                              *)
(***************************************************************************)
\* The bit of a sum.
LEMMA BitOfSum ==
  \A h \in Nat \ {0} : \A x, c \in Int : bit(x + (2 * h) * c, h) = bit(x, h) /\ bit(x, h) \in {0, 1}
<1> SUFFICES ASSUME NEW h \in Nat \ {0}, NEW x \in Int, NEW c \in Int
             PROVE  bit(x + (2 * h) * c, h) = bit(x, h) /\ bit(x, h) \in {0, 1}
  OBVIOUS
<1>1. \A d \in Int : (x + h * d) \div h = x \div h + d
  OBVIOUS
<1>2. (2 * h) * c = h * (2 * c) /\ 2 * c \in Int
  OBVIOUS
<1>3. (x + (2 * h) * c) \div h = x \div h + 2 * c
  BY <1>1, <1>2
<1>4. x \div h \in Int
  OBVIOUS
<1>5. \A v \in Int : (v + 2 * c) % 2 = v % 2 /\ v % 2 \in {0, 1}
  OBVIOUS
<1> QED BY <1>3, <1>4, <1>5 DEF bit

\* Two points lie squares of side h apart.
Apart(h, p, q) == \E a, b, u, v \in Int : p = <<u, v>> /\ q = <<u + h * a, v + h * b>>

\* When squares are turned as a whole, their quarters are apart as well.
LEMMA TurnedTogether ==
  \A h \in Nat \ {0} : \A x, y, c, d \in Int :
    Apart(h, turned(h, x, y), turned(h, x + (2 * h) * c, y + (2 * h) * d))
<1> SUFFICES ASSUME NEW h \in Nat \ {0}, NEW x \in Int, NEW y \in Int, NEW c \in Int, NEW d \in Int
             PROVE  \E a, b, u, v \in Int :
                      /\ turned(h, x, y) = <<u, v>>
                      /\ turned(h, x + (2 * h) * c, y + (2 * h) * d) = <<u + h * a, v + h * b>>
  BY DEF Apart
<1> DEFINE X == x + (2 * h) * c
           Y == y + (2 * h) * d
<1>1. bit(X, h) = bit(x, h) /\ bit(Y, h) = bit(y, h) /\ bit(x, h) \in {0, 1} /\ bit(y, h) \in {0, 1}
  BY BitOfSum
<1>2. X = x + h * (2 * c) /\ Y = y + h * (2 * d)
  OBVIOUS
<1>3. h - 1 - Y = (h - 1 - y) + h * (-(2 * d)) /\ h - 1 - X = (h - 1 - x) + h * (-(2 * c))
  OBVIOUS
<1>4. 2 * c \in Int /\ 2 * d \in Int /\ -(2 * c) \in Int /\ -(2 * d) \in Int
      /\ h - 1 - y \in Int /\ h - 1 - x \in Int
  OBVIOUS
<1> HIDE DEF X, Y
<1>5. turned(h, X, Y) = rot(h, X, Y, bit(x, h), bit(y, h)) /\ turned(h, x, y) = rot(h, x, y, bit(x, h), bit(y, h))
  BY <1>1 DEF turned
<1>6. CASE bit(y, h) = 1
  <2>1. turned(h, X, Y) = <<X, Y>> /\ turned(h, x, y) = <<x, y>>
    BY <1>5, <1>6 DEF rot
  <2> QED BY <1>2, <1>4, <2>1 DEF X, Y
<1>7. CASE bit(y, h) # 1 /\ bit(x, h) = 1
  <2>1. turned(h, X, Y) = <<h - 1 - Y, h - 1 - X>> /\ turned(h, x, y) = <<h - 1 - y, h - 1 - x>>
    BY <1>5, <1>7 DEF rot
  <2> QED BY <1>3, <1>4, <2>1 DEF X, Y
<1>8. CASE bit(y, h) # 1 /\ bit(x, h) # 1
  <2>1. turned(h, X, Y) = <<Y, X>> /\ turned(h, x, y) = <<y, x>>
    BY <1>5, <1>8 DEF rot
  <2> QED BY <1>2, <1>4, <2>1 DEF X, Y
<1> QED BY <1>6, <1>7, <1>8

\* The powers lie between 1 and the last one.
LEMMA PowersGrow ==
  \A e, n : Doubles(e, n) =>
    /\ \A b \in 0 .. n : e[b] \in 1 .. e[n] /\ e[b] \div 2 \in 0 .. e[n]
    /\ \A b \in 0 .. n - 1 : e[b + 1] \div 2 = e[b]
    /\ e[0] \div 2 = 0
<1> SUFFICES ASSUME NEW e, NEW n, Doubles(e, n)
             PROVE
    /\ \A b \in 0 .. n : e[b] \in 1 .. e[n] /\ e[b] \div 2 \in 0 .. e[n]
    /\ \A b \in 0 .. n - 1 : e[b + 1] \div 2 = e[b]
    /\ e[0] \div 2 = 0
  OBVIOUS
<1>1. n \in Nat /\ e[0] = 1 /\ (\A b \in 0 .. n : e[b] \in Nat /\ e[b] > b)
      /\ \A b \in 0 .. n - 1 : e[b + 1] = 2 * e[b]
  BY DEF Doubles
<1> DEFINE P == {j \in Nat : e[n - j] <= e[n]}
<1>2. \A j \in 0 .. n : j \in P
  <2>1. 0 \in P
    <3>1. n - 0 = n /\ n \in 0 .. n
      BY <1>1
    <3> QED BY <1>1, <3>1
  <2>2. ASSUME NEW j \in 0 .. n - 1, j \in P PROVE j + 1 \in P
    <3>1. n - (j + 1) \in 0 .. n - 1 /\ n - (j + 1) \in 0 .. n /\ (n - (j + 1)) + 1 = n - j /\ n \in 0 .. n
          /\ n - j \in 0 .. n
      BY <1>1
    <3>2. e[n - j] = 2 * e[n - (j + 1)] /\ e[n - (j + 1)] \in Nat /\ e[n] \in Nat /\ e[n - j] \in Nat
      BY <1>1, <3>1
    <3>3. e[n - (j + 1)] <= e[n]
      BY <2>2, <3>2
    <3> QED BY <3>3
  <2> HIDE DEF P
  <2> QED BY <1>1, <2>1, <2>2, BoundedInduction
<1>3. ASSUME NEW b \in 0 .. n PROVE e[b] \in 1 .. e[n] /\ e[b] \div 2 \in 0 .. e[n]
  <2>1. n - b \in 0 .. n /\ n - (n - b) = b /\ n \in 0 .. n
    BY <1>1
  <2>2. e[b] <= e[n]
    BY <1>2, <2>1
  <2>3. e[b] \in Nat /\ e[n] \in Nat /\ e[b] > b
    BY <1>1, <2>1
  <2> QED BY <2>2, <2>3
<1>4. ASSUME NEW b \in 0 .. n - 1 PROVE e[b + 1] \div 2 = e[b]
  <2>1. e[b + 1] = 2 * e[b] /\ e[b] \in Nat
    BY <1>1
  <2> QED BY <2>1
<1> QED BY <1>1, <1>3, <1>4

\* A position in a square of side h does not depend on where the square lies.
Alike(W, h) ==
  \A x, y, c, d \in Int : W[h \div 2][<<x + h * c, y + h * d>>] = W[h \div 2][<<x, y>>]

\* All squares of a side are alike.
LEMMA SquaresAreAlike ==
  \A e, n, W : Doubles(e, n) /\ WalkFacts(W, e[n]) => \A a \in 0 .. n : Alike(W, e[a])
<1> SUFFICES ASSUME NEW e, NEW n, NEW W, Doubles(e, n), WalkFacts(W, e[n])
             PROVE  \A a \in 0 .. n : Alike(W, e[a])
  OBVIOUS
<1> DEFINE P == {a \in Nat : Alike(W, e[a])}
<1>1. n \in Nat /\ (\A a \in 0 .. n : e[a] \in Nat /\ e[a] \in 1 .. e[n])
      /\ (\A a \in 0 .. n - 1 : e[a + 1] = 2 * e[a] /\ e[a + 1] \div 2 = e[a])
      /\ e[0] = 1 /\ e[0] \div 2 = 0
  BY PowersGrow DEF Doubles
<1>2. 0 \in P
  <2> SUFFICES ASSUME NEW x \in Int, NEW y \in Int, NEW c \in Int, NEW d \in Int
               PROVE  W[e[0] \div 2][<<x + e[0] * c, y + e[0] * d>>] = W[e[0] \div 2][<<x, y>>]
    BY DEF Alike
  <2>1. x + e[0] * c \in Int /\ y + e[0] * d \in Int
    BY <1>1
  <2> QED BY <1>1, <2>1 DEF WalkFacts
<1>3. ASSUME NEW a \in 0 .. n - 1, a \in P PROVE a + 1 \in P
  <2> SUFFICES ASSUME NEW x \in Int, NEW y \in Int, NEW c \in Int, NEW d \in Int
               PROVE  W[e[a + 1] \div 2][<<x + e[a + 1] * c, y + e[a + 1] * d>>]
                        = W[e[a + 1] \div 2][<<x, y>>]
    BY DEF Alike
  <2> DEFINE h == e[a]
             X == x + (2 * h) * c
             Y == y + (2 * h) * d
  <2>1. a \in 0 .. n /\ h \in Nat \ {0} /\ h \in 1 .. e[n] /\ e[a + 1] = 2 * h /\ e[a + 1] \div 2 = h
    BY <1>1
  <2>2. Alike(W, e[a])
    BY <1>3
  <2> HIDE DEF h
  <2>3. X \in Int /\ Y \in Int
    BY <2>1
  <2>4. PICK p, q, u, v \in Int : turned(h, x, y) = <<u, v>> /\ turned(h, X, Y) = <<u + h * p, v + h * q>>
    <3>1. Apart(h, turned(h, x, y), turned(h, X, Y))
      BY <2>1, TurnedTogether
    <3> HIDE DEF X, Y
    <3> QED BY <3>1 DEF Apart
  <2>5. bit(X, h) = bit(x, h) /\ bit(Y, h) = bit(y, h)
    BY <2>1, BitOfSum
  <2>6. quarter(h, X, Y) = quarter(h, x, y)
    BY <2>5 DEF quarter
  <2> HIDE DEF X, Y
  <2>7. W[h][<<X, Y>>] = quarter(h, X, Y) + W[h \div 2][turned(h, X, Y)]
    BY <2>1, <2>3 DEF WalkFacts
  <2>8. W[h][<<x, y>>] = quarter(h, x, y) + W[h \div 2][turned(h, x, y)]
    BY <2>1 DEF WalkFacts
  <2>9. W[h \div 2][<<u + h * p, v + h * q>>] = W[h \div 2][<<u, v>>]
    BY <2>2 DEF h, Alike
  <2>10. W[h][<<X, Y>>] = W[h][<<x, y>>]
    BY <2>4, <2>6, <2>7, <2>8, <2>9
  <2> QED BY <2>1, <2>10 DEF X, Y
<1>4. \A a \in 0 .. n : a \in P
  <2> HIDE DEF P
  <2> QED BY <1>1, <1>2, <1>3, BoundedInduction
<1> QED BY <1>4

\* The quarter that a position lies in, and one turn of the loop of d2xy.
columnOf(t) == (t \div 2) % 2
rowOf(t) == (t + columnOf(t)) % 2
onward(s, z) ==
  LET to == rot(s, z[2][1], z[2][2], columnOf(z[1]), rowOf(z[1]))
  IN <<z[1] \div 4, <<to[1] + s * columnOf(z[1]), to[2] + s * rowOf(z[1])>>>>

\* The walk of d2xy.
Points(f, side) ==
  f = [s \in 1 .. 2 * side |-> [z \in Nat \X (Int \X Int) |->
         IF s >= side THEN z[2] ELSE f[2 * s][onward(s, z)]]]

pointsOf(side) == CHOOSE f : Points(f, side)

\* d2xy walks up from 1.
LEMMA D2xyWalks == \A side, d : d2xy(side, d) = pointsOf(side)[1][<<d, <<0, 0>>>>]
BY Zenon DEF d2xy, pointsOf, Points, onward, columnOf, rowOf

\* The columns and rows are 0 or 1, and number the quarters along the curve.
LEMMA QuartersAreNumbered ==
  \A t \in Nat : /\ t \div 4 \in Nat /\ t = 4 * (t \div 4) + (t % 4) /\ t % 4 \in 0 .. 3
                 /\ columnOf(t) \in {0, 1} /\ rowOf(t) \in {0, 1}
                 /\ (IF columnOf(t) = 1 THEN 3 - rowOf(t) ELSE rowOf(t)) = t % 4
<1> SUFFICES ASSUME NEW t \in Nat
             PROVE  /\ t \div 4 \in Nat /\ t = 4 * (t \div 4) + (t % 4) /\ t % 4 \in 0 .. 3
                    /\ columnOf(t) \in {0, 1} /\ rowOf(t) \in {0, 1}
                    /\ (IF columnOf(t) = 1 THEN 3 - rowOf(t) ELSE rowOf(t)) = t % 4
  OBVIOUS
<1>1. t \div 4 \in Nat /\ t = 4 * (t \div 4) + (t % 4) /\ t % 4 \in 0 .. 3
  OBVIOUS
<1> DEFINE w == t \div 4
           q == t % 4
<1>2. t = 4 * w + q /\ w \in Nat /\ q \in {0, 1, 2, 3}
  BY <1>1
<1> HIDE DEF w, q
<1>3. columnOf(t) = IF q \in {2, 3} THEN 1 ELSE 0
  BY <1>2 DEF columnOf
<1>4. rowOf(t) = IF q \in {1, 2} THEN 1 ELSE 0
  BY <1>2, <1>3 DEF rowOf
<1> QED BY <1>1, <1>2, <1>3, <1>4 DEF q

\* For every side there is one.
LEMMA PointsExist == \A side \in Nat \ {0} : Points(pointsOf(side), side)
<1> SUFFICES ASSUME NEW side \in Nat \ {0} PROVE Points(pointsOf(side), side)
  OBVIOUS
<1> DEFINE S == 1 .. 2 * side
           D == Nat \X (Int \X Int)
           T == [D -> Int \X Int]
           B == {s \in S : s >= side}
           b == [s \in S |-> [z \in D |-> z[2]]]
           prev == [s \in S |-> IF s >= side THEN s ELSE 2 * s]
           mu == [s \in S |-> 2 * side - s]
           step == [z \in S \X T |-> [p \in D |-> z[2][onward(z[1], p)]]]
<1>1. \A s \in S : \A z \in D : onward(s, z) \in D
  <2> SUFFICES ASSUME NEW s \in S, NEW z \in D PROVE onward(s, z) \in D
    OBVIOUS
  <2>1. z[1] \in Nat /\ z[2][1] \in Int /\ z[2][2] \in Int /\ s \in Int
    OBVIOUS
  <2>2. columnOf(z[1]) \in {0, 1} /\ rowOf(z[1]) \in {0, 1} /\ z[1] \div 4 \in Nat
    BY <2>1, QuartersAreNumbered
  <2> DEFINE to == rot(s, z[2][1], z[2][2], columnOf(z[1]), rowOf(z[1]))
  <2>3. to \in Int \X Int
    BY <2>1 DEF rot
  <2>4. onward(s, z) = <<z[1] \div 4, <<to[1] + s * columnOf(z[1]), to[2] + s * rowOf(z[1])>>>>
    BY DEF onward
  <2> HIDE DEF to
  <2>5. to[1] + s * columnOf(z[1]) \in Int /\ to[2] + s * rowOf(z[1]) \in Int
    BY <2>1, <2>2, <2>3
  <2> QED BY <2>2, <2>4, <2>5
<1>2. Descends(S, T, B, b, prev, step, mu, 2 * side)
  <2>1. mu \in [S -> 0 .. 2 * side] /\ prev \in [S -> S] /\ b \in [S -> T] /\ 2 * side \in Nat
    OBVIOUS
  <2>2. ASSUME NEW s \in S, s \notin B PROVE mu[prev[s]] < mu[s]
    BY <2>2
  <2>3. ASSUME NEW s \in S, s \notin B, NEW t \in T PROVE step[<<s, t>>] \in T
    <3>1. step[<<s, t>>] = [p \in D |-> t[onward(s, p)]]
      OBVIOUS
    <3>2. \A p \in D : t[onward(s, p)] \in Int \X Int
      BY <1>1
    <3> QED BY <3>1, <3>2
  <2> HIDE DEF S, T, B, b, prev, step, mu
  <2> QED BY <2>1, <2>2, <2>3 DEF Descends
<1>3. PICK f \in [S -> T] : Recurses(S, B, b, prev, step, f)
  <2> HIDE DEF S, T, B, b, prev, step, mu
  <2> QED BY <1>2, RecursiveFunction
<1>4. Points(f, side)
  <2> DEFINE row(s) == [z \in D |-> IF s >= side THEN z[2] ELSE f[2 * s][onward(s, z)]]
  <2>1. ASSUME NEW s \in S PROVE f[s] = row(s)
    <3>1. CASE s >= side
      <4>1. f[s] = b[s] /\ b[s] = [z \in D |-> z[2]]
        BY <1>3, <3>1 DEF Recurses
      <4> QED BY <3>1, <4>1
    <3>2. CASE ~(s >= side)
      <4>0. 2 * s \in S /\ s \notin B /\ prev[s] = 2 * s
        BY <3>2
      <4>1. f[s] = step[<<s, f[2 * s]>>] /\ f[2 * s] \in T
        <5> HIDE DEF S, T, B, b, prev, step
        <5> QED BY <1>3, <4>0 DEF Recurses
      <4>2. step[<<s, f[2 * s]>>] = [p \in D |-> f[2 * s][onward(s, p)]]
        BY <4>1
      <4> QED BY <3>2, <4>1, <4>2
    <3> QED BY <3>1, <3>2
  <2>2. f = [s \in S |-> row(s)]
    <3> HIDE DEF row, T
    <3> QED BY <1>3, <2>1
  <2> QED BY <2>2 DEF Points
<1> QED BY <1>4 DEF pointsOf

\* What it computes.
PointFacts(Z, side) ==
  \A s \in 1 .. 2 * side : \A t \in Nat : \A x, y \in Int :
    Z[s][<<t, <<x, y>>>>] = IF s >= side THEN <<x, y>> ELSE Z[2 * s][onward(s, <<t, <<x, y>>>>)]

\* On the way up the point grows, and what is left of the position shrinks.
LEMMA PointsAre == \A side \in Nat \ {0} : PointFacts(pointsOf(side), side)
<1> SUFFICES ASSUME NEW side \in Nat \ {0} PROVE PointFacts(pointsOf(side), side)
  OBVIOUS
<1> DEFINE Z == pointsOf(side)
<1>1. Z = [s \in 1 .. 2 * side |-> [z \in Nat \X (Int \X Int) |->
             IF s >= side THEN z[2] ELSE Z[2 * s][onward(s, z)]]]
  BY PointsExist DEF Points
<1> HIDE DEF Z
<1>2. ASSUME NEW s \in 1 .. 2 * side, NEW t \in Nat, NEW x \in Int, NEW y \in Int
      PROVE  Z[s][<<t, <<x, y>>>>] =
               IF s >= side THEN <<x, y>> ELSE Z[2 * s][onward(s, <<t, <<x, y>>>>)]
  <2>1. Z[s] = [z \in Nat \X (Int \X Int) |-> IF s >= side THEN z[2] ELSE Z[2 * s][onward(s, z)]]
    BY <1>1
  <2>2. <<t, <<x, y>>>> \in Nat \X (Int \X Int)
    OBVIOUS
  <2> QED BY <2>1, <2>2
<1> QED BY <1>2 DEF PointFacts, Z

\* A turn of d2xy takes a point of the square of side h to one of the square of twice
\* the side, in the quarter that the position tells; turning that back finds the point.
Doubled(h, t, x, y, X, Y) ==
  /\ onward(h, <<t, <<x, y>>>>) = <<t \div 4, <<X, Y>>>>
  /\ X \in 0 .. 2 * h - 1 /\ Y \in 0 .. 2 * h - 1
  /\ quarter(h, X, Y) = (h * h) * (t % 4)
  /\ Apart(h, <<x, y>>, turned(h, X, Y))

\* For every point of the square.
LEMMA SquaresDouble ==
  \A h \in Nat \ {0} : \A t \in Nat : \A x, y \in 0 .. h - 1 :
    \E X, Y : Doubled(h, t, x, y, X, Y)
<1> SUFFICES ASSUME NEW h \in Nat \ {0}, NEW t \in Nat, NEW x \in 0 .. h - 1, NEW y \in 0 .. h - 1
             PROVE  \E X, Y : Doubled(h, t, x, y, X, Y)
  OBVIOUS
<1> DEFINE rx == columnOf(t)
           ry == rowOf(t)
           to == rot(h, x, y, rx, ry)
           X == to[1] + h * rx
           Y == to[2] + h * ry
<1>1. rx \in {0, 1} /\ ry \in {0, 1} /\ (IF rx = 1 THEN 3 - ry ELSE ry) = t % 4 /\ t % 4 \in Int
  BY QuartersAreNumbered
<1>2. onward(h, <<t, <<x, y>>>>) = <<t \div 4, <<X, Y>>>>
  BY DEF onward
<1> HIDE DEF rx, ry
<1>3. to[1] \in 0 .. h - 1 /\ to[2] \in 0 .. h - 1
  BY DEF rot
<1>4. \A u \in 0 .. h - 1 : \A r \in {0, 1} : u + h * r \in 0 .. 2 * h - 1 /\ bit(u + h * r, h) = r
  <2> SUFFICES ASSUME NEW u \in 0 .. h - 1, NEW r \in {0, 1}
               PROVE  u + h * r \in 0 .. 2 * h - 1 /\ bit(u + h * r, h) = r
    OBVIOUS
  <2>1. (u + h * r) \div h = r
    OBVIOUS
  <2>2. r % 2 = r
    OBVIOUS
  <2> QED BY <2>1, <2>2 DEF bit
<1>5. X \in 0 .. 2 * h - 1 /\ Y \in 0 .. 2 * h - 1 /\ bit(X, h) = rx /\ bit(Y, h) = ry
  <2> HIDE DEF to
  <2> QED BY <1>1, <1>3, <1>4
<1>6. quarter(h, X, Y) = (h * h) * (t % 4)
  <2>1. quarter(h, X, Y) = h * h * (IF rx = 1 THEN 3 - ry ELSE ry)
    BY <1>5 DEF quarter
  <2> QED BY <1>1, <2>1
<1>7. Apart(h, <<x, y>>, turned(h, X, Y))
  <2> SUFFICES \E a, b \in Int : turned(h, X, Y) = <<x + h * a, y + h * b>>
    BY DEF Apart
  <2>1. turned(h, X, Y) = rot(h, X, Y, rx, ry)
    BY <1>5 DEF turned
  <2>2. CASE ry = 1
    <3>1. to = <<x, y>> /\ rot(h, X, Y, rx, ry) = <<X, Y>>
      BY <2>2 DEF rot
    <3>2. X = x + h * rx /\ Y = y + h * 1
      BY <2>2, <3>1
    <3>3. turned(h, X, Y) = <<x + h * rx, y + h * 1>> /\ rx \in Int /\ 1 \in Int
      BY <1>1, <2>1, <3>1, <3>2
    <3> QED BY <3>3
  <2>3. CASE ry = 0 /\ rx = 1
    <3>1. to = <<h - 1 - y, h - 1 - x>> /\ rot(h, X, Y, rx, ry) = <<h - 1 - Y, h - 1 - X>>
      BY <2>3 DEF rot
    <3>2. X = (h - 1 - y) + h /\ Y = h - 1 - x
      BY <2>3, <3>1
    <3>3. h - 1 - Y = x + h * 0 /\ h - 1 - X = y + h * (-1)
      BY <3>2
    <3> QED BY <2>1, <3>1, <3>3
  <2>4. CASE ry = 0 /\ rx = 0
    <3>1. to = <<y, x>> /\ rot(h, X, Y, rx, ry) = <<Y, X>>
      BY <2>4 DEF rot
    <3>2. X = y + h * 0 /\ Y = x + h * 0
      BY <2>4, <3>1
    <3> QED BY <2>1, <3>1, <3>2
  <2> QED BY <1>1, <2>2, <2>3, <2>4
<1> HIDE DEF X, Y
<1> QED BY <1>2, <1>5, <1>6, <1>7 DEF Doubled

\* After some turns of d2xy the point is in the square of side h, and what is left of
\* the position, with its position in the square, is the position d.
Onway(W, Z, h, d, t, x, y) ==
  /\ t \in Nat /\ x \in 0 .. h - 1 /\ y \in 0 .. h - 1
  /\ Z[1][<<d, <<0, 0>>>>] = Z[h][<<t, <<x, y>>>>]
  /\ W[h \div 2][<<x, y>>] \in 0 .. h * h - 1
  /\ d = t * (h * h) + W[h \div 2][<<x, y>>]

\* A turn goes on to the square of twice the side.
LEMMA OnwayDoubles ==
  \A W, Z : \A side \in Nat : WalkFacts(W, side) /\ PointFacts(Z, side) =>
    \A h \in 1 .. side - 1 : Alike(W, h) =>
      \A d \in Nat : \A t, x, y : Onway(W, Z, h, d, t, x, y) =>
        \E X, Y : Onway(W, Z, 2 * h, d, t \div 4, X, Y)
<1> SUFFICES ASSUME NEW W, NEW Z, NEW side \in Nat, WalkFacts(W, side), PointFacts(Z, side),
                    NEW h \in 1 .. side - 1, Alike(W, h), NEW d \in Nat,
                    NEW t, NEW x, NEW y, Onway(W, Z, h, d, t, x, y)
             PROVE  \E X, Y : Onway(W, Z, 2 * h, d, t \div 4, X, Y)
  OBVIOUS
<1>1. h \in Nat \ {0} /\ h \in 1 .. side /\ h \in 1 .. 2 * side /\ ~(h >= side)
  OBVIOUS
<1>2. t \in Nat /\ x \in 0 .. h - 1 /\ y \in 0 .. h - 1 /\ x \in Int /\ y \in Int
  BY DEF Onway
<1>3. PICK X, Y : Doubled(h, t, x, y, X, Y)
  BY <1>1, <1>2, SquaresDouble
<1>4. X \in 0 .. 2 * h - 1 /\ Y \in 0 .. 2 * h - 1 /\ X \in Int /\ Y \in Int
  BY <1>3 DEF Doubled
<1>5. Z[1][<<d, <<0, 0>>>>] = Z[2 * h][<<t \div 4, <<X, Y>>>>]
  <2>1. Z[h][<<t, <<x, y>>>>] = Z[2 * h][onward(h, <<t, <<x, y>>>>)]
    BY <1>1, <1>2 DEF PointFacts
  <2> QED BY <1>3, <2>1 DEF Onway, Doubled
<1>6. W[h][<<X, Y>>] = (h * h) * (t % 4) + W[h \div 2][<<x, y>>]
  <2>1. W[h][<<X, Y>>] = quarter(h, X, Y) + W[h \div 2][turned(h, X, Y)]
    BY <1>1, <1>4 DEF WalkFacts
  <2>2. W[h \div 2][turned(h, X, Y)] = W[h \div 2][<<x, y>>]
    <3>1. PICK a, b, u, v \in Int : <<x, y>> = <<u, v>> /\ turned(h, X, Y) = <<u + h * a, v + h * b>>
      BY <1>3 DEF Doubled, Apart
    <3>2. W[h \div 2][<<u + h * a, v + h * b>>] = W[h \div 2][<<u, v>>]
      BY DEF Alike
    <3> QED BY <3>1, <3>2
  <2> QED BY <1>3, <2>1, <2>2 DEF Doubled
<1>7. (2 * h) \div 2 = h
  BY <1>1
<1> DEFINE V == W[h \div 2][<<x, y>>]
           Top == h * h
           q == t % 4
           w == t \div 4
<1>8. V \in 0 .. Top - 1 /\ d = t * Top + V /\ W[h][<<X, Y>>] = Top * q + V
  BY <1>6 DEF Onway
<1>9. w \in Nat /\ t = 4 * w + q /\ q \in 0 .. 3 /\ Top \in Nat
  BY <1>1, <1>2, QuartersAreNumbered
<1>10. (2 * h) * (2 * h) = 4 * Top
  BY <1>1
<1> HIDE DEF V, Top, q, w
<1>11. Top * q + V \in 0 .. 4 * Top - 1 /\ d = w * (4 * Top) + (Top * q + V)
  <2>1. Top * q \in 0 .. 3 * Top /\ t * Top = w * (4 * Top) + Top * q
    <3>1. q = 0 \/ q = 1 \/ q = 2 \/ q = 3
      BY <1>9
    <3>2. (4 * w + q) * Top = w * (4 * Top) + Top * q
      BY <1>9
    <3> QED BY <1>9, <3>1, <3>2
  <2>2. w * (4 * Top) \in Int
    BY <1>9
  <2> QED BY <1>8, <1>9, <2>1, <2>2
<1>12. Onway(W, Z, 2 * h, d, w, X, Y)
  BY <1>4, <1>5, <1>7, <1>8, <1>9, <1>10, <1>11 DEF Onway, w
<1> QED BY <1>12 DEF w

\* d2xy takes a position to a point of the square, and xy2d takes that one back.
Returns(side, d) ==
  \E x, y \in 0 .. side - 1 : d2xy(side, d) = <<x, y>> /\ xy2d(side, x, y) = d

\* For every position.
LEMMA PointsComeBack ==
  \A e, n : Doubles(e, n) => \A d \in 0 .. e[n] * e[n] - 1 : Returns(e[n], d)
<1> SUFFICES ASSUME NEW e, NEW n, Doubles(e, n), NEW d \in 0 .. e[n] * e[n] - 1
             PROVE  Returns(e[n], d)
  OBVIOUS
<1> DEFINE side == e[n]
           W == walkOf(side)
           Z == pointsOf(side)
           P == {a \in Nat : \E t, x, y : Onway(W, Z, e[a], d, t, x, y)}
<1>1. n \in Nat /\ n \in 0 .. n /\ e[0] = 1 /\ side \in Nat \ {0}
      /\ (\A a \in 0 .. n : e[a] \in 1 .. side)
      /\ \A a \in 0 .. n - 1 : e[a + 1] = 2 * e[a]
  <2>1. n \in Nat /\ e[0] = 1 /\ \A a \in 0 .. n - 1 : e[a + 1] = 2 * e[a]
    BY DEF Doubles
  <2>2. \A a \in 0 .. n : e[a] \in 1 .. side
    BY PowersGrow
  <2>3. n \in 0 .. n /\ \A a \in 0 .. n : e[a] \in Nat /\ e[a] > a
    BY <2>1 DEF Doubles
  <2>4. side \in Nat \ {0}
    BY <2>1, <2>3
  <2> QED BY <2>1, <2>2, <2>3, <2>4
<1>2. WalkFacts(W, side) /\ PointFacts(Z, side) /\ \A a \in 0 .. n : Alike(W, e[a])
  <2>1. WalkFacts(W, e[n]) /\ PointFacts(Z, side)
    BY <1>1, WalkIs, PointsAre
  <2> QED BY <2>1, SquaresAreAlike
<1>3. d \in Nat /\ d \in 0 .. side * side - 1 /\ side * side \in Nat
  BY <1>1
<1> HIDE DEF W, Z, side
<1>4. 0 \in P
  <2>1. W[e[0] \div 2][<<0, 0>>] = 0
    BY <1>1, <1>2 DEF WalkFacts
  <2>2. Onway(W, Z, e[0], d, d, 0, 0)
    <3>1. e[0] * e[0] = 1 /\ e[0] - 1 = 0 /\ d * 1 + 0 = d
      BY <1>1, <1>3
    <3> QED BY <1>1, <1>3, <2>1, <3>1 DEF Onway
  <2> QED BY <2>2
<1>5. ASSUME NEW a \in 0 .. n - 1, a \in P PROVE a + 1 \in P
  <2>1. PICK t, x, y : Onway(W, Z, e[a], d, t, x, y)
    BY <1>5
  <2>2. a \in 0 .. n /\ a + 1 \in 0 .. n /\ a + 1 \in Nat
    BY <1>1
  <2>3. e[a] \in 1 .. side - 1 /\ e[a + 1] = 2 * e[a]
    BY <1>1, <2>2
  <2>4. \E X, Y : Onway(W, Z, 2 * e[a], d, t \div 4, X, Y)
    BY <1>1, <1>2, <1>3, <2>1, <2>2, <2>3, OnwayDoubles
  <2> QED BY <2>2, <2>3, <2>4
<1>6. n \in P
  <2> HIDE DEF P
  <2> QED BY <1>1, <1>4, <1>5, BoundedInduction
<1>7. PICK t, x, y : Onway(W, Z, side, d, t, x, y)
  BY <1>6 DEF side
<1>8. t \in Nat /\ x \in 0 .. side - 1 /\ y \in 0 .. side - 1 /\ Z[1][<<d, <<0, 0>>>>] = Z[side][<<t, <<x, y>>>>]
      /\ W[side \div 2][<<x, y>>] \in 0 .. side * side - 1
      /\ d = t * (side * side) + W[side \div 2][<<x, y>>]
  BY <1>7 DEF Onway
<1>9. W[side \div 2][<<x, y>>] = d
  <2> DEFINE Top == side * side
             V == W[side \div 2][<<x, y>>]
  <2>1. t \in Nat /\ Top \in Nat /\ V \in 0 .. Top - 1 /\ d = t * Top + V /\ d \in 0 .. Top - 1
    BY <1>3, <1>8
  <2> HIDE DEF Top, V
  <2>2. t # 0 => t * Top >= Top
    <3>1. t # 0 => t - 1 \in Nat /\ t * Top = Top + (t - 1) * Top
      BY <2>1
    <3>2. t - 1 \in Nat => (t - 1) * Top \in Nat
      BY <2>1
    <3> QED BY <2>1, <3>1, <3>2
  <2>3. t = 0
    BY <2>1, <2>2
  <2>4. V = d
    BY <2>1, <2>3
  <2> QED BY <2>4 DEF V
<1>10. Z[side][<<t, <<x, y>>>>] = <<x, y>>
  <2>1. side \in 1 .. 2 * side /\ x \in Int /\ y \in Int /\ side >= side
    BY <1>1, <1>8
  <2> QED BY <1>2, <1>8, <2>1 DEF PointFacts
<1>11. d2xy(side, d) = <<x, y>> /\ xy2d(side, x, y) = d
  BY <1>8, <1>9, <1>10, D2xyWalks, Xy2dWalks DEF W, Z
<1>12. Returns(side, d)
  BY <1>8, <1>11 DEF Returns
<1> QED BY <1>12 DEF side

\* So the positions number the points of the square.
Numbers(side) ==
  \A x, y \in 0 .. side - 1 :
    /\ xy2d(side, x, y) \in 0 .. side * side - 1
    /\ \A d \in 0 .. side * side - 1 : d2xy(side, d) = <<x, y>> <=> d = xy2d(side, x, y)

\* There are as many positions as points.
LEMMA PositionsNumberPoints == \A e, n : Doubles(e, n) => Numbers(e[n])
<1> SUFFICES ASSUME NEW e, NEW n, Doubles(e, n) PROVE Numbers(e[n])
  OBVIOUS
<1> DEFINE side == e[n]
           C == 0 .. side - 1
           D == 0 .. side * side - 1
           f == [d \in D |-> d2xy(side, d)]
<1>1. \A d \in D : Returns(side, d)
  BY PointsComeBack
<1>2. side \in Nat /\ side * side \in Nat /\ side > 0
  BY DEF Doubles
<1> HIDE DEF side
<1>3. IsFiniteSet(C) /\ Cardinality(C) = side /\ IsFiniteSet(D) /\ Cardinality(D) = side * side
  <2>1. 0 - 1 \in Int /\ side - 1 \in Int /\ side * side - 1 \in Int /\ side * side > 0
    <3>1. side * side >= side
      <4>1. side * side = side + (side - 1) * side /\ (side - 1) * side \in Nat
        <5>1. side - 1 \in Nat
          BY <1>2
        <5> QED BY <1>2, <5>1
      <4> QED BY <1>2, <4>1
    <3> QED BY <1>2, <3>1
  <2>2. IsFiniteSet(C) /\ Cardinality(C) = IF 0 > side - 1 THEN 0 ELSE (side - 1) - 0 + 1
    BY <2>1, FS_Interval
  <2>3. IsFiniteSet(D) /\ Cardinality(D) = IF 0 > side * side - 1 THEN 0 ELSE (side * side - 1) - 0 + 1
    BY <2>1, FS_Interval
  <2> QED BY <1>2, <2>1, <2>2, <2>3
<1>4. IsFiniteSet(C \X C) /\ Cardinality(C \X C) = side * side
  <2> HIDE DEF C, D
  <2> QED BY <1>3, FS_Product
<1>5. f \in Injection(D, C \X C)
  <2>1. \A d \in D : f[d] \in C \X C
    BY <1>1 DEF Returns
  <2>2. ASSUME NEW c \in D, NEW d \in D, f[c] = f[d] PROVE c = d
    <3>1. d2xy(side, c) = d2xy(side, d)
      BY <2>2
    <3>2. PICK x, y \in C : d2xy(side, c) = <<x, y>> /\ xy2d(side, x, y) = c
      BY <1>1 DEF Returns
    <3>3. PICK p, q \in C : d2xy(side, d) = <<p, q>> /\ xy2d(side, p, q) = d
      BY <1>1 DEF Returns
    <3> HIDE DEF C
    <3>4. <<x, y>> = <<p, q>>
      BY <3>1, <3>2, <3>3
    <3> QED BY <3>2, <3>3, <3>4
  <2>3. f \in [D -> C \X C]
    <3> HIDE DEF C, D
    <3> QED BY <2>1
  <2> HIDE DEF f, C, D
  <2> QED BY <2>2, <2>3 DEF Injection, IsInjective
<1>6. f \in Surjection(D, C \X C)
  <2> HIDE DEF f, C, D
  <2> QED BY <1>3, <1>4, <1>5, FS_Injection
<1>7. ASSUME NEW x \in C, NEW y \in C
      PROVE  /\ xy2d(side, x, y) \in D
             /\ \A d \in D : d2xy(side, d) = <<x, y>> <=> d = xy2d(side, x, y)
  <2>1. <<x, y>> \in C \X C
    OBVIOUS
  <2>2. PICK d \in D : f[d] = <<x, y>>
    <3> HIDE DEF f, C, D
    <3> QED BY <1>6, <2>1 DEF Surjection
  <2>3. d2xy(side, d) = <<x, y>>
    BY <2>2
  <2>4. \A c \in D : d2xy(side, c) = <<x, y>> => xy2d(side, x, y) = c
    <3> SUFFICES ASSUME NEW c \in D, d2xy(side, c) = <<x, y>> PROVE xy2d(side, x, y) = c
      OBVIOUS
    <3>1. PICK p, q \in C : d2xy(side, c) = <<p, q>> /\ xy2d(side, p, q) = c
      BY <1>1 DEF Returns
    <3>2. p = x /\ q = y
      BY <3>1
    <3> QED BY <3>1, <3>2
  <2> HIDE DEF D, C
  <2> QED BY <2>3, <2>4
<1> QED BY <1>7 DEF Numbers, side

-----------------------------------------------------------------------------
(***************************************************************************)
(* Sorting a list of edges.                                                *)
(***************************************************************************)
\* The positions that mysort sorts by, and what it makes of them.
positions(h, E) == IF h THEN [e \in E |-> xy2d(roundUpPow2(Cardinality(E)), e[1], e[2])] ELSE [e \in E |-> 0]

earlier(at, e, f) == at[e] < at[f] \/ (at[e] = at[f] /\ CSRDestSort(e, f))

sortedBy(at, E) ==
  [j \in 1 .. Cardinality(E) |->
     CHOOSE e \in E : Cardinality({f \in E : earlier(at, f, e)}) = j - 1]

\* This is what mysort does.
LEMMA SortsByPosition == \A E : mysort(E) = sortedBy(positions(G.hilbert, E), E)
BY DEF mysort, sortedBy, positions, earlier, e2d

\* L lists the elements of E, each of them once, in the order of their positions.
IsListOf(L, at, E) ==
  /\ Cardinality(E) \in Nat /\ DOMAIN L = 1 .. Cardinality(E) /\ Len(L) = Cardinality(E)
  /\ \A j \in DOMAIN L : L[j] \in E
  /\ \A e \in E : \E j \in DOMAIN L : {l \in DOMAIN L : L[l] = e} = {j}
  /\ \A j, l \in DOMAIN L : j < l => earlier(at, L[j], L[l])

\* The order by position, and by source and destination where positions are equal.
sooner(at, E) == {z \in E \X E : earlier(at, z[1], z[2])}

\* Strictly and totally.
LEMMA SoonerOrders ==
  \A E, at : E \subseteq Int \X Int /\ at \in [E -> Int] => Orders(sooner(at, E), E)
<1> SUFFICES ASSUME NEW E, NEW at, E \subseteq Int \X Int, at \in [E -> Int]
             PROVE  Orders(sooner(at, E), E)
  OBVIOUS
<1>1. ASSUME NEW x \in E, NEW y \in E PROVE <<x, y>> \in sooner(at, E) <=> earlier(at, x, y)
  BY DEF sooner
<1>2. ASSUME NEW x \in E
      PROVE  x[1] \in Int /\ x[2] \in Int /\ at[x] \in Int /\ x = <<x[1], x[2]>>
  OBVIOUS
<1>3. ASSUME NEW x \in E PROVE ~earlier(at, x, x)
  BY <1>2 DEF earlier, CSRDestSort
<1>4. ASSUME NEW x \in E, NEW y \in E, NEW z \in E, earlier(at, x, y), earlier(at, y, z)
      PROVE  earlier(at, x, z)
  BY <1>2, <1>4 DEF earlier, CSRDestSort
<1>5. ASSUME NEW x \in E, NEW y \in E, ~earlier(at, x, y), ~earlier(at, y, x) PROVE x = y
  <2>1. x[1] = y[1] /\ x[2] = y[2]
    BY <1>2, <1>5 DEF earlier, CSRDestSort
  <2> QED BY <1>2, <2>1
<1> HIDE DEF earlier
<1> QED BY <1>1, <1>3, <1>4, <1>5 DEF Orders

\* mysort makes such a list.
LEMMA SortMakesLists ==
  \A E, at : IsFiniteSet(E) /\ E \subseteq Int \X Int /\ at \in [E -> Int] => IsListOf(sortedBy(at, E), at, E)
<1> SUFFICES ASSUME NEW E, NEW at, IsFiniteSet(E), E \subseteq Int \X Int, at \in [E -> Int]
             PROVE  IsListOf(sortedBy(at, E), at, E)
  OBVIOUS
<1> DEFINE R == sooner(at, E)
           Top == Cardinality(E)
           L == sortedBy(at, E)
<1>1. Orders(R, E) /\ Top \in Nat
  BY SoonerOrders, FS_CardinalityType
<1>2. ASSUME NEW e \in E PROVE Cardinality({f \in E : earlier(at, f, e)}) = rank(R, E, e)
  <2>1. {f \in E : earlier(at, f, e)} = before(R, E, e)
    BY DEF before, sooner
  <2> QED BY <2>1 DEF rank
<1>3. L = [j \in 1 .. Top |-> CHOOSE e \in E : Cardinality({f \in E : earlier(at, f, e)}) = j - 1]
  BY DEF sortedBy
<1> HIDE DEF R, Top, L
<1>4. ASSUME NEW e \in E PROVE rank(R, E, e) \in Nat /\ rank(R, E, e) < Top
  BY <1>1, RankGrows DEF Top
<1>5. ASSUME NEW j \in 1 .. Top PROVE L[j] \in E /\ rank(R, E, L[j]) = j - 1
  <2>1. L[j] = CHOOSE e \in E : Cardinality({f \in E : earlier(at, f, e)}) = j - 1
    BY <1>3
  <2>2. \E e \in E : rank(R, E, e) = j - 1
    <3>1. j - 1 \in Nat /\ j - 1 < Top
      BY <1>1
    <3> QED BY <1>1, <3>1, RankExists DEF Top
  <2>3. \E e \in E : Cardinality({f \in E : earlier(at, f, e)}) = j - 1
    BY <1>2, <2>2
  <2>4. L[j] \in E /\ Cardinality({f \in E : earlier(at, f, L[j])}) = j - 1
    BY <2>1, <2>3
  <2> QED BY <1>2, <2>4
<1>6. ASSUME NEW e \in E PROVE \E j \in 1 .. Top : {l \in 1 .. Top : L[l] = e} = {j}
  <2> DEFINE j == rank(R, E, e) + 1
  <2>1. j \in 1 .. Top /\ j - 1 = rank(R, E, e)
    BY <1>1, <1>4
  <2> HIDE DEF j
  <2>2. L[j] = e
    <3>1. L[j] \in E /\ rank(R, E, L[j]) = rank(R, E, e)
      BY <1>5, <2>1
    <3> QED BY <1>1, <3>1, RankUnique
  <2>3. \A l \in 1 .. Top : L[l] = e => l = j
    <3> SUFFICES ASSUME NEW l \in 1 .. Top, L[l] = e PROVE l = j
      OBVIOUS
    <3>1. rank(R, E, e) = l - 1
      BY <1>5
    <3> QED BY <1>1, <2>1, <3>1
  <2> QED BY <2>1, <2>2, <2>3
<1>7. ASSUME NEW j \in 1 .. Top, NEW l \in 1 .. Top, j < l PROVE earlier(at, L[j], L[l])
  <2>1. L[j] \in E /\ L[l] \in E /\ rank(R, E, L[j]) = j - 1 /\ rank(R, E, L[l]) = l - 1
    BY <1>5
  <2>2. L[j] # L[l]
    BY <1>1, <1>7, <2>1
  <2>3. <<L[l], L[j]>> \notin R
    <3>1. <<L[l], L[j]>> \in R => rank(R, E, L[l]) < rank(R, E, L[j])
      BY <1>1, <2>1, RankGrows
    <3> QED BY <1>1, <1>7, <2>1, <3>1
  <2>4. <<L[j], L[l]>> \in R
    BY <1>1, <2>1, <2>2, <2>3 DEF Orders
  <2> QED BY <2>4 DEF R, sooner
<1>8. DOMAIN L = 1 .. Top /\ Len(L) = Top
  <2>1. L \in Seq(E)
    <3>1. L \in [1 .. Top -> E]
      BY <1>3, <1>5
    <3> QED BY <1>1, <3>1
  <2>2. DOMAIN L = 1 .. Top
    BY <1>3
  <2> QED BY <1>1, <2>1, <2>2
<1> QED BY <1>1, <1>5, <1>6, <1>7, <1>8 DEF IsListOf, L, Top

\* The positions are numbers.
LEMMA PositionsAreInts ==
  \A E, h : IsFiniteSet(E) /\ E \subseteq Int \X Int => positions(h, E) \in [E -> Int]
<1> SUFFICES ASSUME NEW E, NEW h, IsFiniteSet(E), E \subseteq Int \X Int
             PROVE  positions(h, E) \in [E -> Int]
  OBVIOUS
<1> DEFINE side == roundUpPow2(Cardinality(E))
<1>1. side \in Nat /\ side \div 2 \in 0 .. side
  <2>1. Cardinality(E) \in Nat
    BY FS_CardinalityType
  <2>2. PICK e, n : Doubles(e, n) /\ e[n] = side
    BY <2>1, SideIsPower
  <2>3. n \in 0 .. n
    BY <2>2 DEF Doubles
  <2> QED BY <2>2, <2>3, PowersGrow DEF Doubles
<1> HIDE DEF side
<1>2. ASSUME NEW e \in E PROVE xy2d(side, e[1], e[2]) \in Int
  <2>1. e[1] \in Int /\ e[2] \in Int
    OBVIOUS
  <2>2. xy2d(side, e[1], e[2]) = walkOf(side)[side \div 2][<<e[1], e[2]>>]
    BY Xy2dWalks
  <2> QED BY <1>1, <2>1, <2>2, WalkIs DEF WalkFacts
<1>3. positions(h, E) = IF h THEN [e \in E |-> xy2d(side, e[1], e[2])] ELSE [e \in E |-> 0]
  BY DEF positions, side
<1> QED BY <1>2, <1>3

\* The position that FollowsTheCurve looks for.
placeIn(side, e) == CHOOSE d \in 0 .. side * side - 1 : d2xy(side, d) = e

\* A list that is long enough follows the curve.
LEMMA ListsFollowCurve ==
  \A E : \A n \in Nat :
    IsFiniteSet(E) /\ E \subseteq (0 .. n - 1) \X (0 .. n - 1) /\ Cardinality(E) >= n =>
      \A e, f \in E : earlier(positions(TRUE, E), e, f) =>
         placeIn(roundUpPow2(Cardinality(E)), e) < placeIn(roundUpPow2(Cardinality(E)), f)
<1> SUFFICES ASSUME NEW E, NEW n \in Nat, IsFiniteSet(E), E \subseteq (0 .. n - 1) \X (0 .. n - 1),
                    Cardinality(E) >= n, NEW e \in E, NEW f \in E, earlier(positions(TRUE, E), e, f)
             PROVE  placeIn(roundUpPow2(Cardinality(E)), e) < placeIn(roundUpPow2(Cardinality(E)), f)
  OBVIOUS
<1> DEFINE side == roundUpPow2(Cardinality(E))
           at == positions(TRUE, E)
<1>1. side \in Nat /\ side >= n /\ Numbers(side)
  <2>1. Cardinality(E) \in Nat
    BY FS_CardinalityType
  <2>2. PICK p, b : Doubles(p, b) /\ p[b] = side
    BY <2>1, SideIsPower
  <2>3. side >= Cardinality(E)
    BY <2>1, SideIsPower
  <2>4. side \in Nat
    BY <2>2 DEF Doubles
  <2> HIDE DEF side
  <2> QED BY <2>1, <2>2, <2>3, <2>4, PositionsNumberPoints
<1>2. at = [x \in E |-> xy2d(side, x[1], x[2])]
  BY DEF positions
<1>3. earlier(at, e, f)
  OBVIOUS
<1> HIDE DEF side, at
<1>4. ASSUME NEW x \in E PROVE placeIn(side, x) = at[x] /\ at[x] \in 0 .. side * side - 1 /\ d2xy(side, at[x]) = x
  <2>1. x[1] \in 0 .. side - 1 /\ x[2] \in 0 .. side - 1 /\ x = <<x[1], x[2]>>
    BY <1>1
  <2> DEFINE c == xy2d(side, x[1], x[2])
  <2>2. c \in 0 .. side * side - 1
        /\ \A d \in 0 .. side * side - 1 : d2xy(side, d) = <<x[1], x[2]>> <=> d = c
    BY <1>1, <2>1 DEF Numbers
  <2> HIDE DEF c
  <2>3. \A d \in 0 .. side * side - 1 : d2xy(side, d) = x <=> d = c
    BY <2>1, <2>2
  <2>4. placeIn(side, x) = c
    BY <2>2, <2>3 DEF placeIn
  <2>5. at[x] = c
    BY <1>2 DEF c
  <2> QED BY <2>2, <2>3, <2>4, <2>5
<1>5. at[e] # at[f]
  <2> SUFFICES ASSUME at[e] = at[f] PROVE FALSE
    OBVIOUS
  <2>1. e = f
    BY <1>4
  <2>2. e[1] \in Int /\ e[2] \in Int
    OBVIOUS
  <2> QED BY <1>3, <1>4, <2>1, <2>2 DEF earlier, CSRDestSort
<1>6. at[e] < at[f]
  BY <1>3, <1>5 DEF earlier
<1> QED BY <1>4, <1>6 DEF side

-----------------------------------------------------------------------------
(***************************************************************************)
(* The lists.                                                              *)
(***************************************************************************)
\* The new numbers of the vertices are a permutation of the old ones.
Renumbered == Reordered => DOMAIN fNinter = Old /\ {fNinter[new] : new \in Old} = Old

\* The edges that graphgrind has read.
WrittenFacts ==
  /\ IsFiniteSet(Written) /\ Written \subseteq (0 .. g.n - 1) \X (0 .. g.n - 1)
  /\ Cardinality(Written) = Cardinality(G.edges)

\* They are those of the first file, renamed.
LEMMA EdgesAreWritten == SameVertices /\ Renumbered => WrittenFacts
<1> SUFFICES ASSUME SameVertices, Renumbered PROVE WrittenFacts
  OBVIOUS
<1>1. IsFiniteSet(G.edges) /\ G.edges \subseteq Old \X Old /\ RawType(G)
  BY RawFacts, EdgesAreFinite DEF SameVertices
<1>2. CASE ~Reordered
  <2>1. Written = {<<e[1], e[2]>> : e \in G.edges}
    BY <1>2 DEF Written
  <2>2. \A e \in G.edges : e = <<e[1], e[2]>>
    BY <1>1
  <2>3. Written = G.edges
    BY <2>1, <2>2
  <2>4. G.edges \subseteq (0 .. g.n - 1) \X (0 .. g.n - 1)
    <3>1. CASE G.edges = {}
      BY <3>1
    <3>2. CASE G.edges # {}
      BY <1>1, <3>2 DEF SameVertices, Old
    <3> QED BY <3>1, <3>2
  <2> QED BY <1>1, <2>3, <2>4 DEF WrittenFacts
<1>3. CASE Reordered
  <2> DEFINE inter(v) == CHOOSE new \in DOMAIN fNinter : fNinter[new] = v
             h == [e \in G.edges |-> <<inter(e[1]), inter(e[2])>>]
  <2>1. ASSUME NEW v \in Old PROVE inter(v) \in Old /\ fNinter[inter(v)] = v
    <3>1. \E new \in DOMAIN fNinter : fNinter[new] = v
      BY <1>3 DEF Renumbered
    <3> QED BY <1>3, <3>1 DEF Renumbered
  <2>2. Written = {<<inter(e[1]), inter(e[2])>> : e \in G.edges}
    BY <1>3 DEF Written
  <2> HIDE DEF inter
  <2>3. \A e \in G.edges : e[1] \in Old /\ e[2] \in Old /\ e = <<e[1], e[2]>>
    BY <1>1
  <2>4. Written \subseteq Old \X Old
    BY <2>1, <2>2, <2>3
  <2>5. h \in Bijection(G.edges, Written)
    <3>1. h \in [G.edges -> Written]
      BY <2>2
    <3>2. \A e \in G.edges : \A f \in G.edges : h[e] = h[f] => e = f
      <4> SUFFICES ASSUME NEW e \in G.edges, NEW f \in G.edges, h[e] = h[f] PROVE e = f
        OBVIOUS
      <4>1. inter(e[1]) = inter(f[1]) /\ inter(e[2]) = inter(f[2])
        OBVIOUS
      <4>2. e[1] = f[1] /\ e[2] = f[2]
        BY <2>1, <2>3, <4>1
      <4> QED BY <2>3, <4>2
    <3>3. \A y \in Written : \E e \in G.edges : h[e] = y
      BY <2>2
    <3> HIDE DEF h
    <3> QED BY <3>1, <3>2, <3>3 DEF Bijection, Injection, IsInjective, Surjection
  <2>6. IsFiniteSet(Written) /\ Cardinality(Written) = Cardinality(G.edges)
    <3> HIDE DEF h
    <3> QED BY <1>1, <2>5, FS_Bijection DEF ExistsBijection
  <2>7. Written \subseteq (0 .. g.n - 1) \X (0 .. g.n - 1)
    <3>1. CASE G.edges = {}
      BY <2>2, <3>1
    <3>2. CASE G.edges # {}
      BY <2>4, <3>2 DEF SameVertices, Old
    <3> QED BY <3>1, <3>2
  <2> QED BY <2>6, <2>7 DEF WrittenFacts
<1> QED BY <1>2, <1>3

\* What the lists are made of does not change after they have been made.
LEMMA SameLists ==
  g' = g /\ G' = G /\ fNinter' = fNinter /\ starts'["coo"] = starts["coo"] =>
    [p \in VisitedPartitions |-> mysort(COOPartition(p))]'
      = [p \in VisitedPartitions |-> mysort(COOPartition(p))]
<1> SUFFICES ASSUME g' = g, G' = G, fNinter' = fNinter, starts'["coo"] = starts["coo"]
             PROVE  [p \in VisitedPartitions |-> mysort(COOPartition(p))]'
                      = [p \in VisitedPartitions |-> mysort(COOPartition(p))]
  OBVIOUS
<1>1. Written' = Written
  BY DEF Written, Reordered
<1>2. VisitedPartitions' = VisitedPartitions
  BY DEF VisitedPartitions, perNode
<1>3. \A p : COOPartition(p)' = COOPartition(p)
  BY <1>1 DEF COOPartition, home, ElementsOf
<1>4. ASSUME NEW p PROVE mysort(COOPartition(p))' = mysort(COOPartition(p))
  <2>1. mysort(COOPartition(p))' = sortedBy(positions(G'.hilbert, COOPartition(p)'), COOPartition(p)')
    BY DEF mysort, sortedBy, positions, earlier, e2d
  <2>2. mysort(COOPartition(p)) = sortedBy(positions(G.hilbert, COOPartition(p)), COOPartition(p))
    BY SortsByPosition
  <2> QED BY <1>3, <2>1, <2>2
<1> QED BY <1>2, <1>4

\* No list is made at first.
LEMMA ListInit == LInit => ListInv
<1> SUFFICES ASSUME LInit PROVE ListInv
  OBVIOUS
<1>1. which = "coo"
  BY DEF LInit, VInit, Init
<1>2. CASE G = Unknown
  BY <1>1, <1>2 DEF ListInv, ListsHold, SameVertices, Unknown, RawType
<1>3. CASE G \in Raw /\ g = inputOf(G, G.edges)
  BY <1>1, <1>3, RawAssumption DEF ListInv, ListsHold, SameVertices, inputOf
<1> QED BY <1>2, <1>3 DEF LInit, VInit

\* Cutting, with the lists made on the way.
LEMMA CuttingKeepsLists ==
  GraphInv /\ ListInv /\ LNext /\ Next /\ UNCHANGED veboVars => ListInv'
<1> SUFFICES ASSUME GraphInv, ListInv, LNext, Next, UNCHANGED veboVars PROVE ListInv'
  OBVIOUS
<1>1. G' = G /\ fNinter' = fNinter
  BY DEF veboVars
<1>2. TypeOK
  BY DEF GraphInv, CutInv
<1>3. g' = g
  <2>1. UNCHANGED vars => g' = g
    BY DEF vars
  <2> QED BY <2>1 DEF Next, CutByVertex, PlaceRelabelled, PlaceByDegree, Place, Overrun, EndOfSizes,
                    ComputeStarts, MmapFailed, NextPartitioner, Ready, Stopped
<1>4. SameVertices'
  BY <1>1, <1>3 DEF ListInv, SameVertices, RawType
<1>5. ASSUME which' = "csc" PROVE starts'["coo"] = starts["coo"]
  <2>1. CASE ComputeStarts
    <3>1. which = "csc" /\ starts' = [starts EXCEPT ![which][i] = startID]
      BY <1>5, <2>1 DEF ComputeStarts
    <3> QED BY <1>2, <3>1 DEF TypeOK
  <2>2. CASE ~ComputeStarts
    <3>1. UNCHANGED vars => starts' = starts
      BY DEF vars
    <3>2. starts' = starts
      BY <2>2, <3>1 DEF Next, CutByVertex, PlaceRelabelled, PlaceByDegree, Place, Overrun, EndOfSizes,
                      MmapFailed, NextPartitioner, Ready, Stopped
    <3> QED BY <3>2
  <2> QED BY <2>1, <2>2
<1>6. which \in {"coo", "csc"}
  BY <1>2 DEF TypeOK
<1>7. lists' = IF which = "coo" /\ which' = "csc" /\ ~g.part_ver
               THEN [p \in VisitedPartitions |-> mysort(COOPartition(p))]
               ELSE lists
  BY DEF LNext
<1>8. ListsHold'
  <2> SUFFICES ASSUME which' = "csc", ~g.part_ver
               PROVE  lists' = [p \in VisitedPartitions |-> mysort(COOPartition(p))]'
    BY <1>3 DEF ListsHold
  <2>1. [p \in VisitedPartitions |-> mysort(COOPartition(p))]'
          = [p \in VisitedPartitions |-> mysort(COOPartition(p))]
    BY <1>1, <1>3, <1>5, SameLists
  <2>2. lists' = [p \in VisitedPartitions |-> mysort(COOPartition(p))]
    <3>1. CASE which = "coo"
      BY <1>7, <3>1
    <3>2. CASE which = "csc"
      BY <1>7, <3>2 DEF ListInv, ListsHold
    <3> QED BY <1>6, <3>1, <3>2
  <2> QED BY <2>1, <2>2
<1> QED BY <1>4, <1>8 DEF ListInv

\* The lists stay what they were made, through all steps.
LEMMA ListStep ==
  GraphInv /\ ListInv /\ [LNext]_<<vars, veboVars, lists>> => ListInv'
<1> SUFFICES ASSUME GraphInv, ListInv, [LNext]_<<vars, veboVars, lists>> PROVE ListInv'
  OBVIOUS
<1>1. CASE LNext /\ stage = "written" /\ Next /\ UNCHANGED veboVars
  BY <1>1, CuttingKeepsLists
<1>2. CASE Write /\ which' = which
  <2>1. stage # "written"
    BY <1>2 DEF Write
  <2>2. which = "coo" /\ G \in Raw /\ g = inputOf(G, G.edges)
    BY <2>1 DEF GraphInv, NothingIsCut
  <2>3. G' = G /\ g'.n = G.n
    <3>1. g.n = G.n
      BY <2>2 DEF inputOf
    <3> QED BY <1>2, <2>2, <3>1, WriteFacts
  <2> QED BY <1>2, <2>2, <2>3 DEF ListInv, SameVertices, ListsHold, RawType
<1>3. CASE stage # "written" /\ UNCHANGED vars /\ G' = G
  <2>1. which = "coo"
    BY <1>3 DEF GraphInv, NothingIsCut
  <2> QED BY <1>3, <2>1 DEF ListInv, SameVertices, ListsHold, RawType, vars
<1>4. CASE UNCHANGED <<vars, veboVars, lists>>
  <2>1. g' = g /\ G' = G /\ fNinter' = fNinter /\ starts' = starts /\ which' = which /\ lists' = lists
    BY <1>4 DEF vars, veboVars
  <2>2. [p \in VisitedPartitions |-> mysort(COOPartition(p))]'
          = [p \in VisitedPartitions |-> mysort(COOPartition(p))]
    BY <2>1, SameLists
  <2>3. ListsHold'
    BY <2>1, <2>2 DEF ListInv, ListsHold
  <2>4. SameVertices'
    BY <2>1 DEF ListInv, SameVertices, RawType
  <2> QED BY <2>3, <2>4 DEF ListInv
<1>5. CASE (Assign \/ NextClass \/ FillUp \/ AddZero) /\ UNCHANGED vars
  <2>1. stage # "written" /\ G' = G
    BY <1>5 DEF Assign, NextClass, FillUp, AddZero
  <2> QED BY <1>3, <1>5, <2>1
<1>6. CASE stage = "wild" /\ UNCHANGED <<vars, veboVars>>
  BY <1>3, <1>6 DEF veboVars
<1> QED BY <1>1, <1>2, <1>4, <1>5, <1>6 DEF LNext, VNext

\* The lists when graphgrind is ready.
ListFacts ==
  /\ TypeOK /\ Tiles("coo") /\ elements("coo") = g.n /\ VisitedPartitions \subseteq 0 .. LastPart
  /\ WrittenFacts
  /\ DOMAIN lists = VisitedPartitions
  /\ \A p \in VisitedPartitions :
       IsListOf(lists[p], positions(G.hilbert, COOPartition(p)), COOPartition(p))

\* They are sorted lists of the edges of their partitions.
LEMMA ListsAreKnown ==
  GraphInv /\ PlacementInv /\ NumbersAreWritten /\ ListInv /\ Made => ListFacts
<1> SUFFICES ASSUME GraphInv, PlacementInv, NumbersAreWritten, ListInv, Made PROVE ListFacts
  OBVIOUS
<1>1. TypeOK /\ which = "csc" /\ Tiles("coo") /\ InputType(g)
  BY DEF GraphInv, CutInv, SizesAddUp, Made, TypeOK
<1>2. elements("coo") = g.n /\ VisitedPartitions \subseteq 0 .. LastPart
  BY <1>1, AllAreListed, VisitedAreParts
<1>3. WrittenFacts
  <2>1. Renumbered
    BY DEF PlacementInv, NumbersAreWritten, Placing, Dealt, Renumbered
  <2> QED BY <2>1, EdgesAreWritten DEF ListInv
<1>4. lists = [p \in VisitedPartitions |-> mysort(COOPartition(p))]
  BY <1>1 DEF ListInv, ListsHold, Made
<1>5. ASSUME NEW p \in VisitedPartitions
      PROVE  IsListOf(lists[p], positions(G.hilbert, COOPartition(p)), COOPartition(p))
  <2> DEFINE E == COOPartition(p)
  <2>1. E \subseteq Written
    BY DEF COOPartition
  <2>2. g.n \in Nat
    BY <1>1 DEF InputType
  <2>3. IsFiniteSet(E) /\ E \subseteq Int \X Int
    BY <1>3, <2>1, <2>2, FS_Subset DEF WrittenFacts
  <2>4. lists[p] = sortedBy(positions(G.hilbert, E), E)
    BY <1>4, SortsByPosition
  <2> HIDE DEF E
  <2>5. IsListOf(lists[p], positions(G.hilbert, E), E)
    BY <2>3, <2>4, PositionsAreInts, SortMakesLists
  <2> QED BY <2>5 DEF E
<1> QED BY <1>1, <1>2, <1>3, <1>4, <1>5 DEF ListFacts

\* An edge belongs to one partition.
LEMMA EdgesHaveHomes ==
  ListFacts =>
    /\ \A e \in Written : \E p \in 0 .. LastPart :
         \A q \in 0 .. LastPart : e \in COOPartition(q) <=> q = p
<1> SUFFICES ASSUME ListFacts, NEW e \in Written
             PROVE  \E p \in 0 .. LastPart : \A q \in 0 .. LastPart : e \in COOPartition(q) <=> q = p
  OBVIOUS
<1>1. home(e) \in 0 .. elements("coo") - 1
  <2>1. e \in (0 .. g.n - 1) \X (0 .. g.n - 1)
    BY DEF ListFacts, WrittenFacts
  <2> QED BY <2>1 DEF ListFacts, home
<1>2. PICK p \in 0 .. LastPart : {q \in 0 .. LastPart : home(e) \in ElementsOf("coo", q)} = {p}
  BY <1>1, TilesPartition DEF ListFacts
<1>3. \A q \in 0 .. LastPart : e \in COOPartition(q) <=> q = p
  BY <1>2 DEF COOPartition
<1> QED BY <1>3

\* The sum of EachEdgeListedOnce.
LEMMA CopiesAddUp ==
  \A e, S : MapThenSumSet(LAMBDA p : Copies(e, p), S) = Total([p \in S |-> Copies(e, p)], S)
BY DEF Total, MapThenSumSet, MapThenFoldSet

\* Every edge is in one list once, unless its partition is left over.
LEMMA ListedOnce == ListFacts => EachEdgeListedOnce
<1> SUFFICES ASSUME ListFacts PROVE EachEdgeListedOnce
  OBVIOUS
<1>1. /\ Leftover \in Nat /\ VisitedPartitions = 0 .. Leftover - 1
      /\ VisitedPartitions \subseteq 0 .. LastPart
  BY LeftoverFacts DEF ListFacts
<1>2. \A p \in VisitedPartitions :
        IsListOf(lists[p], positions(G.hilbert, COOPartition(p)), COOPartition(p))
  BY DEF ListFacts
<1>3. ASSUME NEW e \in Written
      PROVE  MapThenSumSet(LAMBDA p : Copies(e, p), VisitedPartitions)
               = IF home(e) < starts["coo"][Leftover] THEN 1 ELSE 0
  <2> DEFINE f == [p \in VisitedPartitions |-> Copies(e, p)]
  <2>1. PICK p \in 0 .. LastPart : \A q \in 0 .. LastPart : e \in COOPartition(q) <=> q = p
    BY EdgesHaveHomes
  <2>2. home(e) < starts["coo"][Leftover] <=> p \in VisitedPartitions
    <3>1. home(e) \in 0 .. elements("coo") - 1
      <4>1. e \in (0 .. g.n - 1) \X (0 .. g.n - 1)
        BY DEF ListFacts, WrittenFacts
      <4> QED BY <4>1 DEF ListFacts, home
    <3>2. home(e) \in ElementsOf("coo", p)
      BY <2>1 DEF COOPartition
    <3>3. home(e) < starts["coo"][Leftover] <=> p < Leftover
      BY <3>1, <3>2, PositionsAreShared DEF ListFacts
    <3>4. p < Leftover <=> p \in VisitedPartitions
      BY <1>1
    <3> QED BY <3>3, <3>4
  <2>3. ASSUME p \in VisitedPartitions PROVE f[p] = 1
    <3>1. PICK j \in DOMAIN lists[p] : {l \in DOMAIN lists[p] : lists[p][l] = e} = {j}
      BY <1>2, <2>1, <2>3 DEF IsListOf
    <3>2. f[p] = Cardinality({j})
      BY <2>3, <3>1 DEF Copies
    <3> QED BY <3>2, FS_Singleton
  <2>4. ASSUME NEW q \in VisitedPartitions, q # p PROVE f[q] = 0
    <3>1. e \notin COOPartition(q)
      BY <1>1, <2>1, <2>4
    <3>2. \A j \in DOMAIN lists[q] : lists[q][j] # e
      BY <1>2, <3>1 DEF IsListOf
    <3>3. {j \in DOMAIN lists[q] : lists[q][j] = e} = {}
      BY <3>2
    <3>4. f[q] = Cardinality({})
      BY <3>3 DEF Copies
    <3> QED BY <3>4, FS_EmptySet
  <2>5. IsSummable(f, VisitedPartitions)
    <3>1. IsFiniteSet(VisitedPartitions)
      <4>1. 0 \in Int /\ Leftover - 1 \in Int
        BY <1>1
      <4> QED BY <1>1, <4>1, FS_Interval
    <3>2. \A q \in VisitedPartitions : f[q] \in Int
      <4> HIDE DEF f
      <4> QED BY <2>3, <2>4
    <3> HIDE DEF f
    <3> QED BY <3>1, <3>2 DEF IsSummable
  <2>6. CASE p \in VisitedPartitions
    <3>1. Total(f, VisitedPartitions) = f[p]
      <4> HIDE DEF f
      <4> QED BY <2>4, <2>5, <2>6, TotalSingle
    <3> QED BY <2>2, <2>3, <2>6, <3>1, CopiesAddUp
  <2>7. CASE p \notin VisitedPartitions
    <3>1. Total(f, VisitedPartitions) = 0
      <4> HIDE DEF f
      <4>1. \A q \in VisitedPartitions : f[q] = 0
        BY <2>4, <2>7
      <4> QED BY <2>5, <4>1, TotalNat DEF IsSummable
    <3> QED BY <2>2, <2>7, <3>1, CopiesAddUp
  <2> QED BY <2>6, <2>7
<1>4. ASSUME NEW p \in VisitedPartitions, NEW j \in DOMAIN lists[p] PROVE lists[p][j] \in Written
  BY <1>2 DEF IsListOf, COOPartition
<1> QED BY <1>3, <1>4 DEF EachEdgeListedOnce, ListFacts, WrittenFacts

\* Edges into one vertex are in one list, when it is the destination that counts.
LEMMA OwnedDestinations == ListFacts => DestinationsAreOwned
<1> SUFFICES ASSUME ListFacts, ~g.source, NEW p \in VisitedPartitions, NEW q \in VisitedPartitions,
                    NEW j \in DOMAIN lists[p], NEW l \in DOMAIN lists[q], lists[p][j][2] = lists[q][l][2]
             PROVE  p = q
  BY DEF DestinationsAreOwned
<1>1. lists[p][j] \in COOPartition(p) /\ lists[q][l] \in COOPartition(q)
  BY DEF ListFacts, IsListOf
<1>2. home(lists[p][j]) = home(lists[q][l])
  BY DEF home
<1>3. lists[p][j] \in COOPartition(q)
  BY <1>1, <1>2 DEF COOPartition
<1>4. p \in 0 .. LastPart /\ q \in 0 .. LastPart /\ lists[p][j] \in Written
  BY <1>1 DEF ListFacts, COOPartition
<1> QED BY <1>1, <1>3, <1>4, EdgesHaveHomes

\* Lists that are long enough follow the curve.
LEMMA CurveIsFollowed == ListFacts => FollowsTheCurve
<1> SUFFICES ASSUME ListFacts, G.hilbert, NEW p \in VisitedPartitions, Len(lists[p]) >= g.n,
                    NEW j \in DOMAIN lists[p], NEW l \in DOMAIN lists[p], j < l
             PROVE  placeIn(roundUpPow2(Len(lists[p])), lists[p][j])
                      < placeIn(roundUpPow2(Len(lists[p])), lists[p][l])
  BY DEF FollowsTheCurve, placeIn
<1> DEFINE E == COOPartition(p)
<1>1. IsListOf(lists[p], positions(TRUE, E), E)
  <2>1. positions(G.hilbert, E) = positions(TRUE, E)
    BY DEF positions
  <2> QED BY <2>1 DEF ListFacts
<1>2. E \subseteq Written
  BY DEF COOPartition
<1>3. g.n \in Nat /\ IsFiniteSet(E) /\ E \subseteq (0 .. g.n - 1) \X (0 .. g.n - 1)
  BY <1>2, FS_Subset DEF ListFacts, WrittenFacts, TypeOK, InputType
<1> HIDE DEF E
<1>4. Len(lists[p]) = Cardinality(E) /\ lists[p][j] \in E /\ lists[p][l] \in E
      /\ earlier(positions(TRUE, E), lists[p][j], lists[p][l])
  BY <1>1 DEF IsListOf
<1> QED BY <1>3, <1>4, ListsFollowCurve

\* Every edge is in one list once, under its new numbers, unless its partition is left
\* over; edges into one vertex share a list; long lists follow the curve: what edgeMap
\* takes for granted of the COO lists.
THEOREM ListsAreMadeRight == LSpec => []ListsAreRight
<1> DEFINE Inv == GraphInv /\ PlacementInv /\ NumbersAreWritten /\ ListInv
<1>1. LInit => Inv
  BY GraphInit, PlacementInit, ListInit
<1>2. Inv /\ [LNext]_<<vars, veboVars, lists>> => Inv'
  BY GraphStep, PlacementStep, ListStep
<1>3. Inv => ListsAreRight
  <2> SUFFICES ASSUME Inv PROVE ListsAreRight
    OBVIOUS
  <2>1. CASE Made
    BY <2>1, ListsAreKnown, ListedOnce, OwnedDestinations, CurveIsFollowed DEF ListsAreRight
  <2>2. CASE ~Made
    BY <2>2 DEF ListsAreRight, EachEdgeListedOnce, DestinationsAreOwned, FollowsTheCurve
  <2> QED BY <2>1, <2>2
<1> QED BY <1>1, <1>2, <1>3, PTL DEF LSpec
=============================================================================
