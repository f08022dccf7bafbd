-------------------------- MODULE PageRank_proofs --------------------------
(***************************************************************************)
(* Proofs about PageRank and FrontierMemory, for every number of vertices, *)
(* every set of graphs and partitionings, every pair of thresholds and     *)
(* every damping, epsilon and number of rounds.                            *)
(***************************************************************************)
EXTENDS FrontierMemory, Lemmas

\* The numbers of the programs.
LEMMA NumberFacts ==
  /\ N \in Nat /\ N > 0 /\ Unit \in Nat
  /\ Damping[1] \in Nat /\ Damping[2] \in Nat /\ Damping[2] > 0 /\ Damping[1] < Damping[2]
  /\ one_over_n \in Nat /\ addedConstant \in Int
  /\ \A x \in Int : damped(x) \in Int
<1>1. /\ N \in Nat /\ N > 0 /\ Unit \in Nat
      /\ Damping[1] \in Nat /\ Damping[2] \in Nat /\ Damping[2] > 0 /\ Damping[1] < Damping[2]
  BY SizeAssumption, NumbersAssumption
<1>2. one_over_n \in Nat
  BY <1>1, Quotient DEF one_over_n
<1>3. ASSUME NEW x \in Int PROVE damped(x) \in Int
  <2>1. Damping[1] * x \in Int
    BY <1>1
  <2> QED BY <1>1, <2>1 DEF damped
<1>4. addedConstant \in Int
  BY <1>2, <1>3 DEF addedConstant
<1> QED BY <1>1, <1>2, <1>3, <1>4

\* Division rounds down.
LEMMA Division ==
  ASSUME NEW x \in Int, NEW b \in Nat, b > 0
  PROVE  x \div b \in Int /\ b * (x \div b) <= x /\ x < b * (x \div b) + b
OBVIOUS

LEMMA VertexFinite == IsFiniteSet(Vertex)
BY SizeAssumption, FS_Interval DEF Vertex

\* The norms are sums over the vertices.
LEMMA PlusReduceFacts ==
  \A f : /\ plusReduce(f) = Total(f, Vertex)
         /\ (\A u \in Vertex : f[u] \in Int) => plusReduce(f) \in Int
         /\ (\A u \in Vertex : f[u] \in Nat) => plusReduce(f) \in Nat
<1> SUFFICES ASSUME NEW f
             PROVE  /\ plusReduce(f) = Total(f, Vertex)
                    /\ (\A u \in Vertex : f[u] \in Int) => plusReduce(f) \in Int
                    /\ (\A u \in Vertex : f[u] \in Nat) => plusReduce(f) \in Nat
  OBVIOUS
<1>1. plusReduce(f) = Total(f, Vertex)
  BY DEF plusReduce, Total
<1>2. ASSUME \A u \in Vertex : f[u] \in Int PROVE Total(f, Vertex) \in Int
  BY <1>2, VertexFinite, TotalIsInt DEF IsSummable
<1>3. ASSUME \A u \in Vertex : f[u] \in Nat PROVE Total(f, Vertex) \in Nat
  BY <1>3, VertexFinite, TotalNat
<1> QED BY <1>1, <1>2, <1>3

LEMMA FabsFacts == \A x \in Int : fabs(x) \in Nat
BY DEF fabs

\* A source has an out-edge.
LEMMA DegreeFacts ==
  ASSUME GA \in Graphs
  PROVE  /\ \A u : getOutDegree(u) \in Nat
         /\ \A e \in GA.edges : getOutDegree(src(e)) > 0
<1>1. ASSUME NEW u PROVE /\ IsFiniteSet({e \in GA.edges : src(e) = u})
                         /\ getOutDegree(u) \in Nat
  BY GraphFacts, FS_Subset, FS_CardinalityType DEF getOutDegree
<1>2. ASSUME NEW e \in GA.edges PROVE getOutDegree(src(e)) > 0
  <2>1. {x \in GA.edges : src(x) = src(e)} # {}
    OBVIOUS
  <2>2. getOutDegree(src(e)) # 0
    BY <2>1, <1>1, FS_EmptySet DEF getOutDegree
  <2>3. getOutDegree(src(e)) \in Nat
    BY <1>1
  <2> QED BY <2>2, <2>3
<1> QED BY <1>1, <1>2

\* What an edge adds is a number.
LEMMA AddendFacts ==
  ASSUME GA \in Graphs, curr \in [Vertex -> Int]
  PROVE  \A e \in GA.edges : Addend(e) \in Int
<1> SUFFICES ASSUME NEW e \in GA.edges PROVE Addend(e) \in Int
  OBVIOUS
<1>1. curr[src(e)] \in Int /\ e[3] \in Int
  BY GraphFacts, WeightAssumption
<1>2. getOutDegree(src(e)) \in Nat /\ getOutDegree(src(e)) > 0
  BY DegreeFacts
<1>3. damped(curr[src(e)]) \in Int
  BY <1>1, NumberFacts
<1>4. \A x \in Int : x \div getOutDegree(src(e)) \in Int
  BY <1>2
<1>5. curr[src(e)] * e[3] \in Int
  BY <1>1
<1> QED BY <1>1, <1>3, <1>4, <1>5 DEF Addend

\* PR_Vertex_F applied once.
LEMMA VertexFFacts ==
  \A x \in Int : /\ \A k \in Nat : PR_Vertex_F(x, k) \in Int
                 /\ PR_Vertex_F(x, 0) = x
                 /\ PR_Vertex_F(x, 1) = damped(x) + addedConstant
<1> SUFFICES ASSUME NEW x \in Int
             PROVE  /\ \A k \in Nat : PR_Vertex_F(x, k) \in Int
                    /\ PR_Vertex_F(x, 0) = x
                    /\ PR_Vertex_F(x, 1) = damped(x) + addedConstant
  OBVIOUS
<1> DEFINE g == [y \in Int |-> damped(y) + addedConstant]
           Is(f, k) == f = [i \in 0 .. k |-> IF i = 0 THEN x ELSE damped(f[i-1]) + addedConstant]
<1>1. g \in [Int -> Int]
  BY NumberFacts
<1>2. ASSUME NEW k \in Nat
      PROVE  \E f \in [0 .. k -> Int] : Is(f, k)
  <2>1. IteratesIn(Int, k, x, g)
    <3> HIDE DEF g
    <3> QED BY <1>1, RecursionExists
  <2>2. PICK f \in [0 .. k -> Int] : f[0] = x /\ \A i \in 1 .. k : f[i] = g[f[i - 1]]
    BY <2>1 DEF IteratesIn, Iterates
  <2>3. ASSUME NEW i \in 0 .. k
        PROVE  f[i] = IF i = 0 THEN x ELSE damped(f[i-1]) + addedConstant
    <3>1. CASE i = 0
      BY <2>2, <3>1
    <3>2. CASE i # 0
      <4>1. i \in 1 .. k /\ i - 1 \in 0 .. k
        BY <3>2
      <4>2. f[i - 1] \in Int /\ f[i] = g[f[i - 1]]
        BY <2>2, <4>1
      <4> QED BY <3>2, <4>2
    <3> QED BY <3>1, <3>2
  <2>4. Is(f, k)
    BY <2>3
  <2> QED BY <2>4
<1>3. ASSUME NEW k \in Nat
      PROVE  \E f : Is(f, k) /\ PR_Vertex_F(x, k) = f[k]
  <2> DEFINE f == CHOOSE f : Is(f, k)
  <2>1. Is(f, k)
    <3> HIDE DEF Is
    <3> QED BY <1>2
  <2>2. PR_Vertex_F(x, k) = f[k]
    BY DEF PR_Vertex_F
  <2> HIDE DEF f
  <2> QED BY <2>1, <2>2
<1>4. ASSUME NEW k \in Nat PROVE PR_Vertex_F(x, k) \in Int
  <2>1. PICK f : Is(f, k) /\ PR_Vertex_F(x, k) = f[k]
    BY <1>3
  <2> DEFINE S == {i \in 0 .. k : f[i] \in Int}
  <2>2. f[0] = x /\ \A i \in 1 .. k : f[i] = damped(f[i - 1]) + addedConstant
    BY <2>1
  <2>3. 0 \in S
    BY <2>2
  <2>4. ASSUME NEW i \in 0 .. k - 1, i \in S PROVE i + 1 \in S
    <3>1. f[i + 1] = damped(f[i]) + addedConstant
      BY <2>2
    <3> QED BY <3>1, <2>4, NumberFacts
  <2>5. \A i \in 0 .. k : i \in S
    <3> HIDE DEF S
    <3> QED BY <2>3, <2>4, BoundedInduction
  <2> QED BY <2>1, <2>5
<1>5. PR_Vertex_F(x, 0) = x
  <2>1. PICK f : Is(f, 0) /\ PR_Vertex_F(x, 0) = f[0]
    BY <1>3
  <2> QED BY <2>1
<1>6. PR_Vertex_F(x, 1) = damped(x) + addedConstant
  <2>1. PICK f : Is(f, 1) /\ PR_Vertex_F(x, 1) = f[1]
    BY <1>3
  <2>2. f[0] = x /\ f[1] = damped(f[0]) + addedConstant
    BY <2>1
  <2> QED BY <2>1, <2>2
<1> QED BY <1>4, <1>5, <1>6

-----------------------------------------------------------------------------
(***************************************************************************)
(* Types, and what a frontier records about itself.                        *)
(***************************************************************************)
\* The records of a frontier that edgeMap or vertexFilter returns.
UpToDate(F) ==
  /\ F \in FrontierType /\ F.rep # "bits"
  /\ F.d_m = Count(F.copies) /\ F.num_out_edges = OutEdges(F.copies, GA.edges)
  /\ F.d_m > 0 => F.numVertices = N

StateInv ==
  /\ TypeOK
  /\ GA \in Graphs /\ FrontierInv
  /\ app # "PageRankDelta" /\ pc \in {"loop", "edges"} => count < MaxIter
  /\ app \notin {"PageRank", "PageRankBit"} => Frontier.numVertices = N
  /\ pc = "edges" => mode \in {"coo", "csc", "sparse"} /\ (mode = "coo" => ~GA.part_ver)
  /\ pc # "edges" => todo = {} /\ strand = {} /\ cache = {}

LEMMA FrontierOfUpToDate ==
  ASSUME GA \in Graphs, NEW r \in {"dense", "sparse"}, NEW copies \in [Vertex -> Nat]
  PROVE  /\ UpToDate(frontierOf(r, copies, GA.edges))
         /\ frontierOf(r, copies, GA.edges).numVertices = N
         /\ frontierOf(r, copies, GA.edges).rep = r
         /\ frontierOf(r, copies, GA.edges).copies = copies
<1>1. frontierOf(r, copies, GA.edges) \in FrontierType
  BY GraphFacts, FrontierOfFacts
<1> QED BY <1>1 DEF UpToDate, frontierOf

LEMMA EmptyUpToDate == UpToDate(empty)
<1>1. Count(None) = 0 /\ \A E : OutEdges(None, E) = 0
  BY NoneFacts
<1> QED BY <1>1, EmptyFacts DEF UpToDate, empty

\* The numbers of a turn.
LEMMA AppliedFacts ==
  ASSUME Frontier \in FrontierType
  PROVE  \A times \in Applied : \A v \in Vertex : times[v] \in Nat
<1> SUFFICES ASSUME NEW times \in Applied, NEW v \in Vertex PROVE times[v] \in Nat
  OBVIOUS
<1>1. IF Frontier.rep = "sparse"
      THEN times[v] \in (IF Frontier.copies[v] = 0 THEN {0} ELSE 1 .. Frontier.copies[v])
      ELSE times[v] = IF bit \/ Frontier.copies[v] > 0 THEN 1 ELSE 0
  BY DEF Applied
<1>2. Frontier.copies[v] \in Nat
  BY DEF FrontierType
<1> QED BY <1>1, <1>2

\* What the rest of a turn leaves, apart from the frontier.
Numbers ==
  /\ L1_norm \in Nat /\ dropped \in Nat
  /\ curr \in [Vertex -> Int] /\ next \in [Vertex -> Int] /\ p \in [Vertex -> Int]

LEMMA TailNumbers ==
  ASSUME Numbers, Frontier \in FrontierType, NEW out, Tail(out)
  PROVE  Numbers'
<1>1. PICK times \in Applied :
        LET updated == [v \in Vertex |-> PR_Vertex_F(next[v], times[v])]
            diff == [v \in Vertex |-> fabs(curr[v] - updated[v])]
        IN /\ L1_norm' = plusReduce(diff)
           /\ IF Breaks THEN curr' = diff /\ next' = updated
                        ELSE curr' = updated /\ next' = PR_Vertex_Reset(diff, times)
           /\ UNCHANGED <<p, dropped>>
  BY DEF Tail
<1> DEFINE updated == [v \in Vertex |-> PR_Vertex_F(next[v], times[v])]
           diff == [v \in Vertex |-> fabs(curr[v] - updated[v])]
<1>2. ASSUME NEW v \in Vertex PROVE updated[v] \in Int /\ diff[v] \in Nat
  <2>1. next[v] \in Int /\ curr[v] \in Int /\ times[v] \in Nat
    BY AppliedFacts DEF Numbers
  <2>2. updated[v] \in Int
    BY <2>1, VertexFFacts
  <2>3. curr[v] - updated[v] \in Int
    BY <2>1, <2>2
  <2> QED BY <2>2, <2>3, FabsFacts
<1>3. updated \in [Vertex -> Int] /\ diff \in [Vertex -> Int]
  BY <1>2
<1>4. plusReduce(diff) \in Nat
  BY <1>2, PlusReduceFacts
<1>5. PR_Vertex_Reset(diff, times) \in [Vertex -> Int]
  BY <1>3 DEF PR_Vertex_Reset
<1> QED BY <1>1, <1>3, <1>4, <1>5 DEF Numbers

LEMMA DeltaFacts ==
  ASSUME Numbers
  PROVE  \A v \in Vertex : Delta(v).Delta \in Int /\ Delta(v).p \in Int
<1> SUFFICES ASSUME NEW v \in Vertex PROVE Delta(v).Delta \in Int /\ Delta(v).p \in Int
  OBVIOUS
<1>1. next[v] \in Int /\ p[v] \in Int /\ p[v] + next[v] \in Int
  BY DEF Numbers
<1>2. /\ damped(next[v]) \in Int /\ damped(p[v] + next[v]) \in Int
      /\ addedConstant \in Int /\ one_over_n \in Int
  BY <1>1, NumberFacts
<1> QED BY <1>1, <1>2 DEF Delta

LEMMA TailDeltaNumbers ==
  ASSUME Numbers, TailDelta
  PROVE  Numbers'
<1> DEFINE new == [v \in Vertex |-> Delta(v)]
           active == [v \in Vertex |->
                        IF fabs(new[v].Delta) * epsilon2[2] > epsilon2[1] * new[v].p
                        THEN 1 ELSE 0]
           norm == [v \in Vertex |-> fabs(new[v].Delta)]
           lost == [v \in Vertex |-> IF active[v] = 0 THEN norm[v] ELSE 0]
<1>1. /\ curr' = [v \in Vertex |-> new[v].Delta] /\ p' = [v \in Vertex |-> new[v].p]
      /\ L1_norm' = plusReduce(norm) /\ dropped' = dropped + plusReduce(lost)
      /\ next' \in {norm, Zero}
  BY DEF TailDelta
<1>2. \A v \in Vertex : new[v].Delta \in Int /\ new[v].p \in Int
  BY DeltaFacts
<1>3. \A v \in Vertex : norm[v] \in Nat /\ lost[v] \in Nat
  BY <1>2, FabsFacts
<1>4. plusReduce(norm) \in Nat /\ plusReduce(lost) \in Nat
  BY <1>3, PlusReduceFacts
<1>5. norm \in [Vertex -> Int] /\ Zero \in [Vertex -> Int]
  BY <1>3 DEF Zero
<1> QED BY <1>1, <1>2, <1>4, <1>5 DEF Numbers

\* The sum that PageRankConverage divides by is positive: the ranks miss 1.0 by
\* less than N units.
LEMMA SpreadFacts ==
  ASSUME next \in [Vertex -> Int]
  PROVE  LET spread == (Unit - plusReduce(next)) \div N
             updated == [v \in Vertex |-> next[v] + spread]
         IN /\ spread \in Int
            /\ plusReduce(updated) = plusReduce(next) + N * spread
            /\ plusReduce(updated) \in Int /\ plusReduce(updated) > 0
<1> DEFINE spread == (Unit - plusReduce(next)) \div N
           updated == [v \in Vertex |-> next[v] + spread]
           each == [v \in Vertex |-> spread]
<1>1. plusReduce(next) \in Int /\ N \in Nat /\ N > 0 /\ Unit \in Nat /\ N <= Unit
  BY PlusReduceFacts, NumberFacts, NumbersAssumption
<1>2. /\ spread \in Int /\ Unit - plusReduce(next) \in Int
      /\ Unit - plusReduce(next) < N * spread + N
  BY <1>1, Division
<1> HIDE DEF spread
<1>3. IsSummable(next, Vertex) /\ IsSummable(each, Vertex)
  BY <1>2, VertexFinite DEF IsSummable
<1>4. plusReduce(updated) = Total(next, Vertex) + Total(each, Vertex)
  BY <1>3, TotalPlus, PlusReduceFacts
<1>5. Cardinality(Vertex) = N
  BY <1>1, Intervals DEF Vertex
<1>6. Total(each, Vertex) = N * spread
  BY <1>2, <1>5, VertexFinite, TotalConstant
<1>7. plusReduce(updated) = plusReduce(next) + N * spread
  BY <1>4, <1>6, PlusReduceFacts
<1>8. N * spread \in Int
  BY <1>1, <1>2
<1>9. plusReduce(updated) \in Int /\ plusReduce(updated) > 0
  <2> DEFINE a == plusReduce(next)
             b == N * spread
  <2> HIDE DEF a, b
  <2>1. a \in Int /\ b \in Int /\ Unit - a < b + N /\ plusReduce(updated) = a + b
    BY <1>1, <1>2, <1>7, <1>8 DEF a, b
  <2> QED BY <2>1, <1>1
<1> QED BY <1>2, <1>7, <1>9 DEF spread

LEMMA TailConverageNumbers ==
  ASSUME Numbers, TailConverage
  PROVE  Numbers'
<1> DEFINE spread == (Unit - plusReduce(next)) \div N
           updated == [v \in Vertex |-> next[v] + spread]
           diff == [v \in Vertex |-> fabs(curr[v] - updated[v])]
<1>1. /\ L1_norm' = plusReduce(diff)
      /\ curr' = [v \in Vertex |-> (updated[v] * Unit) \div plusReduce(updated)]
      /\ next' = Zero /\ UNCHANGED <<p, dropped>>
  BY DEF TailConverage
<1>2. spread \in Int /\ plusReduce(updated) \in Int /\ plusReduce(updated) > 0
  BY SpreadFacts DEF Numbers
<1> HIDE DEF spread
<1>3. ASSUME NEW v \in Vertex PROVE updated[v] \in Int /\ diff[v] \in Nat
  <2>1. updated[v] \in Int /\ curr[v] - updated[v] \in Int
    BY <1>2 DEF Numbers
  <2> QED BY <2>1, FabsFacts
<1>4. plusReduce(diff) \in Nat
  BY <1>3, PlusReduceFacts
<1>5. ASSUME NEW v \in Vertex
      PROVE  (updated[v] * Unit) \div plusReduce(updated) \in Int
  <2>1. updated[v] * Unit \in Int
    BY <1>3, NumberFacts
  <2> HIDE DEF updated
  <2> QED BY <2>1, <1>2, Division
<1>6. curr' \in [Vertex -> Int]
  <2> HIDE DEF updated
  <2> QED BY <1>1, <1>5
<1> QED BY <1>1, <1>4, <1>6 DEF Numbers, Zero

LEMMA TurnNumbers ==
  ASSUME Numbers, Frontier \in FrontierType, NEW out, RestOfTurn(out)
  PROVE  Numbers'
<1>1. CASE Tail(out)
  BY <1>1, TailNumbers
<1>2. CASE TailDelta
  BY <1>2, TailDeltaNumbers
<1>3. CASE TailConverage
  BY <1>3, TailConverageNumbers
<1>4. CASE TailSPMV
  BY <1>4 DEF TailSPMV, Numbers, Zero
<1> QED BY <1>1, <1>2, <1>3, <1>4 DEF RestOfTurn

\* The rest of a turn, when edgeMap has returned a frontier.
LEMMA TurnState ==
  ASSUME StateInv, pc \in {"loop", "edges"}, NEW out, UpToDate(out),
         RestOfTurn(out), mode' \in {"none", "coo", "csc", "sparse"},
         todo' = {}, strand = {}, cache = {}, v1' \in [Vertex -> Nat]
  PROVE  StateInv'
<1>1. /\ GA' = GA /\ app' = app /\ epsilon2' = epsilon2
      /\ strand' = {} /\ cache' = {} /\ count' = count + 1
  BY DEF RestOfTurn, strands
<1>2. Numbers'
  BY TurnNumbers DEF StateInv, TypeOK, EngineTypeOK, Numbers
<1>3. /\ pc' \in {"loop", "done"} /\ bit' \in BOOLEAN
      /\ app # "PageRankDelta" /\ pc' = "loop" => count' < MaxIter
  <2>1. CASE Tail(out)
    BY <2>1 DEF Tail, MoreRounds, StateInv, TypeOK
  <2>2. CASE app = "PageRankDelta" /\ TailDelta
    BY <2>2 DEF TailDelta, StateInv, TypeOK
  <2>3. CASE TailConverage
    BY <2>3 DEF TailConverage, MoreRounds, StateInv, TypeOK
  <2>4. CASE TailSPMV
    BY <2>4 DEF TailSPMV, StateInv, TypeOK
  <2> QED BY <2>1, <2>2, <2>3, <2>4 DEF RestOfTurn
<1>4. \/ Frontier' = Frontier
      \/ app \in {"PageRank", "PageRankBit"} /\ Frontier' = out
      \/ \E active \in [Vertex -> Nat] : Frontier' = frontierOf("dense", active, GA.edges)
  <2>1. CASE app \in {"PageRank", "PageRankBit"} /\ Tail(out)
    BY <2>1 DEF Tail
  <2>2. CASE TailDelta
    <3> DEFINE new == [v \in Vertex |-> Delta(v)]
               active == [v \in Vertex |->
                            IF fabs(new[v].Delta) * epsilon2[2] > epsilon2[1] * new[v].p
                            THEN 1 ELSE 0]
    <3>1. active \in [Vertex -> Nat]
      OBVIOUS
    <3>2. Frontier' = Frontier \/ Frontier' = frontierOf("dense", active, GA.edges)
      BY <2>2 DEF TailDelta
    <3> HIDE DEF active
    <3> QED BY <3>1, <3>2
  <2>3. CASE TailConverage \/ TailSPMV
    BY <2>3 DEF TailConverage, TailSPMV
  <2> QED BY <2>1, <2>2, <2>3 DEF RestOfTurn
<1>5. \/ Frontier' = Frontier
      \/ /\ UpToDate(Frontier')
         /\ app \in {"PageRank", "PageRankBit"} \/ Frontier'.numVertices = N
  <2>1. CASE Frontier' = Frontier
    BY <2>1
  <2>2. CASE app \in {"PageRank", "PageRankBit"} /\ Frontier' = out
    BY <2>2
  <2>3. ASSUME NEW active \in [Vertex -> Nat],
               Frontier' = frontierOf("dense", active, GA.edges)
        PROVE  UpToDate(Frontier') /\ Frontier'.numVertices = N
    BY <2>3, FrontierOfUpToDate DEF StateInv
  <2> QED BY <1>4, <2>1, <2>2, <2>3
<1>6. /\ Frontier' \in FrontierType /\ FrontierInv'
      /\ app \notin {"PageRank", "PageRankBit"} => Frontier'.numVertices = N
  <2>1. CASE Frontier' = Frontier
    BY <1>1, <2>1 DEF StateInv, TypeOK, EngineTypeOK, FrontierInv
  <2>2. CASE Frontier' # Frontier
    <3>1. UpToDate(Frontier') /\ (app \in {"PageRank", "PageRankBit"} \/ Frontier'.numVertices = N)
      BY <1>5, <2>2
    <3> QED BY <1>1, <3>1 DEF UpToDate, FrontierInv
  <2> QED BY <2>1, <2>2
<1>7. EngineTypeOK'
  BY <1>1, <1>3, <1>6 DEF EngineTypeOK, StateInv, TypeOK
<1>8. count \in Nat /\ count' \in Nat /\ (app # "PageRankDelta" => count' <= MaxIter)
  BY <1>1, NumbersAssumption DEF StateInv, TypeOK
<1>9. TypeOK'
  BY <1>1, <1>2, <1>3, <1>7, <1>8 DEF TypeOK, Numbers, StateInv
<1> QED BY <1>1, <1>3, <1>6, <1>9 DEF StateInv

LEMMA InitState == ASSUME Init PROVE StateInv
<1>1. GA \in Graphs /\ IsFiniteSet(GA.edges)
  BY GraphFacts DEF Init, EngineInit
<1>2. /\ Frontier \in FrontierType /\ Frontier.numVertices = N /\ Frontier.rep = "bits"
      /\ FrontierInv
  BY <1>1, BitsFacts, SizeAssumption DEF Init, FrontierInv, bits
<1>3. GA \in [edges : SUBSET Edge, source : BOOLEAN, part_ver : BOOLEAN]
  BY <1>1, GraphsAssumption
<1>4. EngineTypeOK
  BY <1>2, <1>3, NoneFacts DEF EngineTypeOK, Init, EngineInit
<1>5. TypeOK
  BY <1>4, NumberFacts, NumbersAssumption DEF TypeOK, Init, Zero
<1> QED BY <1>1, <1>2, <1>5, NumbersAssumption DEF StateInv, Init, EngineInit

\* The jobs of a round are edges of the graph.
LEMMA EdgeJobsFacts ==
  ASSUME GA \in Graphs, Frontier \in FrontierType
  PROVE  EdgeJobs \subseteq Nat \X GA.edges
<1>1. \A x \in OutPairs(Frontier.copies, GA.edges) : x[1][2] \in Nat /\ x[2] \in GA.edges
  <2> SUFFICES ASSUME NEW x \in OutPairs(Frontier.copies, GA.edges)
               PROVE  x[1][2] \in Nat /\ x[2] \in GA.edges
    OBVIOUS
  <2>1. x[1] \in Slots(Frontier.copies) /\ x[2] \in GA.edges
    BY DEF OutPairs
  <2>2. PICK v \in Vertex : x[1] \in {v} \X (1 .. Frontier.copies[v])
    BY <2>1 DEF Slots
  <2>3. Frontier.copies[v] \in Nat
    BY DEF FrontierType
  <2> QED BY <2>1, <2>2, <2>3
<1> QED BY <1>1 DEF EdgeJobs, Jobs, SourceEdges

LEMMA EnterState == ASSUME StateInv, Enter PROVE StateInv'
<1>1. /\ UNCHANGED <<GA, Frontier, app, epsilon2, bit, count, L1_norm, curr, next, p,
                     dropped, strand, cache>>
      /\ pc = "loop"
  BY DEF Enter, arrays, strands, SizesDontMatch, BadValueOfM, TraverseOver
<1>2. CASE SizesDontMatch \/ BadValueOfM
  <2>1. pc' = "abort" /\ UNCHANGED <<mode, todo, v1>>
    BY <1>2 DEF SizesDontMatch, BadValueOfM
  <2> QED BY <1>1, <2>1 DEF StateInv, TypeOK, EngineTypeOK, FrontierInv
<1>3. CASE TraverseOver(EdgeJobs)
  <2>1. pc' = "edges" /\ mode' = Mode /\ todo' = EdgeJobs /\ v1' = None
    BY <1>3 DEF TraverseOver
  <2>2. Mode \in {"sparse", "coo", "csc"} /\ (Mode = "coo" => ~GA.part_ver)
    BY ModeFacts
  <2>3. todo' \subseteq Nat \X GA.edges /\ v1' \in [Vertex -> Nat]
    BY <2>1, EdgeJobsFacts, NoneFacts DEF StateInv, TypeOK, EngineTypeOK
  <2>4. EngineTypeOK'
    BY <1>1, <2>1, <2>2, <2>3 DEF StateInv, TypeOK, EngineTypeOK
  <2>5. TypeOK'
    BY <1>1, <2>4 DEF StateInv, TypeOK
  <2> QED BY <1>1, <2>1, <2>2, <2>5 DEF StateInv, FrontierInv
<1> QED BY <1>2, <1>3 DEF Enter

LEMMA ReturnAtOnceState == ASSUME StateInv, ReturnAtOnce PROVE StateInv'
<1>1. pc = "loop" /\ RestOfTurn(empty) /\ UNCHANGED <<mode, todo, v1>>
  BY DEF ReturnAtOnce
<1>2. todo' = {} /\ strand = {} /\ cache = {} /\ v1' \in [Vertex -> Nat]
      /\ mode' \in {"none", "coo", "csc", "sparse"}
  BY <1>1 DEF StateInv, TypeOK, EngineTypeOK
<1> QED BY <1>1, <1>2, EmptyUpToDate, TurnState

LEMMA ReturnState == ASSUME StateInv, Return PROVE StateInv'
<1> DEFINE r == IF mode = "sparse" THEN "sparse" ELSE "dense"
<1>1. /\ pc = "edges" /\ RestOfTurn(frontierOf(r, v1, GA.edges)) /\ todo' = {}
      /\ strand = {} /\ cache = {} /\ mode' = "none" /\ v1' = None
  BY DEF Return
<1>2. UpToDate(frontierOf(r, v1, GA.edges))
  BY FrontierOfUpToDate DEF StateInv, TypeOK, EngineTypeOK
<1>3. v1' \in [Vertex -> Nat]
  BY <1>1, NoneFacts
<1> HIDE DEF r
<1> QED BY <1>1, <1>2, <1>3, TurnState

\* A step of a strand.
LEMMA UpdateState ==
  ASSUME StateInv, Update
  PROVE  /\ StateInv'
         /\ UNCHANGED unchangedInRound
         /\ pc = "edges"
<1>0. /\ GA \in Graphs /\ curr \in [Vertex -> Int] /\ next \in [Vertex -> Int]
      /\ v1 \in [Vertex -> Nat] /\ todo \subseteq Nat \X GA.edges
      /\ strand \subseteq [k : Nat, e : GA.edges, oldV : Int]
      /\ cache \subseteq [d : Vertex, value : Int]
  BY DEF StateInv, TypeOK, EngineTypeOK
<1>1. \A e \in GA.edges : Addend(e) \in Int /\ dst(e) \in Vertex
  BY <1>0, GraphFacts, AddendFacts
<1>2. SUFFICES /\ UNCHANGED unchangedInRound /\ pc = "edges"
               /\ next' \in [Vertex -> Int] /\ v1' \in [Vertex -> Nat]
               /\ todo' \subseteq Nat \X GA.edges
               /\ strand' \subseteq [k : Nat, e : GA.edges, oldV : Int]
               /\ cache' \subseteq [d : Vertex, value : Int]
  <2>1. UNCHANGED <<pc, GA, Frontier, mode, app, epsilon2, bit, count, L1_norm,
                    curr, p, dropped>>
    BY <1>2 DEF unchangedInRound
  <2>2. TypeOK'
    BY <1>2, <2>1 DEF TypeOK, EngineTypeOK, StateInv
  <2> QED BY <1>2, <2>1, <2>2 DEF StateInv, FrontierInv
<1>3. ASSUME NEW st \in strand, Add(st)
      PROVE  /\ next' \in [Vertex -> Int] /\ v1' \in [Vertex -> Nat]
             /\ strand' \subseteq [k : Nat, e : GA.edges, oldV : Int]
  <2>1. st.oldV + Addend(st.e) \in Int /\ dst(st.e) \in Vertex
    BY <1>0, <1>1
  <2>2. v1' \in [Vertex -> Nat]
    BY <1>0, <1>3, <2>1, MarkedFacts DEF Add
  <2> QED BY <1>0, <1>3, <2>1, <2>2 DEF Add
<1>4. CASE \E job \in todo : ReadOld(job)
  <2>1. PICK job \in todo : ReadOld(job)
    BY <1>4
  <2>2. job[1] \in Nat /\ job[2] \in GA.edges /\ next[dst(job[2])] \in Int
    BY <1>0, <1>1
  <2>3. [k |-> job[1], e |-> job[2], oldV |-> next[dst(job[2])]]
          \in [k : Nat, e : GA.edges, oldV : Int]
    BY <2>2
  <2> QED BY <1>0, <2>1, <2>3 DEF ReadOld, Take
<1>5. CASE \E st \in strand : Store(st) \/ writeAdd(st)
  <2>1. PICK st \in strand : Store(st) \/ writeAdd(st)
    BY <1>5
  <2>2. /\ UNCHANGED unchangedInRound /\ UNCHANGED <<todo, cache>>
    BY <2>1 DEF Store, writeAdd
  <2>3. pc = "edges"
    BY DEF StateInv
  <2>4. CASE Add(st)
    BY <1>0, <1>3, <2>2, <2>3, <2>4
  <2>5. CASE ~Add(st)
    <3>1. /\ strand' = (strand \ {st}) \union {[st EXCEPT !.oldV = next[dst(st.e)]]}
          /\ UNCHANGED <<next, v1>>
      BY <2>1, <2>5 DEF Store, writeAdd
    <3>2. [st EXCEPT !.oldV = next[dst(st.e)]] \in [k : Nat, e : GA.edges, oldV : Int]
      BY <1>0, <1>1
    <3> QED BY <1>0, <2>2, <2>3, <3>1, <3>2
  <2> QED BY <2>4, <2>5
<1>6. CASE \E v \in Vertex : CreateCache(v)
  BY <1>0, <1>6 DEF CreateCache
<1>7. CASE \E c \in cache, job \in todo : CachedUpdate(c, job)
  <2>1. PICK c \in cache, job \in todo : CachedUpdate(c, job)
    BY <1>7
  <2>2. c \in [d : Vertex, value : Int] /\ Addend(job[2]) \in Int
    BY <1>0, <1>1
  <2>3. [c EXCEPT !.value = @ + Addend(job[2])] \in [d : Vertex, value : Int]
    BY <2>2
  <2>4. Marked(c.d) \in [Vertex -> Nat]
    BY <1>0, <2>2, MarkedFacts
  <2> QED BY <1>0, <2>1, <2>3, <2>4 DEF CachedUpdate, Take
<1>8. CASE \E c \in cache : CommitCache(c)
  <2>1. PICK c \in cache : CommitCache(c)
    BY <1>8
  <2>2. pc = "edges" /\ c \in [d : Vertex, value : Int]
    BY <1>0 DEF StateInv
  <2> QED BY <1>0, <2>1, <2>2 DEF CommitCache
<1> QED BY <1>4, <1>5, <1>6, <1>7, <1>8 DEF Update

LEMMA NextState == ASSUME StateInv, [Next]_vars PROVE StateInv'
<1>1. CASE UNCHANGED vars
  BY <1>1 DEF StateInv, vars, TypeOK, EngineTypeOK, FrontierInv
<1>2. CASE Stopped
  BY <1>1, <1>2 DEF Stopped
<1> QED BY <1>1, <1>2, EnterState, ReturnAtOnceState, ReturnState, UpdateState DEF Next

LEMMA StateCorrect == Spec => []StateInv
<1>1. Init => StateInv
  BY InitState
<1>2. StateInv /\ [Next]_vars => StateInv'
  BY NextState
<1> QED BY <1>1, <1>2, PTL DEF Spec

\* The types of PageRank, and the bound of its rounds: no program but
\* PageRankDelta starts a round beyond MaxIter.
THEOREM TypeCorrect == Spec => []TypeOK
<1>1. StateInv => TypeOK
  BY DEF StateInv
<1> QED BY <1>1, StateCorrect, PTL

-----------------------------------------------------------------------------
(***************************************************************************)
(* Aborts.  On a graph with a cycle there are always active vertices each  *)
(* of which leads to another one of them: those on the cycle, and a round  *)
(* marks the destination of every edge of an active vertex.                *)
(***************************************************************************)
ActiveEdges == {e \in GA.edges : src(e) \in Active}

MarksInv ==
  pc = "edges" => \A e \in ActiveEdges :
    (\E job \in todo : job[2] = e) \/ (\E st \in strand : st.e = e) \/ v1[dst(e)] > 0

\* Every vertex of S has an edge that stays in S.
Endless(S) == S # {} /\ \A v \in S : \E e \in GA.edges : src(e) = v /\ dst(e) \in S

CycleInv ==
  app \in {"PageRank", "PageRankBit"} /\ pc \in {"loop", "edges"} /\ ~Acyclic =>
    \E S \in SUBSET Active : Endless(S)

AbortInv == StateInv /\ MarksInv /\ CycleInv /\ AbortsOnlyWithoutCycle

LEMMA AcyclicFacts == ~Acyclic <=> \E S \in SUBSET Vertex : Endless(S)
BY DEF Acyclic, Endless

LEMMA ActiveIsVertex == Active \subseteq Vertex
BY DEF Active

\* A frontier without out-edges has no active vertex with an out-edge.
LEMMA NoActiveEdges ==
  ASSUME StateInv, Frontier.num_out_edges = 0
  PROVE  ActiveEdges = {}
<1>1. /\ IsFiniteSet(GA.edges) /\ \A e \in GA.edges : src(e) \in Vertex
      /\ FrontierInv /\ Frontier.copies \in [Vertex -> Nat]
  BY GraphFacts DEF StateInv, TypeOK, EngineTypeOK, FrontierType
<1>2. CASE Frontier.rep = "bits"
  <2>1. Cardinality(GA.edges) = 0
    BY <1>1, <1>2 DEF FrontierInv
  <2> QED BY <1>1, <2>1, FS_EmptySet DEF ActiveEdges
<1>3. CASE Frontier.rep # "bits"
  <2>1. OutEdges(Frontier.copies, GA.edges) = 0
    BY <1>1, <1>3 DEF FrontierInv
  <2>2. \A e \in GA.edges : Frontier.copies[src(e)] = 0
    BY <1>1, <2>1, OutEdgesZero
  <2> QED BY <1>1, <1>3, <2>2 DEF ActiveEdges, Active
<1> QED BY <1>2, <1>3

\* A round starts with a job for every edge of an active vertex.
LEMMA JobsForActive ==
  ASSUME StateInv, TraverseOver(EdgeJobs)
  PROVE  \A e \in ActiveEdges : \E job \in EdgeJobs : job[2] = e
<1> SUFFICES ASSUME NEW e \in ActiveEdges PROVE \E job \in EdgeJobs : job[2] = e
  OBVIOUS
<1>1. /\ e \in GA.edges /\ src(e) \in Active /\ src(e) \in Vertex
      /\ FrontierInv /\ Frontier.copies \in [Vertex -> Nat]
  BY ActiveIsVertex DEF ActiveEdges, StateInv, TypeOK, EngineTypeOK, FrontierType
<1>2. CASE Mode # "sparse"
  <2>1. <<1, e>> \in EdgeJobs
    BY <1>1, <1>2 DEF EdgeJobs, SourceEdges
  <2> QED BY <2>1
<1>3. CASE Mode = "sparse"
  <2>1. ~toSparseAborts
    BY <1>3 DEF TraverseOver
  <2>2. Frontier.rep # "bits"
    <3>1. Count(None) = 0 /\ N # 0
      BY NoneFacts, SizeAssumption
    <3> QED BY <1>1, <2>1, <3>1 DEF toSparseAborts, FrontierInv
  <2>3. Frontier.copies[src(e)] > 0
    BY <1>1, <2>2 DEF Active
  <2>4. <<src(e), 1>> \in Slots(Frontier.copies)
    BY <1>1, <2>3, SlotOf
  <2>5. <<<<src(e), 1>>, e>> \in OutPairs(Frontier.copies, GA.edges)
    BY <1>1, <2>4 DEF OutPairs
  <2>6. <<1, e>> \in EdgeJobs
    BY <1>3, <2>5 DEF EdgeJobs, Jobs
  <2> QED BY <2>6
<1> QED BY <1>2, <1>3

\* toSparse never meets a bits frontier.
LEMMA ValueOfMIsGood ==
  ASSUME StateInv
  PROVE  ~BadValueOfM
<1> SUFFICES ASSUME BadValueOfM PROVE FALSE
  OBVIOUS
<1>1. GA \in Graphs /\ FrontierInv
  BY DEF StateInv
<1>2. Frontier.rep = "bits"
  BY <1>1 DEF BadValueOfM, toSparseAborts, FrontierInv
<1>3. work = N + GA_m /\ GA_m \in Nat
  BY <1>1, <1>2, GraphFacts, FS_CardinalityType DEF FrontierInv, work, GA_m
<1>4. \A a, k \in Nat : k > 0 => a \div k <= a
  OBVIOUS
<1>5. GA_m \div SparseDiv <= GA_m /\ GA_m \div SparseDiv \in Int
  BY <1>3, <1>4, ThresholdAssumption
<1>6. ~(work <= GA_m \div SparseDiv)
  BY <1>3, <1>5, SizeAssumption
<1> QED BY <1>6 DEF BadValueOfM, Mode

LEMMA InitAbort == ASSUME Init PROVE AbortInv
<1>1. Active = Vertex /\ pc = "loop"
  BY DEF Active, bits, Init, EngineInit
<1>2. CycleInv
  BY <1>1, AcyclicFacts DEF CycleInv
<1> QED BY <1>1, <1>2, InitState DEF AbortInv, MarksInv, AbortsOnlyWithoutCycle

LEMMA EnterAbort == ASSUME AbortInv, Enter PROVE AbortInv'
<1>0. StateInv /\ StateInv'
  BY EnterState DEF AbortInv
<1>1. /\ UNCHANGED <<GA, Frontier, app, strand>> /\ pc = "loop"
  BY DEF Enter, arrays, strands, SizesDontMatch, BadValueOfM, TraverseOver
<1>2. Active' = Active /\ ActiveEdges' = ActiveEdges /\ Acyclic' = Acyclic
      /\ \A S : Endless(S)' <=> Endless(S)
  BY <1>1 DEF Active, ActiveEdges, Acyclic, Endless
<1>3. CASE SizesDontMatch
  <2>1. pc' = "abort" /\ Frontier.numVertices # N
    BY <1>3 DEF SizesDontMatch
  <2>2. app \in {"PageRank", "PageRankBit"}
    BY <1>0, <2>1 DEF StateInv
  <2>3. isEmpty
    <3>1. Frontier.d_m \in Nat /\ ~(Frontier.d_m > 0)
      BY <1>0, <2>1 DEF StateInv, TypeOK, EngineTypeOK, FrontierType, FrontierInv
    <3> QED BY <3>1 DEF isEmpty
  <2>4. Active = {}
    BY <1>0, <2>3, EmptyIsInactive DEF StateInv, TypeOK
  <2>5. Acyclic
    BY <1>1, <2>2, <2>4 DEF AbortInv, CycleInv, Endless
  <2> QED BY <1>0, <1>1, <1>2, <2>1, <2>2, <2>5 DEF AbortInv, MarksInv, CycleInv, AbortsOnlyWithoutCycle
<1>4. CASE TraverseOver(EdgeJobs)
  <2>1. pc' = "edges" /\ todo' = EdgeJobs
    BY <1>4 DEF TraverseOver
  <2>2. MarksInv'
    BY <1>0, <1>2, <1>4, <2>1, JobsForActive DEF MarksInv
  <2>3. CycleInv'
    BY <1>1, <1>2 DEF AbortInv, CycleInv
  <2> QED BY <1>0, <2>1, <2>2, <2>3 DEF AbortInv, AbortsOnlyWithoutCycle
<1> QED BY <1>0, <1>3, <1>4, ValueOfMIsGood DEF Enter

\* What the end of a turn leaves to the next one.
LEMMA TurnEnds ==
  ASSUME NEW out, RestOfTurn(out)
  PROVE  /\ pc' \in {"loop", "done"} /\ UNCHANGED <<GA, app>> /\ count' = count + 1
         /\ app \in {"PageRank", "PageRankBit"} /\ pc' = "loop" => Frontier' = out
<1>1. app' = app /\ GA' = GA /\ count' = count + 1
  BY DEF RestOfTurn
<1>2. CASE app \in {"PageRank", "PageRankBit"} /\ Tail(out)
  BY <1>1, <1>2 DEF Tail
<1>3. CASE app = "PageRankDelta" /\ TailDelta
  BY <1>1, <1>3 DEF TailDelta
<1>4. CASE app = "PageRankConverage" /\ TailConverage
  BY <1>1, <1>4 DEF TailConverage
<1>5. CASE app = "SPMV" /\ TailSPMV
  BY <1>1, <1>5 DEF TailSPMV
<1> QED BY <1>2, <1>3, <1>4, <1>5 DEF RestOfTurn

LEMMA ReturnAtOnceAbort == ASSUME AbortInv, ReturnAtOnce PROVE AbortInv'
<1>0. StateInv /\ StateInv'
  BY ReturnAtOnceState DEF AbortInv
<1>1. pc = "loop" /\ RestOfTurn(empty) /\ Frontier.num_out_edges = 0
  BY DEF ReturnAtOnce
<1>2. pc' \in {"loop", "done"} /\ UNCHANGED <<GA, app>>
  BY <1>1, TurnEnds
<1>3. ActiveEdges = {}
  BY <1>0, <1>1, NoActiveEdges
<1>4. app \in {"PageRank", "PageRankBit"} => Acyclic
  BY <1>1, <1>3 DEF AbortInv, CycleInv, Endless, ActiveEdges
<1>5. Acyclic' = Acyclic
  BY <1>2 DEF Acyclic
<1> QED BY <1>0, <1>2, <1>4, <1>5 DEF AbortInv, MarksInv, CycleInv, AbortsOnlyWithoutCycle

LEMMA ReturnAbort == ASSUME AbortInv, Return PROVE AbortInv'
<1> DEFINE r == IF mode = "sparse" THEN "sparse" ELSE "dense"
<1>0. StateInv /\ StateInv'
  BY ReturnState DEF AbortInv
<1>1. /\ pc = "edges" /\ RestOfTurn(frontierOf(r, v1, GA.edges))
      /\ todo = {} /\ strand = {}
  BY DEF Return
<1>2. /\ pc' \in {"loop", "done"} /\ UNCHANGED <<GA, app>>
      /\ app \in {"PageRank", "PageRankBit"} /\ pc' = "loop" =>
           Frontier' = frontierOf(r, v1, GA.edges)
  <2> HIDE DEF r
  <2> QED BY <1>1, TurnEnds
<1>3. Acyclic' = Acyclic /\ \A S : Endless(S)' <=> Endless(S)
  BY <1>2 DEF Acyclic, Endless
<1>4. CycleInv'
  <2> SUFFICES ASSUME app \in {"PageRank", "PageRankBit"}, pc' = "loop", ~Acyclic
               PROVE  \E S \in SUBSET Active' : Endless(S)
    BY <1>2, <1>3 DEF CycleInv
  <2>1. PICK S \in SUBSET Active : Endless(S)
    BY <1>1 DEF AbortInv, CycleInv
  <2>2. Active' = {v \in Vertex : v1[v] > 0}
    BY <1>2 DEF Active, frontierOf
  <2>3. \A e \in GA.edges : src(e) \in S => dst(e) \in Vertex /\ v1[dst(e)] > 0
    BY <1>0, <1>1, <2>1, GraphFacts DEF AbortInv, MarksInv, ActiveEdges, StateInv
  <2> DEFINE T == {w \in S : \E e \in GA.edges : src(e) \in S /\ dst(e) = w}
  <2>4. T \subseteq Active'
    BY <2>2, <2>3
  <2>5. Endless(T)
    BY <2>1 DEF Endless
  <2> QED BY <2>4, <2>5
<1> QED BY <1>0, <1>2, <1>4 DEF AbortInv, MarksInv, AbortsOnlyWithoutCycle

LEMMA UpdateAbort == ASSUME AbortInv, Update PROVE AbortInv'
<1>0. /\ StateInv /\ StateInv' /\ pc = "edges"
      /\ UNCHANGED <<pc, GA, Frontier, mode, app, epsilon2, bit, count, L1_norm, curr, p,
                     dropped>>
  BY UpdateState DEF AbortInv, unchangedInRound
<1>1. Active' = Active /\ ActiveEdges' = ActiveEdges /\ Acyclic' = Acyclic
      /\ \A S : Endless(S)' <=> Endless(S)
  BY <1>0 DEF Active, ActiveEdges, Acyclic, Endless
<1>2. CycleInv' /\ AbortsOnlyWithoutCycle'
  BY <1>0, <1>1 DEF CycleInv, AbortsOnlyWithoutCycle, AbortInv
<1>3. /\ v1 \in [Vertex -> Nat] /\ todo \subseteq Nat \X GA.edges
      /\ strand \subseteq [k : Nat, e : GA.edges, oldV : Int]
      /\ cache \subseteq [d : Vertex, value : Int] /\ GA \in Graphs
      /\ \A e \in GA.edges : dst(e) \in Vertex
  BY <1>0, GraphFacts DEF StateInv, TypeOK, EngineTypeOK
<1>4. \A e \in ActiveEdges : \/ \E job \in todo : job[2] = e
                             \/ \E st \in strand : st.e = e
                             \/ v1[dst(e)] > 0
  BY <1>0 DEF AbortInv, MarksInv
<1>5. SUFFICES ASSUME NEW e \in ActiveEdges
               PROVE  \/ \E job \in todo' : job[2] = e
                      \/ \E st \in strand' : st.e = e
                      \/ v1'[dst(e)] > 0
  BY <1>0, <1>1, <1>2 DEF AbortInv, MarksInv
<1>6. e \in GA.edges /\ dst(e) \in Vertex
  BY <1>3 DEF ActiveEdges
<1>7. ASSUME NEW d \in Vertex, v1' = Marked(d)
      PROVE  v1'[d] > 0 /\ (v1[dst(e)] > 0 => v1'[dst(e)] > 0)
  BY <1>3, <1>6, <1>7, MarkedFacts
<1>8. CASE \E job \in todo : ReadOld(job)
  <2>1. PICK job \in todo : ReadOld(job)
    BY <1>8
  <2> DEFINE new == [k |-> job[1], e |-> job[2], oldV |-> next[dst(job[2])]]
  <2>2. /\ todo' = todo \ {job} /\ v1' = v1
        /\ strand' = strand \union {new}
    BY <2>1 DEF ReadOld, Take
  <2>3. new.e = job[2] /\ new \in strand' /\ strand \subseteq strand'
    BY <2>2
  <2> QED BY <1>4, <2>2, <2>3
<1>9. CASE \E st \in strand : Store(st) \/ writeAdd(st)
  <2>1. PICK st \in strand : Store(st) \/ writeAdd(st)
    BY <1>9
  <2>2. todo' = todo
    BY <2>1 DEF Store, writeAdd
  <2>3. CASE Add(st)
    <3>1. v1' = Marked(dst(st.e)) /\ strand' = strand \ {st} /\ dst(st.e) \in Vertex
      BY <1>3, <2>3 DEF Add
    <3> QED BY <1>4, <1>7, <2>2, <3>1
  <2>4. CASE ~Add(st)
    <3> DEFINE new == [st EXCEPT !.oldV = next[dst(st.e)]]
    <3>1. strand' = (strand \ {st}) \union {new} /\ v1' = v1
      BY <2>1, <2>4 DEF Store, writeAdd
    <3>2. new.e = st.e /\ new \in strand'
      BY <1>3, <3>1
    <3> QED BY <1>4, <2>2, <3>1, <3>2
  <2> QED BY <2>3, <2>4
<1>10. CASE \E v \in Vertex : CreateCache(v)
  BY <1>4, <1>10 DEF CreateCache
<1>11. CASE \E c \in cache, job \in todo : CachedUpdate(c, job)
  <2>1. PICK c \in cache, job \in todo : CachedUpdate(c, job)
    BY <1>11
  <2>2. /\ todo' = todo \ {job} /\ dst(job[2]) = c.d /\ v1' = Marked(c.d) /\ strand' = strand
        /\ c.d \in Vertex
    BY <1>3, <2>1 DEF CachedUpdate, Take
  <2> QED BY <1>4, <1>7, <2>2
<1>12. CASE \E c \in cache : CommitCache(c)
  BY <1>4, <1>12 DEF CommitCache
<1> QED BY <1>8, <1>9, <1>10, <1>11, <1>12 DEF Update

\* edgeMap is handed the empty frontier of an early return only by PageRank and
\* PageRankBit, and only on a graph without cycles.
THEOREM AbortsNeedAcyclicGraph == Spec => []AbortsOnlyWithoutCycle
<1>1. Init => AbortInv
  BY InitAbort
<1>2. ASSUME AbortInv, [Next]_vars PROVE AbortInv'
  <2>1. CASE UNCHANGED vars \/ Stopped
    <3>1. UNCHANGED vars
      BY <2>1 DEF Stopped
    <3>2. StateInv'
      BY <1>2, NextState DEF AbortInv
    <3> QED BY <1>2, <3>1, <3>2 DEF AbortInv, MarksInv, CycleInv, AbortsOnlyWithoutCycle, vars,
                        Acyclic, Endless, ActiveEdges, Active
  <2> QED BY <1>2, <2>1, EnterAbort, ReturnAtOnceAbort, ReturnAbort, UpdateAbort DEF Next
<1>3. AbortInv => AbortsOnlyWithoutCycle
  BY DEF AbortInv
<1> QED BY <1>1, <1>2, <1>3, PTL DEF Spec

-----------------------------------------------------------------------------
(***************************************************************************)
(* A round whose every edge is added once: not one of a sparse traversal   *)
(* of a frontier with duplicates.  An edge is pending while it is a job or *)
(* a strand has it; the edges that are not have added what they bring to   *)
(* their destination, in the array or in a cache.                          *)
(***************************************************************************)
Pending(e) == <<1, e>> \in todo \/ \E st \in strand : st.e = e

\* The edges that have been added to a vertex in this round, and their sum.
Taken(v) == {e \in SourceEdges : dst(e) = v /\ ~Pending(e)}

SumOver(D) == Total([e \in D |-> Addend(e)], D)

Gathered(v) == SumOver(Taken(v))

cached == {c.d : c \in cache}

\* Who has which edge: an edge that is pending is in one place, and plain
\* additions to a vertex do not meet.
HandInv ==
  /\ mode = "coo" => ~GA.source
  /\ todo \subseteq {1} \X SourceEdges
  /\ \A st \in strand : /\ st.e \in SourceEdges /\ <<1, st.e>> \notin todo
                        /\ ~Atomic => st.oldV = next[dst(st.e)]
  /\ \A s, t \in strand : s.e = t.e \/ (~Atomic /\ dst(s.e) = dst(t.e)) => s = t
  /\ \A b, c \in cache : b.d = c.d => b = c
  /\ cache # {} => ByDestination
  /\ strand # {} => ~ByDestination

\* The sums so far.
SumInv ==
  \A v \in Vertex :
    /\ v \notin cached => next[v] = Gathered(v)
    /\ \A c \in cache : c.d = v => c.value = Gathered(v)

\* A dense traversal marks the destinations of what it has added.
DenseMarks ==
  mode # "sparse" => \A v \in Vertex : v1[v] = IF Taken(v) # {} THEN 1 ELSE 0

\* The invariant of such a round.
RoundInv == HandInv /\ SumInv /\ DenseMarks

InRound == StateInv /\ pc = "edges"

\* The types of the state of a round.
LEMMA InRoundFacts ==
  ASSUME InRound
  PROVE  /\ GA \in Graphs /\ IsFiniteSet(GA.edges)
         /\ curr \in [Vertex -> Int] /\ next \in [Vertex -> Int] /\ v1 \in [Vertex -> Nat]
         /\ strand \subseteq [k : Nat, e : GA.edges, oldV : Int]
         /\ cache \subseteq [d : Vertex, value : Int]
         /\ mode \in {"coo", "csc", "sparse"}
         /\ SourceEdges \subseteq GA.edges
         /\ \A e \in GA.edges : src(e) \in Vertex /\ dst(e) \in Vertex /\ Addend(e) \in Int
BY GraphFacts, AddendFacts DEF InRound, StateInv, TypeOK, EngineTypeOK, SourceEdges

\* What no step of a round changes.
LEMMA SameInRound ==
  ASSUME UNCHANGED unchangedInRound
  PROVE  /\ UNCHANGED <<GA, mode>>
         /\ SourceEdges' = SourceEdges /\ Active' = Active /\ Atomic' = Atomic
         /\ ByDestination' = ByDestination
         /\ \A e : Addend(e)' = Addend(e)
         /\ \A D : SumOver(D)' = SumOver(D)
<1>1. UNCHANGED <<GA, mode, Frontier, bit, app, curr>>
  BY DEF unchangedInRound
<1>2. \A e : Addend(e)' = Addend(e)
  BY <1>1 DEF Addend, getOutDegree
<1>3. \A D : SumOver(D)' = SumOver(D)
  BY <1>2 DEF SumOver
<1> QED BY <1>1, <1>2, <1>3 DEF SourceEdges, Active, Atomic, ByDestination

\* One edge more.
LEMMA SumOverAdd ==
  ASSUME InRound, NEW D, D \subseteq SourceEdges, NEW e \in SourceEdges, e \notin D
  PROVE  /\ SumOver(D) \in Int
         /\ SumOver(D \union {e}) = SumOver(D) + Addend(e)
<1> DEFINE C == D \union {e}
           h == [x \in C |-> Addend(x)]
           k == [x \in D |-> Addend(x)]
<1>1. \A x \in C : h[x] = Addend(x) /\ h[x] \in Int
  BY InRoundFacts
<1>2. \A x \in D : k[x] = Addend(x)
  OBVIOUS
<1>3. SumOver(C) = Total(h, C) /\ SumOver(D) = Total(k, D)
  BY DEF SumOver
<1> HIDE DEF h, k
<1>4. IsFiniteSet(C) /\ IsFiniteSet(D)
  BY InRoundFacts, FS_Subset
<1>5. IsSummable(h, C) /\ IsSummable(h, D)
  BY <1>1, <1>4 DEF IsSummable
<1>6. Total(h, C) = Total(h, D) + h[e] /\ Total(h, D) \in Int
  BY <1>5, TotalAdd
<1>7. Total(k, D) = Total(h, D)
  BY <1>1, <1>2, <1>5, TotalSame
<1> QED BY <1>1, <1>3, <1>6, <1>7

\* An edge that is taken adds to its destination.
LEMMA TakenSum ==
  ASSUME InRound, UNCHANGED unchangedInRound, NEW e \in SourceEdges, Pending(e),
         \A x : Pending(x)' <=> Pending(x) /\ x # e
  PROVE  /\ Taken(dst(e))' # {}
         /\ Gathered(dst(e)) \in Int
         /\ Gathered(dst(e))' = Gathered(dst(e)) + Addend(e)
         /\ \A v : v # dst(e) => Taken(v)' = Taken(v) /\ Gathered(v)' = Gathered(v)
<1>1. SourceEdges' = SourceEdges /\ \A D : SumOver(D)' = SumOver(D)
  BY SameInRound
<1>2. /\ Taken(dst(e))' = Taken(dst(e)) \union {e}
      /\ \A v : v # dst(e) => Taken(v)' = Taken(v)
  BY <1>1 DEF Taken
<1>3. \A v : Gathered(v)' = SumOver(Taken(v)')
  BY <1>1 DEF Gathered
<1>4. Taken(dst(e)) \subseteq SourceEdges /\ e \notin Taken(dst(e))
  BY DEF Taken
<1>5. /\ SumOver(Taken(dst(e)) \union {e}) = SumOver(Taken(dst(e))) + Addend(e)
      /\ SumOver(Taken(dst(e))) \in Int
  BY <1>4, SumOverAdd
<1> QED BY <1>2, <1>3, <1>5 DEF Gathered

\* A step that takes no edge, and leaves the array and the caches alone.
LEMMA QuietStep ==
  ASSUME InRound, RoundInv, UNCHANGED unchangedInRound, UNCHANGED <<next, v1, cache>>,
         HandInv', \A e : Pending(e)' <=> Pending(e)
  PROVE  RoundInv'
<1>1. UNCHANGED <<GA, mode>> /\ SourceEdges' = SourceEdges /\ \A D : SumOver(D)' = SumOver(D)
  BY SameInRound
<1>2. \A v : Taken(v)' = Taken(v)
  BY <1>1 DEF Taken
<1>3. \A v : Gathered(v)' = Gathered(v)
  BY <1>1, <1>2 DEF Gathered
<1> QED BY <1>1, <1>2, <1>3 DEF RoundInv, SumInv, DenseMarks, cached

\* A strand takes a job: edges of the same partition wait for it.
LEMMA ReadOldStep ==
  ASSUME InRound, RoundInv, NEW job \in todo, ReadOld(job)
  PROVE  RoundInv'
<1> DEFINE e == job[2]
           new == [k |-> job[1], e |-> e, oldV |-> next[dst(e)]]
<1>1. /\ ~ByDestination /\ todo' = todo \ {job} /\ Free(e, running)
      /\ strand' = strand \union {new}
      /\ UNCHANGED unchangedInRound /\ UNCHANGED <<next, v1, cache>>
  BY DEF ReadOld, Take
<1>2. /\ UNCHANGED <<GA, mode>> /\ SourceEdges' = SourceEdges /\ Atomic' = Atomic
      /\ ByDestination' = ByDestination
  BY <1>1, SameInRound
<1>3. job = <<1, e>> /\ e \in SourceEdges /\ new.e = e /\ new.oldV = next[dst(e)]
  BY DEF RoundInv, HandInv
<1> HIDE DEF new
<1>4. ASSUME NEW st \in strand PROVE st.e # e /\ (~Atomic => dst(st.e) # dst(e))
  <2>1. st.e # e
    BY <1>3 DEF RoundInv, HandInv
  <2>2. ASSUME ~Atomic PROVE dst(st.e) # dst(e)
    <3>1. mode = "coo" /\ ~GA.source
      BY <1>1, <2>2, InRoundFacts DEF RoundInv, HandInv, Atomic, ByDestination
    <3>2. PartOf(st.e) # PartOf(e)
      BY <1>1, <3>1 DEF Free, running
    <3> QED BY <3>1, <3>2 DEF PartOf
  <2> QED BY <2>1, <2>2
<1>5. HandInv'
  <2>1. ASSUME NEW st \in strand'
        PROVE  /\ st.e \in SourceEdges /\ <<1, st.e>> \notin todo'
               /\ ~Atomic => st.oldV = next[dst(st.e)]
    <3>1. CASE st \in strand
      BY <1>1, <3>1 DEF RoundInv, HandInv
    <3>2. CASE st = new
      BY <1>1, <1>3, <3>2
    <3> QED BY <1>1, <3>1, <3>2
  <2>2. ASSUME NEW s \in strand', NEW t \in strand',
               s.e = t.e \/ (~Atomic /\ dst(s.e) = dst(t.e))
        PROVE  s = t
    <3>1. CASE s \in strand /\ t \in strand
      BY <2>2, <3>1 DEF RoundInv, HandInv
    <3>2. CASE s = new /\ t = new
      BY <3>2
    <3>3. CASE s = new /\ t \in strand
      BY <1>3, <1>4, <2>2, <3>3
    <3>4. CASE s \in strand /\ t = new
      BY <1>3, <1>4, <2>2, <3>4
    <3> QED BY <1>1, <3>1, <3>2, <3>3, <3>4
  <2> QED BY <1>1, <1>2, <2>1, <2>2 DEF RoundInv, HandInv
<1>6. \A x : Pending(x)' <=> Pending(x)
  BY <1>1, <1>3 DEF Pending
<1> QED BY <1>1, <1>5, <1>6, QuietStep

\* A compare-and-swap that fails reads again.
LEMMA ReadAgainStep ==
  ASSUME InRound, RoundInv, NEW st \in strand, Atomic,
         strand' = (strand \ {st}) \union {[st EXCEPT !.oldV = next[dst(st.e)]]},
         UNCHANGED unchangedInRound, UNCHANGED <<next, v1, todo, cache>>
  PROVE  RoundInv'
<1> DEFINE new == [st EXCEPT !.oldV = next[dst(st.e)]]
<1>1. /\ UNCHANGED <<GA, mode>> /\ SourceEdges' = SourceEdges /\ Atomic' = Atomic
      /\ ByDestination' = ByDestination
  BY SameInRound
<1>2. new.e = st.e
  BY InRoundFacts
<1> HIDE DEF new
<1>3. strand' = (strand \ {st}) \union {new}
  BY DEF new
<1>4. HandInv'
  <2>1. ASSUME NEW s \in strand'
        PROVE  s.e \in SourceEdges /\ <<1, s.e>> \notin todo
    <3>1. PICK t \in strand : t.e = s.e
      BY <1>2, <1>3
    <3> QED BY <3>1 DEF RoundInv, HandInv
  <2>2. ASSUME NEW s \in strand', NEW t \in strand', s.e = t.e
        PROVE  s = t
    <3>1. \A x \in strand : x.e = st.e => x = st
      BY DEF RoundInv, HandInv
    <3>2. CASE s = new \/ t = new
      BY <1>2, <1>3, <2>2, <3>1, <3>2
    <3>3. CASE s # new /\ t # new
      BY <1>3, <2>2, <3>3 DEF RoundInv, HandInv
    <3> QED BY <3>2, <3>3
  <2> QED BY <1>1, <1>3, <2>1, <2>2 DEF RoundInv, HandInv
<1>5. \A x : Pending(x)' <=> Pending(x)
  BY <1>2, <1>3 DEF Pending
<1> QED BY <1>4, <1>5, QuietStep

\* The marks after an addition along e.
LEMMA AddedMarks ==
  ASSUME InRound, RoundInv, UNCHANGED unchangedInRound, NEW e \in SourceEdges, Pending(e),
         \A x : Pending(x)' <=> Pending(x) /\ x # e, v1' = Marked(dst(e))
  PROVE  DenseMarks'
<1>1. v1 \in [Vertex -> Nat] /\ dst(e) \in Vertex /\ mode' = mode
  BY InRoundFacts, SameInRound
<1>2. Taken(dst(e))' # {} /\ \A v : v # dst(e) => Taken(v)' = Taken(v)
  BY TakenSum
<1>3. mode # "sparse" => v1'[dst(e)] = 1
  BY <1>1 DEF Marked
<1>4. \A v \in Vertex : v # dst(e) => v1'[v] = v1[v]
  BY <1>1 DEF Marked
<1> QED BY <1>1, <1>2, <1>3, <1>4 DEF RoundInv, DenseMarks

\* A sum that is stored, when the array holds what was read.
LEMMA AddStep ==
  ASSUME InRound, RoundInv, NEW st \in strand, st.oldV = next[dst(st.e)], Add(st),
         UNCHANGED unchangedInRound, UNCHANGED <<todo, cache>>
  PROVE  RoundInv'
<1> DEFINE e == st.e
           d == dst(st.e)
           x == st.oldV + Addend(st.e)
<1>1. /\ UNCHANGED <<GA, mode>> /\ SourceEdges' = SourceEdges /\ Atomic' = Atomic
      /\ ByDestination' = ByDestination
  BY SameInRound
<1>2. /\ e \in SourceEdges /\ d \in Vertex /\ cache = {} /\ <<1, e>> \notin todo
      /\ next \in [Vertex -> Int]
  BY InRoundFacts DEF RoundInv, HandInv
<1>3. next' = [next EXCEPT ![d] = x] /\ v1' = Marked(d) /\ strand' = strand \ {st}
  BY DEF Add
<1>4. next'[d] = x /\ \A v \in Vertex : v # d => next'[v] = next[v]
  BY <1>2, <1>3
<1>5. \A t \in strand : t.e = e => t = st
  BY DEF RoundInv, HandInv
<1>6. Pending(e) /\ \A y : Pending(y)' <=> Pending(y) /\ y # e
  BY <1>2, <1>3, <1>5 DEF Pending
<1>7. /\ Gathered(d)' = Gathered(d) + Addend(e)
      /\ \A v : v # d => Gathered(v)' = Gathered(v)
  BY <1>2, <1>6, TakenSum
<1>8. next[d] = Gathered(d)
  BY <1>2 DEF RoundInv, SumInv, cached
<1>9. HandInv'
  <2>1. ASSUME NEW t \in strand, t # st, ~Atomic PROVE t.oldV = next'[dst(t.e)]
    <3>1. dst(t.e) # d /\ dst(t.e) \in Vertex /\ t.oldV = next[dst(t.e)]
      BY <2>1, InRoundFacts DEF RoundInv, HandInv
    <3> QED BY <3>1, <1>4
  <2> QED BY <1>1, <1>3, <2>1 DEF HandInv, RoundInv
<1>10. SumInv'
  <2> SUFFICES ASSUME NEW v \in Vertex PROVE next'[v] = Gathered(v)'
    BY <1>2 DEF SumInv
  <2>1. CASE v = d
    BY <2>1, <1>4, <1>7, <1>8
  <2>2. CASE v # d
    BY <2>2, <1>2, <1>4, <1>7 DEF RoundInv, SumInv, cached
  <2> QED BY <2>1, <2>2
<1>11. DenseMarks'
  BY <1>2, <1>3, <1>6, AddedMarks
<1> QED BY <1>9, <1>10, <1>11 DEF RoundInv

\* The addition of the COO lists, and writeAdd.
LEMMA StoreStep ==
  ASSUME InRound, RoundInv, NEW st \in strand, Store(st) \/ writeAdd(st)
  PROVE  RoundInv'
<1>1. UNCHANGED unchangedInRound /\ UNCHANGED <<todo, cache>>
  BY DEF Store, writeAdd
<1>2. CASE Store(st)
  <2>1. st.oldV = next[dst(st.e)]
    BY <1>2 DEF Store, RoundInv, HandInv
  <2> QED BY <1>1, <1>2, <2>1, AddStep DEF Store
<1>3. CASE writeAdd(st)
  <2>1. CASE next[dst(st.e)] = st.oldV
    BY <1>1, <1>3, <2>1, AddStep DEF writeAdd
  <2>2. CASE next[dst(st.e)] # st.oldV
    <3>1. /\ Atomic
          /\ strand' = (strand \ {st}) \union {[st EXCEPT !.oldV = next[dst(st.e)]]}
          /\ UNCHANGED <<next, v1>>
      BY <1>3, <2>2 DEF writeAdd
    <3> QED BY <1>1, <3>1, ReadAgainStep
  <2> QED BY <2>1, <2>2
<1> QED BY <1>2, <1>3

\* A cache starts with what the array holds.
LEMMA CreateCacheStep ==
  ASSUME InRound, RoundInv, NEW v \in Vertex, CreateCache(v)
  PROVE  RoundInv'
<1> DEFINE new == [d |-> v, value |-> next[v]]
<1>1. /\ ByDestination /\ v \notin cached
      /\ cache' = cache \union {new}
      /\ UNCHANGED unchangedInRound /\ UNCHANGED <<todo, v1, next, strand>>
  BY DEF CreateCache, cached
<1>2. /\ UNCHANGED <<GA, mode>> /\ SourceEdges' = SourceEdges /\ Atomic' = Atomic
      /\ ByDestination' = ByDestination /\ \A D : SumOver(D)' = SumOver(D)
  BY <1>1, SameInRound
<1>3. new.d = v /\ new.value = next[v] /\ \A c \in cache : c.d # v
  BY <1>1 DEF cached
<1> HIDE DEF new
<1>4. HandInv'
  <2>1. ASSUME NEW b \in cache', NEW c \in cache', b.d = c.d PROVE b = c
    <3>1. CASE b \in cache /\ c \in cache
      BY <2>1, <3>1 DEF RoundInv, HandInv
    <3>2. CASE b = new \/ c = new
      BY <1>1, <1>3, <2>1, <3>2
    <3> QED BY <1>1, <3>1, <3>2
  <2> QED BY <1>1, <1>2, <2>1 DEF RoundInv, HandInv
<1>5. \A u : Taken(u)' = Taken(u)
  BY <1>1, <1>2 DEF Taken, Pending
<1>6. \A u : Gathered(u)' = Gathered(u)
  BY <1>2, <1>5 DEF Gathered
<1>7. SumInv'
  <2> SUFFICES ASSUME NEW u \in Vertex
               PROVE  /\ u \notin cached' => next[u] = Gathered(u)
                      /\ \A c \in cache' : c.d = u => c.value = Gathered(u)
    BY <1>1, <1>6 DEF SumInv
  <2>1. u \notin cached' => u \notin cached
    BY <1>1 DEF cached
  <2>2. ASSUME NEW c \in cache', c.d = u PROVE c.value = Gathered(u)
    <3>1. CASE c \in cache
      BY <2>2, <3>1 DEF RoundInv, SumInv
    <3>2. CASE c = new
      BY <2>2, <3>2, <1>1, <1>3 DEF RoundInv, SumInv
    <3> QED BY <1>1, <3>1, <3>2
  <2> QED BY <2>1, <2>2 DEF RoundInv, SumInv
<1> QED BY <1>1, <1>2, <1>4, <1>5, <1>7 DEF RoundInv, DenseMarks

\* An addition to a cache.
LEMMA CachedUpdateStep ==
  ASSUME InRound, RoundInv, NEW c \in cache, NEW job \in todo, CachedUpdate(c, job)
  PROVE  RoundInv'
<1> DEFINE e == job[2]
           new == [c EXCEPT !.value = @ + Addend(job[2])]
<1>1. /\ ByDestination /\ dst(e) = c.d /\ todo' = todo \ {job}
      /\ cache' = (cache \ {c}) \union {new} /\ v1' = Marked(c.d)
      /\ UNCHANGED unchangedInRound /\ UNCHANGED <<next, strand>>
  BY DEF CachedUpdate, Take
<1>2. /\ UNCHANGED <<GA, mode>> /\ SourceEdges' = SourceEdges /\ Atomic' = Atomic
      /\ ByDestination' = ByDestination
  BY <1>1, SameInRound
<1>3. job = <<1, e>> /\ e \in SourceEdges /\ dst(e) \in Vertex /\ strand = {}
  BY <1>1, InRoundFacts DEF RoundInv, HandInv
<1>4. new.d = c.d /\ new.value = c.value + Addend(e) /\ c.value \in Int
  BY InRoundFacts
<1> HIDE DEF new
<1>5. HandInv'
  <2>1. ASSUME NEW a \in cache', NEW b \in cache', a.d = b.d PROVE a = b
    <3>1. \A x \in cache : x.d = c.d => x = c
      BY DEF RoundInv, HandInv
    <3>2. CASE a = new \/ b = new
      BY <1>1, <1>4, <2>1, <3>1, <3>2
    <3>3. CASE a # new /\ b # new
      BY <1>1, <2>1, <3>3 DEF RoundInv, HandInv
    <3> QED BY <3>2, <3>3
  <2>2. todo' \subseteq {1} \X SourceEdges
    BY <1>1 DEF RoundInv, HandInv
  <2> QED BY <1>1, <1>2, <1>3, <2>1, <2>2 DEF RoundInv, HandInv
<1>6. Pending(e) /\ \A x : Pending(x)' <=> Pending(x) /\ x # e
  BY <1>1, <1>3 DEF Pending
<1>7. /\ Gathered(c.d)' = Gathered(c.d) + Addend(e)
      /\ \A v : v # c.d => Gathered(v)' = Gathered(v)
  BY <1>1, <1>3, <1>6, TakenSum
<1>8. c.value = Gathered(c.d)
  BY <1>1, <1>3 DEF RoundInv, SumInv
<1>9. SumInv'
  <2> SUFFICES ASSUME NEW u \in Vertex
               PROVE  /\ u \notin cached' => next[u] = Gathered(u)'
                      /\ \A b \in cache' : b.d = u => b.value = Gathered(u)'
    BY <1>1 DEF SumInv
  <2>1. c.d \in cached' /\ \A x : x # c.d /\ x \notin cached' => x \notin cached
    BY <1>1, <1>4 DEF cached
  <2>2. CASE u = c.d
    <3>1. ASSUME NEW b \in cache', b.d = u PROVE b = new
      BY <1>1, <1>4, <1>5, <2>2, <3>1 DEF HandInv
    <3> QED BY <1>4, <1>7, <1>8, <2>1, <2>2, <3>1
  <2>3. CASE u # c.d
    <3>1. ASSUME NEW b \in cache', b.d = u PROVE b \in cache
      BY <1>1, <1>4, <2>3, <3>1
    <3> QED BY <1>7, <2>1, <2>3, <3>1 DEF RoundInv, SumInv
  <2> QED BY <2>2, <2>3
<1>10. DenseMarks'
  BY <1>1, <1>3, <1>6, AddedMarks
<1> QED BY <1>5, <1>9, <1>10 DEF RoundInv

\* A cache is written back.
LEMMA CommitCacheStep ==
  ASSUME InRound, RoundInv, NEW c \in cache, CommitCache(c)
  PROVE  RoundInv'
<1>1. /\ next' = [next EXCEPT ![c.d] = c.value] /\ cache' = cache \ {c}
      /\ UNCHANGED unchangedInRound /\ UNCHANGED <<todo, v1, strand>>
  BY DEF CommitCache
<1>2. /\ UNCHANGED <<GA, mode>> /\ SourceEdges' = SourceEdges /\ Atomic' = Atomic
      /\ ByDestination' = ByDestination /\ \A D : SumOver(D)' = SumOver(D)
  BY <1>1, SameInRound
<1>3. c.d \in Vertex /\ next \in [Vertex -> Int] /\ strand = {}
  BY InRoundFacts DEF RoundInv, HandInv
<1>4. next'[c.d] = c.value /\ \A v \in Vertex : v # c.d => next'[v] = next[v]
  BY <1>1, <1>3
<1>5. \A v : Taken(v)' = Taken(v)
  BY <1>1, <1>2 DEF Taken, Pending
<1>6. \A v : Gathered(v)' = Gathered(v)
  BY <1>2, <1>5 DEF Gathered
<1>7. HandInv'
  BY <1>1, <1>2, <1>3 DEF RoundInv, HandInv
<1>8. SumInv'
  <2> SUFFICES ASSUME NEW u \in Vertex
               PROVE  /\ u \notin cached' => next'[u] = Gathered(u)
                      /\ \A b \in cache' : b.d = u => b.value = Gathered(u)
    BY <1>6 DEF SumInv
  <2>1. u # c.d /\ u \notin cached' => u \notin cached
    BY <1>1 DEF cached
  <2>2. Gathered(c.d) = c.value
    BY <1>3 DEF RoundInv, SumInv
  <2> QED BY <1>1, <1>4, <2>1, <2>2 DEF RoundInv, SumInv
<1> QED BY <1>1, <1>2, <1>5, <1>7, <1>8 DEF RoundInv, DenseMarks

LEMMA RoundStep ==
  ASSUME InRound, RoundInv, Update
  PROVE  RoundInv'
BY ReadOldStep, StoreStep, CreateCacheStep, CachedUpdateStep, CommitCacheStep DEF Update

\* A round starts with every edge pending and an array of zeros.
LEMMA RoundStart ==
  ASSUME StateInv, SafelyPartitioned, TraverseOver(EdgeJobs), strand' = {}, cache' = {},
         UNCHANGED <<bit, next>>, EdgeJobs = {1} \X SourceEdges, next = Zero
  PROVE  RoundInv'
<1>1. /\ mode' = Mode /\ todo' = EdgeJobs /\ v1' = None /\ UNCHANGED <<GA, Frontier>>
  BY DEF TraverseOver
<1>2. SourceEdges' = SourceEdges
  BY <1>1 DEF SourceEdges, Active
<1>3. Mode = "coo" => ~GA.source
  BY ModeFacts DEF SafelyPartitioned, StateInv
<1>4. HandInv'
  BY <1>1, <1>2, <1>3 DEF HandInv
<1>5. \A v : Taken(v)' = {}
  BY <1>1, <1>2 DEF Taken, Pending
<1>6. \A v : Gathered(v)' = 0
  BY <1>5, TotalEmpty DEF Gathered, SumOver
<1>7. SumInv'
  BY <1>6 DEF SumInv, Zero
<1>8. DenseMarks'
  BY <1>1, <1>5 DEF DenseMarks, None
<1> QED BY <1>4, <1>7, <1>8 DEF RoundInv

\* It ends with all of them added.
AllOf(v) == {e \in SourceEdges : dst(e) = v}

LEMMA RoundEnd ==
  ASSUME RoundInv, todo = {}, strand = {}, cache = {}
  PROVE  \A v \in Vertex : /\ next[v] = SumOver(AllOf(v))
                           /\ mode # "sparse" => v1[v] = IF AllOf(v) # {} THEN 1 ELSE 0
<1>1. \A v : Taken(v) = AllOf(v)
  BY DEF Taken, AllOf, Pending
<1> QED BY <1>1 DEF RoundInv, SumInv, DenseMarks, Gathered, cached

-----------------------------------------------------------------------------
(***************************************************************************)
(* The iteration.                                                          *)
(***************************************************************************)
StepOf(f) ==
  LET sum == [v \in Vertex |-> damped(IntoOf(f, v))]
      rest == IF app = "PageRankConverage"
              THEN (Unit - plusReduce(sum)) \div N ELSE addedConstant
  IN [v \in Vertex |-> sum[v] + rest]

Uniform == [v \in Vertex |-> one_over_n]

IsIteration(r, k) == r = [i \in 0 .. k |-> IF i = 0 THEN Uniform ELSE StepOf(r[i-1])]

\* A sum over edges is what Total says, of any function with the same values.
LEMMA IntoOfFacts ==
  ASSUME GA \in Graphs, NEW f, \A u \in Vertex : f[u] \in Int
  PROVE  /\ \A e \in GA.edges : f[src(e)] \div getOutDegree(src(e)) \in Int
         /\ \A v : /\ IsFiniteSet(Into(v)) /\ Into(v) \subseteq GA.edges
                   /\ IntoOf(f, v) \in Int
                   /\ \A h : (\A e \in Into(v) : h[e] = f[src(e)] \div getOutDegree(src(e))) =>
                        IntoOf(f, v) = Total(h, Into(v)) /\ IsSummable(h, Into(v))
<1> DEFINE share == [e \in GA.edges |-> f[src(e)] \div getOutDegree(src(e))]
<1>1. ASSUME NEW e \in GA.edges
      PROVE  share[e] \in Int /\ share[e] = f[src(e)] \div getOutDegree(src(e))
  <2>1. src(e) \in Vertex /\ getOutDegree(src(e)) \in Nat /\ getOutDegree(src(e)) > 0
    BY GraphFacts, DegreeFacts
  <2>2. \A x \in Int : x \div getOutDegree(src(e)) \in Int
    BY <2>1
  <2> QED BY <2>1, <2>2
<1>2. ASSUME NEW v
      PROVE  /\ IsFiniteSet(Into(v)) /\ Into(v) \subseteq GA.edges
             /\ IntoOf(f, v) = Total(share, Into(v))
  BY GraphFacts, FS_Subset DEF Into, IntoOf, Total
<1> HIDE DEF share
<1>3. ASSUME NEW v
      PROVE  IsSummable(share, Into(v)) /\ IntoOf(f, v) \in Int
  BY <1>1, <1>2, TotalIsInt DEF IsSummable
<1>4. ASSUME NEW v, NEW h, \A e \in Into(v) : h[e] = f[src(e)] \div getOutDegree(src(e))
      PROVE  IntoOf(f, v) = Total(h, Into(v)) /\ IsSummable(h, Into(v))
  <2>1. \A e \in Into(v) : h[e] = share[e]
    BY <1>1, <1>2, <1>4
  <2> QED BY <1>2, <1>3, <2>1, TotalSame DEF IsSummable
<1> QED BY <1>1, <1>2, <1>3, <1>4

LEMMA StepOfType ==
  ASSUME GA \in Graphs, NEW f \in [Vertex -> Int]
  PROVE  StepOf(f) \in [Vertex -> Int]
<1> DEFINE sum == [v \in Vertex |-> damped(IntoOf(f, v))]
           rest == IF app = "PageRankConverage"
                   THEN (Unit - plusReduce(sum)) \div N ELSE addedConstant
<1>1. \A v \in Vertex : sum[v] \in Int
  BY IntoOfFacts, NumberFacts
<1>2. plusReduce(sum) \in Int
  BY <1>1, PlusReduceFacts
<1>3. Unit - plusReduce(sum) \in Int /\ N \in Nat /\ N > 0
  BY <1>2, NumberFacts
<1>4. rest \in Int
  BY <1>3, Division, NumberFacts
<1>5. StepOf(f) = [v \in Vertex |-> sum[v] + rest]
  BY DEF StepOf
<1> HIDE DEF sum, rest
<1> QED BY <1>1, <1>4, <1>5

\* Iterated takes its steps one after the other.
LEMMA IteratedFacts ==
  ASSUME GA \in Graphs
  PROVE  /\ Iterated(0) = Uniform
         /\ \A k \in Nat : /\ Iterated(k) \in [Vertex -> Int]
                           /\ Iterated(k + 1) = StepOf(Iterated(k))
<1> DEFINE T == [Vertex -> Int]
           g == [f \in T |-> StepOf(f)]
<1>1. g \in [T -> T]
  BY StepOfType
<1>2. Uniform \in T
  BY NumberFacts DEF Uniform
<1>3. ASSUME NEW k \in Nat PROVE \E r \in [0 .. k -> T] : IsIteration(r, k)
  <2>1. IteratesIn(T, k, Uniform, g)
    <3> HIDE DEF g, T
    <3> QED BY <1>1, <1>2, RecursionExists
  <2>2. PICK r \in [0 .. k -> T] : r[0] = Uniform /\ \A i \in 1 .. k : r[i] = g[r[i - 1]]
    BY <2>1 DEF IteratesIn, Iterates
  <2>3. ASSUME NEW i \in 0 .. k
        PROVE  r[i] = IF i = 0 THEN Uniform ELSE StepOf(r[i-1])
    <3>1. CASE i = 0
      BY <2>2, <3>1
    <3>2. CASE i # 0
      <4>1. i \in 1 .. k /\ i - 1 \in 0 .. k
        BY <3>2
      <4>2. r[i - 1] \in T /\ r[i] = g[r[i - 1]]
        BY <2>2, <4>1
      <4> QED BY <3>2, <4>2
    <3> QED BY <3>1, <3>2
  <2>4. IsIteration(r, k)
    BY <2>3 DEF IsIteration
  <2> QED BY <2>4
<1>4. ASSUME NEW k \in Nat PROVE \E r : IsIteration(r, k) /\ Iterated(k) = r[k]
  <2> DEFINE r == CHOOSE r : IsIteration(r, k)
  <2>1. IsIteration(r, k)
    BY <1>3
  <2>2. Iterated(k) = r[k]
    BY DEF Iterated, IsIteration, StepOf, Uniform
  <2> HIDE DEF r
  <2> QED BY <2>1, <2>2
<1>5. ASSUME NEW k \in Nat, NEW r, IsIteration(r, k)
      PROVE  /\ r[0] = Uniform /\ \A i \in 1 .. k : r[i] = StepOf(r[i - 1])
             /\ \A i \in 0 .. k : r[i] \in T
  <2>1. r[0] = Uniform /\ \A i \in 1 .. k : r[i] = StepOf(r[i - 1])
    BY <1>5 DEF IsIteration
  <2> DEFINE S == {i \in 0 .. k : r[i] \in T}
  <2>2. 0 \in S
    BY <1>2, <2>1
  <2>3. ASSUME NEW i \in 0 .. k - 1, i \in S PROVE i + 1 \in S
    <3>1. r[i + 1] = StepOf(r[i]) /\ r[i] \in T
      BY <2>1, <2>3
    <3> QED BY <3>1, StepOfType
  <2>4. \A i \in 0 .. k : i \in S
    <3> HIDE DEF S
    <3> QED BY <2>2, <2>3, BoundedInduction
  <2> QED BY <2>1, <2>4
<1> HIDE DEF g, T
<1>6. Iterated(0) = Uniform
  <2>1. PICK r : IsIteration(r, 0) /\ Iterated(0) = r[0]
    BY <1>4
  <2> QED BY <2>1, <1>5
<1>7. ASSUME NEW k \in Nat
      PROVE  Iterated(k) \in T /\ Iterated(k + 1) = StepOf(Iterated(k))
  <2>1. PICK r : IsIteration(r, k) /\ Iterated(k) = r[k]
    BY <1>4
  <2>2. PICK s : IsIteration(s, k + 1) /\ Iterated(k + 1) = s[k + 1]
    BY <1>4
  <2>3. /\ r[0] = Uniform /\ \A i \in 1 .. k : r[i] = StepOf(r[i - 1])
        /\ s[0] = Uniform /\ \A i \in 1 .. k + 1 : s[i] = StepOf(s[i - 1])
        /\ r[k] \in T
    BY <1>5, <2>1, <2>2
  <2> DEFINE S == {i \in 0 .. k : s[i] = r[i]}
  <2>4. 0 \in S
    BY <2>3
  <2>5. ASSUME NEW i \in 0 .. k - 1, i \in S PROVE i + 1 \in S
    <3>1. i + 1 \in 1 .. k /\ i + 1 \in 1 .. k + 1 /\ (i + 1) - 1 = i /\ s[i] = r[i]
      BY <2>5
    <3>2. r[i + 1] = StepOf(r[i]) /\ s[i + 1] = StepOf(s[i])
      BY <2>3, <3>1
    <3> QED BY <3>1, <3>2
  <2>6. \A i \in 0 .. k : i \in S
    <3> HIDE DEF S
    <3> QED BY <2>4, <2>5, BoundedInduction
  <2>7. s[k] = r[k]
    BY <2>6
  <2>8. s[k + 1] = StepOf(s[k])
    <3>1. k + 1 \in 1 .. k + 1 /\ (k + 1) - 1 = k
      OBVIOUS
    <3> QED BY <2>3, <3>1
  <2> QED BY <2>1, <2>2, <2>3, <2>7, <2>8
<1> QED BY <1>6, <1>7 DEF T

\* It is the same as long as the graph and the program are.
LEMMA SameIterated ==
  ASSUME UNCHANGED <<GA, app>>
  PROVE  /\ \A k : Iterated(k)' = Iterated(k)
         /\ \A f, v : IntoOf(f, v)' = IntoOf(f, v)
         /\ \A f : SharesAreExact(f)' <=> SharesAreExact(f)
<1>1. \A u : getOutDegree(u)' = getOutDegree(u)
  BY DEF getOutDegree
<1>2. \A f, v : IntoOf(f, v)' = IntoOf(f, v)
  BY DEF IntoOf, Into, getOutDegree, MapThenSumSet, MapThenFoldSet
<1>3. \A k : Iterated(k)' = Iterated(k)
  BY DEF Iterated, plusReduce, IntoOf, Into, getOutDegree, MapThenSumSet, MapThenFoldSet
<1>4. \A f : SharesAreExact(f)' <=> SharesAreExact(f)
  BY <1>1, <1>2 DEF SharesAreExact
<1> QED BY <1>2, <1>3, <1>4

-----------------------------------------------------------------------------
(***************************************************************************)
(* The turns that RanksAreIterated is about: which frontier they have, and *)
(* that they add every edge of it once to an array of zeros.               *)
(***************************************************************************)
\* The turn after which the claim holds, and the one before which it does.
TurnIsClaimed ==
  \/ app = "PageRank" /\ AllHaveInEdges
  \/ app = "PageRankBit" /\ (count = 0 \/ BitIsDense)
  \/ app \in {"PageRankDelta", "PageRankConverage", "SPMV"}

IsClaimed == TurnIsClaimed \/ (app = "PageRankBit" /\ count < 2)

FrontInv ==
  pc \in {"loop", "edges"} =>
    /\ count = 0 => Frontier = bits(GA.edges) /\ bit
    /\ app = "PageRank" /\ AllHaveInEdges /\ count > 0 =>
         Frontier.rep = "dense" /\ \A v \in Vertex : Frontier.copies[v] > 0
    /\ app = "PageRankBit" => bit /\ (count > 0 /\ BitIsDense => Frontier = BitFrontier)
    /\ app = "PageRankDelta" /\ count > 0 =>
         ~bit /\ Frontier.rep = "dense" /\ \A v \in Vertex : Frontier.copies[v] \in {0, 1}
    /\ app \in {"PageRankConverage", "SPMV"} => Frontier = bits(GA.edges) /\ bit
    /\ app = "SPMV" => count = 0

AddInv ==
  /\ pc = "edges" /\ TurnIsClaimed => RoundInv /\ (app # "PageRankDelta" => mode # "sparse")
  /\ pc = "loop" /\ IsClaimed => next = Zero

TurnInv == StateInv /\ FrontInv /\ AddInv

LEMMA SameClaims ==
  ASSUME UNCHANGED <<GA, app>>
  PROVE  /\ AllHaveInEdges' = AllHaveInEdges /\ (\A v : HasInEdge(v)' = HasInEdge(v))
         /\ BitFrontier' = BitFrontier /\ BitIsDense' = BitIsDense
         /\ count' = count => TurnIsClaimed' = TurnIsClaimed /\ IsClaimed' = IsClaimed
<1>1. AllHaveInEdges' = AllHaveInEdges /\ (\A v : HasInEdge(v)' = HasInEdge(v))
  BY DEF AllHaveInEdges, HasInEdge
<1>2. BitFrontier' = BitFrontier
  BY DEF BitFrontier, HasInEdge
<1>3. BitIsDense' = BitIsDense
  BY <1>2 DEF BitIsDense, GA_m
<1> QED BY <1>1, <1>2, <1>3 DEF TurnIsClaimed, IsClaimed

\* The frontier of PageRankBit is dense, and has no bits.
LEMMA BitFrontierFacts ==
  BitFrontier.rep = "dense"
BY DEF BitFrontier, frontierOf

\* All vertices are visited, but by PageRankDelta after its first round.
LEMMA VisitsAll ==
  ASSUME StateInv, FrontInv, pc \in {"loop", "edges"}, TurnIsClaimed,
         app # "PageRankDelta" \/ count = 0
  PROVE  /\ Frontier.rep # "sparse" /\ SourceEdges = GA.edges
         /\ \A v \in Vertex : bit \/ Frontier.copies[v] > 0
<1>1. count \in Nat /\ \A e \in GA.edges : src(e) \in Vertex
  BY GraphFacts DEF StateInv, TypeOK
<1>2. CASE Frontier = bits(GA.edges) /\ bit
  BY <1>2 DEF SourceEdges, bits
<1>3. CASE app = "PageRank" /\ count > 0
  <2>1. Frontier.rep = "dense" /\ \A v \in Vertex : Frontier.copies[v] > 0
    BY <1>3 DEF FrontInv, TurnIsClaimed
  <2>2. SourceEdges = GA.edges
    BY <1>1, <2>1 DEF SourceEdges, Active
  <2> QED BY <2>1, <2>2
<1>4. CASE app = "PageRankBit" /\ count > 0
  <2>1. bit /\ Frontier = BitFrontier
    BY <1>4 DEF FrontInv, TurnIsClaimed
  <2> QED BY <2>1, BitFrontierFacts DEF SourceEdges
<1> QED BY <1>1, <1>2, <1>3, <1>4 DEF FrontInv, TurnIsClaimed

\* A bits frontier is never sent to the sparse traversal, nor is one that holds
\* all vertices.
LEMMA LargeIsDense ==
  ASSUME StateInv, TraverseOver(EdgeJobs), Mode = "sparse"
  PROVE  /\ Frontier.rep # "bits"
         /\ \E v \in Vertex : Frontier.copies[v] = 0
<1>1. /\ IsFiniteSet(GA.edges) /\ FrontierInv /\ Frontier.copies \in [Vertex -> Nat]
      /\ \A e \in GA.edges : src(e) \in Vertex
  BY GraphFacts DEF StateInv, TypeOK, EngineTypeOK, FrontierType
<1>2. Frontier.rep # "bits"
  <2>1. Count(None) = 0 /\ N # 0
    BY NoneFacts, SizeAssumption
  <2> QED BY <1>1, <2>1 DEF TraverseOver, toSparseAborts, FrontierInv
<1>3. ASSUME \A v \in Vertex : Frontier.copies[v] > 0 PROVE FALSE
  <2>1. /\ Frontier.d_m = Count(Frontier.copies)
        /\ Frontier.num_out_edges = OutEdges(Frontier.copies, GA.edges)
    BY <1>1, <1>2 DEF FrontierInv
  <2>2. Frontier.d_m \in Nat /\ Frontier.d_m > 0
    <3>1. 0 \in Vertex
      BY SizeAssumption DEF Vertex
    <3>2. Count(Frontier.copies) \in Nat /\ Count(Frontier.copies) # 0
      BY <1>1, <1>3, <3>1, CountZero
    <3> QED BY <2>1, <3>2
  <2>3. Frontier.num_out_edges \in Nat /\ GA_m <= Frontier.num_out_edges /\ GA_m \in Nat
    <3> DEFINE h == [e \in GA.edges |-> <<<<src(e), 1>>, e>>]
               P == OutPairs(Frontier.copies, GA.edges)
    <3>1. \A e \in GA.edges : h[e] \in P
      BY <1>1, <1>3, SlotOf DEF OutPairs
    <3>2. h \in Injection(GA.edges, P)
      BY <3>1 DEF Injection, IsInjective
    <3>3. IsFiniteSet(P)
      <4>1. IsFiniteSet(Slots(Frontier.copies) \X GA.edges)
        BY <1>1, SlotsFinite, FS_Product
      <4> QED BY <4>1, FS_Subset DEF OutPairs
    <3>4. Cardinality(GA.edges) <= Cardinality(P)
      <4> HIDE DEF h, P
      <4> QED BY <3>2, <3>3, FS_Injection
    <3> QED BY <1>1, <2>1, <3>3, <3>4, FS_CardinalityType DEF OutEdges, GA_m
  <2>4. \A a, k \in Nat : k > 0 => a \div k <= a /\ a \div k \in Int
    OBVIOUS
  <2>5. GA_m \div SparseDiv <= GA_m /\ GA_m \div SparseDiv \in Int
    BY <2>3, <2>4, ThresholdAssumption
  <2>6. ~(work <= GA_m \div SparseDiv)
    BY <2>2, <2>3, <2>5 DEF work
  <2> QED BY <2>6 DEF Mode
<1> QED BY <1>1, <1>2, <1>3

\* A claimed turn has one job for each edge.
LEMMA RegularJobs ==
  ASSUME StateInv, FrontInv, pc = "loop", TurnIsClaimed, TraverseOver(EdgeJobs)
  PROVE  /\ EdgeJobs = {1} \X SourceEdges
         /\ app # "PageRankDelta" => Mode # "sparse"
<1>1. /\ count \in Nat /\ \A e \in GA.edges : src(e) \in Vertex
  BY GraphFacts DEF StateInv, TypeOK
<1>2. CASE Mode # "sparse"
  BY <1>2 DEF EdgeJobs
<1>3. CASE Mode = "sparse"
  <2>1. Frontier.rep # "bits" /\ \E v \in Vertex : Frontier.copies[v] = 0
    BY <1>3, LargeIsDense
  <2>2. count > 0 /\ app \notin {"PageRank", "PageRankConverage", "SPMV"}
    BY <1>1, <2>1 DEF FrontInv, TurnIsClaimed, bits
  <2>3. app # "PageRankBit"
    <3>1. SUFFICES ASSUME app = "PageRankBit" PROVE FALSE
      OBVIOUS
    <3>2. BitIsDense /\ Frontier = BitFrontier
      BY <2>2, <3>1 DEF FrontInv, TurnIsClaimed
    <3>3. /\ Frontier.d_m + Frontier.num_out_edges > GA_m \div SparseDiv
      BY <3>2 DEF BitIsDense
    <3>4. GA_m \in Nat
      BY GraphFacts, FS_CardinalityType DEF GA_m, StateInv
    <3>5. \A a, k \in Nat : k > 0 => a \div k \in Int
      OBVIOUS
    <3>6. GA_m \div SparseDiv \in Int /\ Frontier.d_m + Frontier.num_out_edges \in Int
      BY <3>4, <3>5, ThresholdAssumption DEF StateInv, TypeOK, EngineTypeOK, FrontierType
    <3> QED BY <1>3, <3>3, <3>6 DEF Mode, work
  <2>4. app = "PageRankDelta"
    BY <2>2, <2>3 DEF TurnIsClaimed
  <2>5. ~bit /\ Frontier.rep = "dense" /\ \A v \in Vertex : Frontier.copies[v] \in {0, 1}
    BY <2>2, <2>4 DEF FrontInv
  <2>6. \A x : x \in Slots(Frontier.copies) <=>
          \E v \in Vertex : x = <<v, 1>> /\ Frontier.copies[v] = 1
    <3>1. ASSUME NEW v \in Vertex, NEW x
          PROVE  x \in {v} \X (1 .. Frontier.copies[v]) <=>
                   x = <<v, 1>> /\ Frontier.copies[v] = 1
      BY <2>5
    <3> QED BY <3>1 DEF Slots
  <2>7. ASSUME NEW x \in OutPairs(Frontier.copies, GA.edges)
        PROVE  <<x[1][2], x[2]>> \in {1} \X SourceEdges
    <3>1. /\ x[1] \in Slots(Frontier.copies) /\ x[2] \in GA.edges /\ src(x[2]) = x[1][1]
      BY DEF OutPairs
    <3>2. PICK v \in Vertex : x[1] = <<v, 1>> /\ Frontier.copies[v] = 1
      BY <2>6, <3>1
    <3> QED BY <2>5, <3>1, <3>2 DEF SourceEdges, Active
  <2>8. ASSUME NEW e \in SourceEdges
        PROVE  \E x \in OutPairs(Frontier.copies, GA.edges) : <<x[1][2], x[2]>> = <<1, e>>
    <3>1. e \in GA.edges /\ src(e) \in Vertex /\ Frontier.copies[src(e)] = 1
      BY <1>1, <2>5 DEF SourceEdges, Active
    <3>2. <<<<src(e), 1>>, e>> \in OutPairs(Frontier.copies, GA.edges)
      BY <2>6, <3>1 DEF OutPairs
    <3> QED BY <3>2
  <2>9. EdgeJobs = {<<x[1][2], x[2]>> : x \in OutPairs(Frontier.copies, GA.edges)}
    BY <1>3 DEF EdgeJobs, Jobs
  <2>10. EdgeJobs = {1} \X SourceEdges
    <3>1. EdgeJobs \subseteq {1} \X SourceEdges
      BY <2>7, <2>9
    <3>2. {1} \X SourceEdges \subseteq EdgeJobs
      BY <2>8, <2>9
    <3> QED BY <3>1, <3>2
  <2> QED BY <2>4, <2>10
<1> QED BY <1>2, <1>3

\* An early return has nothing to add.
LEMMA NothingToAdd ==
  ASSUME StateInv, FrontInv, TurnIsClaimed, ReturnAtOnce
  PROVE  /\ SourceEdges = {}
         /\ app # "PageRank" /\ (app = "PageRankBit" => ~BitIsDense)
<1>1. pc = "loop" /\ Frontier.num_out_edges = 0 /\ ActiveEdges = {}
  BY NoActiveEdges DEF ReturnAtOnce
<1>2. /\ count \in Nat /\ \A e \in GA.edges : src(e) \in Vertex
  BY GraphFacts DEF StateInv, TypeOK
<1>3. bits(GA.edges).rep = "bits"
  BY DEF bits
<1>4. SourceEdges = {}
  <2>1. CASE Frontier.rep = "bits"
    BY <1>1, <1>2, <2>1 DEF ActiveEdges, SourceEdges, Active
  <2>2. CASE app = "PageRank" /\ count > 0
    BY <1>1, <1>2, <2>2 DEF FrontInv, TurnIsClaimed, ActiveEdges, Active, SourceEdges
  <2>3. CASE app = "PageRankBit" /\ count > 0
    BY <1>1, <2>3 DEF FrontInv, TurnIsClaimed, BitIsDense
  <2>4. CASE app = "PageRankDelta" /\ count > 0
    BY <1>1, <2>4 DEF FrontInv, ActiveEdges, SourceEdges
  <2> QED BY <1>1, <1>2, <1>3, <2>1, <2>2, <2>3, <2>4 DEF FrontInv, TurnIsClaimed
<1>5. ASSUME app = "PageRank" PROVE FALSE
  <2>1. GA.edges = {}
    BY <1>1, <1>4, <1>5, VisitsAll
  <2>2. 0 \in Vertex
    BY SizeAssumption DEF Vertex
  <2> QED BY <1>5, <2>1, <2>2 DEF TurnIsClaimed, AllHaveInEdges, HasInEdge
<1>6. ASSUME app = "PageRankBit", BitIsDense PROVE FALSE
  <2>1. GA.edges = {}
    BY <1>1, <1>4, <1>6, VisitsAll
  <2>2. BitFrontier.num_out_edges = OutEdges(BitFrontier.copies, {})
    BY <2>1 DEF BitFrontier, frontierOf
  <2>3. OutEdges(BitFrontier.copies, {}) = 0
    <3>1. OutPairs(BitFrontier.copies, {}) = {}
      BY DEF OutPairs
    <3> QED BY <3>1, FS_EmptySet DEF OutEdges
  <2> QED BY <1>6, <2>2, <2>3 DEF BitIsDense
<1> QED BY <1>4, <1>5, <1>6

\* When a claimed turn ends, each entry holds the sum over its edges.
LEMMA TurnSums ==
  ASSUME TurnInv, TurnIsClaimed, ReturnAtOnce \/ Return
  PROVE  /\ pc \in {"loop", "edges"}
         /\ \A v \in Vertex : next[v] = SumOver(AllOf(v))
         /\ Return /\ app # "PageRankDelta" =>
              mode # "sparse" /\ v1 = [v \in Vertex |-> IF HasInEdge(v) THEN 1 ELSE 0]
<1>1. CASE ReturnAtOnce
  <2>1. SourceEdges = {} /\ pc = "loop" /\ next = Zero
    <3>1. SourceEdges = {}
      BY <1>1, NothingToAdd DEF TurnInv
    <3>2. pc = "loop"
      BY <1>1 DEF ReturnAtOnce
    <3>3. IsClaimed /\ AddInv
      BY DEF IsClaimed, TurnInv
    <3> QED BY <3>1, <3>2, <3>3 DEF AddInv
  <2>2. \A v : SumOver(AllOf(v)) = 0
    BY <2>1, TotalEmpty DEF SumOver, AllOf
  <2> QED BY <2>1, <2>2 DEF Zero, Return
<1>2. CASE Return
  <2>1. pc = "edges" /\ todo = {} /\ strand = {} /\ cache = {}
    BY <1>2 DEF Return
  <2>2. RoundInv /\ (app # "PageRankDelta" => mode # "sparse")
    BY <2>1 DEF TurnInv, AddInv
  <2>3. \A v \in Vertex : /\ next[v] = SumOver(AllOf(v))
                          /\ mode # "sparse" => v1[v] = IF AllOf(v) # {} THEN 1 ELSE 0
    BY <2>1, <2>2, RoundEnd
  <2>4. ASSUME app # "PageRankDelta"
        PROVE  v1 = [v \in Vertex |-> IF HasInEdge(v) THEN 1 ELSE 0]
    <3>1. SourceEdges = GA.edges
      BY <2>1, <2>4, VisitsAll DEF TurnInv
    <3>2. \A v \in Vertex : AllOf(v) # {} <=> HasInEdge(v)
      BY <3>1 DEF AllOf, HasInEdge
    <3>3. v1 \in [Vertex -> Nat]
      BY DEF TurnInv, StateInv, TypeOK, EngineTypeOK
    <3> QED BY <2>2, <2>3, <2>4, <3>2, <3>3
  <2> QED BY <2>1, <2>2, <2>3, <2>4
<1> QED BY <1>1, <1>2

\* What a source hands on is its value divided by its degree, or damped before.
LEMMA SumIsInto ==
  ASSUME StateInv, app \in {"PageRank", "PageRankBit", "PageRankDelta"}, NEW f,
         \A u \in Vertex : f[u] \in Int,
         \A e \in SourceEdges : f[src(e)] = curr[src(e)],
         \A e \in GA.edges \ SourceEdges : f[src(e)] = 0
  PROVE  \A v \in Vertex : SumOver(AllOf(v)) = IntoOf(f, v)
<1> SUFFICES ASSUME NEW v \in Vertex PROVE SumOver(AllOf(v)) = IntoOf(f, v)
  OBVIOUS
<1> DEFINE h == [e \in GA.edges |-> f[src(e)] \div getOutDegree(src(e))]
           k == [e \in AllOf(v) |-> Addend(e)]
<1>1. GA \in Graphs /\ AllOf(v) \subseteq Into(v)
  BY DEF StateInv, AllOf, Into, SourceEdges
<1>2. /\ IsFiniteSet(Into(v)) /\ Into(v) \subseteq GA.edges
      /\ IntoOf(f, v) = Total(h, Into(v)) /\ IsSummable(h, Into(v))
  <2>1. \A e \in Into(v) : h[e] = f[src(e)] \div getOutDegree(src(e))
    BY DEF Into
  <2> HIDE DEF h
  <2> QED BY <1>1, <2>1, IntoOfFacts
<1>3. ASSUME NEW e \in Into(v) \ AllOf(v) PROVE h[e] = 0
  <2>1. e \in GA.edges \ SourceEdges
    BY DEF Into, AllOf
  <2>2. getOutDegree(src(e)) \in Nat /\ getOutDegree(src(e)) > 0
    BY <1>1, <2>1, DegreeFacts
  <2>3. h[e] = 0 \div getOutDegree(src(e))
    BY <2>1
  <2> QED BY <2>2, <2>3
<1>4. ASSUME NEW e \in AllOf(v) PROVE k[e] = h[e]
  <2>1. e \in GA.edges /\ e \in SourceEdges
    BY DEF AllOf, SourceEdges
  <2>2. Addend(e) = curr[src(e)] \div getOutDegree(src(e))
    BY DEF Addend
  <2> QED BY <2>1, <2>2
<1>5. SumOver(AllOf(v)) = Total(k, AllOf(v))
  BY DEF SumOver
<1> HIDE DEF h, k
<1>6. Total(h, Into(v)) = Total(h, AllOf(v))
  BY <1>1, <1>2, <1>3, TotalRestrict
<1>7. IsSummable(h, AllOf(v))
  BY <1>1, <1>2, FS_Subset DEF IsSummable
<1>8. Total(k, AllOf(v)) = Total(h, AllOf(v))
  BY <1>4, <1>7, TotalSame
<1> QED BY <1>2, <1>5, <1>6, <1>8

\* A turn of PageRank or PageRankBit.
LEMMA TailStep ==
  ASSUME TurnInv, TurnIsClaimed, app \in {"PageRank", "PageRankBit"},
         ReturnAtOnce \/ Return, NEW out, Tail(out), pc' = "loop"
  PROVE  curr' = StepOf(curr) /\ next' = Zero /\ Frontier' = out /\ bit' = (app = "PageRankBit")
<1>1. PICK times \in Applied :
        LET updated == [v \in Vertex |-> PR_Vertex_F(next[v], times[v])]
            diff == [v \in Vertex |-> fabs(curr[v] - updated[v])]
        IN IF Breaks THEN pc' = "done"
           ELSE /\ curr' = updated /\ next' = PR_Vertex_Reset(diff, times)
                /\ Frontier' = out /\ bit' = (app = "PageRankBit")
  BY DEF Tail
<1> DEFINE updated == [v \in Vertex |-> PR_Vertex_F(next[v], times[v])]
           diff == [v \in Vertex |-> fabs(curr[v] - updated[v])]
<1>2. /\ curr' = updated /\ next' = PR_Vertex_Reset(diff, times)
      /\ Frontier' = out /\ bit' = (app = "PageRankBit")
  BY <1>1
<1>3. /\ pc \in {"loop", "edges"} /\ StateInv /\ FrontInv /\ GA \in Graphs
      /\ curr \in [Vertex -> Int] /\ next \in [Vertex -> Int]
  BY TurnSums DEF TurnInv, StateInv, TypeOK
<1>4. /\ Frontier.rep # "sparse" /\ SourceEdges = GA.edges
      /\ \A v \in Vertex : bit \/ Frontier.copies[v] > 0
  BY <1>3, VisitsAll
<1>5. \A v \in Vertex : times[v] = 1
  BY <1>4 DEF Applied
<1>6. \A v \in Vertex : next[v] = IntoOf(curr, v)
  BY <1>3, <1>4, TurnSums, SumIsInto
<1>7. ASSUME NEW v \in Vertex PROVE updated[v] = damped(IntoOf(curr, v)) + addedConstant
  BY <1>3, <1>5, <1>6, VertexFFacts
<1>8. updated = StepOf(curr)
  BY <1>7 DEF StepOf
<1>9. next' = Zero
  BY <1>2, <1>5 DEF PR_Vertex_Reset, Zero
<1> QED BY <1>2, <1>8, <1>9

LEMMA InitTurn == ASSUME Init PROVE TurnInv
<1>1. pc = "loop" /\ Frontier = bits(GA.edges) /\ bit /\ count = 0 /\ next = Zero
  BY DEF Init, EngineInit
<1> QED BY <1>1, InitState DEF TurnInv, FrontInv, AddInv

LEMMA EnterTurn == ASSUME TurnInv, SafelyPartitioned, Enter PROVE TurnInv'
<1>1. /\ UNCHANGED <<GA, Frontier, app, count, bit, next, strand, cache, curr>> /\ pc = "loop"
      /\ StateInv /\ StateInv'
  BY EnterState DEF Enter, arrays, strands, SizesDontMatch, BadValueOfM, TraverseOver, TurnInv
<1>2. /\ AllHaveInEdges' = AllHaveInEdges /\ BitFrontier' = BitFrontier
      /\ BitIsDense' = BitIsDense /\ TurnIsClaimed' = TurnIsClaimed
  BY <1>1, SameClaims
<1>3. FrontInv'
  BY <1>1, <1>2 DEF TurnInv, FrontInv
<1>4. ASSUME pc' = "edges", TurnIsClaimed
      PROVE  RoundInv' /\ (app # "PageRankDelta" => mode' # "sparse")
  <2>1. TraverseOver(EdgeJobs)
    BY <1>4 DEF Enter, SizesDontMatch, BadValueOfM
  <2>2. EdgeJobs = {1} \X SourceEdges /\ (app # "PageRankDelta" => Mode # "sparse")
    BY <1>1, <1>4, <2>1, RegularJobs DEF TurnInv
  <2>3. next = Zero
    <3>1. IsClaimed /\ AddInv
      BY <1>4 DEF IsClaimed, TurnInv
    <3> QED BY <1>1, <3>1 DEF AddInv
  <2>4. strand' = {} /\ cache' = {}
    BY <1>1 DEF StateInv
  <2>5. RoundInv'
    BY <1>1, <2>1, <2>2, <2>3, <2>4, RoundStart
  <2> QED BY <2>1, <2>2, <2>5 DEF TraverseOver
<1>5. pc' # "loop"
  BY DEF Enter, SizesDontMatch, BadValueOfM, TraverseOver
<1> QED BY <1>1, <1>2, <1>3, <1>4, <1>5 DEF TurnInv, AddInv

LEMMA UpdateTurn == ASSUME TurnInv, Update PROVE TurnInv'
<1>1. /\ StateInv' /\ pc = "edges" /\ StateInv
      /\ UNCHANGED <<pc, GA, Frontier, mode, app, epsilon2, bit, count, L1_norm, curr, p,
                     dropped>>
  BY UpdateState DEF TurnInv, unchangedInRound
<1>2. /\ AllHaveInEdges' = AllHaveInEdges /\ BitFrontier' = BitFrontier
      /\ BitIsDense' = BitIsDense /\ TurnIsClaimed' = TurnIsClaimed
  BY <1>1, SameClaims
<1>3. FrontInv'
  BY <1>1, <1>2 DEF TurnInv, FrontInv
<1>4. TurnIsClaimed => RoundInv'
  BY <1>1, RoundStep DEF TurnInv, AddInv, InRound
<1> QED BY <1>1, <1>2, <1>3, <1>4 DEF TurnInv, AddInv

\* The end of a turn, for both ways there.
LEMMA EndTurn ==
  ASSUME TurnInv, StateInv', ReturnAtOnce \/ Return, NEW out, RestOfTurn(out),
         Return /\ mode # "sparse" => out = frontierOf("dense", v1, GA.edges)
  PROVE  TurnInv'
<1>1. /\ pc' \in {"loop", "done"} /\ UNCHANGED <<GA, app>> /\ count' = count + 1
      /\ count \in Nat /\ pc \in {"loop", "edges"}
  BY TurnEnds DEF TurnInv, StateInv, TypeOK, Return, ReturnAtOnce
<1>2. /\ AllHaveInEdges' = AllHaveInEdges /\ (\A v : HasInEdge(v)' = HasInEdge(v))
      /\ BitFrontier' = BitFrontier /\ BitIsDense' = BitIsDense
  BY <1>1, SameClaims
<1>3. SUFFICES ASSUME pc' = "loop" PROVE FrontInv' /\ AddInv'
  BY <1>1 DEF TurnInv, FrontInv, AddInv
<1>4. IsClaimed' => TurnIsClaimed
  BY <1>1, <1>2 DEF IsClaimed, TurnIsClaimed
<1>5. CASE app \in {"PageRank", "PageRankBit"}
  <2>1. Tail(out) /\ bit' = (app = "PageRankBit")
    BY <1>3, <1>5 DEF RestOfTurn, Tail
  <2>2. TurnIsClaimed => next' = Zero /\ Frontier' = out
    BY <1>3, <1>5, <2>1, TailStep
  <2>3. ASSUME TurnIsClaimed, app = "PageRank" \/ BitIsDense
        PROVE  Frontier' = frontierOf("dense", [v \in Vertex |-> IF HasInEdge(v) THEN 1 ELSE 0],
                                      GA.edges)
    <3>1. Return
      BY <1>5, <2>3, NothingToAdd DEF TurnInv
    <3>2. /\ mode # "sparse" /\ v1 = [v \in Vertex |-> IF HasInEdge(v) THEN 1 ELSE 0]
      BY <1>5, <2>3, <3>1, TurnSums
    <3> QED BY <2>2, <2>3, <3>1, <3>2
  <2>4. ASSUME app = "PageRank", AllHaveInEdges
        PROVE  Frontier'.rep = "dense" /\ \A v \in Vertex : Frontier'.copies[v] > 0
    <3>1. Frontier' = frontierOf("dense", [v \in Vertex |-> IF HasInEdge(v) THEN 1 ELSE 0],
                                 GA.edges)
      BY <2>3, <2>4 DEF TurnIsClaimed
    <3> QED BY <2>4, <3>1 DEF frontierOf, AllHaveInEdges
  <2>5. ASSUME app = "PageRankBit", BitIsDense
        PROVE  Frontier' = BitFrontier
    <3>1. TurnIsClaimed
      BY <2>5 DEF TurnIsClaimed
    <3> QED BY <2>3, <2>5, <3>1 DEF BitFrontier
  <2>6. FrontInv'
    <3>1. count' # 0 /\ app \notin {"PageRankDelta", "PageRankConverage", "SPMV"}
      BY <1>1, <1>5
    <3> QED BY <1>1, <1>2, <2>1, <2>4, <2>5, <3>1 DEF FrontInv
  <2> QED BY <1>3, <1>4, <2>2, <2>6 DEF AddInv
<1>6. CASE app = "PageRankDelta"
  <2> DEFINE new == [v \in Vertex |-> Delta(v)]
             active == [v \in Vertex |->
                          IF fabs(new[v].Delta) * epsilon2[2] > epsilon2[1] * new[v].p
                          THEN 1 ELSE 0]
  <2>1. /\ next' = Zero /\ bit' = FALSE /\ Frontier' = frontierOf("dense", active, GA.edges)
    BY <1>3, <1>6 DEF RestOfTurn, TailDelta
  <2>2. Frontier'.rep = "dense" /\ Frontier'.copies = active
    <3> HIDE DEF active
    <3> QED BY <2>1 DEF frontierOf
  <2>3. \A v \in Vertex : Frontier'.copies[v] \in {0, 1}
    BY <2>2
  <2> QED BY <1>1, <1>3, <1>6, <2>1, <2>2, <2>3 DEF FrontInv, AddInv
<1>7. CASE app = "PageRankConverage"
  <2>1. next' = Zero /\ UNCHANGED <<Frontier, bit>>
    BY <1>7 DEF RestOfTurn, TailConverage
  <2>2. Frontier = bits(GA.edges) /\ bit
    BY <1>1, <1>7 DEF TurnInv, FrontInv
  <2> QED BY <1>1, <1>3, <1>7, <2>1, <2>2 DEF FrontInv, AddInv
<1>8. app # "SPMV"
  BY <1>3 DEF RestOfTurn, TailSPMV
<1> QED BY <1>5, <1>6, <1>7, <1>8 DEF RestOfTurn

\* The invariant of the turns holds under the one hypothesis about partitions.
LEMMA NextTurn == ASSUME TurnInv, SafelyPartitioned, [Next]_vars PROVE TurnInv'
<1>0. StateInv'
  BY NextState DEF TurnInv
<1>1. CASE UNCHANGED vars \/ Stopped
  <2>1. UNCHANGED vars
    BY <1>1 DEF Stopped
  <2>2. UNCHANGED <<pc, GA, Frontier, mode, todo, v1, app, epsilon2, bit, count, L1_norm,
                    curr, next, p, dropped, strand, cache>>
    BY <2>1 DEF vars
  <2>3. /\ AllHaveInEdges' = AllHaveInEdges /\ BitFrontier' = BitFrontier
        /\ BitIsDense' = BitIsDense /\ TurnIsClaimed' = TurnIsClaimed /\ IsClaimed' = IsClaimed
    BY <2>2, SameClaims
  <2>4. FrontInv'
    BY <2>2, <2>3 DEF TurnInv, FrontInv
  <2>5. RoundInv => RoundInv'
    <3>1. SourceEdges' = SourceEdges /\ \A D : SumOver(D)' = SumOver(D)
      BY <2>2, SameInRound DEF unchangedInRound
    <3>2. \A v : Taken(v)' = Taken(v)
      BY <2>2, <3>1 DEF Taken, Pending
    <3>3. \A v : Gathered(v)' = Gathered(v)
      BY <3>1, <3>2 DEF Gathered
    <3> QED BY <2>2, <3>1, <3>2, <3>3 DEF RoundInv, HandInv, SumInv, DenseMarks, cached,
                                Atomic, ByDestination
  <2> QED BY <1>0, <2>2, <2>3, <2>4, <2>5 DEF TurnInv, AddInv
<1>2. CASE ReturnAtOnce
  <2>1. pc = "loop" /\ RestOfTurn(empty)
    BY <1>2 DEF ReturnAtOnce
  <2>2. ~Return
    BY <2>1 DEF Return
  <2> QED BY <1>0, <1>2, <2>1, <2>2, EndTurn
<1>3. CASE Return
  <2> DEFINE out == frontierOf(IF mode = "sparse" THEN "sparse" ELSE "dense", v1, GA.edges)
  <2>1. RestOfTurn(out)
    BY <1>3 DEF Return
  <2>2. mode # "sparse" => out = frontierOf("dense", v1, GA.edges)
    OBVIOUS
  <2> HIDE DEF out
  <2> QED BY <1>0, <1>3, <2>1, <2>2, EndTurn
<1> QED BY <1>1, <1>2, <1>3, EnterTurn, UpdateTurn DEF Next

-----------------------------------------------------------------------------
(***************************************************************************)
(* The ranks of PageRank, PageRankBit and PageRankConverage, and the       *)
(* product of SPMV.                                                        *)
(***************************************************************************)
\* The divisions of the round, as long as it lasts.
Exact ==
  /\ app \in {"PageRankDelta", "PageRankConverage"} => SharesAreExact(Iterated(count))
  /\ app = "PageRankConverage" => DampedFirstIsExact(Iterated(count))
  /\ app = "PageRankDelta" /\ count > 0 => SharesAreExact(Kept)

ExactInv == pc = "edges" => Exact

RankInv ==
  /\ pc \in {"loop", "edges"} =>
       /\ app \in {"PageRank", "PageRankBit", "PageRankConverage"} /\ IsClaimed =>
            curr = Iterated(count)
       /\ app = "SPMV" => curr = Uniform
  /\ ProductIsRight

\* An exact division can be undone, and a factor can be cancelled.
LEMMA ExactDivision ==
  ASSUME NEW x \in Int, NEW b \in Nat, b > 0, x % b = 0
  PROVE  x \div b \in Int /\ b * (x \div b) = x
OBVIOUS

LEMMA ExactQuotient ==
  ASSUME NEW x \in Int, NEW q \in Int, NEW b \in Nat, b > 0, x = b * q
  PROVE  x \div b = q /\ x % b = 0
OBVIOUS

LEMMA Cancel ==
  ASSUME NEW a \in Int, NEW b \in Int, NEW g \in Nat, g > 0, g * a = g * b
  PROVE  a = b
OBVIOUS

\* The two orders of the divisions give the same, when they are exact.
LEMMA DampedShare ==
  ASSUME NEW x \in Int, NEW g \in Nat, g > 0, x % g = 0,
         (Damping[1] * x) % Damping[2] = 0, damped(x) % g = 0
  PROVE  /\ x \div g \in Int /\ damped(x) \div g \in Int
         /\ Damping[2] * (damped(x) \div g) = Damping[1] * (x \div g)
<1> DEFINE s == x \div g
           y == damped(x)
           q == y \div g
           a == Damping[1]
           b == Damping[2]
<1>1. a \in Nat /\ b \in Nat /\ b > 0 /\ a * x \in Int /\ y \in Int
  BY NumberFacts
<1>2. s \in Int /\ g * s = x
  BY ExactDivision
<1>3. b * y = a * x
  BY <1>1, ExactDivision DEF damped
<1>4. q \in Int /\ g * q = y
  BY <1>1, ExactDivision
<1> HIDE DEF s, y, q, a, b
<1>5. b * q \in Int /\ a * s \in Int
  BY <1>1, <1>2, <1>4
<1>6. g * (b * q) = g * (a * s)
  <2>1. g * (b * q) = b * (g * q)
    BY <1>1, <1>4
  <2>2. g * (a * s) = a * (g * s)
    BY <1>1, <1>2
  <2> QED BY <1>2, <1>3, <1>4, <2>1, <2>2
<1>7. b * q = a * s
  BY <1>5, <1>6, Cancel
<1> QED BY <1>2, <1>4, <1>7 DEF s, y, q, a, b

\* A turn of PageRankConverage.
LEMMA ConverageStep ==
  ASSUME TurnInv, app = "PageRankConverage", Exact, curr = Iterated(count),
         ReturnAtOnce \/ Return, TailConverage
  PROVE  curr' = StepOf(curr)
<1> DEFINE spread == (Unit - plusReduce(next)) \div N
           updated == [v \in Vertex |-> next[v] + spread]
           sum == [v \in Vertex |-> damped(IntoOf(curr, v))]
<1>1. /\ pc \in {"loop", "edges"} /\ StateInv /\ FrontInv /\ TurnIsClaimed /\ GA \in Graphs
      /\ curr \in [Vertex -> Int] /\ next \in [Vertex -> Int]
      /\ \A e \in GA.edges : src(e) \in Vertex
  BY TurnSums, GraphFacts DEF TurnInv, StateInv, TypeOK, TurnIsClaimed
<1>2. SharesAreExact(curr) /\ DampedFirstIsExact(curr)
  BY DEF Exact
<1>3. SourceEdges = GA.edges
  BY <1>1, VisitsAll
<1>4. ASSUME NEW v \in Vertex PROVE next[v] = damped(IntoOf(curr, v))
  <2> DEFINE h == [e \in Into(v) |-> curr[src(e)] \div getOutDegree(src(e))]
             k == [e \in Into(v) |-> Addend(e)]
             hb == [e \in Into(v) |-> Damping[1] * h[e]]
  <2>1. next[v] = Total(k, Into(v))
    <3>1. AllOf(v) = Into(v)
      BY <1>3 DEF AllOf, Into
    <3> QED BY <1>1, <3>1, TurnSums DEF SumOver
  <2>2. /\ IsFiniteSet(Into(v)) /\ IntoOf(curr, v) = Total(h, Into(v))
        /\ IsSummable(h, Into(v)) /\ IntoOf(curr, v) \in Int
    <3>1. \A e \in Into(v) : h[e] = curr[src(e)] \div getOutDegree(src(e))
      OBVIOUS
    <3> HIDE DEF h
    <3> QED BY <1>1, <3>1, IntoOfFacts
  <2>3. ASSUME NEW e \in Into(v)
        PROVE  k[e] \in Int /\ h[e] \in Int /\ Damping[2] * k[e] = Damping[1] * h[e]
    <3>1. e \in GA.edges
      BY DEF Into
    <3>2. curr[src(e)] \in Int /\ getOutDegree(src(e)) \in Nat /\ getOutDegree(src(e)) > 0
      BY <1>1, <3>1, DegreeFacts
    <3>3. /\ curr[src(e)] % getOutDegree(src(e)) = 0
          /\ (Damping[1] * curr[src(e)]) % Damping[2] = 0
          /\ damped(curr[src(e)]) % getOutDegree(src(e)) = 0
      BY <1>2, <3>1 DEF SharesAreExact, DampedFirstIsExact
    <3>4. Addend(e) = damped(curr[src(e)]) \div getOutDegree(src(e))
      BY DEF Addend
    <3> QED BY <3>2, <3>3, <3>4, DampedShare
  <2> HIDE DEF h, k
  <2>4. Damping[1] \in Int /\ Damping[2] \in Int /\ Damping[2] \in Nat /\ Damping[2] > 0
    BY NumberFacts
  <2>5. IsSummable(k, Into(v)) /\ IsSummable(hb, Into(v)) /\ Total(k, Into(v)) \in Int
    <3>1. \A e \in Into(v) : hb[e] \in Int
      BY <2>3, <2>4
    <3> QED BY <2>2, <2>3, <3>1, TotalIsInt DEF IsSummable
  <2>6. Total(hb, Into(v)) = Damping[1] * Total(h, Into(v))
    BY <2>2, <2>4, TotalScale
  <2>7. Total(hb, Into(v)) = Damping[2] * Total(k, Into(v))
    <3>1. \A e \in Into(v) : hb[e] = Damping[2] * k[e]
      BY <2>3
    <3> HIDE DEF hb
    <3> QED BY <2>4, <2>5, <3>1, TotalScale
  <2>8. Damping[1] * IntoOf(curr, v) = Damping[2] * next[v]
    BY <2>1, <2>2, <2>6, <2>7
  <2>9. Damping[1] * IntoOf(curr, v) \in Int /\ next[v] \in Int
    BY <1>1, <2>2, <2>4
  <2> QED BY <2>4, <2>8, <2>9, ExactQuotient DEF damped
<1>5. next = sum
  BY <1>1, <1>4
<1>6. /\ spread \in Int /\ plusReduce(next) \in Int
      /\ plusReduce(updated) = plusReduce(next) + N * spread
  BY <1>1, SpreadFacts, PlusReduceFacts
<1>7. N * spread = Unit - plusReduce(next)
  <2>1. (Unit - plusReduce(next)) % N = 0
    BY <1>2, <1>5 DEF DampedFirstIsExact
  <2> QED BY <1>6, <2>1, NumberFacts, ExactDivision
<1> HIDE DEF spread
<1>8. plusReduce(updated) = Unit /\ Unit \in Nat /\ Unit > 0
  BY <1>6, <1>7, NumberFacts, NumbersAssumption
<1>9. curr' = [v \in Vertex |-> (updated[v] * Unit) \div plusReduce(updated)]
  BY DEF TailConverage, spread
<1>10. ASSUME NEW v \in Vertex PROVE (updated[v] * Unit) \div plusReduce(updated) = sum[v] + spread
  <2>1. updated[v] \in Int /\ updated[v] = sum[v] + spread
    BY <1>1, <1>5, <1>6
  <2> DEFINE y == updated[v]
  <2>2. y * Unit \in Int /\ y * Unit = Unit * y /\ y \in Int
    BY <2>1, <1>8
  <2> HIDE DEF y, updated
  <2>3. (y * Unit) \div Unit = y
    BY <1>8, <2>2, ExactQuotient
  <2> QED BY <1>8, <2>1, <2>3 DEF y
<1>11. StepOf(curr) = [v \in Vertex |-> sum[v] + spread]
  BY <1>5 DEF StepOf, spread
<1> HIDE DEF updated, sum
<1> QED BY <1>9, <1>10, <1>11

\* The sum of the weights of the edges into v.
WeightInto(v) ==
  LET weight == [e \in GA.edges |-> e[3]] IN MapThenSumSet(LAMBDA e : weight[e], Into(v))

LEMMA WeightIntoFacts ==
  ASSUME UNCHANGED <<GA, app>>
  PROVE  /\ \A v : WeightInto(v)' = WeightInto(v)
         /\ ProductIsRight' <=>
              (app = "SPMV" /\ pc' = "done" =>
                 \A v \in Vertex : curr'[v] = one_over_n * WeightInto(v))
<1>1. \A v : WeightInto(v)' = WeightInto(v)
  BY DEF WeightInto, Into, MapThenSumSet, MapThenFoldSet
<1>2. ProductIsRight' <=>
        (app' = "SPMV" /\ pc' = "done" =>
           \A v \in Vertex : curr'[v] = one_over_n * WeightInto(v)')
  BY DEF ProductIsRight, WeightInto
<1> QED BY <1>1, <1>2

\* The product of SPMV.
LEMMA ProductStep ==
  ASSUME TurnInv, app = "SPMV", curr = Uniform, ReturnAtOnce \/ Return, TailSPMV,
         UNCHANGED <<GA, app>>
  PROVE  ProductIsRight'
<1> DEFINE weight == [e \in GA.edges |-> e[3]]
<1>1. /\ pc \in {"loop", "edges"} /\ StateInv /\ FrontInv /\ TurnIsClaimed /\ GA \in Graphs
      /\ next \in [Vertex -> Int]
      /\ \A e \in GA.edges : src(e) \in Vertex /\ e \in Edge
  BY TurnSums, GraphFacts DEF TurnInv, StateInv, TypeOK, TurnIsClaimed
<1>2. SourceEdges = GA.edges
  BY <1>1, VisitsAll
<1>3. ASSUME NEW v \in Vertex PROVE next[v] = one_over_n * Total(weight, Into(v))
  <2> DEFINE k == [e \in Into(v) |-> Addend(e)]
  <2>1. next[v] = Total(k, Into(v))
    <3>1. AllOf(v) = Into(v)
      BY <1>2 DEF AllOf, Into
    <3> QED BY <1>1, <3>1, TurnSums DEF SumOver
  <2>2. \A e \in Into(v) : weight[e] \in Int /\ k[e] = one_over_n * weight[e]
    BY <1>1, WeightAssumption DEF Into, Addend, Uniform
  <2>3. IsSummable(weight, Into(v))
    BY <1>1, <2>2, GraphFacts, FS_Subset DEF IsSummable, Into
  <2> HIDE DEF weight, k
  <2>4. one_over_n \in Int
    BY NumberFacts
  <2> QED BY <2>1, <2>2, <2>3, <2>4, TotalScale
<1>4. curr' = next
  BY DEF TailSPMV
<1>5. \A v : WeightInto(v) = Total(weight, Into(v))
  BY DEF WeightInto, Total
<1> HIDE DEF weight
<1>6. \A v \in Vertex : curr'[v] = one_over_n * WeightInto(v)
  BY <1>3, <1>4, <1>5
<1> QED BY <1>6, WeightIntoFacts

\* curr and the graph stay as they are until the turn ends.
LEMMA SameExact ==
  ASSUME UNCHANGED <<GA, app, count, curr, Frontier>>
  PROVE  Exact' <=> Exact
<1>1. /\ \A k : Iterated(k)' = Iterated(k)
      /\ \A f : SharesAreExact(f)' <=> SharesAreExact(f)
  BY SameIterated
<1>2. Kept' = Kept
  BY DEF Kept, Active
<1>3. \A f : DampedFirstIsExact(f)' <=> DampedFirstIsExact(f)
  <2>1. \A f, v : IntoOf(f, v)' = IntoOf(f, v)
    BY SameIterated
  <2>2. \A f : plusReduce([v \in Vertex |-> damped(IntoOf(f, v))])'
                 = plusReduce([v \in Vertex |-> damped(IntoOf(f, v))])
    BY DEF plusReduce, IntoOf, Into, getOutDegree, MapThenSumSet, MapThenFoldSet
  <2> QED BY <2>2 DEF DampedFirstIsExact, getOutDegree
<1> QED BY <1>1, <1>2, <1>3 DEF Exact

LEMMA InitRank == ASSUME Init PROVE RankInv /\ ExactInv
<1>1. GA \in Graphs /\ pc = "loop" /\ count = 0 /\ curr = Uniform
  BY DEF Init, EngineInit, Uniform
<1>2. Iterated(0) = Uniform
  BY <1>1, IteratedFacts
<1> QED BY <1>1, <1>2 DEF RankInv, ExactInv, ProductIsRight

\* What a step that is not the end of a turn does for the ranks.
LEMMA SameRank ==
  ASSUME RankInv, ExactInv, DivisionsAreExact, UNCHANGED <<GA, app, count, curr, Frontier>>,
         pc' = pc \/ (pc = "loop" /\ pc' \in {"edges", "abort"})
  PROVE  RankInv' /\ ExactInv'
<1>1. /\ \A k : Iterated(k)' = Iterated(k)
      /\ IsClaimed' = IsClaimed
  BY SameIterated, SameClaims
<1>2. Exact' <=> Exact
  BY SameExact
<1>3. pc = "loop" => Exact
  BY DEF DivisionsAreExact, Exact
<1>4. ExactInv'
  BY <1>2, <1>3 DEF ExactInv
<1>5. ProductIsRight'
  <2>1. pc' = "done" => pc = "done"
    OBVIOUS
  <2>2. app = "SPMV" /\ pc = "done" => \A v \in Vertex : curr[v] = one_over_n * WeightInto(v)
    BY DEF RankInv, ProductIsRight, WeightInto
  <2> QED BY <2>1, <2>2, WeightIntoFacts
<1> QED BY <1>1, <1>4, <1>5 DEF RankInv

LEMMA EndRank ==
  ASSUME TurnInv, RankInv, ExactInv, DivisionsAreExact, ReturnAtOnce \/ Return,
         NEW out, RestOfTurn(out)
  PROVE  RankInv' /\ ExactInv'
<1>1. /\ pc' \in {"loop", "done"} /\ UNCHANGED <<GA, app>> /\ count' = count + 1
      /\ count \in Nat /\ pc \in {"loop", "edges"} /\ GA \in Graphs
  BY TurnEnds DEF TurnInv, StateInv, TypeOK, Return, ReturnAtOnce
<1>2. /\ \A k : Iterated(k)' = Iterated(k)
      /\ Iterated(count + 1) = StepOf(Iterated(count))
  BY <1>1, SameIterated, IteratedFacts
<1>3. IsClaimed' => TurnIsClaimed
  BY <1>1, SameClaims DEF IsClaimed, TurnIsClaimed
<1>4. TurnIsClaimed => IsClaimed
  BY DEF IsClaimed
<1>5. Exact
  BY <1>1 DEF ExactInv, DivisionsAreExact, Exact
<1>6. ASSUME pc' = "loop", app \in {"PageRank", "PageRankBit", "PageRankConverage"}, IsClaimed'
      PROVE  curr' = Iterated(count + 1)
  <2>1. TurnIsClaimed /\ curr = Iterated(count)
    BY <1>1, <1>3, <1>4, <1>6 DEF RankInv
  <2>2. CASE app = "PageRankConverage"
    <3>1. TailConverage
      BY <2>2 DEF RestOfTurn
    <3> QED BY <1>2, <1>5, <2>1, <2>2, <3>1, ConverageStep
  <2>3. CASE app \in {"PageRank", "PageRankBit"}
    <3>1. Tail(out)
      BY <2>3 DEF RestOfTurn
    <3> QED BY <1>2, <1>6, <2>1, <2>3, <3>1, TailStep
  <2> QED BY <1>6, <2>2, <2>3
<1>7. ASSUME app = "SPMV" PROVE pc' = "done" /\ ProductIsRight'
  <2>1. TailSPMV /\ curr = Uniform
    BY <1>1, <1>7 DEF RestOfTurn, RankInv
  <2> QED BY <1>1, <1>7, <2>1, ProductStep DEF TailSPMV
<1>8. app # "SPMV" => ProductIsRight'
  BY <1>1 DEF ProductIsRight
<1>9. count' = count + 1 /\ Iterated(count)' = Iterated(count + 1)
  <2>1. \A k : k = count' => Iterated(count)' = Iterated(k)'
    BY DEF Iterated
  <2> QED BY <1>1, <1>2, <2>1
<1> QED BY <1>1, <1>6, <1>7, <1>8, <1>9 DEF RankInv, ExactInv

LEMMA NextRank ==
  ASSUME TurnInv, RankInv, ExactInv, DivisionsAreExact, [Next]_vars
  PROVE  RankInv' /\ ExactInv'
<1>1. CASE UNCHANGED vars \/ Stopped
  <2>1. UNCHANGED <<GA, app, count, curr, Frontier, pc>>
    BY <1>1 DEF Stopped, vars
  <2> QED BY <2>1, SameRank
<1>2. CASE Enter
  <2>1. UNCHANGED <<GA, app, count, curr, Frontier>> /\ pc = "loop" /\ pc' \in {"edges", "abort"}
    BY <1>2 DEF Enter, arrays, SizesDontMatch, BadValueOfM, TraverseOver
  <2> QED BY <2>1, SameRank
<1>3. CASE Update
  <2>1. UNCHANGED <<GA, app, count, curr, Frontier, pc>>
    BY <1>3, UpdateState DEF unchangedInRound, TurnInv
  <2> QED BY <2>1, SameRank
<1>4. CASE ReturnAtOnce
  BY <1>4, EndRank DEF ReturnAtOnce
<1>5. CASE Return
  BY <1>5, EndRank DEF Return
<1> QED BY <1>1, <1>2, <1>3, <1>4, <1>5 DEF Next

-----------------------------------------------------------------------------
(***************************************************************************)
(* A step of the iteration is linear where its divisions are exact, and    *)
(* makes what it is applied to smaller by the damping.                     *)
(***************************************************************************)
LEMMA ExactSum ==
  \A x, y \in Int : \A c \in {1, -1} : \A b \in Nat :
    b > 0 /\ x % b = 0 /\ y % b = 0 =>
      (x + c * y) % b = 0 /\ (x + c * y) \div b = x \div b + c * (y \div b)
<1> SUFFICES ASSUME NEW x \in Int, NEW y \in Int, NEW c \in {1, -1}, NEW b \in Nat,
                    b > 0, x % b = 0, y % b = 0
             PROVE  (x + c * y) % b = 0 /\ (x + c * y) \div b = x \div b + c * (y \div b)
  OBVIOUS
<1> DEFINE q == x \div b
           r == y \div b
<1>1. q \in Int /\ r \in Int /\ b * q = x /\ b * r = y
  BY ExactDivision
<1> HIDE DEF q, r
<1>2. x + c * y \in Int /\ q + c * r \in Int /\ x + c * y = b * (q + c * r)
  <2>1. CASE c = 1
    BY <1>1, <2>1
  <2>2. CASE c = -1
    BY <1>1, <2>2
  <2> QED BY <2>1, <2>2
<1> QED BY <1>2, ExactQuotient DEF q, r

LEMMA DampedIsLinear ==
  ASSUME GA \in Graphs, NEW f, NEW g, NEW h,
         \A u \in Vertex : f[u] \in Int /\ g[u] \in Int,
         SharesAreExact(f), SharesAreExact(g),
         NEW c \in Int, c = 1 \/ c = -1, \A u \in Vertex : h[u] = f[u] + c * g[u]
  PROVE  /\ SharesAreExact(h)
         /\ \A v \in Vertex :
              damped(IntoOf(h, v)) = damped(IntoOf(f, v)) + c * damped(IntoOf(g, v))
<1>0. c \in {1, -1}
  OBVIOUS
<1> DEFINE share(z) == [e \in GA.edges |-> z[src(e)] \div getOutDegree(src(e))]
<1>1. /\ \A u \in Vertex : f[u] \in Int
      /\ \A u \in Vertex : g[u] \in Int
      /\ \A u \in Vertex : h[u] \in Int
  OBVIOUS
<1>2. ASSUME NEW e \in GA.edges
      PROVE  /\ h[src(e)] % getOutDegree(src(e)) = 0
             /\ share(f)[e] \in Int /\ share(g)[e] \in Int
             /\ share(h)[e] = share(f)[e] + c * share(g)[e]
  <2>1. /\ src(e) \in Vertex /\ getOutDegree(src(e)) \in Nat /\ getOutDegree(src(e)) > 0
        /\ f[src(e)] % getOutDegree(src(e)) = 0 /\ g[src(e)] % getOutDegree(src(e)) = 0
    BY GraphFacts, DegreeFacts DEF SharesAreExact
  <2>2. /\ f[src(e)] \in Int /\ g[src(e)] \in Int /\ h[src(e)] = f[src(e)] + c * g[src(e)]
    BY <2>1
  <2>3. /\ h[src(e)] % getOutDegree(src(e)) = 0
        /\ h[src(e)] \div getOutDegree(src(e)) =
             f[src(e)] \div getOutDegree(src(e)) + c * (g[src(e)] \div getOutDegree(src(e)))
    <3> DEFINE x == f[src(e)]
               y == g[src(e)]
               n == getOutDegree(src(e))
    <3>1. x \in Int /\ y \in Int /\ n \in Nat /\ n > 0 /\ x % n = 0 /\ y % n = 0
      BY <2>1, <2>2
    <3>2. h[src(e)] = x + c * y
      BY <2>2
    <3> HIDE DEF x, y, n
    <3>3. (x + c * y) % n = 0 /\ (x + c * y) \div n = x \div n + c * (y \div n)
      BY <1>0, <3>1, ExactSum
    <3> QED BY <3>2, <3>3 DEF x, y, n
  <2>4. /\ f[src(e)] \div getOutDegree(src(e)) \in Int
        /\ g[src(e)] \div getOutDegree(src(e)) \in Int
    BY <2>1, <2>2, Division
  <2> QED BY <2>3, <2>4
<1>3. ASSUME NEW v \in Vertex
      PROVE  /\ IntoOf(h, v) = IntoOf(f, v) + c * IntoOf(g, v)
             /\ IntoOf(f, v) \in Int /\ IntoOf(g, v) \in Int
  <2> DEFINE cg == [e \in GA.edges |-> c * share(g)[e]]
  <2>1. /\ \A e \in Into(v) : share(f)[e] = f[src(e)] \div getOutDegree(src(e))
        /\ \A e \in Into(v) : share(g)[e] = g[src(e)] \div getOutDegree(src(e))
        /\ \A e \in Into(v) : share(h)[e] = h[src(e)] \div getOutDegree(src(e))
    BY DEF Into
  <2>2. IntoOf(f, v) = Total(share(f), Into(v)) /\ IsSummable(share(f), Into(v)) /\ IntoOf(f, v) \in Int
    <3> HIDE DEF share
    <3> QED BY <1>1, <2>1, IntoOfFacts
  <2>3. IntoOf(g, v) = Total(share(g), Into(v)) /\ IsSummable(share(g), Into(v)) /\ IntoOf(g, v) \in Int
    <3> HIDE DEF share
    <3> QED BY <1>1, <2>1, IntoOfFacts
  <2>4. IntoOf(h, v) = Total(share(h), Into(v)) /\ Into(v) \subseteq GA.edges
    <3> HIDE DEF share
    <3> QED BY <1>1, <2>1, IntoOfFacts
  <2> HIDE DEF share
  <2>5. c \in Int /\ \A e \in Into(v) : cg[e] = c * share(g)[e] /\ cg[e] \in Int
    BY <1>2, <2>4
  <2>6. \A e \in Into(v) : share(h)[e] = share(f)[e] + cg[e]
    BY <1>2, <2>4, <2>5
  <2> HIDE DEF cg
  <2>7. Total(cg, Into(v)) = c * Total(share(g), Into(v)) /\ IsSummable(cg, Into(v))
    BY <2>3, <2>5, TotalScale DEF IsSummable
  <2>8. Total(share(h), Into(v)) = Total(share(f), Into(v)) + Total(cg, Into(v))
    BY <2>2, <2>6, <2>7, TotalPlus
  <2> QED BY <2>2, <2>3, <2>4, <2>7, <2>8
<1>4. ASSUME NEW v \in Vertex
      PROVE  /\ (Damping[1] * IntoOf(h, v)) % Damping[2] = 0
             /\ damped(IntoOf(h, v)) = damped(IntoOf(f, v)) + c * damped(IntoOf(g, v))
  <2> DEFINE x == Damping[1] * IntoOf(f, v)
             y == Damping[1] * IntoOf(g, v)
  <2>1. x \in Int /\ y \in Int /\ Damping[1] \in Int /\ Damping[2] \in Nat /\ Damping[2] > 0
    BY <1>3, NumberFacts
  <2>2. x % Damping[2] = 0 /\ y % Damping[2] = 0
    BY DEF SharesAreExact
  <2>3. Damping[1] * IntoOf(h, v) = x + c * y
    <3>1. CASE c = 1
      BY <1>3, <2>1, <3>1
    <3>2. CASE c = -1
      BY <1>3, <2>1, <3>2
    <3> QED BY <3>1, <3>2
  <2>4. damped(IntoOf(f, v)) = x \div Damping[2] /\ damped(IntoOf(g, v)) = y \div Damping[2]
    BY DEF damped
  <2> HIDE DEF x, y
  <2>5. /\ (x + c * y) % Damping[2] = 0
        /\ (x + c * y) \div Damping[2] = x \div Damping[2] + c * (y \div Damping[2])
    BY <1>0, <2>1, <2>2, ExactSum
  <2> QED BY <2>3, <2>4, <2>5 DEF damped
<1> QED BY <1>2, <1>4 DEF SharesAreExact

\* How large the entries of an array are, added up.
Norm(f) == plusReduce([v \in Vertex |-> fabs(f[v])])

LEMMA NormFacts ==
  \A f : (\A u \in Vertex : f[u] \in Int) =>
    /\ Norm(f) \in Nat /\ (Norm(f) = 0 => \A u \in Vertex : f[u] = 0)
    /\ \A h : (\A v \in Vertex : h[v] = fabs(f[v])) =>
         Norm(f) = Total(h, Vertex) /\ IsSummable(h, Vertex)
<1> SUFFICES ASSUME NEW f, \A u \in Vertex : f[u] \in Int
             PROVE  /\ Norm(f) \in Nat /\ (Norm(f) = 0 => \A u \in Vertex : f[u] = 0)
                    /\ \A h : (\A v \in Vertex : h[v] = fabs(f[v])) =>
                         Norm(f) = Total(h, Vertex) /\ IsSummable(h, Vertex)
  OBVIOUS
<1> DEFINE k == [v \in Vertex |-> fabs(f[v])]
<1>1. \A v \in Vertex : k[v] = fabs(f[v]) /\ k[v] \in Nat /\ (k[v] = 0 => f[v] = 0)
  BY DEF fabs
<1>2. Norm(f) = Total(k, Vertex)
  BY PlusReduceFacts DEF Norm
<1> HIDE DEF k
<1>3. IsSummable(k, Vertex)
  BY <1>1, VertexFinite DEF IsSummable
<1>4. Norm(f) \in Nat /\ (Norm(f) = 0 <=> \A v \in Vertex : k[v] = 0)
  BY <1>1, <1>2, VertexFinite, TotalNat
<1>5. ASSUME NEW h, \A v \in Vertex : h[v] = fabs(f[v])
      PROVE  Norm(f) = Total(h, Vertex) /\ IsSummable(h, Vertex)
  <2>1. \A v \in Vertex : h[v] = k[v]
    BY <1>1, <1>5
  <2> QED BY <1>2, <1>3, <2>1, TotalSame DEF IsSummable
<1> QED BY <1>1, <1>4, <1>5

LEMMA NormOfSum ==
  ASSUME NEW f, NEW g, NEW h,
         \A v \in Vertex : f[v] \in Int /\ g[v] \in Int /\ h[v] \in Int
                           /\ fabs(h[v]) <= fabs(f[v]) + fabs(g[v])
  PROVE  Norm(h) <= Norm(f) + Norm(g)
<1> DEFINE af == [v \in Vertex |-> fabs(f[v])]
           ag == [v \in Vertex |-> fabs(g[v])]
           ah == [v \in Vertex |-> fabs(h[v])]
           s == [v \in Vertex |-> fabs(f[v]) + fabs(g[v])]
<1>1. \A v \in Vertex : /\ af[v] = fabs(f[v]) /\ ag[v] = fabs(g[v]) /\ ah[v] = fabs(h[v])
                        /\ s[v] = af[v] + ag[v] /\ ah[v] <= s[v] /\ s[v] \in Int
  BY FabsFacts
<1> HIDE DEF af, ag, ah, s
<1>2. /\ Norm(f) = Total(af, Vertex) /\ IsSummable(af, Vertex)
      /\ Norm(g) = Total(ag, Vertex) /\ IsSummable(ag, Vertex)
      /\ Norm(h) = Total(ah, Vertex) /\ IsSummable(ah, Vertex)
  BY <1>1, NormFacts
<1>3. Total(s, Vertex) = Total(af, Vertex) + Total(ag, Vertex)
  BY <1>1, <1>2, TotalPlus
<1>4. Total(ah, Vertex) <= Total(s, Vertex)
  BY <1>1, <1>2, VertexFinite, TotalMonotone DEF IsSummable
<1> QED BY <1>2, <1>3, <1>4

\* What arrives along the edges is no more than what is there.
LEMMA FlowIsBounded ==
  ASSUME GA \in Graphs, NEW f, \A u \in Vertex : f[u] \in Int, SharesAreExact(f)
  PROVE  Norm([v \in Vertex |-> IntoOf(f, v)]) <= Norm(f)
<1> DEFINE w == [e \in GA.edges |-> fabs(f[src(e)] \div getOutDegree(src(e)))]
           into == [v \in Vertex |-> IntoOf(f, v)]
           ai == [v \in Vertex |-> fabs(IntoOf(f, v))]
           ins == [v \in Vertex |-> Total(w, {e \in GA.edges : dst(e) = v})]
           outs == [u \in Vertex |-> Total(w, {e \in GA.edges : src(e) = u})]
           af == [u \in Vertex |-> fabs(f[u])]
           D == [e \in GA.edges |-> dst(e)]
           C == [e \in GA.edges |-> src(e)]
<1>1. /\ IsFiniteSet(GA.edges)
      /\ \A e \in GA.edges : src(e) \in Vertex /\ dst(e) \in Vertex
      /\ \A e \in GA.edges : f[src(e)] \div getOutDegree(src(e)) \in Int
  BY GraphFacts, IntoOfFacts
<1>2. \A e \in GA.edges : w[e] \in Nat /\ w[e] = fabs(f[src(e)] \div getOutDegree(src(e)))
  BY <1>1, FabsFacts
<1>3. IsSummable(w, GA.edges)
  BY <1>1, <1>2 DEF IsSummable
<1>4. ASSUME NEW v \in Vertex
      PROVE  /\ into[v] \in Int /\ ai[v] = fabs(into[v]) /\ ai[v] <= ins[v]
             /\ ins[v] \in Int
  <2> DEFINE k == [e \in Into(v) |-> f[src(e)] \div getOutDegree(src(e))]
  <2>1. \A e \in Into(v) : k[e] = f[src(e)] \div getOutDegree(src(e))
    OBVIOUS
  <2>2. Into(v) \subseteq GA.edges /\ ins[v] = Total(w, Into(v))
    BY DEF Into
  <2>3. \A e \in Into(v) : w[e] = abs(k[e])
    BY <1>2, <2>1, <2>2 DEF fabs, abs
  <2> HIDE DEF k, w
  <2>4. IntoOf(f, v) = Total(k, Into(v)) /\ IsSummable(k, Into(v)) /\ IntoOf(f, v) \in Int
    BY <2>1, IntoOfFacts
  <2>5. IsSummable(w, Into(v)) /\ abs(Total(k, Into(v))) <= Total(w, Into(v))
    BY <2>3, <2>4, TotalAbs
  <2>6. Total(w, Into(v)) \in Int
    BY <2>5, TotalIsInt
  <2> QED BY <2>2, <2>4, <2>5, <2>6 DEF abs, fabs
<1>5. ASSUME NEW u \in Vertex
      PROVE  /\ outs[u] <= af[u] /\ outs[u] \in Int /\ af[u] = fabs(f[u]) /\ af[u] \in Nat
  <2> DEFINE E == {e \in GA.edges : src(e) = u}
             x == f[u] \div getOutDegree(u)
  <2>1. af[u] = fabs(f[u]) /\ af[u] \in Nat
    BY FabsFacts
  <2>2. IsFiniteSet(E) /\ outs[u] = Total(w, E) /\ Cardinality(E) = getOutDegree(u)
    BY <1>1, FS_Subset DEF getOutDegree
  <2>3. CASE E = {}
    <3>1. Total(w, E) = 0
      BY <2>3, TotalEmpty
    <3> QED BY <2>1, <2>2, <3>1
  <2>4. CASE E # {}
    <3>1. PICK e \in GA.edges : src(e) = u
      BY <2>4
    <3>2. /\ getOutDegree(u) \in Nat /\ getOutDegree(u) > 0 /\ f[u] % getOutDegree(u) = 0
      BY <3>1, DegreeFacts DEF SharesAreExact
    <3>3. x \in Int /\ getOutDegree(u) * x = f[u]
      BY <3>2, ExactDivision
    <3>4. fabs(x) \in Int /\ \A y \in E : w[y] = fabs(x)
      BY <1>2, <3>3, FabsFacts
    <3> HIDE DEF x, w
    <3>5. Total(w, E) = getOutDegree(u) * fabs(x)
      BY <2>2, <3>4, TotalConstant
    <3>6. getOutDegree(u) * fabs(x) = fabs(f[u])
      <4> DEFINE n == getOutDegree(u)
      <4>1. n \in Nat /\ n > 0 /\ n * x = f[u] /\ x \in Int
        BY <3>2, <3>3
      <4> HIDE DEF n
      <4>2. CASE x < 0
        <5>1. n * x < 0 /\ n * (-x) = -(n * x)
          BY <4>1, <4>2
        <5> QED BY <4>1, <4>2, <5>1 DEF fabs, n
      <4>3. CASE ~(x < 0)
        <5>1. ~(n * x < 0)
          BY <4>1, <4>3
        <5> QED BY <4>1, <4>3, <5>1 DEF fabs, n
      <4> QED BY <4>2, <4>3
    <3> QED BY <2>1, <2>2, <3>5, <3>6
  <2> QED BY <2>3, <2>4
<1>6. Total(ins, Vertex) = Total(w, GA.edges)
  <2>1. Classes(GA.edges, Vertex, w, D, ins)
    <3>1. \A v \in Vertex : ins[v] = Total(w, {e \in GA.edges : D[e] = v})
      <4>1. \A v \in Vertex : {e \in GA.edges : D[e] = v} = {e \in GA.edges : dst(e) = v}
        OBVIOUS
      <4> QED BY <4>1
    <3>2. \A e \in GA.edges : D[e] \in Vertex
      BY <1>1
    <3> QED BY <1>3, <3>1, <3>2, VertexFinite DEF Classes
  <2> QED BY <2>1, TotalByClass
<1>7. Total(outs, Vertex) = Total(w, GA.edges)
  <2>1. Classes(GA.edges, Vertex, w, C, outs)
    <3>1. \A v \in Vertex : outs[v] = Total(w, {e \in GA.edges : C[e] = v})
      <4>1. \A v \in Vertex : {e \in GA.edges : C[e] = v} = {e \in GA.edges : src(e) = v}
        OBVIOUS
      <4> QED BY <4>1
    <3>2. \A e \in GA.edges : C[e] \in Vertex
      BY <1>1
    <3> QED BY <1>3, <3>1, <3>2, VertexFinite DEF Classes
  <2> QED BY <2>1, TotalByClass
<1> HIDE DEF w, into, ai, ins, outs, af
<1>8. Norm(into) = Total(ai, Vertex) /\ IsSummable(ai, Vertex)
  BY <1>4, NormFacts
<1>9. Norm(f) = Total(af, Vertex) /\ IsSummable(af, Vertex)
  BY <1>5, NormFacts
<1>10. IsSummable(ins, Vertex) /\ IsSummable(outs, Vertex)
  BY <1>4, <1>5, VertexFinite DEF IsSummable
<1>11. Total(ai, Vertex) <= Total(ins, Vertex) /\ Total(outs, Vertex) <= Total(af, Vertex)
  BY <1>4, <1>5, <1>8, <1>9, <1>10, TotalMonotone
<1>12. Norm(into) <= Norm(f)
  <2>1. /\ Total(ai, Vertex) \in Int /\ Total(ins, Vertex) \in Int /\ Total(af, Vertex) \in Int
    BY <1>8, <1>9, <1>10, TotalIsInt
  <2> QED BY <1>6, <1>7, <1>8, <1>9, <1>11, <2>1
<1> QED BY <1>12 DEF into

LEMMA DampedContracts ==
  ASSUME GA \in Graphs, NEW f, \A u \in Vertex : f[u] \in Int, SharesAreExact(f)
  PROVE  Damping[2] * Norm([v \in Vertex |-> damped(IntoOf(f, v))]) <= Damping[1] * Norm(f)
<1> DEFINE a == Damping[1]
           b == Damping[2]
           into == [v \in Vertex |-> IntoOf(f, v)]
           d == [v \in Vertex |-> damped(IntoOf(f, v))]
           ai == [v \in Vertex |-> fabs(into[v])]
           ad == [v \in Vertex |-> fabs(d[v])]
           both == [v \in Vertex |-> a * ai[v]]
<1>1. a \in Nat /\ b \in Nat /\ b > 0 /\ a \in Int /\ b \in Int
  BY NumberFacts
<1>2. ASSUME NEW v \in Vertex
      PROVE  /\ into[v] \in Int /\ d[v] \in Int
             /\ ai[v] = fabs(into[v]) /\ ad[v] = fabs(d[v]) /\ ai[v] \in Int /\ ad[v] \in Int
             /\ both[v] = a * ai[v] /\ both[v] = b * ad[v] /\ both[v] \in Int
  <2>1. into[v] = IntoOf(f, v) /\ d[v] = damped(IntoOf(f, v)) /\ into[v] \in Int
    BY IntoOfFacts
  <2>2. a * into[v] \in Int /\ (a * into[v]) % b = 0
    BY <1>1, <2>1 DEF SharesAreExact
  <2>3. d[v] \in Int /\ b * d[v] = a * into[v]
    <3>1. d[v] = (a * into[v]) \div b
      BY <2>1 DEF damped
    <3> HIDE DEF a, b, d, into
    <3> QED BY <1>1, <2>2, <3>1, ExactDivision
  <2>4. a * fabs(into[v]) = b * fabs(d[v])
    <3> DEFINE x == into[v]
               y == d[v]
    <3>1. x \in Int /\ y \in Int /\ b * y = a * x
      BY <2>1, <2>3
    <3> HIDE DEF a, b, x, y
    <3>2. b * (-y) = a * (-x) /\ a * (-x) = -(a * x) /\ b * (-y) = -(b * y)
      BY <1>1, <3>1
    <3>3. y < 0 => b * y < 0
      BY <1>1, <3>1
    <3>4. y > 0 => b * y > 0
      BY <1>1, <3>1
    <3>5. x >= 0 => a * x >= 0
      BY <1>1, <3>1
    <3>6. x <= 0 => a * x <= 0
      BY <1>1, <3>1
    <3>7. CASE x < 0
      <4>1. ~(y > 0)
        BY <1>1, <3>1, <3>4, <3>6, <3>7
      <4>2. fabs(x) = -x /\ fabs(y) = -y
        BY <3>1, <3>7, <4>1 DEF fabs
      <4> QED BY <3>2, <4>2 DEF x, y
    <3>8. CASE ~(x < 0)
      <4>1. ~(y < 0)
        BY <1>1, <3>1, <3>3, <3>5, <3>8
      <4>2. fabs(x) = x /\ fabs(y) = y
        BY <3>1, <3>8, <4>1 DEF fabs
      <4> QED BY <3>1, <4>2 DEF x, y
    <3> QED BY <3>7, <3>8
  <2>5. ai[v] = fabs(into[v]) /\ ad[v] = fabs(d[v]) /\ ai[v] \in Int /\ ad[v] \in Int
    BY <2>1, <2>3, FabsFacts
  <2>6. both[v] = a * ai[v] /\ both[v] \in Int
    BY <1>1, <2>5
  <2> QED BY <2>1, <2>3, <2>4, <2>5, <2>6
<1>3. Norm(into) <= Norm(f)
  BY FlowIsBounded
<1> HIDE DEF a, b, into, d, ai, ad, both
<1>4. /\ Norm(into) = Total(ai, Vertex) /\ IsSummable(ai, Vertex)
      /\ Norm(d) = Total(ad, Vertex) /\ IsSummable(ad, Vertex)
  BY <1>2, NormFacts
<1>5. Total(both, Vertex) = a * Total(ai, Vertex)
  BY <1>1, <1>2, <1>4, TotalScale
<1>6. Total(both, Vertex) = b * Total(ad, Vertex)
  BY <1>1, <1>2, <1>4, TotalScale
<1>7. Norm(into) \in Nat /\ Norm(f) \in Nat
  BY <1>2, NormFacts
<1>8. a * Norm(into) <= a * Norm(f)
  BY <1>1, <1>3, <1>7
<1>9. b * Norm(d) <= a * Norm(f)
  BY <1>4, <1>5, <1>6, <1>8
<1> QED BY <1>9 DEF a, b, d

-----------------------------------------------------------------------------
(***************************************************************************)
(* The ranks of PageRankDelta.  S is the sum of what its rounds have       *)
(* dropped, a the sum of what they have handed on, so that the ranks are   *)
(* one step from a, and z how far they are off.                            *)
(***************************************************************************)
Drift(S, a, z) ==
  /\ SharesAreExact(a)
  /\ \A v \in Vertex : /\ p[v] = a[v] + curr[v] + S[v]
                       /\ p[v] = damped(IntoOf(a, v)) + addedConstant
                       /\ p[v] = Iterated(count)[v] + z[v]
  /\ Norm(S) <= dropped - LastDropped
  /\ Norm(z) * (Damping[2] - Damping[1]) <= Damping[1] * (dropped - LastDropped)

SmallDrops ==
  \A v \in Vertex \ Active : fabs(curr[v]) * epsilon2[2] <= epsilon2[1] * p[v]

DeltaInv ==
  pc \in {"loop", "edges"} /\ app = "PageRankDelta" =>
    /\ count = 0 => p = Zero /\ curr = Uniform
    /\ count > 0 => /\ SmallDrops
                    /\ \E S, a, z \in [Vertex -> Int] : Drift(S, a, z)
    /\ epsilon2[1] = 0 => dropped = 0

\* The bound of the drift goes from one round to the next.
LEMMA DriftArithmetic ==
  \A X, Y, W, V \in Nat : \A a, b \in Nat :
    /\ a < b /\ b * Y <= a * (X + W)
    /\ X * (b - a) <= a * V /\ V <= W
    => Y * (b - a) <= a * W
<1> SUFFICES ASSUME NEW X \in Nat, NEW Y \in Nat, NEW W \in Nat, NEW V \in Nat,
                    NEW a \in Nat, NEW b \in Nat,
                    a < b, b * Y <= a * (X + W), X * (b - a) <= a * V, V <= W
             PROVE  Y * (b - a) <= a * W
  OBVIOUS
<1> DEFINE g == b - a
<1>1. g \in Nat /\ b = a + g /\ b > 0
  OBVIOUS
<1>2. X * g <= a * W
  <2>1. a * V <= a * W
    OBVIOUS
  <2>2. X * g \in Int /\ a * V \in Int /\ a * W \in Int
    BY <1>1
  <2> QED BY <2>1, <2>2
<1> HIDE DEF g
<1>3. (b * Y) * g <= (a * (X + W)) * g
  <2> DEFINE l == b * Y
             r == a * (X + W)
  <2>1. l \in Int /\ r \in Int /\ l <= r
    OBVIOUS
  <2> HIDE DEF l, r
  <2>2. l * g <= r * g
    BY <1>1, <2>1
  <2> QED BY <2>2 DEF l, r
<1>4. (a * (X + W)) * g = a * (X * g) + a * (W * g)
  BY <1>1
<1>5. a * (X * g) <= a * (a * W)
  <2> DEFINE l == X * g
             r == a * W
  <2>1. l \in Int /\ r \in Int /\ l <= r
    BY <1>1, <1>2
  <2> HIDE DEF l, r
  <2>2. a * l <= a * r
    BY <2>1
  <2> QED BY <2>2 DEF l, r
<1>6. a * (a * W) + a * (W * g) = b * (a * W)
  <2>1. b * (a * W) = (a + g) * (a * W)
    BY <1>1
  <2>2. (a + g) * (a * W) = a * (a * W) + g * (a * W)
    BY <1>1
  <2>3. g * (a * W) = a * (W * g)
    BY <1>1
  <2> QED BY <2>1, <2>2, <2>3
<1>7. (b * Y) * g = b * (Y * g)
  BY <1>1
<1> DEFINE l == Y * g
           r == a * W
           s == a * (W * g)
           t == a * (X * g)
           u == a * (a * W)
<1>8. l \in Int /\ r \in Int /\ s \in Int /\ t \in Int /\ u \in Int
  BY <1>1
<1>9. b * l <= t + s /\ t <= u /\ u + s = b * r
  BY <1>3, <1>4, <1>5, <1>6, <1>7
<1> HIDE DEF l, r, s, t, u
<1>10. b * l <= b * r
  BY <1>1, <1>8, <1>9
<1>11. l <= r
  BY <1>1, <1>8, <1>10
<1> QED BY <1>11 DEF l, r, g

LEMMA NormIsRigid == \A f : Norm(f)' = Norm(f)
BY DEF Norm, plusReduce, MapThenSumSet, MapThenFoldSet

\* What a round of PageRankDelta drops.
LEMMA DropStep ==
  ASSUME TurnInv, app = "PageRankDelta", TailDelta, pc' = "loop", UNCHANGED epsilon2
  PROVE  /\ \A v \in Vertex : curr'[v] = Delta(v).Delta /\ p'[v] = Delta(v).p
         /\ curr' \in [Vertex -> Int] /\ p' \in [Vertex -> Int]
         /\ SmallDrops'
         /\ LastDropped' \in Nat /\ dropped' = dropped + LastDropped'
         /\ epsilon2[1] = 0 => LastDropped' = 0
<1> DEFINE new == [v \in Vertex |-> Delta(v)]
           active == [v \in Vertex |->
                        IF fabs(new[v].Delta) * epsilon2[2] > epsilon2[1] * new[v].p
                        THEN 1 ELSE 0]
           norm == [v \in Vertex |-> fabs(new[v].Delta)]
           lost == [v \in Vertex |-> IF active[v] = 0 THEN norm[v] ELSE 0]
<1>1. /\ curr' = [v \in Vertex |-> new[v].Delta] /\ p' = [v \in Vertex |-> new[v].p]
      /\ dropped' = dropped + plusReduce(lost)
      /\ Frontier' = frontierOf("dense", active, GA.edges)
  BY DEF TailDelta
<1>2. /\ \A v \in Vertex : new[v].Delta \in Int /\ new[v].p \in Int
      /\ epsilon2[1] \in Nat /\ epsilon2[2] \in Nat /\ epsilon2[2] > 0
  BY DeltaFacts, NumbersAssumption DEF TurnInv, StateInv, TypeOK, Numbers
<1>3. \A v \in Vertex : /\ curr'[v] = new[v].Delta /\ p'[v] = new[v].p
                        /\ norm[v] = fabs(curr'[v]) /\ norm[v] \in Nat
                        /\ lost[v] \in Nat
  BY <1>1, <1>2, FabsFacts
<1>4. /\ Active' = {v \in Vertex : active[v] > 0}
  <2> HIDE DEF active
  <2>1. Frontier'.rep = "dense" /\ Frontier'.copies = active
    BY <1>1 DEF frontierOf
  <2> QED BY <2>1 DEF Active
<1>5. \A v \in Vertex : /\ v \in Active' <=> active[v] # 0
                        /\ active[v] = 0 <=>
                             ~(fabs(curr'[v]) * epsilon2[2] > epsilon2[1] * p'[v])
  BY <1>3, <1>4
<1>6. \A v \in Vertex : fabs(curr'[v]) * epsilon2[2] \in Int /\ epsilon2[1] * p'[v] \in Int
  BY <1>2, <1>3
<1>7. SmallDrops'
  <2>1. \A v \in Vertex \ Active' : fabs(curr'[v]) * epsilon2[2] <= epsilon2[1] * p'[v]
    BY <1>5, <1>6
  <2> QED BY <2>1 DEF SmallDrops
<1>8. LastDropped' = plusReduce(lost)
  <2>1. lost = [v \in Vertex |-> IF v \in Active' THEN 0 ELSE fabs(curr'[v])]
    BY <1>3, <1>5
  <2> HIDE DEF lost
  <2> QED BY <2>1 DEF LastDropped, plusReduce, MapThenSumSet, MapThenFoldSet
<1>9. plusReduce(lost) \in Nat
  BY <1>3, PlusReduceFacts
<1>10. ASSUME epsilon2[1] = 0 PROVE plusReduce(lost) = 0
  <2>1. ASSUME NEW v \in Vertex PROVE lost[v] = 0
    <3>1. CASE active[v] # 0
      BY <3>1
    <3>2. CASE active[v] = 0
      <4> DEFINE x == norm[v]
                 q == epsilon2[2]
                 y == p'[v]
      <4>1. x \in Nat /\ q \in Nat /\ q > 0 /\ y \in Int /\ ~(x * q > 0 * y)
        BY <1>2, <1>3, <1>5, <1>10, <3>2
      <4>2. lost[v] = x
        BY <3>2
      <4> HIDE DEF x, q, y
      <4>3. x > 0 => x * q > 0
        BY <4>1
      <4>4. 0 * y = 0
        BY <4>1
      <4> QED BY <4>1, <4>2, <4>3, <4>4
    <3> QED BY <3>1, <3>2
  <2> HIDE DEF lost
  <2> QED BY <2>1, PlusReduceFacts, VertexFinite, TotalNat
<1> HIDE DEF lost, active, norm
<1>11. curr' \in [Vertex -> Int] /\ p' \in [Vertex -> Int]
  BY <1>1, <1>2
<1> QED BY <1>1, <1>3, <1>7, <1>8, <1>9, <1>10, <1>11

\* The first round.
LEMMA FirstDelta ==
  ASSUME TurnInv, DeltaInv, app = "PageRankDelta", count = 0, ReturnAtOnce \/ Return,
         TailDelta, pc' = "loop", UNCHANGED <<GA, app, epsilon2>>, count' = 1, Exact
  PROVE  \E S, a, z \in [Vertex -> Int] : Drift(S, a, z)'
<1>1. /\ pc \in {"loop", "edges"} /\ StateInv /\ FrontInv /\ GA \in Graphs /\ TurnIsClaimed
      /\ p = Zero /\ curr = Uniform /\ dropped \in Nat
      /\ \A v \in Vertex : next[v] = SumOver(AllOf(v))
  BY TurnSums DEF TurnInv, StateInv, TypeOK, DeltaInv, TurnIsClaimed
<1>2. one_over_n \in Int /\ addedConstant \in Int /\ \A v \in Vertex : Uniform[v] = one_over_n
  BY NumberFacts DEF Uniform
<1>3. \A v \in Vertex : next[v] = IntoOf(Uniform, v)
  <2>1. SourceEdges = GA.edges
    BY <1>1, VisitsAll
  <2> QED BY <1>1, <1>2, <2>1, SumIsInto
<1>4. \A v \in Vertex : IntoOf(Uniform, v) \in Int /\ damped(IntoOf(Uniform, v)) \in Int
  BY <1>1, <1>2, IntoOfFacts, NumberFacts
<1>5. /\ \A v \in Vertex : curr'[v] = Delta(v).Delta /\ p'[v] = Delta(v).p
      /\ LastDropped' \in Nat /\ dropped' = dropped + LastDropped'
  BY DropStep
<1>6. ASSUME NEW v \in Vertex
      PROVE  /\ p'[v] = damped(IntoOf(Uniform, v)) + addedConstant
             /\ p'[v] = Uniform[v] + curr'[v] + 0
             /\ p'[v] \in Int
  <2> DEFINE d == damped(IntoOf(Uniform, v))
  <2>1. p[v] = 0 /\ next[v] = IntoOf(Uniform, v) /\ 0 + next[v] = next[v]
    BY <1>1, <1>3, <1>4 DEF Zero
  <2>2. /\ Delta(v).Delta = (d + addedConstant - 0) - one_over_n
        /\ Delta(v).p = 0 + (d + addedConstant - 0)
    BY <2>1 DEF Delta
  <2>3. d \in Int
    BY <1>4
  <2> HIDE DEF d
  <2>4. Delta(v).p = d + addedConstant /\ Delta(v).p = one_over_n + Delta(v).Delta + 0
    BY <1>2, <2>2, <2>3
  <2> QED BY <1>2, <1>5, <2>3, <2>4 DEF d
<1>7. \A v \in Vertex : StepOf(Uniform)[v] = damped(IntoOf(Uniform, v)) + addedConstant
  BY DEF StepOf
<1>8. Iterated(0) = Uniform /\ Iterated(1) = StepOf(Uniform)
  BY <1>1, IteratedFacts
<1>9. SharesAreExact(Uniform)
  BY <1>8 DEF Exact
<1>10. /\ \A k : Iterated(k)' = Iterated(k)
       /\ \A f, v : IntoOf(f, v)' = IntoOf(f, v)
       /\ \A f : SharesAreExact(f)' <=> SharesAreExact(f)
       /\ Iterated(count)' = Iterated(1)
  <2>1. /\ \A k : Iterated(k)' = Iterated(k)
        /\ \A f, v : IntoOf(f, v)' = IntoOf(f, v)
        /\ \A f : SharesAreExact(f)' <=> SharesAreExact(f)
    BY SameIterated
  <2>2. \A k : k = count' => Iterated(count)' = Iterated(k)'
    BY DEF Iterated
  <2> QED BY <2>1, <2>2
<1>11. Norm(Zero) = 0
  <2>1. \A v \in Vertex : fabs(0) = 0 /\ Zero[v] = 0
    BY DEF Zero, fabs
  <2>2. Norm(Zero) = Total([v \in Vertex |-> fabs(Zero[v])], Vertex)
    BY PlusReduceFacts DEF Norm
  <2>3. \A v \in Vertex : [u \in Vertex |-> fabs(Zero[u])][v] = 0
    BY <2>1
  <2> QED BY <2>2, <2>3, VertexFinite, TotalNat
<1>12. \A k \in Int : 0 * k = 0
  OBVIOUS
<1>13. /\ 0 <= dropped' - LastDropped' /\ 0 <= Damping[1] * (dropped' - LastDropped')
       /\ 0 * (Damping[2] - Damping[1]) = 0
  <2>1. dropped' - LastDropped' = dropped
    BY <1>1, <1>5
  <2> QED BY <1>1, <2>1, NumberFacts
<1>14. ASSUME NEW S, NEW a, S = Zero, a = Uniform PROVE Drift(S, a, S)'
  <2>1. /\ SharesAreExact(a)' /\ Norm(S)' = 0
        /\ \A v \in Vertex : S[v] = 0 /\ a[v] = Uniform[v]
    BY <1>9, <1>10, <1>11, <1>14, NormIsRigid DEF Zero
  <2>2. \A v \in Vertex : /\ p'[v] = a[v] + curr'[v] + S[v]
                          /\ p'[v] = damped(IntoOf(a, v)) + addedConstant
                          /\ p'[v] = Iterated(1)[v] + S[v]
    BY <1>6, <1>7, <1>8, <1>14, <2>1
  <2>3. \A v \in Vertex : IntoOf(a, v)' = IntoOf(a, v)
    BY <1>10
  <2> QED BY <1>10, <1>13, <2>1, <2>2, <2>3 DEF Drift
<1>15. Uniform \in [Vertex -> Int] /\ Zero \in [Vertex -> Int]
  BY <1>2 DEF Uniform, Zero
<1>16. \E S, a \in [Vertex -> Int] : S = Zero /\ a = Uniform
  BY <1>15
<1> QED BY <1>14, <1>16

\* The same for a sum and for a difference.
LEMMA DampedSum ==
  ASSUME GA \in Graphs, NEW f, NEW g, NEW h,
         \A u \in Vertex : f[u] \in Int /\ g[u] \in Int,
         SharesAreExact(f), SharesAreExact(g)
  PROVE  /\ (\A u \in Vertex : h[u] = f[u] + g[u]) =>
              /\ SharesAreExact(h)
              /\ \A v \in Vertex :
                   damped(IntoOf(h, v)) = damped(IntoOf(f, v)) + damped(IntoOf(g, v))
         /\ (\A u \in Vertex : h[u] = f[u] - g[u]) =>
              /\ SharesAreExact(h)
              /\ \A v \in Vertex :
                   damped(IntoOf(h, v)) = damped(IntoOf(f, v)) - damped(IntoOf(g, v))
<1>1. \A v \in Vertex : damped(IntoOf(f, v)) \in Int /\ damped(IntoOf(g, v)) \in Int
  BY IntoOfFacts, NumberFacts
<1>3. ASSUME \A u \in Vertex : h[u] = f[u] + g[u], NEW c \in Int, c = 1
      PROVE  /\ SharesAreExact(h)
             /\ \A v \in Vertex :
                  damped(IntoOf(h, v)) = damped(IntoOf(f, v)) + damped(IntoOf(g, v))
  <2>1. \A u \in Vertex : h[u] = f[u] + c * g[u]
    BY <1>3
  <2>2. /\ SharesAreExact(h)
        /\ \A v \in Vertex :
             damped(IntoOf(h, v)) = damped(IntoOf(f, v)) + c * damped(IntoOf(g, v))
    BY <1>3, <2>1, DampedIsLinear
  <2> QED BY <1>1, <1>3, <2>2
<1>4. ASSUME \A u \in Vertex : h[u] = f[u] - g[u], NEW c \in Int, c = -1
      PROVE  /\ SharesAreExact(h)
             /\ \A v \in Vertex :
                  damped(IntoOf(h, v)) = damped(IntoOf(f, v)) - damped(IntoOf(g, v))
  <2>1. \A u \in Vertex : h[u] = f[u] + c * g[u]
    BY <1>4
  <2>2. /\ SharesAreExact(h)
        /\ \A v \in Vertex :
             damped(IntoOf(h, v)) = damped(IntoOf(f, v)) + c * damped(IntoOf(g, v))
    BY <1>4, <2>1, DampedIsLinear
  <2> QED BY <1>1, <1>4, <2>2
<1>5. 1 \in Int /\ -1 \in Int
  OBVIOUS
<1> QED BY <1>3, <1>4, <1>5

\* Any other round.
LEMMA NextDelta ==
  ASSUME TurnInv, DeltaInv, app = "PageRankDelta", count > 0, ReturnAtOnce \/ Return,
         TailDelta, pc' = "loop", UNCHANGED <<GA, app, epsilon2>>, count' = count + 1, Exact
  PROVE  \E S, a, z \in [Vertex -> Int] : Drift(S, a, z)'
<1>1. /\ pc \in {"loop", "edges"} /\ StateInv /\ FrontInv /\ GA \in Graphs /\ TurnIsClaimed
      /\ dropped \in Nat /\ count \in Nat /\ count # 0
      /\ curr \in [Vertex -> Int] /\ p \in [Vertex -> Int]
      /\ \A v \in Vertex : next[v] = SumOver(AllOf(v))
  BY TurnSums DEF TurnInv, StateInv, TypeOK, TurnIsClaimed
<1>2. PICK S, a, z \in [Vertex -> Int] : Drift(S, a, z)
  BY <1>1 DEF DeltaInv
<1> DEFINE It == Iterated(count)
           kept == Kept
           R == [v \in Vertex |-> IF v \in Active THEN 0 ELSE curr[v]]
           S2 == [v \in Vertex |-> S[v] + R[v]]
           a2 == [v \in Vertex |-> a[v] + kept[v]]
           y == [v \in Vertex |-> a2[v] - It[v]]
           z2 == [v \in Vertex |-> damped(IntoOf(y, v))]
<1>3. ASSUME NEW v \in Vertex
      PROVE  /\ S[v] \in Int /\ a[v] \in Int /\ z[v] \in Int /\ It[v] \in Int
             /\ curr[v] \in Int /\ p[v] \in Int
             /\ kept[v] \in Int /\ R[v] \in Int /\ curr[v] = kept[v] + R[v]
             /\ S2[v] = S[v] + R[v] /\ S2[v] \in Int
             /\ a2[v] = a[v] + kept[v] /\ a2[v] \in Int
             /\ y[v] = a2[v] - It[v] /\ y[v] \in Int
  <2>1. It[v] \in Int
    BY <1>1, IteratedFacts
  <2>2. /\ kept[v] = (IF v \in Active THEN curr[v] ELSE 0) /\ curr[v] \in Int
        /\ R[v] = IF v \in Active THEN 0 ELSE curr[v]
    BY <1>1 DEF Kept
  <2>3. kept[v] \in Int /\ R[v] \in Int /\ curr[v] = kept[v] + R[v]
    BY <2>2
  <2>4. S[v] \in Int /\ a[v] \in Int /\ z[v] \in Int /\ p[v] \in Int
    BY <1>1, <1>2
  <2> HIDE DEF It, kept, R
  <2>5. S2[v] = S[v] + R[v] /\ S2[v] \in Int /\ a2[v] = a[v] + kept[v] /\ a2[v] \in Int
    BY <2>3, <2>4
  <2> HIDE DEF S2, a2
  <2>6. y[v] = a2[v] - It[v]
    OBVIOUS
  <2> HIDE DEF y
  <2>7. y[v] \in Int
    BY <2>1, <2>5, <2>6
  <2> QED BY <2>1, <2>2, <2>3, <2>4, <2>5, <2>6, <2>7
<1>4. \A v \in Vertex : next[v] = IntoOf(kept, v)
  <2>1. /\ \A e \in SourceEdges : kept[src(e)] = curr[src(e)]
        /\ \A e \in GA.edges \ SourceEdges : kept[src(e)] = 0
    <3>1. \A e \in GA.edges : src(e) \in Vertex
      BY <1>1, GraphFacts
    <3>2. ~bit
      BY <1>1 DEF FrontInv
    <3> QED BY <3>1, <3>2 DEF SourceEdges, Kept
  <2> HIDE DEF kept
  <2> QED BY <1>1, <1>3, <2>1, SumIsInto
<1>5. SharesAreExact(kept) /\ SharesAreExact(It) /\ SharesAreExact(a)
  BY <1>1, <1>2 DEF Exact, Drift
<1> HIDE DEF It, kept, R, S2, a2
<1>6. /\ SharesAreExact(a2)
      /\ \A v \in Vertex : damped(IntoOf(a2, v)) = damped(IntoOf(a, v)) + damped(IntoOf(kept, v))
  <2>1. \A v \in Vertex : a[v] \in Int /\ kept[v] \in Int /\ a2[v] = a[v] + kept[v]
    BY <1>3
  <2> QED BY <1>1, <1>5, <2>1, DampedSum
<1>7. /\ SharesAreExact(y)
      /\ \A v \in Vertex : damped(IntoOf(y, v)) = damped(IntoOf(a2, v)) - damped(IntoOf(It, v))
  <2>1. \A v \in Vertex : a2[v] \in Int /\ It[v] \in Int /\ y[v] = a2[v] - It[v]
    BY <1>3
  <2> HIDE DEF y
  <2> QED BY <1>1, <1>5, <1>6, <2>1, DampedSum
<1>8. ASSUME NEW v \in Vertex
      PROVE  /\ damped(IntoOf(a, v)) \in Int /\ damped(IntoOf(kept, v)) \in Int
             /\ damped(IntoOf(a2, v)) \in Int /\ damped(IntoOf(It, v)) \in Int
             /\ z2[v] = damped(IntoOf(y, v)) /\ z2[v] \in Int
  <2> HIDE DEF y
  <2> QED BY <1>1, <1>3, IntoOfFacts, NumberFacts
<1>9. /\ \A v \in Vertex : curr'[v] = Delta(v).Delta /\ p'[v] = Delta(v).p
      /\ LastDropped' \in Nat /\ dropped' = dropped + LastDropped'
  BY DropStep
<1>10. \A v \in Vertex : /\ curr'[v] = damped(IntoOf(kept, v))
                         /\ p'[v] = p[v] + damped(IntoOf(kept, v))
  BY <1>1, <1>4, <1>9 DEF Delta
<1>11. Iterated(count + 1) = StepOf(It)
  BY <1>1, IteratedFacts DEF It
<1>12. \A v \in Vertex : Iterated(count + 1)[v] = damped(IntoOf(It, v)) + addedConstant
  BY <1>11 DEF StepOf
<1> HIDE DEF y, z2
<1>13. ASSUME NEW v \in Vertex
       PROVE  /\ p'[v] = a2[v] + curr'[v] + S2[v]
              /\ p'[v] = damped(IntoOf(a2, v)) + addedConstant
              /\ p'[v] = Iterated(count + 1)[v] + z2[v]
              /\ y[v] = z[v] - S2[v]
  <2>1. /\ p[v] = a[v] + curr[v] + S[v]
        /\ p[v] = damped(IntoOf(a, v)) + addedConstant
        /\ p[v] = It[v] + z[v]
    BY <1>2 DEF Drift, It
  <2>2. addedConstant \in Int
    BY NumberFacts
  <2>3. p'[v] = a2[v] + curr'[v] + S2[v]
    BY <1>3, <1>8, <1>10, <2>1
  <2>4. p'[v] = damped(IntoOf(a2, v)) + addedConstant
    BY <1>6, <1>8, <1>10, <2>1, <2>2
  <2>5. p'[v] = Iterated(count + 1)[v] + z2[v]
    BY <1>7, <1>8, <1>12, <2>2, <2>4
  <2>6. y[v] = z[v] - S2[v]
    <3>1. p[v] = a2[v] + S2[v]
      <4>1. p[v] = a[v] + (kept[v] + R[v]) + S[v]
        BY <1>3, <2>1
      <4>2. a2[v] = a[v] + kept[v] /\ S2[v] = S[v] + R[v]
        BY <1>3
      <4>3. a[v] \in Int /\ kept[v] \in Int /\ R[v] \in Int /\ S[v] \in Int
        BY <1>3
      <4> QED BY <4>1, <4>2, <4>3
    <3>2. It[v] = p[v] - z[v]
      BY <1>3, <2>1
    <3> QED BY <1>3, <3>1, <3>2
  <2> QED BY <2>3, <2>4, <2>5, <2>6
<1>14. LastDropped \in Nat /\ Norm(S2) <= Norm(S) + LastDropped
  <2>1. Norm(R) = LastDropped
    <3> DEFINE aR == [v \in Vertex |-> fabs(R[v])]
               l == [v \in Vertex |-> IF v \in Active THEN 0 ELSE fabs(curr[v])]
    <3>1. \A v \in Vertex : aR[v] = l[v]
      BY DEF R, fabs
    <3>2. aR = l
      BY <3>1
    <3> QED BY <3>2 DEF Norm, LastDropped
  <2>2. \A v \in Vertex : fabs(S2[v]) <= fabs(S[v]) + fabs(R[v])
    BY <1>3 DEF fabs
  <2>3. Norm(S2) <= Norm(S) + Norm(R)
    BY <1>3, <2>2, NormOfSum
  <2> QED BY <1>3, <2>1, <2>3, NormFacts
<1>15. /\ Norm(S) \in Nat /\ Norm(S2) \in Nat /\ Norm(z) \in Nat /\ Norm(y) \in Nat
       /\ Norm(z2) \in Nat
  BY <1>3, <1>8, NormFacts
<1>16. Norm(S2) <= dropped /\ dropped - LastDropped \in Nat
  <2>1. Norm(S) <= dropped - LastDropped
    BY <1>2 DEF Drift
  <2> QED BY <1>1, <1>14, <1>15, <2>1
<1>17. Norm(y) <= Norm(z) + Norm(S2)
  <2>1. \A v \in Vertex : fabs(y[v]) <= fabs(z[v]) + fabs(S2[v])
    BY <1>3, <1>13 DEF fabs
  <2> QED BY <1>3, <2>1, NormOfSum
<1>18. Damping[2] * Norm(z2) <= Damping[1] * Norm(y)
  <2>1. Damping[2] * Norm([v \in Vertex |-> damped(IntoOf(y, v))]) <= Damping[1] * Norm(y)
    BY <1>1, <1>3, <1>7, DampedContracts
  <2> QED BY <2>1 DEF z2
<1>19. Norm(z2) * (Damping[2] - Damping[1]) <= Damping[1] * dropped
  <2> DEFINE X == Norm(z)
             Y == Norm(z2)
             Z == Norm(y)
             V == dropped - LastDropped
             c == Damping[1]
             b == Damping[2]
             W == dropped
  <2>1. /\ X \in Nat /\ Y \in Nat /\ Z \in Nat /\ V \in Nat /\ W \in Nat /\ V <= W
        /\ c \in Nat /\ b \in Nat /\ c < b
    BY <1>1, <1>14, <1>15, <1>16, NumberFacts
  <2>2. Z <= X + W /\ b * Y <= c * Z
    BY <1>15, <1>16, <1>17, <1>18, <2>1
  <2>3. X * (b - c) <= c * V
    BY <1>2 DEF Drift
  <2> HIDE DEF X, Y, Z, V, c, b, W
  <2>4. c * Z <= c * (X + W)
    BY <2>1, <2>2
  <2>5. b * Y <= c * (X + W)
    BY <2>1, <2>2, <2>4
  <2>6. Y * (b - c) <= c * W
    BY <2>1, <2>3, <2>5, DriftArithmetic
  <2> QED BY <2>6 DEF Y, b, c, W
<1>20. dropped' - LastDropped' = dropped
  BY <1>1, <1>9
<1>21. /\ \A f, v : IntoOf(f, v)' = IntoOf(f, v)
       /\ \A f : SharesAreExact(f)' <=> SharesAreExact(f)
       /\ Iterated(count)' = Iterated(count + 1)
  <2>1. /\ \A k : Iterated(k)' = Iterated(k)
        /\ \A f, v : IntoOf(f, v)' = IntoOf(f, v)
        /\ \A f : SharesAreExact(f)' <=> SharesAreExact(f)
    BY SameIterated
  <2>2. \A k : k = count' => Iterated(count)' = Iterated(k)'
    BY DEF Iterated
  <2> QED BY <2>1, <2>2
<1>22. ASSUME NEW S3, NEW a3, NEW z3, S3 = S2, a3 = a2, z3 = z2 PROVE Drift(S3, a3, z3)'
  <2>1. /\ SharesAreExact(a3)' /\ Norm(S3)' = Norm(S2) /\ Norm(z3)' = Norm(z2)
        /\ \A v \in Vertex : IntoOf(a3, v)' = IntoOf(a2, v)
    BY <1>6, <1>21, <1>22, NormIsRigid
  <2>2. \A v \in Vertex : /\ p'[v] = a3[v] + curr'[v] + S3[v]
                          /\ p'[v] = damped(IntoOf(a3, v)') + addedConstant
                          /\ p'[v] = Iterated(count)'[v] + z3[v]
    BY <1>13, <1>21, <1>22, <2>1
  <2>3. /\ Norm(S3)' <= dropped' - LastDropped'
        /\ Norm(z3)' * (Damping[2] - Damping[1]) <= Damping[1] * (dropped' - LastDropped')
    BY <1>16, <1>19, <1>20, <2>1
  <2> QED BY <2>1, <2>2, <2>3 DEF Drift
<1>23. S2 \in [Vertex -> Int] /\ a2 \in [Vertex -> Int] /\ z2 \in [Vertex -> Int]
  <2>1. /\ S2 = [v \in Vertex |-> S2[v]] /\ a2 = [v \in Vertex |-> a2[v]]
        /\ z2 = [v \in Vertex |-> z2[v]]
    BY DEF S2, a2, z2
  <2> QED BY <1>3, <1>8, <2>1
<1>24. \E S3, a3, z3 \in [Vertex -> Int] : S3 = S2 /\ a3 = a2 /\ z3 = z2
  BY <1>23
<1> QED BY <1>22, <1>24

LEMMA InitDelta == ASSUME Init PROVE DeltaInv
BY DEF Init, EngineInit, DeltaInv, Uniform

\* What a step that is not the end of a turn does.
LEMMA SameDelta ==
  ASSUME DeltaInv, UNCHANGED <<GA, app, epsilon2, count, curr, p, dropped, Frontier>>,
         pc' = pc \/ (pc = "loop" /\ pc' \in {"edges", "abort"})
  PROVE  DeltaInv'
<1>1. /\ \A k : Iterated(k)' = Iterated(k)
      /\ \A f, v : IntoOf(f, v)' = IntoOf(f, v)
      /\ \A f : SharesAreExact(f)' <=> SharesAreExact(f)
  BY SameIterated
<1>2. Iterated(count)' = Iterated(count)
  <2>1. \A k : k = count' => Iterated(count)' = Iterated(k)'
    BY DEF Iterated
  <2> QED BY <1>1, <2>1
<1>3. Active' = Active /\ (SmallDrops' <=> SmallDrops)
  BY DEF SmallDrops, Active
<1>4. LastDropped' = LastDropped
  BY <1>3 DEF LastDropped, plusReduce, MapThenSumSet, MapThenFoldSet
<1>5. \A S, a, z : Drift(S, a, z) => Drift(S, a, z)'
  BY <1>1, <1>2, <1>4, NormIsRigid DEF Drift
<1> QED BY <1>3, <1>5 DEF DeltaInv

LEMMA EndDelta ==
  ASSUME TurnInv, DeltaInv, ExactInv, DivisionsAreExact, ReturnAtOnce \/ Return,
         NEW out, RestOfTurn(out)
  PROVE  DeltaInv'
<1>1. /\ pc' \in {"loop", "done"} /\ UNCHANGED <<GA, app, epsilon2>> /\ count' = count + 1
      /\ count \in Nat /\ pc \in {"loop", "edges"}
  BY TurnEnds DEF TurnInv, StateInv, TypeOK, Return, ReturnAtOnce, RestOfTurn
<1>2. SUFFICES ASSUME pc' = "loop", app = "PageRankDelta" PROVE DeltaInv'
  BY <1>1 DEF DeltaInv
<1>3. TailDelta
  BY <1>2 DEF RestOfTurn
<1>4. Exact
  BY <1>1 DEF ExactInv, DivisionsAreExact, Exact
<1>5. \E S, a, z \in [Vertex -> Int] : Drift(S, a, z)'
  <2>1. CASE count = 0
    BY <1>1, <1>2, <1>3, <1>4, <2>1, FirstDelta
  <2>2. CASE count > 0
    BY <1>1, <1>2, <1>3, <1>4, <2>2, NextDelta
  <2> QED BY <1>1, <2>1, <2>2
<1>6. /\ SmallDrops' /\ dropped' = dropped + LastDropped'
      /\ epsilon2[1] = 0 => LastDropped' = 0
  BY <1>1, <1>2, <1>3, DropStep
<1>7. epsilon2'[1] = 0 => dropped' = 0
  BY <1>1, <1>2, <1>6 DEF DeltaInv
<1>8. count' > 0 /\ count' # 0
  BY <1>1
<1> QED BY <1>5, <1>6, <1>7, <1>8 DEF DeltaInv

\* All of it together.
ResultInv == TurnInv /\ RankInv /\ ExactInv /\ DeltaInv

LEMMA NextResult ==
  ASSUME ResultInv, SafelyPartitioned, DivisionsAreExact, [Next]_vars
  PROVE  ResultInv'
<1>1. TurnInv' /\ RankInv' /\ ExactInv'
  BY NextTurn, NextRank DEF ResultInv
<1>2. DeltaInv'
  <2>1. CASE UNCHANGED vars \/ Stopped
    <3>1. UNCHANGED <<GA, app, epsilon2, count, curr, p, dropped, Frontier, pc>>
      BY <2>1 DEF Stopped, vars
    <3> QED BY <3>1, SameDelta DEF ResultInv
  <2>2. CASE Enter
    <3>1. /\ UNCHANGED <<GA, app, epsilon2, count, curr, p, dropped, Frontier>>
          /\ pc = "loop" /\ pc' \in {"edges", "abort"}
      BY <2>2 DEF Enter, arrays, SizesDontMatch, BadValueOfM, TraverseOver
    <3> QED BY <3>1, SameDelta DEF ResultInv
  <2>3. CASE Update
    <3>1. UNCHANGED <<GA, app, epsilon2, count, curr, p, dropped, Frontier, pc>>
      BY <2>3, UpdateState DEF unchangedInRound, ResultInv, TurnInv
    <3> QED BY <3>1, SameDelta DEF ResultInv
  <2>4. CASE ReturnAtOnce
    BY <2>4, EndDelta DEF ReturnAtOnce, ResultInv
  <2>5. CASE Return
    BY <2>5, EndDelta DEF Return, ResultInv
  <2> QED BY <2>1, <2>2, <2>3, <2>4, <2>5 DEF Next
<1> QED BY <1>1, <1>2 DEF ResultInv

LEMMA LastDroppedIsNat == ASSUME StateInv PROVE LastDropped \in Nat
<1> DEFINE l == [v \in Vertex |-> IF v \in Active THEN 0 ELSE fabs(curr[v])]
<1>1. \A v \in Vertex : l[v] \in Nat
  BY FabsFacts DEF StateInv, TypeOK
<1> HIDE DEF l
<1>2. plusReduce(l) \in Nat
  BY <1>1, PlusReduceFacts
<1> QED BY <1>2 DEF LastDropped, l

\* With epsilon2 = 0 nothing is dropped, so that the ranks do not drift.
LEMMA NoDrift ==
  ASSUME ResultInv, pc = "loop", app = "PageRankDelta", epsilon2[1] = 0, count > 0
  PROVE  p = Iterated(count)
<1>1. /\ StateInv /\ GA \in Graphs /\ count \in Nat /\ count # 0 /\ p \in [Vertex -> Int]
      /\ dropped = 0
  BY DEF ResultInv, TurnInv, StateInv, TypeOK, DeltaInv
<1>2. PICK S, a, z \in [Vertex -> Int] : Drift(S, a, z)
  BY <1>1 DEF ResultInv, DeltaInv
<1>3. LastDropped \in Nat /\ Norm(z) \in Nat /\ \A v \in Vertex : z[v] \in Int
  BY <1>1, <1>2, LastDroppedIsNat, NormFacts
<1>4. Norm(z) = 0
  <2> DEFINE X == Norm(z)
             L == LastDropped
             c == Damping[1]
             g == Damping[2] - Damping[1]
  <2>1. X \in Nat /\ L \in Nat /\ c \in Nat /\ g \in Nat /\ g > 0 /\ X * g <= c * (0 - L)
    BY <1>1, <1>2, <1>3, NumberFacts DEF Drift
  <2> HIDE DEF X, L, c, g
  <2>2. c * (0 - L) <= 0
    BY <2>1
  <2>3. X > 0 => X * g > 0
    BY <2>1
  <2>4. X * g \in Int /\ c * (0 - L) \in Int
    BY <2>1
  <2>5. X = 0
    BY <2>1, <2>2, <2>3, <2>4
  <2> QED BY <2>5 DEF X
<1>5. \A v \in Vertex : z[v] = 0
  BY <1>3, <1>4, NormFacts
<1>6. Iterated(count) \in [Vertex -> Int]
  BY <1>1, IteratedFacts
<1> DEFINE It == Iterated(count)
<1> HIDE DEF It
<1>7. \A v \in Vertex : p[v] = It[v]
  <2>1. \A v \in Vertex : p[v] = It[v] + z[v] /\ It[v] \in Int
    BY <1>2, <1>6 DEF Drift, It
  <2> QED BY <1>5, <2>1
<1> QED BY <1>1, <1>6, <1>7 DEF It

LEMMA ResultImplies ==
  ASSUME ResultInv
  PROVE  ResultsAreRight /\ DroppedDeltasAreSmall
<1>1. ResultsAreRight
  <2>1. ASSUME pc = "loop", app = "PageRank" /\ AllHaveInEdges PROVE curr = Iterated(count)
    BY <2>1 DEF ResultInv, RankInv, IsClaimed, TurnIsClaimed
  <2>2. ASSUME pc = "loop", app = "PageRankBit" /\ (count < 2 \/ BitIsDense)
        PROVE  curr = Iterated(count)
    BY <2>2 DEF ResultInv, RankInv, IsClaimed, TurnIsClaimed
  <2>3. ASSUME pc = "loop", app = "PageRankConverage" PROVE curr = Iterated(count)
    BY <2>3 DEF ResultInv, RankInv, IsClaimed, TurnIsClaimed
  <2>4. ProductIsRight
    BY DEF ResultInv, RankInv
  <2> QED BY <2>1, <2>2, <2>3, <2>4, NoDrift DEF ResultsAreRight, RanksAreIterated
<1>2. DroppedDeltasAreSmall
  <2>1. SUFFICES ASSUME pc = "loop", app = "PageRankDelta", count > 0
                 PROVE  /\ SmallDrops
                        /\ plusReduce([v \in Vertex |-> fabs(p[v] - Iterated(count)[v])])
                             * (Damping[2] - Damping[1])
                             <= Damping[1] * (dropped - LastDropped)
    BY DEF DroppedDeltasAreSmall, SmallDrops
  <2>2. SmallDrops /\ GA \in Graphs /\ count \in Nat /\ p \in [Vertex -> Int]
    BY <2>1 DEF ResultInv, DeltaInv, TurnInv, StateInv, TypeOK
  <2>3. PICK S, a, z \in [Vertex -> Int] : Drift(S, a, z)
    BY <2>1 DEF ResultInv, DeltaInv
  <2> DEFINE It == Iterated(count)
             off == [v \in Vertex |-> fabs(p[v] - It[v])]
             az == [v \in Vertex |-> fabs(z[v])]
  <2>4. \A v \in Vertex : It[v] \in Int /\ z[v] \in Int /\ p[v] = It[v] + z[v]
    BY <2>2, <2>3, IteratedFacts DEF Drift
  <2>5. off = az
    <3> HIDE DEF It
    <3>1. \A v \in Vertex : p[v] - It[v] = z[v]
      BY <2>4
    <3> QED BY <3>1
  <2>6. plusReduce(off) = Norm(z)
    BY <2>5 DEF Norm
  <2>7. Norm(z) * (Damping[2] - Damping[1]) <= Damping[1] * (dropped - LastDropped)
    BY <2>3 DEF Drift
  <2> QED BY <2>2, <2>6, <2>7
<1> QED BY <1>1, <1>2

LEMMA ResultCorrect ==
  ASSUME SafelyPartitioned
  PROVE  Spec /\ []DivisionsAreExact => []ResultInv
<1>1. Init => ResultInv
  BY InitTurn, InitRank, InitDelta DEF ResultInv
<1>2. ResultInv /\ DivisionsAreExact /\ [Next]_vars => ResultInv'
  BY NextResult
<1> QED BY <1>1, <1>2, PTL DEF Spec

(***************************************************************************)
(* As long as its divisions are exact, PageRank holds the ranks of its     *)
(* equation before every round where every vertex has an in-edge,          *)
(* PageRankBit while its rounds are dense, PageRankConverage on every      *)
(* graph, and PageRankDelta when epsilon2 is 0; SPMV returns the product.  *)
(***************************************************************************)
THEOREM RanksFollowTheEquation ==
  ASSUME SafelyPartitioned
  PROVE  Spec /\ []DivisionsAreExact => []ResultsAreRight
<1>1. ResultInv => ResultsAreRight
  BY ResultImplies
<1> QED BY <1>1, ResultCorrect, PTL

(***************************************************************************)
(* What PageRankDelta drops is small for every vertex, and all of it       *)
(* together puts the ranks off by at most d / (1 - d) times its size: a    *)
(* round makes the error that it starts with smaller by the damping.       *)
(***************************************************************************)
THEOREM DroppingIsHarmless ==
  ASSUME SafelyPartitioned
  PROVE  Spec /\ []DivisionsAreExact => []DroppedDeltasAreSmall
<1>1. ResultInv => DroppedDeltasAreSmall
  BY ResultImplies
<1> QED BY <1>1, ResultCorrect, PTL

-----------------------------------------------------------------------------
(***************************************************************************)
(* The memory of the frontiers.  Whatever is allocated belongs to the      *)
(* frontier, to All or to the output of the round, or was allocated by a   *)
(* conversion.                                                             *)
(***************************************************************************)
Conversions == {"toDense", "toSparse"} \X Nat

\* What s and d of the frontier can be in the round with the number `count'.
HeldInv ==
  /\ count = 0 \/ app \in {"PageRankConverage", "SPMV"} => held = Dense(<<"bits", 0>>)
  /\ count > 0 /\ app = "PageRankDelta" => held = Dense(<<"active", count - 1>>)
  /\ count > 0 /\ app \in {"PageRank", "PageRankBit"} =>
       held \in {Nothing, Sparse(<<"output", count - 1>>), Dense(<<"output", count - 1>>)}

AllInv == All = IF app = "PageRankDelta" THEN Dense(<<"All", 0>>) ELSE Nothing

OutputInv ==
  /\ output \in {Nothing, Sparse(<<"output", count>>), Dense(<<"output", count>>)}
  /\ pc # "edges" => output = Nothing

\* The array that a program leaves behind when it is done.
Left == {{}, {<<"output", count - 1>>}, {<<"active", count - 1>>}}

MemoryInv ==
  /\ stray = {} /\ AllInv
  /\ pc \in {"loop", "edges", "abort"} =>
       /\ HeldInv /\ OutputInv /\ Blocks(local) \subseteq live
       /\ \E C \in SUBSET Conversions :
            live = Blocks(held) \union Blocks(All) \union Blocks(output) \union C
  /\ pc = "done" =>
       \E C \in SUBSET Conversions : \E X \in Left : live = C \union X

\* A block has the name it was given.
LEMMA BlockFacts ==
  /\ Blocks(Nothing) = {}
  /\ \A s, i : /\ Blocks(Sparse(<<s, i>>)) = {<<s, i>>}
               /\ Blocks(Dense(<<s, i>>)) = {<<s, i>>}
  /\ \A b \in Conversions : b[1] \in {"toDense", "toSparse"}
<1>1. \A s, i : <<s, i>> # NULL
  BY DEF NULL
<1>2. /\ Nothing.s = NULL /\ Nothing.d = NULL
      /\ \A b : /\ Sparse(b).s = b /\ Sparse(b).d = NULL
                /\ Dense(b).s = NULL /\ Dense(b).d = b
  BY DEF Nothing, Sparse, Dense
<1> QED BY <1>1, <1>2 DEF Blocks, Conversions

\* A conversion allocates what is missing.
LEMMA ConversionFacts ==
  ASSUME count \in Nat, NEW b
  PROVE  \A ptr \in {Nothing, Sparse(b), Dense(b)} :
           /\ Blocks(toDense(ptr)) \subseteq Blocks(ptr) \union Conversions
           /\ Blocks(toSparse(ptr)) \subseteq Blocks(ptr) \union Conversions
<1> SUFFICES ASSUME NEW ptr \in {Nothing, Sparse(b), Dense(b)}
             PROVE  /\ Blocks(toDense(ptr)) \subseteq Blocks(ptr) \union Conversions
                    /\ Blocks(toSparse(ptr)) \subseteq Blocks(ptr) \union Conversions
  OBVIOUS
<1>1. <<"toDense", count>> \in Conversions /\ <<"toSparse", count>> \in Conversions
  BY DEF Conversions
<1>2. \E x, y : ptr = [s |-> x, d |-> y]
  BY DEF Nothing, Sparse, Dense
<1>3. /\ toDense(ptr).s = ptr.s /\ toDense(ptr).d \in {ptr.d, <<"toDense", count>>}
      /\ toSparse(ptr).d = ptr.d /\ toSparse(ptr).s \in {ptr.s, <<"toSparse", count>>}
  BY <1>2 DEF toDense, toSparse
<1> QED BY <1>1, <1>3 DEF Blocks

\* What a sequence of deletions frees.
Freed(dels) == UNION {Blocks(dels[i]) : i \in DOMAIN dels}

Again(dels) ==
  {b \in Freed(dels) :
     \E i, j \in DOMAIN dels : i # j /\ b \in Blocks(dels[i]) \intersect Blocks(dels[j])}

LEMMA FreedFacts ==
  /\ \A x : Freed(<<x>>) = Blocks(x) /\ Again(<<x>>) = {}
  /\ \A x, y : /\ Freed(<<x, y>>) = Blocks(x) \union Blocks(y)
               /\ Blocks(x) \intersect Blocks(y) = {} => Again(<<x, y>>) = {}
  /\ \A x, y, z :
       /\ Freed(<<x, y, z>>) = Blocks(x) \union Blocks(y) \union Blocks(z)
       /\ /\ Blocks(x) \intersect Blocks(y) = {} /\ Blocks(x) \intersect Blocks(z) = {}
          /\ Blocks(y) \intersect Blocks(z) = {}
          => Again(<<x, y, z>>) = {}
<1>1. /\ \A x : DOMAIN <<x>> = {1} /\ <<x>>[1] = x
      /\ \A x, y : DOMAIN <<x, y>> = {1, 2} /\ <<x, y>>[1] = x /\ <<x, y>>[2] = y
      /\ \A x, y, z : /\ DOMAIN <<x, y, z>> = {1, 2, 3}
                      /\ <<x, y, z>>[1] = x /\ <<x, y, z>>[2] = y /\ <<x, y, z>>[3] = z
  OBVIOUS
<1>2. ASSUME NEW x PROVE Freed(<<x>>) = Blocks(x) /\ Again(<<x>>) = {}
  BY <1>1 DEF Freed, Again
<1>3. ASSUME NEW x, NEW y
      PROVE  /\ Freed(<<x, y>>) = Blocks(x) \union Blocks(y)
             /\ Blocks(x) \intersect Blocks(y) = {} => Again(<<x, y>>) = {}
  BY <1>1 DEF Freed, Again
<1>4. ASSUME NEW x, NEW y, NEW z
      PROVE  /\ Freed(<<x, y, z>>) = Blocks(x) \union Blocks(y) \union Blocks(z)
             /\ /\ Blocks(x) \intersect Blocks(y) = {} /\ Blocks(x) \intersect Blocks(z) = {}
                /\ Blocks(y) \intersect Blocks(z) = {}
                => Again(<<x, y, z>>) = {}
  BY <1>1 DEF Freed, Again
<1> QED BY <1>2, <1>3, <1>4

LEMMA BlocksPrime ==
  /\ \A x : x = held' => Blocks(held)' = Blocks(x)
  /\ \A x : x = All' => Blocks(All)' = Blocks(x)
  /\ \A x : x = output' => Blocks(output)' = Blocks(x)
  /\ \A x : x = local' => Blocks(local)' = Blocks(x)
BY DEF Blocks, NULL

\* When a turn is the last.
LEMMA LastTurn ==
  ASSUME NEW out, RestOfTurn(out)
  PROVE  /\ app = "SPMV" => pc' = "done"
         /\ app = "PageRankDelta" => (pc' = "done" <=> Breaks)
         /\ app \in {"PageRank", "PageRankBit"} /\ Breaks => pc' = "done"
<1>1. app = "SPMV" => pc' = "done"
  BY DEF RestOfTurn, TailSPMV
<1>2. app = "PageRankDelta" => (pc' = "done" <=> Breaks)
  BY DEF RestOfTurn, TailDelta
<1>3. app \in {"PageRank", "PageRankBit"} /\ Breaks => pc' = "done"
  BY DEF RestOfTurn, Tail
<1> QED BY <1>1, <1>2, <1>3

\* Blocks of different purposes, or of different rounds, are different.
LEMMA BlocksDiffer ==
  ASSUME StateInv, MemoryInv, pc \in {"loop", "edges"}, NEW C \in SUBSET Conversions
  PROVE  /\ Blocks(output) \in {{}, {<<"output", count>>}}
         /\ Blocks(All) = IF app = "PageRankDelta" THEN {<<"All", 0>>} ELSE {}
         /\ Blocks(held) \intersect Blocks(output) = {}
         /\ Blocks(held) \intersect Blocks(All) = {}
         /\ Blocks(output) \intersect Blocks(All) = {}
         /\ C \intersect (Blocks(held) \union Blocks(output) \union Blocks(All)
                            \union Filtered) = {}
         /\ Filtered \intersect (Blocks(held) \union Blocks(output) \union Blocks(All)) = {}
<1>1. /\ count \in Nat /\ app \in AllApps
      /\ HeldInv /\ OutputInv /\ AllInv
  BY AppsAssumption DEF StateInv, TypeOK, MemoryInv
<1>2. Blocks(output) \in {{}, {<<"output", count>>}}
  BY <1>1, BlockFacts DEF OutputInv
<1>3. Blocks(All) = IF app = "PageRankDelta" THEN {<<"All", 0>>} ELSE {}
  BY <1>1, BlockFacts DEF AllInv
<1>4. Blocks(held) \in {{}, {<<"bits", 0>>}, {<<"active", count - 1>>}, {<<"output", count - 1>>}}
  <2>1. held \in {Nothing, Dense(<<"bits", 0>>), Dense(<<"active", count - 1>>),
                  Sparse(<<"output", count - 1>>), Dense(<<"output", count - 1>>)}
    BY <1>1 DEF HeldInv, AllApps
  <2> QED BY <2>1, BlockFacts
<1>5. Filtered \in {{}, {<<"active", count>>}}
  BY DEF Filtered
<1>6. count - 1 # count
  BY <1>1
<1>7. \A s, t, i, j : <<s, i>> = <<t, j>> => s = t /\ i = j
  OBVIOUS
<1>8. \A b \in C : b[1] \in {"toDense", "toSparse"}
  BY BlockFacts
<1>9. \A s, i : <<s, i>>[1] = s
  OBVIOUS
<1>10. /\ Blocks(held) \intersect Blocks(output) = {}
       /\ Blocks(held) \intersect Blocks(All) = {}
       /\ Blocks(output) \intersect Blocks(All) = {}
  BY <1>2, <1>3, <1>4, <1>6, <1>7
<1>11. C \intersect (Blocks(held) \union Blocks(output) \union Blocks(All) \union Filtered) = {}
  <2>1. \A b \in Blocks(held) \union Blocks(output) \union Blocks(All) \union Filtered :
          b[1] \in {"bits", "active", "output", "All"}
    BY <1>2, <1>3, <1>4, <1>5, <1>9
  <2> QED BY <1>8, <2>1
<1>12. Filtered \intersect (Blocks(held) \union Blocks(output) \union Blocks(All)) = {}
  BY <1>2, <1>3, <1>4, <1>5, <1>6, <1>7
<1> QED BY <1>2, <1>3, <1>10, <1>11, <1>12

LEMMA EndMemory ==
  ASSUME StateInv, MemoryInv, ReturnAtOnce \/ Return, NEW out, RestOfTurn(out),
         EndOfTurn(output)
  PROVE  MemoryInv'
<1>1. /\ pc' \in {"loop", "done"} /\ UNCHANGED <<GA, app>> /\ count' = count + 1
      /\ count \in Nat /\ pc \in {"loop", "edges"} /\ app \in AllApps
  BY TurnEnds, AppsAssumption DEF StateInv, TypeOK, Return, ReturnAtOnce
<1>2. PICK C \in SUBSET Conversions :
        live = Blocks(held) \union Blocks(All) \union Blocks(output) \union C
  BY <1>1 DEF MemoryInv
<1>3. /\ stray = {} /\ HeldInv /\ AllInv /\ OutputInv
  BY <1>1 DEF MemoryInv
<1>4. /\ held' = NextHeld(output) /\ local' = Nothing /\ output' = Nothing /\ All' = All
      /\ Delete(Deleted(output))
  BY DEF EndOfTurn
<1>5. /\ count' > 0 /\ count' - 1 = count
  BY <1>1
<1>6. /\ Blocks(local)' = {} /\ Blocks(output)' = {} /\ Blocks(All)' = Blocks(All)
      /\ \A x : x = held' => Blocks(held)' = Blocks(x)
  BY <1>4, BlockFacts, BlocksPrime
<1>7. AllInv'
  BY <1>1, <1>3, <1>4 DEF AllInv
<1>8. OutputInv'
  BY <1>4 DEF OutputInv
<1>9. ASSUME NEW dels, dels = Deleted(output), Freed(dels) \subseteq live, Again(dels) = {}
      PROVE  live' = (live \union Filtered) \ Freed(dels) /\ stray' = {}
  BY <1>3, <1>4, <1>9 DEF Delete, Freed, Again
<1>10. ASSUME stray' = {}, HeldInv', pc' = "loop",
              live' = Blocks(held)' \union Blocks(All) \union C
       PROVE  MemoryInv'
  <2>1. live' = Blocks(held)' \union Blocks(All)' \union Blocks(output)' \union C
    BY <1>6, <1>10
  <2> QED BY <1>6, <1>7, <1>8, <1>10, <2>1 DEF MemoryInv, Conversions
<1>11. ASSUME stray' = {}, pc' = "done", NEW X, live' = C \union X,
              X \in {{}, {<<"output", count>>}, {<<"active", count>>}}
       PROVE  MemoryInv'
  <2>1. X \in Left'
    BY <1>5, <1>11 DEF Left
  <2> QED BY <1>7, <1>11, <2>1 DEF MemoryInv, Conversions
<1>12. /\ Blocks(held) \subseteq live /\ Blocks(output) \subseteq live /\ Blocks(All) \subseteq live
       /\ Blocks(held) \intersect Blocks(output) = {} /\ Blocks(output) \intersect Blocks(held) = {}
       /\ Blocks(held) \intersect Blocks(All) = {} /\ Blocks(output) \intersect Blocks(All) = {}
  BY <1>1, <1>2, BlocksDiffer
<1>13. CASE app \in {"PageRank", "PageRankBit"}
  <2>0. Filtered = {} /\ Blocks(All) = {}
    BY <1>13, <1>1, BlocksDiffer DEF Filtered
  <2>1. CASE Breaks
    <3>1. pc' = "done" /\ Deleted(output) = <<held>>
      BY <1>13, <2>1, LastTurn DEF Deleted
    <3>2. live' = (live \union Filtered) \ Blocks(held) /\ stray' = {}
      BY <1>2, <1>9, <3>1, FreedFacts
    <3>3. live' = C \union Blocks(output)
      BY <1>1, <1>2, <2>0, <3>2, BlocksDiffer
    <3> QED BY <1>1, <1>11, <3>1, <3>2, <3>3, BlocksDiffer
  <2>2. CASE ~Breaks /\ pc' = "done"
    <3>1. Deleted(output) = <<held, output>>
      BY <1>13, <2>2 DEF Deleted
    <3>2. live' = (live \union Filtered) \ (Blocks(held) \union Blocks(output)) /\ stray' = {}
      <4>1. Freed(<<held, output>>) \subseteq live /\ Again(<<held, output>>) = {}
        BY <1>12, FreedFacts
      <4> QED BY <1>9, <3>1, <4>1, FreedFacts
    <3>3. live' = C \union {}
      BY <1>1, <1>2, <2>0, <3>2, BlocksDiffer
    <3> QED BY <1>11, <2>2, <3>2, <3>3
  <2>3. CASE ~Breaks /\ pc' = "loop"
    <3>1. Deleted(output) = <<held>> /\ held' = output
      BY <1>4, <1>13, <2>3 DEF Deleted, NextHeld
    <3>2. live' = (live \union Filtered) \ Blocks(held) /\ stray' = {}
      BY <1>2, <1>9, <3>1, FreedFacts
    <3>3. live' = Blocks(held)' \union Blocks(All) \union C
      BY <1>1, <1>2, <1>6, <2>0, <3>1, <3>2, BlocksDiffer
    <3>4. HeldInv'
      BY <1>1, <1>3, <1>5, <1>13, <3>1 DEF HeldInv, OutputInv
    <3> QED BY <1>10, <2>3, <3>2, <3>3, <3>4
  <2> QED BY <1>1, <2>1, <2>2, <2>3
<1>14. CASE app = "PageRankDelta"
  <2>0. Filtered = {<<"active", count>>}
    BY <1>14 DEF Filtered
  <2>1. CASE Breaks
    <3>1. pc' = "done" /\ Deleted(output) = <<output, held, All>>
      BY <1>14, <2>1, LastTurn DEF Deleted
    <3>2. /\ live' = (live \union Filtered) \ (Blocks(output) \union Blocks(held) \union Blocks(All))
          /\ stray' = {}
      <4>1. Freed(<<output, held, All>>) \subseteq live /\ Again(<<output, held, All>>) = {}
        BY <1>12, FreedFacts
      <4> QED BY <1>9, <3>1, <4>1, FreedFacts
    <3>3. live' = C \union Filtered
      BY <1>1, <1>2, <3>2, BlocksDiffer
    <3> QED BY <1>11, <2>0, <3>1, <3>2, <3>3
  <2>2. CASE ~Breaks
    <3>1. /\ pc' = "loop" /\ Deleted(output) = <<output, held>>
          /\ held' = Dense(<<"active", count>>)
      BY <1>1, <1>4, <1>14, <2>2, LastTurn DEF Deleted, NextHeld
    <3>2. live' = (live \union Filtered) \ (Blocks(output) \union Blocks(held)) /\ stray' = {}
      <4>1. Freed(<<output, held>>) \subseteq live /\ Again(<<output, held>>) = {}
        BY <1>12, FreedFacts
      <4> QED BY <1>9, <3>1, <4>1, FreedFacts
    <3>3. Blocks(held)' = Filtered
      BY <1>6, <2>0, <3>1, BlockFacts
    <3>4. live' = Blocks(held)' \union Blocks(All) \union C
      BY <1>1, <1>2, <3>2, <3>3, BlocksDiffer
    <3>5. HeldInv'
      BY <1>1, <1>5, <1>14, <3>1 DEF HeldInv
    <3> QED BY <1>10, <3>1, <3>2, <3>4, <3>5
  <2> QED BY <2>1, <2>2
<1>15. CASE app = "PageRankConverage"
  <2>0. Filtered = {} /\ Blocks(All) = {} /\ held' = held
    BY <1>1, <1>4, <1>15, BlocksDiffer DEF Filtered, NextHeld
  <2>1. CASE pc' = "done"
    <3>1. Deleted(output) = <<output, held>>
      BY <1>15, <2>1 DEF Deleted
    <3>2. live' = (live \union Filtered) \ (Blocks(output) \union Blocks(held)) /\ stray' = {}
      <4>1. Freed(<<output, held>>) \subseteq live /\ Again(<<output, held>>) = {}
        BY <1>12, FreedFacts
      <4> QED BY <1>9, <3>1, <4>1, FreedFacts
    <3>3. live' = C \union {}
      BY <1>1, <1>2, <2>0, <3>2, BlocksDiffer
    <3> QED BY <1>11, <2>1, <3>2, <3>3
  <2>2. CASE pc' = "loop"
    <3>1. Deleted(output) = <<output>>
      BY <1>15, <2>2 DEF Deleted
    <3>2. live' = (live \union Filtered) \ Blocks(output) /\ stray' = {}
      BY <1>2, <1>9, <3>1, FreedFacts
    <3>3. live' = Blocks(held)' \union Blocks(All) \union C
      BY <1>1, <1>2, <1>6, <2>0, <3>2, BlocksDiffer
    <3>4. HeldInv'
      BY <1>1, <1>3, <1>15, <2>0 DEF HeldInv
    <3> QED BY <1>10, <2>2, <3>2, <3>3, <3>4
  <2> QED BY <1>1, <2>1, <2>2
<1>16. CASE app = "SPMV"
  <2>0. Filtered = {} /\ Blocks(All) = {}
    BY <1>1, <1>16, BlocksDiffer DEF Filtered
  <2>1. pc' = "done" /\ Deleted(output) = <<held>>
    BY <1>16, LastTurn DEF Deleted
  <2>2. live' = (live \union Filtered) \ Blocks(held) /\ stray' = {}
    BY <1>2, <1>9, <2>1, FreedFacts
  <2>3. live' = C \union Blocks(output)
    BY <1>1, <1>2, <2>0, <2>2, BlocksDiffer
  <2> QED BY <1>1, <1>11, <2>1, <2>2, <2>3, BlocksDiffer
<1> QED BY <1>1, <1>13, <1>14, <1>15, <1>16 DEF AllApps

LEMMA EnterMemory ==
  ASSUME StateInv, MemoryInv, MEnter
  PROVE  MemoryInv'
<1>1. /\ pc = "loop" /\ pc' \in {"edges", "abort"} /\ UNCHANGED <<app, count>> /\ count \in Nat
      /\ UNCHANGED <<stray, held, All>> /\ app \in AllApps
  BY AppsAssumption
     DEF MEnter, Enter, SizesDontMatch, BadValueOfM, TraverseOver, StateInv, TypeOK
<1>2. PICK C \in SUBSET Conversions :
        live = Blocks(held) \union Blocks(All) \union Blocks(output) \union C
  BY <1>1 DEF MemoryInv
<1>3. stray = {} /\ HeldInv /\ AllInv /\ OutputInv /\ Blocks(local) \subseteq live
  BY <1>1 DEF MemoryInv
<1>4. stray' = {} /\ HeldInv' /\ AllInv'
  BY <1>1, <1>3 DEF HeldInv, AllInv
<1>5. /\ Blocks(held)' = Blocks(held) /\ Blocks(All)' = Blocks(All)
      /\ \A x : x = output' => Blocks(output)' = Blocks(x)
      /\ \A x : x = local' => Blocks(local)' = Blocks(x)
  BY <1>1, BlocksPrime
<1>6. CASE pc' = "edges"
  <2>1. /\ local' = IF Mode = "sparse" THEN toSparse(held) ELSE toDense(held)
        /\ output' = IF Mode = "sparse" THEN Sparse(<<"output", count>>)
                                        ELSE Dense(<<"output", count>>)
        /\ live' = live \union Blocks(local') \union Blocks(output')
    BY <1>6 DEF MEnter
  <2>2. PICK l, o : l = local' /\ o = output'
    OBVIOUS
  <2>3. Blocks(l) \subseteq Blocks(held) \union Conversions
    <3>1. \E b : held \in {Nothing, Sparse(b), Dense(b)}
      BY <1>1, <1>3 DEF HeldInv, AllApps
    <3>2. l \in {toSparse(held), toDense(held)}
      BY <2>1, <2>2
    <3> QED BY <1>1, <3>1, <3>2, ConversionFacts
  <2>4. live' = live \union Blocks(l) \union Blocks(o)
    BY <2>1, <2>2
  <2>5. Blocks(local)' = Blocks(l) /\ Blocks(output)' = Blocks(o)
    BY <1>5, <2>2
  <2>6. Blocks(output) = {}
    BY <1>1, <1>3, BlockFacts DEF OutputInv
  <2> DEFINE C2 == C \union (Blocks(l) \ Blocks(held))
  <2>7. C2 \in SUBSET Conversions
    BY <2>3
  <2>8. live' = Blocks(held)' \union Blocks(All)' \union Blocks(output)' \union C2
    BY <1>2, <1>5, <2>3, <2>4, <2>5, <2>6
  <2>9. Blocks(local)' \subseteq live'
    BY <2>4, <2>5
  <2>10. OutputInv'
    BY <1>1, <1>6, <2>1 DEF OutputInv
  <2> HIDE DEF C2
  <2> QED BY <1>4, <1>6, <2>7, <2>8, <2>9, <2>10 DEF MemoryInv, Conversions
<1>7. CASE pc' = "abort"
  <2>1. UNCHANGED <<local, output, live>>
    BY <1>7 DEF MEnter
  <2>2. Blocks(output)' = Blocks(output) /\ Blocks(local)' = Blocks(local)
    BY <1>5, <2>1
  <2>3. live' = Blocks(held)' \union Blocks(All)' \union Blocks(output)' \union C
    BY <1>2, <1>5, <2>1, <2>2
  <2>4. Blocks(local)' \subseteq live'
    BY <1>3, <2>1, <2>2
  <2>5. OutputInv'
    BY <1>1, <1>3, <2>1 DEF OutputInv
  <2> QED BY <1>4, <1>7, <2>3, <2>4, <2>5 DEF MemoryInv, Conversions
<1> QED BY <1>1, <1>6, <1>7

\* A step that leaves the memory alone.
LEMMA SameMemory ==
  ASSUME MemoryInv, UNCHANGED <<pc, app, count, memory>>
  PROVE  MemoryInv'
<1>1. UNCHANGED <<live, stray, held, All, local, output>>
  BY DEF memory
<1>2. /\ Blocks(held)' = Blocks(held) /\ Blocks(All)' = Blocks(All)
      /\ Blocks(output)' = Blocks(output) /\ Blocks(local)' = Blocks(local)
  BY <1>1, BlocksPrime
<1>3. /\ HeldInv' = HeldInv /\ AllInv' = AllInv /\ OutputInv' = OutputInv /\ Left' = Left
      /\ Conversions' = Conversions
  BY <1>1 DEF HeldInv, AllInv, OutputInv, Left, Conversions
<1> QED BY <1>1, <1>2, <1>3 DEF MemoryInv

LEMMA InitMemory == ASSUME MInit PROVE MemoryInv
<1>1. /\ pc = "loop" /\ count = 0 /\ held = Dense(<<"bits", 0>>)
      /\ All = (IF app = "PageRankDelta" THEN Dense(<<"All", 0>>) ELSE Nothing)
      /\ live = Blocks(held) \union Blocks(All) /\ stray = {}
      /\ local = Nothing /\ output = Nothing
  BY DEF MInit, Init, EngineInit
<1>2. Blocks(local) = {} /\ Blocks(output) = {}
  BY <1>1, BlockFacts
<1>3. live = Blocks(held) \union Blocks(All) \union Blocks(output) \union {}
  BY <1>1, <1>2
<1>4. HeldInv /\ AllInv /\ OutputInv
  BY <1>1 DEF HeldInv, AllInv, OutputInv
<1> QED BY <1>1, <1>2, <1>3, <1>4 DEF MemoryInv

\* Every step of the program with its memory is one of the program.
LEMMA MemoryStep ==
  ASSUME [MNext]_mvars
  PROVE  [Next]_vars
<1>1. UNCHANGED mvars => UNCHANGED vars
  BY DEF mvars
<1>2. MNext => Next
  BY DEF MNext, MEnter, Next
<1> QED BY <1>1, <1>2

LEMMA NextMemory ==
  ASSUME StateInv, MemoryInv, [MNext]_mvars
  PROVE  MemoryInv'
<1>1. CASE UNCHANGED mvars \/ (Stopped /\ UNCHANGED memory)
  <2>1. UNCHANGED <<pc, app, count, memory>>
    BY <1>1 DEF mvars, vars, Stopped
  <2> QED BY <2>1, SameMemory
<1>2. CASE MEnter
  BY <1>2, EnterMemory
<1>3. CASE ReturnAtOnce /\ EndOfTurn(Nothing)
  <2>1. output = Nothing
    BY <1>3 DEF ReturnAtOnce, MemoryInv, OutputInv
  <2> QED BY <1>3, <2>1, EndMemory DEF ReturnAtOnce
<1>4. CASE Return /\ EndOfTurn(output)
  BY <1>4, EndMemory DEF Return
<1>5. CASE Update /\ UNCHANGED memory
  <2>1. UNCHANGED <<pc, app, count, memory>>
    BY <1>5, UpdateState DEF unchangedInRound
  <2> QED BY <2>1, SameMemory
<1> QED BY <1>1, <1>2, <1>3, <1>4, <1>5 DEF MNext

LEMMA MemoryCorrect == MSpec => [](StateInv /\ MemoryInv)
<1>1. MInit => StateInv /\ MemoryInv
  BY InitState, InitMemory DEF MInit
<1>2. StateInv /\ MemoryInv /\ [MNext]_mvars => (StateInv /\ MemoryInv)'
  BY MemoryStep, NextState, NextMemory
<1> QED BY <1>1, <1>2, PTL DEF MSpec

\* The programs with their memory run as they do without it.
THEOREM MemoryIsGhost == MSpec => Spec
<1>1. MInit => Init
  BY DEF MInit
<1>2. [MNext]_mvars => [Next]_vars
  BY MemoryStep
<1> QED BY <1>1, <1>2, PTL DEF MSpec, Spec

(***************************************************************************)
(* No array of a frontier is freed twice, and none is freed that edgeMap,  *)
(* vertexMap or vertexFilter will still read, whichever form the frontiers *)
(* of the rounds had.                                                      *)
(***************************************************************************)
THEOREM FrontiersAreLive == MSpec => []PointersAreLive
<1>1. ASSUME MemoryInv PROVE PointersAreLive
  <2>1. stray = {}
    BY <1>1 DEF MemoryInv
  <2>2. ASSUME pc \in {"loop", "edges"}
        PROVE  \A ptr \in {held, All, local, output} : Blocks(ptr) \subseteq live
    BY <1>1, <2>2 DEF MemoryInv
  <2> QED BY <2>1, <2>2 DEF PointersAreLive
<1> QED BY <1>1, MemoryCorrect, PTL

(***************************************************************************)
(* What is lost is what conversions have allocated, and at most one array  *)
(* of the last round besides.                                              *)
(***************************************************************************)
THEOREM LeaksAreBounded == MSpec => []OnlyConversionsLeak
<1>1. ASSUME StateInv, MemoryInv PROVE OnlyConversionsLeak
  <2> DEFINE lost == IF pc = "done" THEN live
                     ELSE live \ UNION {Blocks(ptr) : ptr \in {held, All, local, output}}
             others == {b \in lost : b[1] \notin {"toDense", "toSparse"}}
  <2>1. pc \in {"loop", "edges", "abort", "done"}
    BY <1>1 DEF StateInv, TypeOK, EngineTypeOK
  <2>2. ASSUME pc # "done" PROVE others = {}
    <3>1. PICK C \in SUBSET Conversions :
            live = Blocks(held) \union Blocks(All) \union Blocks(output) \union C
      BY <1>1, <2>1, <2>2 DEF MemoryInv
    <3>2. lost \subseteq C
      BY <2>2, <3>1
    <3> HIDE DEF lost
    <3> QED BY <3>2, BlockFacts
  <2>3. ASSUME pc = "done"
        PROVE  /\ others \subseteq {<<"output", count - 1>>, <<"active", count - 1>>}
               /\ others \in Left
    <3>1. PICK C \in SUBSET Conversions, X \in Left : live = C \union X
      BY <1>1, <2>3 DEF MemoryInv
    <3>2. \A s, i : <<s, i>>[1] = s
      OBVIOUS
    <3>3. \A b \in X : b[1] \in {"output", "active"}
      BY <3>2 DEF Left
    <3>4. \A b \in C : b[1] \in {"toDense", "toSparse"}
      BY BlockFacts
    <3>5. others = X
      BY <2>3, <3>1, <3>3, <3>4
    <3> HIDE DEF others, lost
    <3> QED BY <3>5 DEF Left
  <2>4. Cardinality(others) <= 1
    <3>1. \A x : Cardinality({x}) = 1
      BY FS_Singleton
    <3>2. Cardinality({}) = 0
      BY FS_EmptySet
    <3>3. others = {} \/ \E x : others = {x}
      <4> HIDE DEF others
      <4> QED BY <2>2, <2>3 DEF Left
    <3> HIDE DEF others
    <3> QED BY <3>1, <3>2, <3>3
  <2> QED BY <2>2, <2>3, <2>4 DEF OnlyConversionsLeak
<1> QED BY <1>1, MemoryCorrect, PTL
=============================================================================
