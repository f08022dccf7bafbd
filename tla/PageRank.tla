------------------------------ MODULE PageRank ------------------------------
(***************************************************************************)
(* The applications that add up along the edges: app/PageRank.C,           *)
(* PageRankBit.C, PageRankDelta.C, PageRankConverage.C and SPMV.C.  They   *)
(* share the edge operation, an addition to the entry of the destination,  *)
(* and differ in the loop around it: which vertices the next frontier      *)
(* holds, which of them vertexMap visits, and when the loop ends.          *)
(*                                                                         *)
(* curr is the array the edge operation reads (p_curr, or Delta), next the *)
(* one it adds to (p_next, or nghSum).  The floats are counted in units,   *)
(* 1.0 being Unit, such that the divisions of the first MaxIter rounds are *)
(* exact.                                                                  *)
(***************************************************************************)
EXTENDS EdgeMap, FiniteSetsExt

CONSTANTS
  Apps,      \* the programs to run
  MaxIter,   \* 10 in PageRank.C, 100 in PageRankConverage.C
  Unit,      \* 1.0
  Damping,   \* <<numerator, denominator>> of damping
  Epsilon,   \* the norm at which the loops end, in units
  Epsilon2s  \* epsilon2 of PageRankDelta: <<numerator, denominator>>

AllApps == {"PageRank", "PageRankBit", "PageRankDelta", "PageRankConverage", "SPMV"}

ASSUME AppsAssumption == Apps \subseteq AllApps
ASSUME NumbersAssumption ==
  /\ MaxIter \in Nat \ {0} /\ Unit \in Nat /\ N <= Unit /\ Epsilon \in Nat
  /\ Damping \in Nat \X (Nat \ {0}) /\ Damping[1] < Damping[2]
  /\ Epsilon2s \subseteq Nat \X (Nat \ {0})

\* e[3] is the weight of the edge.
ASSUME WeightAssumption == \A e \in Edge : e[3] \in Int

VARIABLES
  app,       \* the program that runs
  epsilon2,
  bit,       \* the flag of the same name of the frontier
  count,     \* rounds so far (count, round)
  L1_norm,   \* how far the last round has moved the ranks
  curr, next,
  p,         \* p of PageRankDelta
  dropped,   \* history variable: the size of all Deltas that PageRankDelta has
             \* not passed on
  strand,    \* the edge operations in progress
  cache      \* the destinations of a CSC round in progress

arrays == <<curr, next, p, dropped>>
strands == <<strand, cache>>
vars == <<pc, GA, Frontier, mode, todo, v1, app, epsilon2, bit, count, L1_norm,
          curr, next, p, dropped, strand, cache>>

Zero == [v \in Vertex |-> 0]
one_over_n == Unit \div N

damped(x) == (Damping[1] * x) \div Damping[2]
addedConstant == one_over_n - damped(one_over_n)
fabs(x) == IF x < 0 THEN -x ELSE x
plusReduce(f) == MapThenSumSet(LAMBDA v : f[v], Vertex)

getOutDegree(v) == Cardinality({e \in GA.edges : src(e) = v})

\* What an edge adds: a share of the source, or its value times the weight.
Addend(e) ==
  CASE app = "SPMV" -> curr[src(e)] * e[3]
    [] app = "PageRankConverage" -> damped(curr[src(e)]) \div getOutDegree(src(e))
    [] OTHER -> curr[src(e)] \div getOutDegree(src(e))

Init ==
  /\ EngineInit
  /\ app \in Apps
  /\ epsilon2 \in Epsilon2s
  /\ Frontier = bits(GA.edges)
  /\ bit = TRUE
  /\ count = 0
  /\ L1_norm = 2 * Unit
  /\ curr = [v \in Vertex |-> one_over_n]
  /\ next = Zero
  /\ p = Zero
  /\ dropped = 0
  /\ strand = {}
  /\ cache = {}

-----------------------------------------------------------------------------
(***************************************************************************)
(* The rest of a turn, once edgeMap has returned `output'.                 *)
(***************************************************************************)
\* How often a vertexMap applies its function to a vertex: once to each vertex
\* of a bit or dense frontier.  A sparse one is visited entry by entry, all at
\* once: of the copies of a vertex any number may read the same old value.
Applied ==
  {times \in [Vertex -> 0 .. Max({1} \union {Frontier.copies[v] : v \in Vertex})] :
     \A v \in Vertex :
       IF Frontier.rep = "sparse"
       THEN times[v] \in (IF Frontier.copies[v] = 0 THEN {0} ELSE 1 .. Frontier.copies[v])
       ELSE times[v] = IF bit \/ Frontier.copies[v] > 0 THEN 1 ELSE 0}

\* PR_Vertex_F, applied k times.
PR_Vertex_F(x, k) ==
  LET f[i \in 0 .. k] == IF i = 0 THEN x ELSE damped(f[i-1]) + addedConstant
  IN f[k]

\* count<MaxIter, after count++
MoreRounds == count' < MaxIter

\* wrong variant: nothing is reset
PR_Vertex_Reset_None(f, times) == f

PR_Vertex_Reset(f, times) == [v \in Vertex |-> IF times[v] > 0 THEN 0 ELSE f[v]]

\* if(L1_norm < epsilon) break
Breaks == L1_norm' < Epsilon

\* PageRank and PageRankBit: the arrays change places unless the norm of the
\* difference, for which p_curr is overwritten, is small.
Tail(output) ==
  \E times \in Applied :
    LET updated == [v \in Vertex |-> PR_Vertex_F(next[v], times[v])]
        diff == [v \in Vertex |-> fabs(curr[v] - updated[v])]
    IN /\ L1_norm' = plusReduce(diff)
       /\ IF Breaks
          THEN /\ pc' = "done"
               /\ curr' = diff /\ next' = updated
               /\ UNCHANGED <<Frontier, bit>>
          ELSE /\ curr' = updated
               /\ next' = PR_Vertex_Reset(diff, times)
               /\ Frontier' = output
               /\ bit' = (app = "PageRankBit")
               /\ pc' = IF MoreRounds THEN "loop" ELSE "done"
       /\ UNCHANGED <<p, dropped>>

\* wrong variant: the start value is not taken off the first difference
Delta_First(v) ==
  LET d == IF count = 0 THEN damped(p[v] + next[v]) + addedConstant - p[v]
                        ELSE damped(next[v])
  IN [Delta |-> d, p |-> p[v] + d]

\* PR_Vertex_F_FirstRound and PR_Vertex_F of PageRankDelta.
Delta(v) ==
  IF count = 0
  THEN LET d == damped(p[v] + next[v]) + addedConstant - p[v]
       IN [Delta |-> d - one_over_n, p |-> p[v] + d]
  ELSE LET d == damped(next[v]) IN [Delta |-> d, p |-> p[v] + d]

\* vertexFilter keeps the vertices whose rank still changes.
TailDelta ==
  LET new == [v \in Vertex |-> Delta(v)]
      active == [v \in Vertex |->
                   IF fabs(new[v].Delta) * epsilon2[2] > epsilon2[1] * new[v].p
                   THEN 1 ELSE 0]
      norm == [v \in Vertex |-> fabs(new[v].Delta)]
  IN /\ curr' = [v \in Vertex |-> new[v].Delta]
     /\ p' = [v \in Vertex |-> new[v].p]
     /\ L1_norm' = plusReduce(norm)
     /\ dropped' = dropped + plusReduce([v \in Vertex |-> IF active[v] = 0 THEN norm[v] ELSE 0])
     /\ IF Breaks
        THEN pc' = "done" /\ next' = norm /\ UNCHANGED <<Frontier, bit>>
        ELSE /\ pc' = "loop"
             /\ next' = Zero
             /\ Frontier' = frontierOf("dense", active, GA.edges)
             /\ bit' = FALSE

\* PageRankConverage: what is missing from 1.0 is spread over all vertices, and
\* the sum is normalised.
TailConverage ==
  LET spread == (Unit - plusReduce(next)) \div N
      updated == [v \in Vertex |-> next[v] + spread]
  IN /\ L1_norm' = plusReduce([v \in Vertex |-> fabs(curr[v] - updated[v])])
     /\ curr' = [v \in Vertex |-> (updated[v] * Unit) \div plusReduce(updated)]
     /\ next' = Zero
     /\ pc' = IF MoreRounds /\ L1_norm' > Epsilon THEN "loop" ELSE "done"
     /\ UNCHANGED <<Frontier, bit, p, dropped>>

\* SPMV multiplies once.
TailSPMV ==
  /\ curr' = next
  /\ next' = Zero
  /\ pc' = "done"
  /\ UNCHANGED <<Frontier, bit, L1_norm, p, dropped>>

RestOfTurn(output) ==
  /\ count' = count + 1
  /\ \/ app \in {"PageRank", "PageRankBit"} /\ Tail(output)
     \/ app = "PageRankDelta" /\ TailDelta
     \/ app = "PageRankConverage" /\ TailConverage
     \/ app = "SPMV" /\ TailSPMV
  /\ UNCHANGED <<GA, app, epsilon2, strands>>

-----------------------------------------------------------------------------
(***************************************************************************)
(* A turn of the loop: edgeMap, with its early return, and the rest.       *)
(***************************************************************************)
\* A bit frontier is taken for all vertices in the dense traversals.
SourceEdges == {e \in GA.edges : bit \/ src(e) \in Active}

EdgeJobs ==
  IF Mode = "sparse" THEN Jobs(Mode) ELSE {1} \X SourceEdges

Enter ==
  /\ pc = "loop"
  /\ SizesDontMatch \/ BadValueOfM \/ TraverseOver(EdgeJobs)
  /\ UNCHANGED <<app, epsilon2, bit, count, L1_norm, arrays, strands>>

ReturnAtOnce ==
  /\ pc = "loop"
  /\ Frontier.numVertices = N
  /\ Frontier.num_out_edges = 0
  /\ RestOfTurn(empty)
  /\ UNCHANGED <<mode, todo, v1>>

\* wrong variant: the turn goes on before the strands have joined
Return_NoJoin ==
  /\ pc = "edges"
  /\ todo = {}
  /\ RestOfTurn(frontierOf(IF mode = "sparse" THEN "sparse" ELSE "dense", v1, GA.edges))
  /\ mode' = "none"
  /\ v1' = None
  /\ UNCHANGED todo

Return ==
  /\ pc = "edges"
  /\ todo = {} /\ strand = {} /\ cache = {}
  /\ RestOfTurn(frontierOf(IF mode = "sparse" THEN "sparse" ELSE "dense", v1, GA.edges))
  /\ mode' = "none"
  /\ v1' = None
  /\ UNCHANGED todo

-----------------------------------------------------------------------------
(***************************************************************************)
(* The edge operations: curr is not written in a round, so it is read      *)
(* together with the write.  All of them return 1.                         *)
(***************************************************************************)
running == {st.e : st \in strand}

unchangedInRound == <<pc, GA, Frontier, mode, app, epsilon2, bit, count, L1_norm,
                      curr, p, dropped>>

\* p_next[d] += ..., and oldV = *a of writeAdd
ReadOld(job) ==
  LET e == job[2] IN
  /\ ~ByDestination
  /\ Take(job)
  /\ Free(e, running)
  /\ strand' = strand \union {[k |-> job[1], e |-> e, oldV |-> next[dst(e)]]}
  /\ UNCHANGED <<unchangedInRound, v1, next, cache>>

\* wrong variant: the operation returns 0
Add_ReturnsZero(st) ==
  /\ next' = [next EXCEPT ![dst(st.e)] = st.oldV + Addend(st.e)]
  /\ strand' = strand \ {st}
  /\ UNCHANGED v1

Add(st) ==
  /\ next' = [next EXCEPT ![dst(st.e)] = st.oldV + Addend(st.e)]
  /\ v1' = Marked(dst(st.e))
  /\ strand' = strand \ {st}

Store(st) ==
  /\ st \in strand
  /\ ~Atomic
  /\ Add(st)
  /\ UNCHANGED <<unchangedInRound, todo, cache>>

\* wrong variant: a failed CAS keeps the old value it compares with
writeAdd_StaleRetry(st) ==
  /\ st \in strand
  /\ Atomic
  /\ IF next[dst(st.e)] = st.oldV THEN Add(st) ELSE UNCHANGED <<next, v1, strand>>
  /\ UNCHANGED <<unchangedInRound, todo, cache>>

\* The CAS of writeAdd, and the next reading of its loop.
writeAdd(st) ==
  /\ st \in strand
  /\ Atomic
  /\ IF next[dst(st.e)] = st.oldV
     THEN Add(st)
     ELSE /\ strand' = (strand \ {st}) \union {[st EXCEPT !.oldV = next[dst(st.e)]]}
          /\ UNCHANGED <<next, v1>>
  /\ UNCHANGED <<unchangedInRound, todo, cache>>

CreateCache(v) ==
  /\ pc = "edges" /\ ByDestination
  /\ v \notin {c.d : c \in cache}
  /\ \A c \in cache : CscPart[c.d] # CscPart[v]
  /\ \E job \in todo : dst(job[2]) = v
  /\ cache' = cache \union {[d |-> v, value |-> next[v]]}
  /\ UNCHANGED <<unchangedInRound, todo, v1, next, strand>>

CachedUpdate(c, job) ==
  /\ ByDestination
  /\ c \in cache
  /\ Take(job)
  /\ dst(job[2]) = c.d
  /\ cache' = (cache \ {c}) \union {[c EXCEPT !.value = @ + Addend(job[2])]}
  /\ v1' = Marked(c.d)
  /\ UNCHANGED <<unchangedInRound, next, strand>>

CommitCache(c) ==
  /\ c \in cache
  /\ \A job \in todo : dst(job[2]) # c.d
  /\ next' = [next EXCEPT ![c.d] = c.value]
  /\ cache' = cache \ {c}
  /\ UNCHANGED <<unchangedInRound, todo, v1, strand>>

Stopped ==
  /\ pc \in {"done", "abort"}
  /\ UNCHANGED vars

\* A step of a strand.
Update ==
  \/ \E job \in todo : ReadOld(job)
  \/ \E st \in strand : Store(st) \/ writeAdd(st)
  \/ \E v \in Vertex : CreateCache(v)
  \/ \E c \in cache, job \in todo : CachedUpdate(c, job)
  \/ \E c \in cache : CommitCache(c)

Next == Enter \/ ReturnAtOnce \/ Return \/ Update \/ Stopped

Spec == Init /\ [][Next]_vars

\* Every strand of a fork/join region is eventually scheduled.
FairSpec == Spec /\ WF_vars(Next)

-----------------------------------------------------------------------------
\* Types; the counter of rounds keeps to its bound, but in PageRankDelta, whose
\* loop has none.
TypeOK ==
  /\ EngineTypeOK
  /\ app \in Apps /\ epsilon2 \in Epsilon2s
  /\ bit \in BOOLEAN
  /\ count \in Nat /\ L1_norm \in Nat /\ dropped \in Nat
  /\ app # "PageRankDelta" => count <= MaxIter
  /\ curr \in [Vertex -> Int] /\ next \in [Vertex -> Int] /\ p \in [Vertex -> Int]
  /\ strand \subseteq [k : Nat, e : GA.edges, oldV : Int]
  /\ cache \subseteq [d : Vertex, value : Int]

-----------------------------------------------------------------------------
\* The iteration by its equation, from the same start: k rounds.
Into(v) == {e \in GA.edges : dst(e) = v}

IntoOf(f, v) ==
  LET share == [e \in GA.edges |-> f[src(e)] \div getOutDegree(src(e))]
  IN MapThenSumSet(LAMBDA e : share[e], Into(v))

Iterated(k) ==
  LET r[i \in 0 .. k] ==
        IF i = 0 THEN [v \in Vertex |-> one_over_n]
        ELSE LET sum == [v \in Vertex |-> damped(IntoOf(r[i-1], v))]
                 rest == IF app = "PageRankConverage"
                         THEN (Unit - plusReduce(sum)) \div N ELSE addedConstant
             IN [v \in Vertex |-> sum[v] + rest]
  IN r[k]

\* No division of the next round leaves a remainder, neither by a degree nor by
\* the damping; PageRankConverage takes the damping first, and divides the rest
\* by N.
SharesAreExact(f) ==
  /\ \A e \in GA.edges : f[src(e)] % getOutDegree(src(e)) = 0
  /\ \A v \in Vertex : (Damping[1] * IntoOf(f, v)) % Damping[2] = 0

DampedFirstIsExact(f) ==
  /\ \A e \in GA.edges : /\ (Damping[1] * f[src(e)]) % Damping[2] = 0
                        /\ damped(f[src(e)]) % getOutDegree(src(e)) = 0
  /\ (Unit - plusReduce([v \in Vertex |-> damped(IntoOf(f, v))])) % N = 0

\* What curr hands on to the next frontier of PageRankDelta.
Kept == [v \in Vertex |-> IF v \in Active THEN curr[v] ELSE 0]

\* The hypothesis of the theorems on the ranks, which stands for floats without
\* rounding: Unit is fine enough for the round to come.  It tells of the model's
\* unit and not of the program, so no run lists it.
DivisionsAreExact ==
  pc = "loop" =>
    /\ app \in {"PageRankDelta", "PageRankConverage"} => SharesAreExact(Iterated(count))
    /\ app = "PageRankConverage" => DampedFirstIsExact(Iterated(count))
    /\ app = "PageRankDelta" /\ count > 0 => SharesAreExact(Kept)

HasInEdge(v) == \E e \in GA.edges : dst(e) = v
AllHaveInEdges == \A v \in Vertex : HasInEdge(v)

\* The frontier of PageRankBit from its second round on.
BitFrontier ==
  frontierOf("dense", [v \in Vertex |-> IF HasInEdge(v) THEN 1 ELSE 0], GA.edges)

BitIsDense ==
  /\ BitFrontier.num_out_edges > 0
  /\ BitFrontier.d_m + BitFrontier.num_out_edges > GA_m \div SparseDiv

(***************************************************************************)
(* Before every round the ranks are those of the PageRank equation: for    *)
(* PageRankDelta (with epsilon2 = 0, so that nothing is dropped) and       *)
(* PageRankConverage on every graph, for PageRank where every vertex has   *)
(* an in-edge, since the others drop out of its frontier, and for          *)
(* PageRankBit as long as its rounds are dense.                            *)
(***************************************************************************)
RanksAreIterated ==
  pc = "loop" =>
    /\ app = "PageRank" /\ AllHaveInEdges => curr = Iterated(count)
    /\ app = "PageRankBit" /\ (count < 2 \/ BitIsDense) => curr = Iterated(count)
    /\ app = "PageRankConverage" => curr = Iterated(count)
    /\ app = "PageRankDelta" /\ epsilon2[1] = 0 /\ count > 0 => p = Iterated(count)

\* What the last round of PageRankDelta has dropped.
LastDropped ==
  plusReduce([v \in Vertex |-> IF v \in Active THEN 0 ELSE fabs(curr[v])])

(***************************************************************************)
(* What PageRankDelta drops stays small: a vertex drops at most epsilon2   *)
(* of its rank, and in all the ranks are off by at most d + d^2 + ... =    *)
(* d / (1 - d) times what was dropped before the last round, d being the   *)
(* damping.                                                                *)
(***************************************************************************)
DroppedDeltasAreSmall ==
  pc = "loop" /\ app = "PageRankDelta" /\ count > 0 =>
    /\ \A v \in Vertex \ Active : fabs(curr[v]) * epsilon2[2] <= epsilon2[1] * p[v]
    /\ plusReduce([v \in Vertex |-> fabs(p[v] - Iterated(count)[v])]) * (Damping[2] - Damping[1])
         <= Damping[1] * (dropped - LastDropped)

(***************************************************************************)
(* SPMV returns the product of the transposed matrix and the vector.       *)
(***************************************************************************)
ProductIsRight ==
  app = "SPMV" /\ pc = "done" =>
    LET weight == [e \in GA.edges |-> e[3]] IN
    \A v \in Vertex : curr[v] = one_over_n * MapThenSumSet(LAMBDA e : weight[e], Into(v))

\* What the programs return, and the ranks on the way there.
ResultsAreRight == RanksAreIterated /\ ProductIsRight

\* Does every walk end?
Acyclic == \A S \in SUBSET Vertex : S # {} =>
             \E v \in S : \A e \in GA.edges : src(e) = v => dst(e) \notin S

(***************************************************************************)
(* Only on a graph without cycles does a frontier lose its last out-edge,  *)
(* so that PageRank hands the empty frontier of an early return to edgeMap *)
(* and the program aborts; the other programs never do.                    *)
(***************************************************************************)
AbortsOnlyWithoutCycle ==
  pc = "abort" => app \in {"PageRank", "PageRankBit"} /\ Acyclic

(***************************************************************************)
(* Every program returns or aborts.                                        *)
(***************************************************************************)
Terminates == <>(pc \in {"done", "abort"})
=============================================================================
