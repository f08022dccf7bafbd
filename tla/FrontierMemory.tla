--------------------------- MODULE FrontierMemory ---------------------------
(***************************************************************************)
(* The arrays behind the frontiers of the programs of PageRank: who        *)
(* allocates them, who frees them, and which are lost.                     *)
(*                                                                         *)
(* A partitioned_vertices is passed and returned by value, but its s and d *)
(* are pointers that every copy shares and del() frees.  edgeMap converts  *)
(* the copy it is given, so an array that a conversion allocates is known  *)
(* to nobody once edgeMap has returned.                                    *)
(*                                                                         *)
(* A block of memory is named by what allocates it and by the round.       *)
(***************************************************************************)
EXTENDS PageRank

VARIABLES
  live,    \* the blocks that are allocated
  stray,   \* blocks that were freed when they were not allocated
  held,    \* s and d of Frontier
  All,     \* s and d of All in PageRankDelta
  local,   \* s and d of edgeMap's copy of the frontier
  output   \* s and d of the frontier edgeMap fills

memory == <<live, stray, held, All, local, output>>
mvars == <<vars, memory>>

NULL == <<>>
Nothing == [s |-> NULL, d |-> NULL]
Sparse(block) == [s |-> block, d |-> NULL]
Dense(block) == [s |-> NULL, d |-> block]

Blocks(ptr) == {ptr.s, ptr.d} \ {NULL}

MInit ==
  /\ Init
  /\ held = Dense(<<"bits", 0>>)
  /\ All = IF app = "PageRankDelta" THEN Dense(<<"All", 0>>) ELSE Nothing
  /\ live = Blocks(held) \union Blocks(All)
  /\ stray = {} /\ local = Nothing /\ output = Nothing

-----------------------------------------------------------------------------
\* Each allocates the form that is missing and leaves the other alone.
toDense(ptr) ==
  IF ptr.d = NULL THEN [ptr EXCEPT !.d = <<"toDense", count>>] ELSE ptr

toSparse(ptr) ==
  IF ptr.s = NULL THEN [ptr EXCEPT !.s = <<"toSparse", count>>] ELSE ptr

\* edgeMap as far as its traversal; one that aborts never gets to its end.
MEnter ==
  /\ Enter
  /\ IF pc' = "edges"
     THEN /\ local' = IF Mode = "sparse" THEN toSparse(held) ELSE toDense(held)
          /\ output' = IF Mode = "sparse" THEN Sparse(<<"output", count>>)
                                          ELSE Dense(<<"output", count>>)
          /\ live' = live \union Blocks(local') \union Blocks(output')
     ELSE UNCHANGED <<local, output, live>>
  /\ UNCHANGED <<stray, held, All>>

\* wrong variant: the output is deleted although the next frontier is its copy
Deleted_Output(out) == <<out, held>>

\* wrong variant: the frontier of the last turn is forgotten
Deleted_OnlyOutput(out) == <<out>>

\* What the turn deletes when edgeMap returned out: with the last
\* turn go the calls behind the loop.
Deleted(out) ==
  CASE app \in {"PageRank", "PageRankBit"} ->
         IF pc' = "done" /\ ~Breaks THEN <<held, out>> ELSE <<held>>
    [] app = "PageRankDelta" ->
         IF Breaks THEN <<out, held, All>> ELSE <<out, held>>
    [] app = "PageRankConverage" ->
         IF pc' = "done" THEN <<out, held>> ELSE <<out>>
    [] app = "SPMV" -> <<held>>

\* The frontier of the next turn.
NextHeld(out) ==
  CASE app \in {"PageRank", "PageRankBit"} -> IF Breaks THEN held ELSE out
    [] app = "PageRankDelta" -> IF Breaks THEN held ELSE Dense(<<"active", count>>)
    [] OTHER -> held

\* vertexFilter returns a new array in every turn.
Filtered == IF app = "PageRankDelta" THEN {<<"active", count>>} ELSE {}

\* del() of each: a block goes once, and only if it is there.
Delete(dels) ==
  /\ live' = (live \union Filtered) \ UNION {Blocks(dels[i]) : i \in DOMAIN dels}
  /\ stray' = stray \union
       {b \in UNION {Blocks(dels[i]) : i \in DOMAIN dels} :
          \/ b \notin live
          \/ \E i, j \in DOMAIN dels : i # j /\ b \in Blocks(dels[i]) \intersect Blocks(dels[j])}

EndOfTurn(out) ==
  /\ Delete(Deleted(out))
  /\ held' = NextHeld(out)
  /\ local' = Nothing /\ output' = Nothing
  /\ UNCHANGED All

MNext ==
  \/ MEnter
  \/ ReturnAtOnce /\ EndOfTurn(Nothing)
  \/ Return /\ EndOfTurn(output)
  \/ Update /\ UNCHANGED memory
  \/ Stopped /\ UNCHANGED memory

MSpec == MInit /\ [][MNext]_mvars

MFairSpec == MSpec /\ WF_mvars(MNext)

-----------------------------------------------------------------------------
(***************************************************************************)
(* No array is freed twice, and none that edgeMap, vertexMap or            *)
(* vertexFilter will still read has been freed: copies of a frontier share *)
(* its arrays, and a loop turn deletes one of them while it keeps another. *)
(***************************************************************************)
PointersAreLive ==
  /\ stray = {}
  /\ pc \in {"loop", "edges"} =>
       UNION {Blocks(ptr) : ptr \in {held, All, local, output}} \subseteq live

(***************************************************************************)
(* What a program loses is one array per conversion, and one array more    *)
(* when it leaves its loop with the norm below epsilon or multiplies once. *)
(* Every other array of a frontier is freed when its turn is over.         *)
(***************************************************************************)
OnlyConversionsLeak ==
  LET lost == IF pc = "done" THEN live
              ELSE live \ UNION {Blocks(ptr) : ptr \in {held, All, local, output}}
      others == {b \in lost : b[1] \notin {"toDense", "toSparse"}}
  IN /\ pc = "loop" => others = {}
     /\ others \subseteq {<<"output", count - 1>>, <<"active", count - 1>>}
     /\ Cardinality(others) <= 1
=============================================================================
