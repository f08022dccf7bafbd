------------------------------ MODULE Sequence ------------------------------
(* The sequence primitives of graphtools/sequence.h (and of graphgrind/       *)
(* utils.h, which holds the same code): reduce, scan, pack and filter, cut    *)
(* into blocks that are worked on in parallel.  An array of n elements is a   *)
(* function on 0 .. n - 1.  The iterations of each parallel loop write        *)
(* different elements, so a loop is one definition.  The operation f of a      *)
(* reduction or scan is a function on pairs.                                  *)
EXTENDS Integers, FiniteSets, FiniteSetsExt, SequencesExt

CONSTANT BSIZE   \* _SCAN_BSIZE, 1024 in the code
ASSUME BsizeAssumption == BSIZE \in Nat \ {0, 1}

F_BSIZE == 2 * BSIZE

\* C's division truncates: an empty range is one block.
nblocks(n, b) == IF n = 0 THEN 1 ELSE 1 + (n - 1) \div b
First(i, b) == i * b
End(i, b, n) == Min({i * b + b, n})

-----------------------------------------------------------------------------
reduceSerial(A, s, e, f) ==
  LET r[j \in s .. Max({s, e - 1})] == IF j = s THEN A[s] ELSE f[r[j - 1], A[j]]
  IN r[Max({s, e - 1})]

\* One reduction per block.
BlockSums(A, n, f) ==
  [i \in 0 .. nblocks(n, BSIZE) - 1 |->
     reduceSerial(A, First(i, BSIZE), End(i, BSIZE, n), f)]

\* A, its block sums, their block sums, ... : the arrays of the recursive calls.
Levels(A, n, f, enough) ==
  LET size[k \in Nat] == IF k = 0 THEN n ELSE nblocks(size[k - 1], BSIZE)
      depth == CHOOSE k \in 0 .. n: /\ nblocks(size[k], BSIZE) <= enough
                                    /\ \A j \in 0 .. k - 1: nblocks(size[j], BSIZE) > enough
      level[k \in 0 .. depth] ==
        IF k = 0 THEN A ELSE BlockSums(level[k - 1], size[k - 1], f)
  IN [depth |-> depth, level |-> level, size |-> [k \in 0 .. depth |-> size[k]]]

reduce(A, n, f) ==
  LET L == Levels(A, n, f, 1)
  IN reduceSerial(L.level[L.depth], 0, L.size[L.depth], f)

-----------------------------------------------------------------------------
\* acc[k] is r after k elements, in the direction of the scan.
scanSerial(A, s, e, f, zero, inclusive, back) ==
  LET visited(k) == IF back THEN e - k ELSE s + k - 1
      acc[k \in 0 .. e - s] == IF k = 0 THEN zero ELSE f[acc[k - 1], A[visited(k)]]
      before(i) == IF back THEN e - 1 - i ELSE i - s
  IN [Out |-> [i \in s .. e - 1 |-> acc[before(i) + IF inclusive THEN 1 ELSE 0]],
      total |-> acc[e - s]]

\* Every block is scanned from the scan of the block sums.
BlockScan(A, n, f, Sums, inclusive, back) ==
  LET block == [b \in 0 .. nblocks(n, BSIZE) - 1 |->
                  scanSerial(A, First(b, BSIZE), End(b, BSIZE, n), f, Sums[b],
                             inclusive, back).Out]
  IN [i \in 0 .. n - 1 |-> block[i \div BSIZE][i]]

\* Wrong variant: the block sums are scanned like the array itself.
inclusiveAt_Everywhere(inclusive, k) == inclusive

\* Block sums are scanned exclusively, whatever is asked for the array.
inclusiveAt(inclusive, k) == inclusive /\ k = 0

\* Down the levels: each from the scan of the next one.
scanDown(L, f, zero, inclusive, back) ==
  LET d == L.depth
      last == scanSerial(L.level[d], 0, L.size[d], f, zero, inclusiveAt(inclusive, d), back)
      out[k \in 0 .. d] ==
        IF k = d THEN last.Out
        ELSE BlockScan(L.level[k], L.size[k], f, out[k + 1], inclusiveAt(inclusive, k), back)
  IN [Out |-> out[0], total |-> last.total]

scan(A, n, f, zero, inclusive, back) ==
  scanDown(Levels(A, n, f, 2), f, zero, inclusive, back)

addF == [a, b \in Int |-> a + b]
minF == [a, b \in Int |-> Min({a, b})]

plusScan(A, n) == scan(A, n, addF, 0, FALSE, FALSE)
scanIBack(A, n, f, zero) == scan(A, n, f, zero, TRUE, TRUE).Out

-----------------------------------------------------------------------------
sumFlagsSerial(Fl, s, e) == Cardinality({i \in s .. e - 1: Fl[i]})

\* The marked indices of a block, in order.
packSerial(Fl, s, e) == SetToSortSeq({i \in s .. e - 1: Fl[i]}, <)

\* Each block is packed at the number of marks before it.
packBlocks(A, Fl, n, l, offset) ==
  LET marked(b) == packSerial(Fl, First(b, F_BSIZE), End(b, F_BSIZE, n))
      writes(j) == {b \in 0 .. l - 1: /\ offset.Out[b] <= j
                                      /\ j < offset.Out[b] + Len(marked(b))}
  IN [j \in 0 .. offset.total - 1 |->
        LET b == CHOOSE b \in writes(j): TRUE
        IN A[marked(b)[j - offset.Out[b] + 1]]]

pack(A, Fl, n) ==
  LET l == nblocks(n, F_BSIZE)
      sums == [b \in 0 .. l - 1 |->
                 sumFlagsSerial(Fl, First(b, F_BSIZE), End(b, F_BSIZE, n))]
  IN packBlocks(A, Fl, n, l, IF l = 1 THEN [Out |-> [b \in {0} |-> 0], total |-> sums[0]]
                                      ELSE plusScan(sums, l))

\* An array, as filter writes it, read as a sequence.
AsSequence(A) == [i \in 1 .. Cardinality(DOMAIN A) |-> A[i - 1]]

filter(A, n, p) == pack(A, [i \in 0 .. n - 1 |-> p[A[i]]], n)
=============================================================================
