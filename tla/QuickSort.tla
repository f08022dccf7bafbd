------------------------------ MODULE QuickSort ------------------------------
(* quickSort.h (the same file in graphgrind and graphtools), on sequences of  *)
(* tuples of numbers: insertion sort below ISORT elements, else a partition    *)
(* into less than, equal to and greater than the median of three, and a sort  *)
(* of the two ends, in parallel.  The comparison f is a function on pairs.     *)
EXTENDS Integers, Sequences, FiniteSetsExt

CONSTANT ISORT   \* 25 in the code
ASSUME IsortAssumption == ISORT \in Nat \ {0, 1, 2}

Tuples == Seq(Seq(Nat))
Swapped(A, i, j) == [A EXCEPT ![i] = A[j], ![j] = A[i]]

\* The elements after the last one v is not less than move up for v.
insertionSort(A, f) ==
  LET sorted[i \in 0 .. Len(A)] ==
        IF i = 0 THEN <<>>
        ELSE LET S == sorted[i - 1]
                 k == Max({0} \union {j \in 1 .. i - 1: ~ f[A[i], S[j]]})
             IN SubSeq(S, 1, k) \o <<A[i]>> \o SubSeq(S, k + 1, i - 1)
  IN sorted[Len(A)]

median(a, b, c, f) ==
  IF f[a, b] THEN (IF f[b, c] THEN b ELSE IF f[a, c] THEN c ELSE a)
             ELSE (IF f[a, c] THEN a ELSE IF f[b, c] THEN c ELSE b)

\* Below L the elements are less than the pivot p, from L to M equal to it, above
\* R greater.  The pointers are those of the code, one past its indices.
Cursors == [A: Tuples, L: Nat, M: Nat, R: Nat]

MoveLess(t, p, f) ==
  IF f[t.A[t.M], p] THEN [t EXCEPT !.A = Swapped(t.A, t.M, t.L), !.L = @ + 1] ELSE t

partition(A, p, f) ==
  LET up[t \in Cursors] ==
        IF f[p, t.A[t.M]] THEN t
        ELSE LET u == MoveLess(t, p, f)
             IN IF u.M >= u.R THEN u ELSE up[[u EXCEPT !.M = @ + 1]]
      down(t) == [t EXCEPT !.R = Max({r \in 1 .. t.R: ~ f[p, t.A[r]]})]
      loop[t \in Cursors] ==
        LET u == down(up[t])
        IN IF u.M >= u.R THEN u
           ELSE LET w == MoveLess([u EXCEPT !.A = Swapped(u.A, u.M, u.R), !.R = @ - 1],
                                  p, f)
                IN loop[[w EXCEPT !.M = @ + 1]]
  IN loop[[A |-> A, L |-> 1, M |-> 1, R |-> Len(A)]]

quickSort(S, f) ==
  LET pivot(A) == LET n == Len(A)
                  IN median(A[1 + n \div 4], A[1 + n \div 2], A[1 + (3 * n) \div 4], f)
      sort[A \in Tuples] ==
        IF Len(A) < ISORT THEN insertionSort(A, f)
        ELSE LET t == partition(A, pivot(A), f)
             IN sort[SubSeq(t.A, 1, t.L - 1)] \o SubSeq(t.A, t.L, t.M - 1)
                  \o sort[SubSeq(t.A, t.M, Len(A))]
  IN sort[S]
=============================================================================
