------------------------------ MODULE TextFiles ------------------------------
(* How graphtools/IO.h prints an array of numbers and reads it back: every    *)
(* number is printed into a slot of its own, the unused characters are        *)
(* filtered out, and the reader packs the beginnings of the words.  A         *)
(* character is a number: 0 ends a string, NewLine separates the words, and   *)
(* d + 1 is the digit d.                                                      *)
EXTENDS Sequence

CONSTANTS Radix,      \* 10 in the code
          StringLen,  \* xToStringLen: room for the longest number and a 0
          Chunk       \* BSIZE of writeArrayToStream, 1000000 in the code

ASSUME TextAssumption == /\ {Radix, StringLen} \subseteq Nat \ {0, 1}
                         /\ Chunk \in Nat \ {0}

NewLine == Radix + 1
isSpace(c) == c \in {0, NewLine}

-----------------------------------------------------------------------------
(* Writing                                                                    *)

\* sprintf("%ld"), with the 0 it ends in.
xToString(x) ==
  LET digits[y \in Nat] == (IF y < Radix THEN <<>> ELSE digits[y \div Radix]) \o <<(y % Radix) + 1>>
  IN digits[x] \o <<0>>

\* Wrong variant: the newline is put where the next number begins.
newLineAt_Next(L, i, n, m) == IF i = n - 1 THEN m - 1 ELSE L[i + 1]

\* The last character of the slot of number i.
newLineAt(L, i, n, m) == IF i = n - 1 THEN m - 1 ELSE L[i + 1] - 1

\* The numbers A[0], ..., A[n-1] as characters, each in its slot.
printed(A, n, slots) ==
  LET L == slots.Out
      m == slots.total
      B == [k \in 0 .. m - 1 |->
              LET i == Max({j \in 0 .. n - 1: L[j] <= k})
                  s == xToString(A[i])
              IN IF k - L[i] < Len(s) THEN s[k - L[i] + 1]
                 ELSE IF \E j \in 0 .. n - 1: newLineAt(L, j, n, m) = k THEN NewLine
                 ELSE 0]
  IN filter(B, m, [c \in Nat |-> c > 0])

arrayToString(A, n) == printed(A, n, plusScan([i \in 0 .. n - 1 |-> StringLen + 1], n))

\* The chunks follow each other in the file.
writeArrayToStream(A, n) ==
  LET part(i) == LET at == i * Chunk
                     k == Min({Chunk, n - at})
                 IN AsSequence(arrayToString([j \in 0 .. k - 1 |-> A[at + j]], k))
      chunks == IF n = 0 THEN 0 ELSE 1 + (n - 1) \div Chunk
  IN FlattenSeq([i \in 1 .. chunks |-> part(i - 1)])

-----------------------------------------------------------------------------
(* Reading                                                                    *)

packIndex(Fl, n) == pack([i \in 0 .. n - 1 |-> i], Fl, n)

\* Where the words begin; the spaces become zeros.
stringToWords(S) ==
  LET n == Len(S)
      Str == [i \in 0 .. n - 1 |-> IF isSpace(S[i + 1]) THEN 0 ELSE S[i + 1]]
      FL == [i \in 0 .. n - 1 |-> Str[i] # 0 /\ (i > 0 => Str[i - 1] = 0)]
  IN [Chars |-> Str, Strings |-> packIndex(FL, n)]

\* atol: the digits up to the next zero, which the last word has only if the
\* file ends in a space.
atol(Str, at) ==
  LET value[i \in Nat, x \in Nat] ==
        IF Str[i] = 0 THEN x ELSE value[i + 1, Radix * x + Str[i] - 1]
  IN value[at, 0]

parsed(W) == [j \in DOMAIN W.Strings |-> atol(W.Chars, W.Strings[j])]
numbersOf(S) == parsed(stringToWords(S))
==============================================================================
