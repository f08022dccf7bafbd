-------------------------- MODULE HashTable_proofs --------------------------
(***************************************************************************)
(* Proofs about HashTable, for every number of slots, of keys and of       *)
(* strands, and every hash function, for deletions that do not overlap.    *)
(***************************************************************************)
EXTENDS HashTable, Lemmas

-----------------------------------------------------------------------------
(***************************************************************************)
(* Slots.                                                                  *)
(***************************************************************************)
\* The range of numbers that come up needs one addition or subtraction of m.
LEMMA Modulo ==
  \A a \in Int : /\ 0 <= a /\ a < m => hashToRange(a) = a
                 /\ m <= a /\ a < 2 * m => hashToRange(a) = a - m
                 /\ -m <= a /\ a < 0 => hashToRange(a) = a + m
<1> SUFFICES ASSUME NEW a \in Int
             PROVE  /\ 0 <= a /\ a < m => a % m = a
                    /\ m <= a /\ a < 2 * m => a % m = a - m
                    /\ -m <= a /\ a < 0 => a % m = a + m
  BY DEF hashToRange
<1> QED BY HashAssumption

\* The number of keys, and that of slots.
LEMMA Sizes ==
  /\ Cardinality(Key) \in Nat /\ m \in Nat /\ 2 * Cardinality(Key) < m
  /\ Slot = 0 .. m - 1 /\ \A i \in Slot : i \in Nat /\ i < m
<1>1. Cardinality(Key) \in Nat
  BY HashAssumption, FS_CardinalityType
<1> QED BY <1>1, HashAssumption DEF Slot

\* The next slot and the one before.
LEMMA Neighbours ==
  \A i \in Slot : /\ incrementIndex(i) \in Slot /\ decrementIndex(i) \in Slot
                  /\ incrementIndex(i) = IF i = m - 1 THEN 0 ELSE i + 1
                  /\ decrementIndex(i) = IF i = 0 THEN m - 1 ELSE i - 1
<1> SUFFICES ASSUME NEW i \in Slot
             PROVE  /\ incrementIndex(i) = IF i = m - 1 THEN 0 ELSE i + 1
                    /\ decrementIndex(i) = IF i = 0 THEN m - 1 ELSE i - 1
  BY Sizes
<1>1. hashToRange(i + 1) = IF i = m - 1 THEN 0 ELSE i + 1
  BY Sizes, Modulo
<1>2. hashToRange(i - 1) = IF i = 0 THEN m - 1 ELSE i - 1
  BY Sizes, Modulo
<1> QED BY <1>1, <1>2 DEF incrementIndex, decrementIndex

\* How far slots are ahead of each other.
LEMMA AheadFacts ==
  \A i, j \in Slot : /\ ahead(i, j) \in 0 .. m - 1
                     /\ hashToRange(j - i) = ahead(i, j)
                     /\ ahead(i, j) = 0 <=> i = j
                     /\ ahead(i, j) < m - 1 => ahead(i, incrementIndex(j)) = ahead(i, j) + 1
                     /\ i # j => ahead(i, decrementIndex(j)) = ahead(i, j) - 1
<1> SUFFICES ASSUME NEW i \in Slot, NEW j \in Slot
             PROVE  /\ ahead(i, j) \in 0 .. m - 1
                    /\ hashToRange(j - i) = ahead(i, j)
                    /\ ahead(i, j) = 0 <=> i = j
                    /\ ahead(i, j) < m - 1 => ahead(i, incrementIndex(j)) = ahead(i, j) + 1
                    /\ i # j => ahead(i, decrementIndex(j)) = ahead(i, j) - 1
  OBVIOUS
<1>1. hashToRange(j - i) = IF i <= j THEN j - i ELSE j - i + m
  BY Sizes, Modulo
<1>2. i \in Int /\ j \in Int /\ m \in Int /\ 0 <= i /\ i < m /\ 0 <= j /\ j < m
  BY Sizes
<1>3. ahead(i, j) \in 0 .. m - 1 /\ (ahead(i, j) = 0 <=> i = j)
  BY <1>2 DEF ahead
<1>4. ASSUME ahead(i, j) < m - 1 PROVE ahead(i, incrementIndex(j)) = ahead(i, j) + 1
  <2>1. incrementIndex(j) = IF j = m - 1 THEN 0 ELSE j + 1
    BY Neighbours
  <2> QED BY <1>2, <1>4, <2>1 DEF ahead
<1>5. ASSUME i # j PROVE ahead(i, decrementIndex(j)) = ahead(i, j) - 1
  <2>1. decrementIndex(j) = IF j = 0 THEN m - 1 ELSE j - 1
    BY Neighbours
  <2> QED BY <1>2, <1>5, <2>1 DEF ahead
<1> QED BY <1>1, <1>3, <1>4, <1>5 DEF ahead

\* On a run of slots that are not empty there are at most as many as keys, one
\* more if a key may occur twice.
LEMMA AheadCount ==
  ASSUME NEW i \in Slot, NEW d \in 0 .. m
  PROVE  LET S == {t \in Slot : ahead(i, t) < d} IN IsFiniteSet(S) /\ Cardinality(S) = d
<1> DEFINE S == {t \in Slot : ahead(i, t) < d}
           f == [t \in S |-> ahead(i, t)]
<1>1. f \in [S -> 0 .. d - 1]
  BY AheadFacts, Sizes
<1>2. \A t, u \in S : f[t] = f[u] => t = u
  BY Sizes DEF ahead
<1>3. ASSUME NEW a \in 0 .. d - 1 PROVE \E t \in S : f[t] = a
  <2> DEFINE t == IF i + a < m THEN i + a ELSE i + a - m
  <2>1. t \in Slot /\ ahead(i, t) = a
    BY Sizes DEF ahead
  <2>2. t \in S
    BY <2>1
  <2> QED BY <2>1, <2>2
<1>4. f \in Bijection(S, 0 .. d - 1)
  BY <1>1, <1>2, <1>3 DEF Bijection, Injection, Surjection, IsInjective
<1>5. IsFiniteSet(0 .. d - 1) /\ Cardinality(0 .. d - 1) = d
  <2>1. d \in Int /\ 0 \in Int /\ d - 1 \in Int /\ d >= 0
    BY Sizes
  <2> QED BY <2>1, Intervals
<1> HIDE DEF f, S
<1>6. f \in Injection(S, 0 .. d - 1) /\ f \in Surjection(S, 0 .. d - 1)
  BY <1>4 DEF Bijection
<1> QED BY <1>5, <1>6, FS_Injection DEF S

KeyTables == [Slot -> Key \union {-1}]

LEMMA RunsAreShort ==
  \A K \in KeyTables, p \in Slot, i \in Slot, d \in 0 .. m :
    /\ Distinct(K, {p})
    /\ \A t \in Slot \ {p} : ahead(i, t) < d => K[t] # -1
    => d <= Cardinality(Key) + 1
<1> SUFFICES ASSUME NEW K \in KeyTables, NEW p \in Slot, NEW i \in Slot, NEW d \in 0 .. m,
                    Distinct(K, {p}), \A t \in Slot \ {p} : ahead(i, t) < d => K[t] # -1
             PROVE  d <= Cardinality(Key) + 1
  OBVIOUS
<1> DEFINE R == {t \in Slot : ahead(i, t) < d}
           D == R \ {p}
           f == [t \in D |-> K[t]]
<1>1. IsFiniteSet(R) /\ Cardinality(R) = d
  BY AheadCount
<1>2. f \in Injection(D, Key)
  <2>1. f \in [D -> Key]
    BY DEF KeyTables
  <2>2. \A t, u \in D : f[t] = f[u] => t = u
    BY DEF Distinct
  <2> QED BY <2>1, <2>2 DEF Injection, IsInjective
<1> HIDE DEF f, R
<1>3. Cardinality(D) <= Cardinality(Key)
  <2>1. IsFiniteSet(Key)
    BY HashAssumption
  <2> HIDE DEF D
  <2> QED BY <1>2, <2>1, FS_Injection
<1>4. Cardinality(D) = IF p \in R THEN Cardinality(R) - 1 ELSE Cardinality(R)
  BY <1>1, FS_RemoveElement
<1> QED BY <1>1, <1>3, <1>4, Sizes

\* Slots are told apart by how far ahead they are, and a way over a slot is the
\* sum of the ways to it and from it.
LEMMA AheadOrder ==
  \A i, j, k \in Slot : /\ ahead(i, j) = ahead(i, k) => j = k
                        /\ ahead(i, k) = ahead(i, j) + ahead(j, k)
                             \/ ahead(i, k) + m = ahead(i, j) + ahead(j, k)
                        /\ ahead(i, j) + ahead(j, k) < m => ahead(i, k) = ahead(i, j) + ahead(j, k)
                        /\ ahead(i, j) <= ahead(i, k) => ahead(j, k) = ahead(i, k) - ahead(i, j)
                        /\ i # j => ahead(i, j) + ahead(j, i) = m
BY Sizes DEF ahead

-----------------------------------------------------------------------------
(***************************************************************************)
(* Tables of keys.                                                         *)
(***************************************************************************)
Hashes == [Key -> Slot]

\* There is a key, and so there are three slots.
LEMMA ThreeSlots ==
  ASSUME NEW k \in Key
  PROVE  k \in Nat /\ Cardinality(Key) >= 1 /\ m >= 3
<1>1. Cardinality(Key) # 0
  BY HashAssumption, FS_EmptySet
<1> QED BY <1>1, Sizes, HashAssumption

\* What a slot holds.
LEMMA Entry ==
  \A K \in KeyTables, hash \in Hashes, i \in Slot :
    K[i] \in Int /\ (K[i] # -1 => K[i] \in Key /\ K[i] \in Nat /\ hash[K[i]] \in Slot)
<1> SUFFICES ASSUME NEW K \in KeyTables, NEW hash \in Hashes, NEW i \in Slot
             PROVE  K[i] \in Int /\ (K[i] # -1 => K[i] \in Key /\ K[i] \in Nat /\ hash[K[i]] \in Slot)
  OBVIOUS
<1>1. K[i] = -1 \/ K[i] \in Key
  BY DEF KeyTables
<1>2. K[i] \in Key => hash[K[i]] \in Slot /\ K[i] \in Nat
  BY HashAssumption DEF Hashes
<1> QED BY <1>1, <1>2

\* A key that has been passed over by a larger one goes on to the next slot.
LEMMA PassedNext ==
  \A K \in KeyTables, hash \in Hashes, k \in Key, j \in Slot :
    Distinct(K, {}) /\ Passed(hash, K, k, j) /\ K[j] > k => Passed(hash, K, k, incrementIndex(j))
<1> SUFFICES ASSUME NEW K \in KeyTables, NEW hash \in Hashes, NEW k \in Key, NEW j \in Slot,
                    Distinct(K, {}), Passed(hash, K, k, j), K[j] > k
             PROVE  Passed(hash, K, k, incrementIndex(j))
  OBVIOUS
<1> DEFINE i0 == hash[k]
           d == ahead(i0, j)
<1>1. i0 \in Slot /\ d \in 0 .. m - 1 /\ k \in Nat /\ m >= 3 /\ m \in Nat
  BY AheadFacts, ThreeSlots, Sizes DEF Hashes
<1>2. \A t \in Slot : ahead(i0, t) < d + 1 => K[t] > k
  <2> SUFFICES ASSUME NEW t \in Slot, ahead(i0, t) < d + 1 PROVE K[t] > k
    OBVIOUS
  <2>1. ahead(i0, t) \in 0 .. m - 1
    BY <1>1, AheadFacts
  <2>2. ahead(i0, t) < d \/ t = j
    BY <1>1, <2>1, AheadOrder
  <2> QED BY <2>2 DEF Passed
<1>3. d + 1 <= Cardinality(Key) + 1
  <2>1. Distinct(K, {j})
    BY DEF Distinct
  <2>2. \A t \in Slot : ahead(i0, t) < d + 1 => K[t] # -1
    BY <1>1, <1>2
  <2>3. d + 1 \in 0 .. m
    BY <1>1
  <2> HIDE DEF d, i0
  <2> QED BY <1>1, <2>1, <2>2, <2>3, RunsAreShort
<1>4. d < m - 1
  BY <1>1, <1>3, Sizes
<1>5. ahead(i0, incrementIndex(j)) = d + 1
  BY <1>1, <1>4, AheadFacts
<1> QED BY <1>2, <1>5 DEF Passed

\* What a table with the key k in slot j in place of a lesser one looks like.
LEMMA InsertKey ==
  \A K \in KeyTables, hash \in Hashes, k \in Key, j \in Slot :
    Resting(hash, K, {}) /\ Passed(hash, K, k, j) /\ K[j] < k =>
      /\ [K EXCEPT ![j] = k] \in KeyTables
      /\ Resting(hash, [K EXCEPT ![j] = k], {})
      /\ \A i \in Slot : K[i] # k
      /\ K[j] # -1 => Passed(hash, [K EXCEPT ![j] = k], K[j], incrementIndex(j))
<1> SUFFICES ASSUME NEW K \in KeyTables, NEW hash \in Hashes, NEW k \in Key, NEW j \in Slot,
                    Resting(hash, K, {}), Passed(hash, K, k, j), K[j] < k
             PROVE  /\ [K EXCEPT ![j] = k] \in KeyTables
                    /\ Resting(hash, [K EXCEPT ![j] = k], {})
                    /\ \A i \in Slot : K[i] # k
                    /\ K[j] # -1 => Passed(hash, [K EXCEPT ![j] = k], K[j], incrementIndex(j))
  OBVIOUS
<1> DEFINE L == [K EXCEPT ![j] = k]
<1>1. /\ L \in KeyTables /\ L[j] = k /\ \A i \in Slot : i # j => L[i] = K[i]
      /\ k \in Nat /\ hash[k] \in Slot /\ k # -1
  BY ThreeSlots DEF KeyTables, Hashes
<1>2. \A i \in Slot : K[i] \in Int /\ (K[i] # -1 => K[i] \in Key /\ K[i] \in Nat /\ hash[K[i]] \in Slot)
  BY Entry
<1>3. \A i \in Slot : K[i] # k
  <2> SUFFICES ASSUME NEW i \in Slot, K[i] = k PROVE FALSE
    OBVIOUS
  <2>1. Passed(hash, K, k, i) /\ i # j
    BY <1>1 DEF Resting, Sorted
  <2>2. ahead(hash[k], i) \in 0 .. m - 1 /\ ahead(hash[k], j) \in 0 .. m - 1
    BY <1>1, AheadFacts
  <2>3. ahead(hash[k], i) # ahead(hash[k], j)
    BY <1>1, <2>1, AheadOrder
  <2>4. ahead(hash[k], j) < ahead(hash[k], i) => K[j] > k
    BY <2>1 DEF Passed
  <2>5. ahead(hash[k], i) < ahead(hash[k], j) => K[i] > k
    BY DEF Passed
  <2> QED BY <1>1, <1>2, <2>2, <2>3, <2>4, <2>5
<1> HIDE DEF L
<1>4. Distinct(L, {})
  BY <1>1, <1>3 DEF Resting, Distinct
<1>5. \A i \in Slot : L[i] >= K[i]
  BY <1>1, <1>2
<1>6. Sorted(hash, L, {})
  <2> SUFFICES ASSUME NEW i \in Slot, L[i] # -1, NEW t \in Slot,
                      ahead(hash[L[i]], t) < ahead(hash[L[i]], i)
               PROVE  L[t] > L[i]
    BY DEF Sorted, Passed
  <2>1. CASE i = j
    <3>1. ahead(hash[k], j) \in Int
      BY <1>1, AheadFacts
    <3>2. t # j /\ K[t] > k
      BY <1>1, <2>1, <3>1 DEF Passed
    <3> QED BY <1>1, <2>1, <3>2
  <2>2. CASE i # j
    <3>1. L[i] = K[i] /\ K[t] > K[i]
      BY <1>1, <2>2 DEF Resting, Sorted, Passed
    <3> QED BY <1>2, <1>5, <3>1, <1>1
  <2> QED BY <2>1, <2>2
<1>7. ASSUME K[j] # -1 PROVE Passed(hash, L, K[j], incrementIndex(j))
  <2>1. Passed(hash, K, K[j], j)
    BY <1>7 DEF Resting, Sorted
  <2>2. Passed(hash, L, K[j], j)
    <3> SUFFICES ASSUME NEW t \in Slot, ahead(hash[K[j]], t) < ahead(hash[K[j]], j) PROVE L[t] > K[j]
      BY DEF Passed
    <3>1. K[t] > K[j]
      BY <2>1 DEF Passed
    <3> QED BY <1>1, <1>2, <1>5, <3>1
  <2>3. L[j] > K[j] /\ K[j] \in Key
    BY <1>1, <1>2, <1>7
  <2> QED BY <1>1, <1>4, <2>2, <2>3, PassedNext
<1> QED BY <1>1, <1>3, <1>4, <1>6, <1>7 DEF L, Resting

\* A key is not in the table if its way has come to a lesser one.
LEMMA AbsentKey ==
  \A K \in KeyTables, hash \in Hashes, k \in Key, j \in Slot :
    Resting(hash, K, {}) /\ Passed(hash, K, k, j) /\ K[j] < k => \A i \in Slot : K[i] # k
BY InsertKey

\* The slots up to one that is not reached by a run are few.
LEMMA GapIsShort ==
  \A K \in KeyTables, p \in Slot, q \in Slot :
    /\ Distinct(K, {p})
    /\ \A t \in Slot : 0 < ahead(p, t) /\ ahead(p, t) < ahead(p, q) => K[t] # -1
    /\ K[q] # -1
    => 2 * ahead(p, q) < m
<1> SUFFICES ASSUME NEW K \in KeyTables, NEW p \in Slot, NEW q \in Slot, Distinct(K, {p}), K[q] # -1,
                    \A t \in Slot : 0 < ahead(p, t) /\ ahead(p, t) < ahead(p, q) => K[t] # -1
             PROVE  2 * ahead(p, q) < m
  OBVIOUS
<1> DEFINE d == ahead(p, q)
<1>1. d \in 0 .. m - 1 /\ m \in Nat
  BY AheadFacts, Sizes
<1>2. \A t \in Slot \ {p} : ahead(p, t) < d + 1 => K[t] # -1
  <2> SUFFICES ASSUME NEW t \in Slot \ {p}, ahead(p, t) < d + 1 PROVE K[t] # -1
    OBVIOUS
  <2>1. ahead(p, t) \in 0 .. m - 1 /\ ahead(p, t) # 0
    BY AheadFacts
  <2>2. ahead(p, t) < d \/ t = q
    BY <1>1, <2>1, AheadOrder
  <2> QED BY <2>1, <2>2
<1>3. d + 1 <= Cardinality(Key) + 1
  <2>1. d + 1 \in 0 .. m
    BY <1>1
  <2> HIDE DEF d
  <2> QED BY <1>2, <2>1, RunsAreShort
<1> QED BY <1>1, <1>3, Sizes

\* An entry whose way leads over the slot p fits there.
LEMMA PassersFit ==
  \A K \in KeyTables, hash \in Hashes, p \in Slot, i \in Slot :
    /\ Resting(hash, K, {p}) /\ i # p /\ K[i] # -1
    /\ ahead(hash[K[i]], p) < ahead(hash[K[i]], i)
    => 2 * ahead(hash[K[i]], p) < m
<1> SUFFICES ASSUME NEW K \in KeyTables, NEW hash \in Hashes, NEW p \in Slot, NEW i \in Slot,
                    Resting(hash, K, {p}), i # p, K[i] # -1,
                    ahead(hash[K[i]], p) < ahead(hash[K[i]], i)
             PROVE  2 * ahead(hash[K[i]], p) < m
  OBVIOUS
<1> DEFINE i0 == hash[K[i]]
           d == ahead(i0, i)
<1>1. i0 \in Slot /\ K[i] \in Nat
  BY Entry
<1>2. d \in 0 .. m - 1 /\ m \in Nat /\ ahead(i0, p) \in Nat /\ ahead(i0, p) < d
  BY <1>1, AheadFacts, Sizes
<1>3. \A t \in Slot \ {p} : ahead(i0, t) < d => K[t] # -1
  BY <1>1 DEF Resting, Sorted, Passed
<1>4. d <= Cardinality(Key) + 1
  <2>1. Distinct(K, {p}) /\ d \in 0 .. m
    BY <1>2 DEF Resting
  <2> HIDE DEF d, i0
  <2> QED BY <1>1, <1>3, <2>1, RunsAreShort
<1> HIDE DEF i0, d
<1> QED BY <1>2, <1>4, Sizes DEF i0

\* The entry of slot p can go when no other one fits there before the next empty
\* slot.
LEMMA CloseGap ==
  \A K \in KeyTables, hash \in Hashes, p \in Slot, q \in Slot :
    Resting(hash, K, {p}) /\ NoneFits(hash, K, p, q) /\ q # p /\ K[q] = -1 =>
      Resting(hash, [K EXCEPT ![p] = -1], {})
<1> SUFFICES ASSUME NEW K \in KeyTables, NEW hash \in Hashes, NEW p \in Slot, NEW q \in Slot,
                    Resting(hash, K, {p}), NoneFits(hash, K, p, q), q # p, K[q] = -1
             PROVE  Resting(hash, [K EXCEPT ![p] = -1], {})
  OBVIOUS
<1> DEFINE L == [K EXCEPT ![p] = -1]
<1>1. L[p] = -1 /\ \A i \in Slot \ {p} : L[i] = K[i]
  BY DEF KeyTables
<1> HIDE DEF L
<1>2. Distinct(L, {})
  BY <1>1 DEF Resting, Distinct
<1>3. ASSUME NEW i \in Slot \ {p}, K[i] # -1, ahead(hash[K[i]], p) < ahead(hash[K[i]], i)
      PROVE  FALSE
  <2> DEFINE i0 == hash[K[i]]
  <2>1. i0 \in Slot /\ K[i] \in Nat
    BY <1>3, Entry
  <2>2. 2 * ahead(i0, p) < m
    BY <1>3, PassersFit
  <2> HIDE DEF i0
  <2>3. /\ ahead(i0, p) \in 0 .. m - 1 /\ ahead(i0, i) \in 0 .. m - 1 /\ ahead(i0, q) \in 0 .. m - 1
        /\ ahead(p, i) \in 0 .. m - 1 /\ ahead(p, q) \in 0 .. m - 1
        /\ ahead(p, i) # 0 /\ i # q
    BY <1>3, <2>1, AheadFacts
  <2>4. ahead(p, i) # ahead(p, q)
    BY <2>3, AheadOrder
  <2>5. CASE ahead(p, i) < ahead(p, q)
    <3>1. 2 * ahead(i0, p) > m
      BY <1>3, <2>3, <2>5 DEF NoneFits, i0
    <3> QED BY <2>2, <2>3, <3>1, Sizes
  <2>6. CASE ahead(p, q) < ahead(p, i)
    <3>1. ahead(i0, i) = ahead(i0, p) + ahead(p, i)
      BY <1>3, <2>1, <2>3, AheadOrder, Sizes DEF i0
    <3>2. ahead(i0, q) = ahead(i0, p) + ahead(p, q)
      BY <2>1, <2>3, <2>6, <3>1, AheadOrder, Sizes
    <3>3. ahead(i0, q) < ahead(i0, i)
      BY <2>3, <2>6, <3>1, <3>2
    <3>4. K[q] > K[i]
      BY <1>3, <3>3 DEF Resting, Sorted, Passed, i0
    <3> QED BY <2>1, <3>4
  <2> QED BY <2>3, <2>4, <2>5, <2>6
<1>4. Sorted(hash, L, {})
  <2> SUFFICES ASSUME NEW i \in Slot, L[i] # -1, NEW t \in Slot,
                      ahead(hash[L[i]], t) < ahead(hash[L[i]], i)
               PROVE  L[t] > L[i]
    BY DEF Sorted, Passed
  <2>1. i # p /\ L[i] = K[i]
    BY <1>1
  <2>2. t # p
    BY <1>3, <2>1
  <2>3. K[t] > K[i]
    BY <2>1 DEF Resting, Sorted, Passed
  <2> QED BY <1>1, <2>1, <2>2, <2>3
<1> QED BY <1>2, <1>4 DEF L, Resting

\* The nearest entry that fits can be copied to the slot p, and its old slot is
\* then the one whose entry may go.
LEMMA MoveKey ==
  \A K \in KeyTables, hash \in Hashes, p \in Slot, q \in Slot :
    /\ Resting(hash, K, {p}) /\ K[p] # -1
    /\ NoneFits(hash, K, p, q) /\ q # p
    /\ K[q] # -1 /\ 2 * ahead(hash[K[q]], p) <= m
    => Resting(hash, [K EXCEPT ![p] = K[q]], {q})
<1> SUFFICES ASSUME NEW K \in KeyTables, NEW hash \in Hashes, NEW p \in Slot, NEW q \in Slot,
                    Resting(hash, K, {p}), K[p] # -1, NoneFits(hash, K, p, q), q # p,
                    K[q] # -1, 2 * ahead(hash[K[q]], p) <= m
             PROVE  Resting(hash, [K EXCEPT ![p] = K[q]], {q})
  OBVIOUS
<1> DEFINE L == [K EXCEPT ![p] = K[q]]
           y == K[q]
           y0 == hash[y]
<1>1. L[p] = y /\ \A i \in Slot \ {p} : L[i] = K[i]
  BY DEF KeyTables
<1>2. y0 \in Slot /\ y \in Nat /\ m \in Nat
  BY Entry, Sizes
<1> HIDE DEF L
<1>3. 2 * ahead(p, q) < m /\ 2 * ahead(y0, p) <= m
  <2>1. \A t \in Slot : 0 < ahead(p, t) /\ ahead(p, t) < ahead(p, q) => K[t] # -1
    BY DEF NoneFits
  <2>2. Distinct(K, {p})
    BY DEF Resting
  <2> QED BY <2>1, <2>2, GapIsShort
<1> HIDE DEF y, y0
<1>4. /\ ahead(p, q) \in 0 .. m - 1 /\ ahead(p, q) # 0
      /\ ahead(y0, p) \in 0 .. m - 1 /\ ahead(y0, q) \in 0 .. m - 1
  BY <1>2, AheadFacts
<1>5. ahead(y0, q) = ahead(y0, p) + ahead(p, q)
  BY <1>2, <1>3, <1>4, AheadOrder
<1>6. Distinct(L, {q})
  BY <1>1 DEF Resting, Distinct, y
<1>7. Passed(hash, L, y, p)
  <2> SUFFICES ASSUME NEW t \in Slot, ahead(y0, t) < ahead(y0, p) PROVE L[t] > y
    BY DEF Passed, y0
  <2>1. ahead(y0, t) < ahead(y0, q) /\ t # p
    BY <1>2, <1>4, <1>5, AheadFacts
  <2>2. K[t] > y
    BY <2>1 DEF Resting, Sorted, Passed, y, y0
  <2> QED BY <1>1, <2>1, <2>2
<1>8. ASSUME NEW i \in Slot, i # p, i # q, K[i] # -1, ahead(hash[K[i]], p) < ahead(hash[K[i]], i)
      PROVE  y > K[i]
  <2> DEFINE i0 == hash[K[i]]
  <2>1. i0 \in Slot /\ K[i] \in Nat
    BY <1>8, Entry
  <2>2. 2 * ahead(i0, p) < m
    BY <1>8, PassersFit
  <2> HIDE DEF i0
  <2>3. /\ ahead(i0, p) \in 0 .. m - 1 /\ ahead(i0, i) \in 0 .. m - 1 /\ ahead(i0, q) \in 0 .. m - 1
        /\ ahead(p, i) \in 0 .. m - 1 /\ ahead(p, i) # 0
    BY <1>8, <2>1, AheadFacts
  <2>4. ahead(p, i) # ahead(p, q)
    BY <1>8, AheadOrder
  <2>5. CASE ahead(p, i) < ahead(p, q)
    <3>1. 2 * ahead(i0, p) > m
      BY <1>8, <2>3, <2>5 DEF NoneFits, i0
    <3> QED BY <1>2, <2>2, <2>3, <3>1
  <2>6. CASE ahead(p, q) < ahead(p, i)
    <3>1. ahead(i0, i) = ahead(i0, p) + ahead(p, i)
      BY <1>2, <1>8, <2>1, <2>3, AheadOrder DEF i0
    <3>2. ahead(i0, q) = ahead(i0, p) + ahead(p, q)
      BY <1>2, <1>4, <2>1, <2>3, <2>6, <3>1, AheadOrder
    <3>3. ahead(i0, q) < ahead(i0, i)
      BY <1>4, <2>3, <2>6, <3>1, <3>2
    <3> QED BY <1>8, <3>3 DEF Resting, Sorted, Passed, i0, y
  <2> QED BY <1>4, <2>3, <2>4, <2>5, <2>6
<1>9. Sorted(hash, L, {q})
  <2> SUFFICES ASSUME NEW i \in Slot \ {q}, L[i] # -1, NEW t \in Slot,
                      ahead(hash[L[i]], t) < ahead(hash[L[i]], i)
               PROVE  L[t] > L[i]
    BY DEF Sorted, Passed
  <2>1. CASE i = p
    BY <1>1, <1>7, <2>1 DEF Passed
  <2>2. CASE i # p
    <3>1. L[i] = K[i]
      BY <1>1, <2>2
    <3>2. CASE t = p
      BY <1>1, <1>8, <2>2, <3>1, <3>2
    <3>3. CASE t # p
      <4>1. K[t] > K[i]
        BY <2>2, <3>1 DEF Resting, Sorted, Passed
      <4> QED BY <1>1, <3>1, <3>3, <4>1
    <3> QED BY <3>2, <3>3
  <2> QED BY <2>1, <2>2
<1> QED BY <1>6, <1>9 DEF L, y, Resting

\* The search for an entry that fits goes on to the next slot, and never comes
\* back to the slot p.
LEMMA SearchNext ==
  \A K \in KeyTables, hash \in Hashes, p \in Slot, q \in Slot :
    /\ Resting(hash, K, {p}) /\ K[p] # -1 /\ NoneFits(hash, K, p, q) /\ q # p
    /\ K[q] # -1 /\ 2 * ahead(hash[K[q]], p) > m
    => /\ NoneFits(hash, K, p, incrementIndex(q)) /\ incrementIndex(q) # p
       /\ ahead(p, incrementIndex(q)) = ahead(p, q) + 1
<1> SUFFICES ASSUME NEW K \in KeyTables, NEW hash \in Hashes, NEW p \in Slot, NEW q \in Slot,
                    Resting(hash, K, {p}), K[p] # -1, NoneFits(hash, K, p, q), q # p,
                    K[q] # -1, 2 * ahead(hash[K[q]], p) > m
             PROVE  /\ NoneFits(hash, K, p, incrementIndex(q)) /\ incrementIndex(q) # p
                    /\ ahead(p, incrementIndex(q)) = ahead(p, q) + 1
  OBVIOUS
<1>1. 2 * ahead(p, q) < m
  <2>1. \A t \in Slot : 0 < ahead(p, t) /\ ahead(p, t) < ahead(p, q) => K[t] # -1
    BY DEF NoneFits
  <2>2. Distinct(K, {p})
    BY DEF Resting
  <2> QED BY <2>1, <2>2, GapIsShort
<1>2. m \in Nat /\ m >= 3 /\ ahead(p, q) \in 0 .. m - 1 /\ incrementIndex(q) \in Slot
  <2>1. K[q] \in Key
    BY Entry
  <2>2. m >= 3
    BY <2>1, ThreeSlots
  <2> QED BY <2>2, Sizes, AheadFacts, Neighbours
<1>3. ahead(p, incrementIndex(q)) = ahead(p, q) + 1
  BY <1>1, <1>2, AheadFacts
<1>4. incrementIndex(q) # p
  BY <1>2, <1>3, AheadFacts
<1>5. NoneFits(hash, K, p, incrementIndex(q))
  <2> SUFFICES ASSUME NEW t \in Slot, 0 < ahead(p, t), ahead(p, t) < ahead(p, q) + 1
               PROVE  K[t] # -1 /\ 2 * ahead(hash[K[t]], p) > m
    BY <1>3 DEF NoneFits
  <2>1. ahead(p, t) \in 0 .. m - 1
    BY AheadFacts
  <2>2. ahead(p, t) < ahead(p, q) \/ t = q
    BY <1>2, <2>1, AheadOrder
  <2> QED BY <2>2 DEF NoneFits
<1> QED BY <1>3, <1>4, <1>5

\* Only one table holds given entries in the order of their priorities: of the
\* largest key that two of them hold in different slots, one copy is on the way
\* of the other.
LEMMA OneTable ==
  \A K \in KeyTables, L \in KeyTables, hash \in Hashes :
    /\ Resting(hash, K, {}) /\ Resting(hash, L, {})
    /\ \A k \in Key : (\E i \in Slot : K[i] = k) <=> (\E i \in Slot : L[i] = k)
    => K = L
<1> SUFFICES ASSUME NEW K \in KeyTables, NEW L \in KeyTables, NEW hash \in Hashes,
                    Resting(hash, K, {}), Resting(hash, L, {}),
                    \A k \in Key : (\E i \in Slot : K[i] = k) <=> (\E i \in Slot : L[i] = k)
             PROVE  K = L
  OBVIOUS
<1> DEFINE B == {k \in Key : \E i \in Slot : K[i] # L[i] /\ (K[i] = k \/ L[i] = k)}
           R == {y \in B \X B : y[1] < y[2]}
<1>1. \A i \in Slot : /\ K[i] \in Int /\ (K[i] # -1 => K[i] \in Key /\ K[i] \in Nat /\ hash[K[i]] \in Slot)
                     /\ L[i] \in Int /\ (L[i] # -1 => L[i] \in Key /\ L[i] \in Nat /\ hash[L[i]] \in Slot)
  BY Entry
<1> SUFFICES ASSUME B # {} PROVE FALSE
  <2>1. \A i \in Slot : K[i] = L[i]
    BY <1>1
  <2> QED BY <2>1 DEF KeyTables
<1>2. PICK k \in B : \A y \in B : y <= k
  <2>1. IsFiniteSet(B)
    BY HashAssumption, FS_Subset
  <2>2. B \subseteq Nat
    BY HashAssumption
  <2> HIDE DEF B
  <2>3. Orders(R, B)
    BY <2>2 DEF Orders
  <2>4. PICK k \in B : \A y \in B \ {k} : <<y, k>> \in R
    BY <2>1, <2>3, LastExists
  <2> HIDE DEF R
  <2>5. \A y \in B \ {k} : y < k
    BY <2>4 DEF R
  <2> QED BY <2>2, <2>5
<1>3. PICK i \in Slot, j \in Slot : K[i] = k /\ L[j] = k
  BY <1>1
<1>4. \A t \in Slot : K[t] > k \/ L[t] > k => K[t] = L[t]
  <2> SUFFICES ASSUME NEW t \in Slot, K[t] > k \/ L[t] > k, K[t] # L[t] PROVE FALSE
    OBVIOUS
  <2>1. k \in Nat
    BY HashAssumption
  <2>2. (K[t] > k => K[t] \in B) /\ (L[t] > k => L[t] \in B)
    BY <1>1, <2>1
  <2> QED BY <1>1, <1>2, <2>1, <2>2
<1>5. k \in Nat /\ hash[k] \in Slot /\ k # -1
  BY <1>1, <1>3, HashAssumption DEF Hashes
<1>6. Passed(hash, K, k, i) /\ Passed(hash, L, k, j)
  BY <1>3, <1>5 DEF Resting, Sorted
<1>7. i = j
  <2>1. ahead(hash[k], i) \in Nat /\ ahead(hash[k], j) \in Nat
    BY <1>5, AheadFacts
  <2>2. ~ (ahead(hash[k], i) < ahead(hash[k], j))
    BY <1>3, <1>4, <1>5, <1>6 DEF Passed
  <2>3. ~ (ahead(hash[k], j) < ahead(hash[k], i))
    BY <1>3, <1>4, <1>5, <1>6 DEF Passed
  <2> QED BY <1>5, <2>1, <2>2, <2>3, AheadOrder
<1>8. \A t \in Slot : K[t] = k \/ L[t] = k => t = i
  BY <1>3, <1>5, <1>7 DEF Resting, Distinct
<1> QED BY <1>3, <1>7, <1>8

-----------------------------------------------------------------------------
(***************************************************************************)
(* Tables of elements.                                                     *)
(***************************************************************************)
Entry0 == Elem \union {Empty}
Tables == [Slot -> Entry0]
KeysOf(T) == [i \in Slot |-> getKey(T[i])]
HeldIn(K) == {K[i] : i \in Slot} \ {-1}

\* Elements and their keys.
LEMMA ElemFacts ==
  /\ \A e \in Elem : getKey(e) \in Key /\ getKey(e) \in Nat /\ e[2] \in Nat /\ e # Empty
  /\ getKey(Empty) = -1
  /\ \A e \in Entry0 : getKey(e) \in Int /\ getKey(e) \in Key \union {-1} /\ (e = Empty <=> getKey(e) = -1)
<1>1. \A e \in Elem : getKey(e) \in Key /\ getKey(e) \in Nat /\ e[2] \in Nat
  BY HashAssumption DEF Elem, getKey
<1>2. getKey(Empty) = -1
  BY DEF getKey, Empty
<1>3. \A e \in Elem : e # Empty
  BY <1>1, <1>2
<1> QED BY <1>1, <1>2, <1>3 DEF Entry0

LEMMA TableFacts ==
  \A T \in Tables :
    /\ KeysOf(T) \in KeyTables
    /\ \A i \in Slot : /\ KeysOf(T)[i] = getKey(T[i])
                       /\ T[i] \in Entry0
                       /\ T[i] = Empty <=> KeysOf(T)[i] = -1
    /\ {getKey(e) : e \in {T[i] : i \in {t \in Slot : T[t] # Empty}}} = HeldIn(KeysOf(T))
<1> SUFFICES ASSUME NEW T \in Tables
             PROVE  /\ KeysOf(T) \in KeyTables
                    /\ \A i \in Slot : /\ KeysOf(T)[i] = getKey(T[i])
                                       /\ T[i] \in Entry0
                                       /\ T[i] = Empty <=> KeysOf(T)[i] = -1
                    /\ {getKey(e) : e \in {T[i] : i \in {t \in Slot : T[t] # Empty}}} = HeldIn(KeysOf(T))
  OBVIOUS
<1>1. \A i \in Slot : T[i] \in Entry0 /\ KeysOf(T)[i] = getKey(T[i])
  BY DEF Tables, KeysOf
<1>2. \A i \in Slot : T[i] = Empty <=> KeysOf(T)[i] = -1
  BY <1>1, ElemFacts
<1>3. KeysOf(T) \in KeyTables
  BY <1>1, ElemFacts DEF KeysOf, KeyTables
<1>4. {getKey(e) : e \in {T[i] : i \in {t \in Slot : T[t] # Empty}}} = HeldIn(KeysOf(T))
  BY <1>1, <1>2 DEF HeldIn
<1> QED BY <1>1, <1>2, <1>3, <1>4

\* One slot is overwritten.
LEMMA SetFacts ==
  \A T \in Tables, j \in Slot, e \in Entry0 :
    /\ Set(T, j, e) \in Tables
    /\ KeysOf(Set(T, j, e)) = [KeysOf(T) EXCEPT ![j] = getKey(e)]
    /\ Set(T, j, e)[j] = e /\ \A i \in Slot \ {j} : Set(T, j, e)[i] = T[i]
BY DEF Set, Tables, KeysOf

\* What is held then.
LEMMA HeldAfter ==
  \A K \in KeyTables, j \in Slot, k \in Key \union {-1} :
    /\ HeldIn([K EXCEPT ![j] = k]) = Others(K, j) \union ({k} \ {-1})
    /\ HeldIn(K) = Others(K, j) \union ({K[j]} \ {-1})
    /\ Distinct(K, {}) => K[j] \notin Others(K, j)
    /\ Others(K, j) \subseteq Key
<1> SUFFICES ASSUME NEW K \in KeyTables, NEW j \in Slot, NEW k \in Key \union {-1}
             PROVE  /\ HeldIn([K EXCEPT ![j] = k]) = Others(K, j) \union ({k} \ {-1})
                    /\ HeldIn(K) = Others(K, j) \union ({K[j]} \ {-1})
                    /\ Distinct(K, {}) => K[j] \notin Others(K, j)
                    /\ Others(K, j) \subseteq Key
  OBVIOUS
<1> DEFINE L == [K EXCEPT ![j] = k]
<1>1. L[j] = k /\ \A i \in Slot \ {j} : L[i] = K[i]
  BY DEF KeyTables
<1> HIDE DEF L
<1>2. HeldIn(L) = Others(K, j) \union ({k} \ {-1})
  BY <1>1 DEF HeldIn, Others
<1>3. HeldIn(K) = Others(K, j) \union ({K[j]} \ {-1})
  BY DEF HeldIn, Others
<1>4. Distinct(K, {}) => K[j] \notin Others(K, j)
  BY DEF Distinct, Others
<1>5. Others(K, j) \subseteq Key
  BY DEF Others, KeyTables
<1> QED BY <1>2, <1>3, <1>4, <1>5 DEF L

\* The tables and registers of the specification.
Facts ==
  /\ TA \in Tables /\ keys = KeysOf(TA) /\ keys \in KeyTables
  /\ hashStruct.hash \in Hashes
  /\ Held = HeldIn(keys)
  /\ \A s \in Strand : /\ v[s] \in Elem /\ arg[s] \in Elem /\ h[s] \in Slot /\ jj[s] \in Slot
                       /\ jjj[s] \in Slot /\ c[s] \in Entry0 /\ x[s] \in Entry0
                       /\ at[s] \in {"load", "reload", "swap", "replace", "recheck", "call",
                                     "scan", "look", "search", "back", "copy", "done"}
  /\ \A i \in Slot : keys[i] = getKey(TA[i]) /\ TA[i] \in Entry0 /\ (TA[i] = Empty <=> keys[i] = -1)

LEMMA StateFacts == TypeOK => Facts
<1> SUFFICES ASSUME TypeOK
             PROVE  /\ TA \in Tables /\ keys = KeysOf(TA) /\ keys \in KeyTables
                    /\ hashStruct.hash \in Hashes
                    /\ Held = HeldIn(keys)
                    /\ \A i \in Slot : keys[i] = getKey(TA[i]) /\ TA[i] \in Entry0 /\ (TA[i] = Empty <=> keys[i] = -1)
  BY DEF TypeOK, Entry0, Facts
<1>1. TA \in Tables
  BY DEF TypeOK, Tables, Entry0
<1>2. keys = KeysOf(TA)
  BY DEF keys, KeysOf
<1>3. hashStruct.hash \in Hashes
  BY HashAssumption DEF TypeOK, Hashes
<1>4. Held = HeldIn(KeysOf(TA))
  BY <1>1, TableFacts DEF Held, Entries, Occupied
<1> QED BY <1>1, <1>2, <1>3, <1>4, TableFacts

-----------------------------------------------------------------------------
(***************************************************************************)
(* Types.                                                                  *)
(***************************************************************************)
\* A register of a strand is set.
LEMMA SetStrand ==
  \A f, T, s, a : f \in [Strand -> T] /\ a \in T => Set(f, s, a) \in [Strand -> T]
BY DEF Set

\* First indices are slots.
LEMMA FirstFacts ==
  TypeOK => /\ \A e \in Elem : firstIndex(e) \in Slot /\ firstIndex(e) = hashStruct.hash[getKey(e)]
            /\ \A f \in [Strand -> Elem] : FirstIndices(f) \in [Strand -> Slot]
<1> SUFFICES ASSUME TypeOK
             PROVE  \A e \in Elem : firstIndex(e) \in Slot
  BY DEF FirstIndices, firstIndex
<1> QED BY StateFacts, ElemFacts DEF firstIndex, Hashes, Facts

\* The steps of an insertion keep the types.
LEMMA InsertType ==
  ASSUME TypeOK, NEW s \in Strand, Load(s) \/ Swap(s) \/ Replace(s) \/ Recheck(s)
  PROVE  TypeOK'
<1> USE DEF TypeOK, Entry0
<1>1. Facts
  BY StateFacts
<1>2. /\ 0 \in {0, 1} /\ 1 \in {0, 1} /\ Empty \in Elem \union {Empty}
      /\ incrementIndex(h[s]) \in Slot
      /\ TA[h[s]] \in Elem \union {Empty} /\ v[s] \in Elem /\ v[s] \in Elem \union {Empty}
  BY <1>1, Neighbours DEF Facts
<1>3. ASSUME NEW r \in {0, 1}, ReturnFrom(s, r), UNCHANGED <<table, search>>,
             TA' = TA \/ TA' = Set(TA, h[s], v[s])
      PROVE  TypeOK'
  BY <1>2, <1>3, SetStrand DEF ReturnFrom, table, search, Set
<1>4. ASSUME NextBucket(s), UNCHANGED <<table, TA, search>> PROVE TypeOK'
  BY <1>2, <1>4, SetStrand DEF NextBucket, table, search
<1>5. ASSUME NEW label \in {"swap", "replace", "reload", "recheck"}, NEW e \in Elem \union {Empty},
             Goto(s, label, e), UNCHANGED <<table, TA, search>>
      PROVE  TypeOK'
  BY <1>5, SetStrand DEF Goto, table, search
<1> HIDE DEF TypeOK, Entry0
<1>6. CASE Load(s)
  BY <1>2, <1>3, <1>4, <1>5, <1>6 DEF Load, Equal
<1>7. CASE Recheck(s)
  BY <1>2, <1>3, <1>4, <1>5, <1>7 DEF Recheck, Equal
<1>8. CASE Replace(s)
  BY <1>2, <1>3, <1>5, <1>8 DEF Replace
<1>9. CASE Swap(s)
  <2>1. CASE c[s] # Empty /\ TA' = Set(TA, h[s], v[s])
    <3>1. TA' \in Tables /\ c[s] \in Elem /\ incrementIndex(h[s]) \in Slot
      BY <1>1, <1>2, <2>1, SetFacts DEF Facts, Entry0
    <3>2. \/ /\ v' = Set(v, s, c[s]) /\ h' = Set(h, s, incrementIndex(h[s]))
             /\ at' = Set(at, s, "load") /\ c' = Set(c, s, Empty) /\ UNCHANGED <<result, table, search>>
          \/ Goto(s, "reload", Empty) /\ UNCHANGED <<table, TA, search>>
      BY <1>9, <2>1 DEF Swap
    <3>3. CASE v' = Set(v, s, c[s]) /\ h' = Set(h, s, incrementIndex(h[s]))
               /\ at' = Set(at, s, "load") /\ c' = Set(c, s, Empty) /\ UNCHANGED <<result, table, search>>
      BY <1>2, <3>1, <3>3, SetStrand DEF table, search, TypeOK, Tables, Entry0
    <3> QED BY <1>2, <1>5, <3>2, <3>3
  <2> QED BY <1>2, <1>3, <1>5, <1>9, <2>1 DEF Swap
<1> QED BY <1>6, <1>7, <1>8, <1>9

\* The steps of a deletion keep the types.
LEMMA DeleteType ==
  ASSUME TypeOK, NEW s \in Strand, Begin(s) \/ Scan(s) \/ Search(s) \/ Back(s) \/ Copy(s)
  PROVE  TypeOK'
<1> USE DEF TypeOK, Entry0
<1>1. Facts
  BY StateFacts
<1>2. /\ 0 \in Slot /\ Empty \in Elem \union {Empty}
      /\ incrementIndex(h[s]) \in Slot /\ decrementIndex(h[s]) \in Slot
      /\ incrementIndex(jj[s]) \in Slot /\ decrementIndex(jj[s]) \in Slot /\ decrementIndex(jjj[s]) \in Slot
      /\ jj[s] \in Slot
      /\ \A i \in Slot : TA[i] \in Elem \union {Empty}
  <2>1. h[s] \in Slot /\ jj[s] \in Slot /\ jjj[s] \in Slot
    BY <1>1 DEF Facts
  <2>2. 0 \in Slot
    BY <2>1, Sizes
  <2> QED BY <1>1, <2>1, <2>2, Neighbours DEF Facts
<1>3. ASSUME Leave(s), UNCHANGED <<table, result>>, TA' \in Tables, v' \in [Strand -> Elem] PROVE TypeOK'
  BY <1>2, <1>3, SetStrand DEF Leave, table, Tables
<1>4. ASSUME NEW j \in Slot, Look(s, j), UNCHANGED <<table, result>>, TA' \in Tables, v' \in [Strand -> Elem]
      PROVE  TypeOK'
  BY <1>2, <1>4, SetStrand DEF Look, table, Tables
<1>5. TA \in Tables /\ v \in [Strand -> Elem]
  BY <1>1 DEF Facts
<1>6. CASE Begin(s)
  BY <1>6, SetStrand DEF Begin, table, search
<1>7. CASE Scan(s)
  <2>1. CASE StepDown(s) /\ UNCHANGED <<table, TA, v, result>>
    BY <1>2, <1>3, <1>4, <1>5, <2>1 DEF StepDown
  <2>2. CASE Leave(s) /\ UNCHANGED <<table, TA, v, result>>
    BY <1>3, <1>5, <2>2
  <2>3. CASE /\ at' = Set(at, s, "search") /\ c' = Set(c, s, TA[h[s]])
             /\ jj' = Set(jj, s, incrementIndex(h[s])) /\ UNCHANGED <<h, jjj, x, table, TA, v, result>>
    <3>1. TA[h[s]] \in Elem \union {Empty}
      BY <1>1 DEF Facts
    <3> QED BY <1>2, <2>3, <3>1, SetStrand DEF table
  <2>4. CASE h' = Set(h, s, incrementIndex(h[s])) /\ UNCHANGED <<at, c, search, table, TA, v, result>>
    BY <1>2, <2>4, SetStrand DEF table, search
  <2> QED BY <1>7, <2>1, <2>2, <2>3, <2>4 DEF Scan
<1>8. ASSUME NEW k \in Slot, AfterSearch(s, k), UNCHANGED <<table, TA, v, h, c, result>>,
             x' \in [Strand -> Elem \union {Empty}], jj' \in [Strand -> Slot]
      PROVE  TypeOK'
  BY <1>8, SetStrand DEF AfterSearch, table
<1>9. CASE Search(s)
  <2>1. x' \in [Strand -> Elem \union {Empty}]
    BY <1>2, <1>9, SetStrand DEF Search
  <2>2. CASE AfterSearch(s, decrementIndex(jj[s])) /\ UNCHANGED jj
    BY <1>2, <1>8, <1>9, <2>1, <2>2 DEF Search
  <2>3. CASE jj' = Set(jj, s, incrementIndex(jj[s])) /\ UNCHANGED <<jjj, at>>
    BY <1>2, <1>9, <2>1, <2>3, SetStrand DEF Search, table
  <2> QED BY <1>9, <2>2, <2>3 DEF Search
<1>10. CASE Back(s)
  <2>1. x' \in [Strand -> Elem \union {Empty}]
    BY <1>1, <1>2, <1>10, SetStrand DEF Back, Facts
  <2> QED BY <1>2, <1>8, <1>10, <2>1 DEF Back
<1>11. CASE Copy(s)
  <2>1. CASE /\ TA' = Set(TA, h[s], x[s]) /\ UNCHANGED <<table, result>>
             /\ \/ x[s] = Empty /\ Leave(s) /\ UNCHANGED v
                \/ x[s] # Empty /\ v' = Set(v, s, x[s]) /\ Look(s, jj[s])
    <3>1. TA' \in Tables
      BY <1>1, <2>1, SetFacts DEF Facts
    <3>2. CASE x[s] = Empty /\ Leave(s) /\ UNCHANGED v
      BY <1>3, <1>5, <2>1, <3>1, <3>2
    <3>3. CASE x[s] # Empty /\ v' = Set(v, s, x[s]) /\ Look(s, jj[s])
      <4>1. x[s] \in Elem
        BY <1>1, <3>3 DEF Facts
      <4>2. v' \in [Strand -> Elem]
        BY <3>3, <4>1, SetStrand
      <4> QED BY <1>2, <1>4, <2>1, <3>1, <3>3, <4>2
    <3> QED BY <2>1, <3>2, <3>3
  <2>2. CASE StepDown(s) /\ UNCHANGED <<TA, v, table, result>>
    BY <1>2, <1>3, <1>4, <1>5, <2>2 DEF StepDown
  <2> QED BY <1>11, <2>1, <2>2 DEF Copy
<1> QED BY <1>6, <1>7, <1>9, <1>10, <1>11

\* A new loop starts with the table as it is.
LEMMA NextPhaseFacts ==
  ASSUME TypeOK, NextPhase
  PROVE  /\ TypeOK'
         /\ UNCHANGED <<hashStruct, TA>> /\ phase' = phase + 1 /\ v' = arg'
         /\ Quiescent
         /\ \A s \in Strand : /\ arg'[s] \in Elem
                              /\ h'[s] = firstIndex(arg'[s])
                              /\ at'[s] = IF kind' = "insert" THEN "load" ELSE "call"
                              /\ result'[s] = 0
<1>1. kind' \in {"insert", "delete"} /\ arg' \in Args(kind')
  BY DEF NextPhase
<1>2. arg' \in [Strand -> Elem]
  BY <1>1, HashAssumption
<1>3. FirstIndices(arg') \in [Strand -> Slot]
  BY <1>2, FirstFacts
<1>4. /\ Nothing \in [Strand -> Elem \union {Empty}]
      /\ Zero \in [Strand -> {0, 1}]
      /\ Zero \in [Strand -> Slot]
  <2>1. \A s \in Strand : 0 \in Slot
    BY <1>3, Sizes
  <2> QED BY <2>1 DEF Nothing, Zero
<1>5. phase' \in 1 .. MaxPhases
  BY HashAssumption DEF NextPhase, TypeOK
<1>6. [s \in Strand |-> IF kind' = "insert" THEN "load" ELSE "call"] \in
        [Strand -> {"load", "reload", "swap", "replace", "recheck", "call",
                    "scan", "look", "search", "back", "copy", "done"}]
  OBVIOUS
<1>7. TypeOK'
  BY <1>1, <1>2, <1>3, <1>4, <1>5, <1>6 DEF NextPhase, TypeOK
<1>8. \A s \in Strand : arg'[s] \in Elem /\ h'[s] = firstIndex(arg'[s])
  BY <1>2 DEF NextPhase, FirstIndices
<1> QED BY <1>7, <1>8 DEF NextPhase, Zero

\* Types are kept.
LEMMA TypeStep == TypeOK /\ [Next]_vars => TypeOK'
<1> SUFFICES ASSUME TypeOK, [Next]_vars PROVE TypeOK'
  OBVIOUS
<1>1. CASE UNCHANGED vars
  BY <1>1 DEF vars, TypeOK
<1>2. CASE NextPhase
  BY <1>2, NextPhaseFacts
<1>3. ASSUME NEW s \in Strand, Step(s) PROVE TypeOK'
  BY <1>3, InsertType, DeleteType DEF Step
<1> QED BY <1>1, <1>2, <1>3 DEF Next, Done

-----------------------------------------------------------------------------
(***************************************************************************)
(* The steps of an insertion, by what they do.                             *)
(***************************************************************************)
\* The comparison tells the order of the keys.
LEMMA CmpFacts ==
  \A e \in Elem, f \in Entry0 : /\ cmp(e, f) = 1 <=> getKey(f) < getKey(e)
                                /\ cmp(e, f) = 0 <=> getKey(f) = getKey(e)
                                /\ cmp(e, f) = -1 <=> getKey(f) > getKey(e)
<1> SUFFICES ASSUME NEW e \in Elem, NEW f \in Entry0
             PROVE  /\ cmp(e, f) = 1 <=> getKey(f) < getKey(e)
                    /\ cmp(e, f) = 0 <=> getKey(f) = getKey(e)
                    /\ cmp(e, f) = -1 <=> getKey(f) > getKey(e)
  OBVIOUS
<1>1. getKey(e) \in Nat /\ getKey(f) \in Int /\ (f = Empty => getKey(f) = -1)
  BY ElemFacts
<1> QED BY <1>1 DEF cmp

\* A register of one strand is set.
LEMMA SetOne ==
  ASSUME TypeOK, NEW s \in Strand
  PROVE  \A f, a : f \in {at, v, h, c, jj, jjj, x, result} =>
           Set(f, s, a)[s] = a /\ \A t \in Strand \ {s} : Set(f, s, a)[t] = f[t]
<1>1. \A f, a : DOMAIN f = Strand /\ f = [t \in Strand |-> f[t]] =>
        Set(f, s, a)[s] = a /\ \A t \in Strand \ {s} : Set(f, s, a)[t] = f[t]
  BY DEF Set
<1>2. \A f \in {at, v, h, c, jj, jjj, x, result} : DOMAIN f = Strand /\ f = [t \in Strand |-> f[t]]
  BY DEF TypeOK
<1> QED BY <1>1, <1>2

\* Nothing else than the registers of one strand and the table changes.
Alone(s) ==
  /\ UNCHANGED <<hashStruct, phase, kind, arg>>
  /\ \A t \in Strand \ {s} : /\ at'[t] = at[t] /\ v'[t] = v[t] /\ h'[t] = h[t]
                             /\ c'[t] = c[t] /\ result'[t] = result[t]

\* The strand reads, or has read in vain, and goes on.
Looks(s) ==
  /\ TA' = TA /\ v'[s] = v[s] /\ at'[s] # "done" /\ result'[s] = result[s]
  /\ \/ at'[s] = "swap" /\ h'[s] = h[s] /\ c'[s] = TA[h[s]] /\ getKey(c'[s]) < getKey(v[s])
     \/ /\ at'[s] = "replace" /\ h'[s] = h[s] /\ c'[s] = TA[h[s]]
        /\ getKey(c'[s]) = getKey(v[s]) /\ replaceQ(v[s], c'[s])
     \/ /\ at'[s] = "load" /\ h'[s] = incrementIndex(h[s])
        /\ \/ getKey(TA[h[s]]) > getKey(v[s])
           \/ at[s] = "recheck" /\ getKey(TA[h[s]]) # getKey(v[s])
     \/ at'[s] = "reload" /\ h'[s] = h[s]
     \/ at'[s] = "recheck" /\ h'[s] = h[s] /\ at[s] = "replace"

\* It finds its key and gives up.
GivesUp(s) ==
  /\ TA' = TA /\ v'[s] = v[s] /\ at'[s] = "done" /\ result'[s] = 0
  /\ getKey(TA[h[s]]) = getKey(v[s]) /\ ~ replaceQ(v[s], TA[h[s]])

\* It replaces the element of its key.
Replaces(s) ==
  /\ at[s] = "replace" /\ TA[h[s]] = c[s]
  /\ TA' = Set(TA, h[s], v[s]) /\ v'[s] = v[s] /\ at'[s] = "done" /\ result'[s] = 1

\* It fills an empty slot.
Fills(s) ==
  /\ at[s] = "swap" /\ TA[h[s]] = c[s] /\ c[s] = Empty
  /\ TA' = Set(TA, h[s], v[s]) /\ v'[s] = v[s] /\ at'[s] = "done" /\ result'[s] = 1

\* It displaces an element of less priority.
Displaces(s) ==
  /\ at[s] = "swap" /\ TA[h[s]] = c[s] /\ c[s] # Empty
  /\ TA' = Set(TA, h[s], v[s]) /\ v'[s] = c[s] /\ at'[s] = "load"
  /\ h'[s] = incrementIndex(h[s]) /\ result'[s] = result[s]

Inserts(s) == Load(s) \/ Swap(s) \/ Replace(s) \/ Recheck(s)

LEMMA InsertCases ==
  ASSUME TypeOK, NEW s \in Strand, Inserts(s)
  PROVE  /\ Alone(s) /\ at[s] \in {"load", "reload", "swap", "replace", "recheck"}
         /\ Looks(s) \/ GivesUp(s) \/ Replaces(s) \/ Fills(s) \/ Displaces(s)
<1>1. Facts
  BY StateFacts
<1>2. v[s] \in Elem /\ TA[h[s]] \in Entry0
  BY <1>1 DEF Facts
<1>3. \A f, a : f \in {at, v, h, c, jj, jjj, x, result} =>
        Set(f, s, a)[s] = a /\ \A t \in Strand \ {s} : Set(f, s, a)[t] = f[t]
  BY SetOne
<1>4. at[s] \in {"load", "reload", "swap", "replace", "recheck"}
  BY DEF Inserts, Load, Swap, Replace, Recheck
<1>5. Alone(s)
  BY <1>3 DEF Alone, Inserts, Load, Swap, Replace, Recheck, Equal, ReturnFrom, NextBucket, Goto, table, search
<1>6. ASSUME TA' = TA, getKey(TA[h[s]]) = getKey(v[s]), Equal(s, TA[h[s]])
      PROVE  Looks(s) \/ GivesUp(s)
  BY <1>3, <1>6 DEF Equal, ReturnFrom, Goto, Looks, GivesUp
<1>7. ASSUME TA' = TA, NextBucket(s),
             \/ getKey(TA[h[s]]) > getKey(v[s])
             \/ at[s] = "recheck" /\ getKey(TA[h[s]]) # getKey(v[s])
      PROVE  Looks(s)
  BY <1>3, <1>7 DEF NextBucket, Looks
<1>8. CASE Load(s)
  <2>1. TA' = TA
    BY <1>8 DEF Load
  <2>2. CASE cmp(v[s], TA[h[s]]) = 1 /\ Goto(s, "swap", TA[h[s]])
    <3>1. getKey(TA[h[s]]) < getKey(v[s])
      BY <1>2, <2>2, CmpFacts
    <3>2. Looks(s)
      BY <1>3, <2>1, <2>2, <3>1 DEF Goto, Looks
    <3> QED BY <1>4, <1>5, <3>2
  <2>3. CASE cmp(v[s], TA[h[s]]) = 0 /\ Equal(s, TA[h[s]])
    BY <1>2, <1>4, <1>5, <1>6, <2>1, <2>3, CmpFacts
  <2>4. CASE cmp(v[s], TA[h[s]]) = -1 /\ NextBucket(s)
    BY <1>2, <1>4, <1>5, <1>7, <2>1, <2>4, CmpFacts
  <2> QED BY <1>8, <2>2, <2>3, <2>4 DEF Load
<1>9. CASE Recheck(s)
  <2>1. TA' = TA /\ at[s] = "recheck"
    BY <1>9 DEF Recheck
  <2>2. CASE cmp(v[s], TA[h[s]]) = 0 /\ Equal(s, TA[h[s]])
    BY <1>2, <1>4, <1>5, <1>6, <2>1, <2>2, CmpFacts
  <2>3. CASE cmp(v[s], TA[h[s]]) # 0 /\ NextBucket(s)
    BY <1>2, <1>4, <1>5, <1>7, <2>1, <2>3, CmpFacts
  <2> QED BY <1>9, <2>2, <2>3 DEF Recheck
<1>10. CASE Replace(s)
  BY <1>3, <1>4, <1>5, <1>10 DEF Replace, ReturnFrom, Goto, Looks, Replaces
<1>11. CASE Swap(s)
  BY <1>3, <1>4, <1>5, <1>11 DEF Swap, ReturnFrom, Goto, Looks, Fills, Displaces
<1> QED BY <1>8, <1>9, <1>10, <1>11 DEF Inserts

-----------------------------------------------------------------------------
(***************************************************************************)
(* Insertions: the keys of the slots only rise.                            *)
(***************************************************************************)
\* The facts about a state hold after a step, too.
LEMMA StateFactsThen == TypeOK' => Facts'
<1>1. (TypeOK => Facts)'
  BY StateFacts, PTL
<1> QED BY <1>1

Rise == \A i \in Slot : keys'[i] >= keys[i]

\* What a key has passed stays above it.
LEMMA PassedStays ==
  ASSUME TypeOK, TypeOK', Rise, hashStruct' = hashStruct
  PROVE  \A k \in Key, j \in Slot :
           Passed(hashStruct.hash, keys, k, j) => Passed(hashStruct.hash, keys', k, j)
<1> SUFFICES ASSUME NEW k \in Key, NEW j \in Slot, Passed(hashStruct.hash, keys, k, j), NEW i \in Slot,
                    ahead(hashStruct.hash[k], i) < ahead(hashStruct.hash[k], j)
             PROVE  keys'[i] > k
  BY DEF Passed
<1>1. keys[i] > k /\ keys'[i] >= keys[i]
  BY DEF Passed, Rise
<1>2. keys[i] \in Int /\ keys'[i] \in Int /\ k \in Nat
  <2>1. keys \in KeyTables /\ hashStruct.hash \in Hashes /\ keys' \in KeyTables
    BY StateFacts, StateFactsThen DEF Facts
  <2> QED BY <2>1, Entry, HashAssumption
<1> QED BY <1>1, <1>2

\* What a strand relies on is not lost by the steps of others.
LEMMA InsertFrame ==
  ASSUME TypeOK, TypeOK', NEW t \in Strand, Inserting(t),
         hashStruct' = hashStruct, arg' = arg,
         at'[t] = at[t], v'[t] = v[t], h'[t] = h[t], c'[t] = c[t],
         Rise, content \subseteq content'
  PROVE  Inserting(t)'
<1>1. /\ v[t] \in Elem /\ arg[t] \in Elem /\ h[t] \in Slot /\ c[t] \in Entry0
      /\ getKey(v[t]) \in Key /\ getKey(v[t]) \in Nat
  BY StateFacts, ElemFacts DEF Facts
<1>2. keys[h[t]] \in Int /\ keys'[h[t]] \in Int /\ keys'[h[t]] >= keys[h[t]]
  <2>1. keys \in KeyTables /\ hashStruct.hash \in Hashes /\ keys' \in KeyTables
    BY StateFacts, StateFactsThen DEF Facts
  <2> QED BY <1>1, <2>1, Entry DEF Rise
<1>3. Passed(hashStruct.hash, keys, getKey(v[t]), h[t]) => Passed(hashStruct.hash, keys', getKey(v[t]), h[t])
  BY <1>1, PassedStays
<1> QED BY <1>1, <1>2, <1>3 DEF Inserting, replaceQ

\* A step writes a key where it belongs, or none.
LEMMA InsertKeys ==
  ASSUME TypeOK, TypeOK', Resting(hashStruct.hash, keys, {}), NEW s \in Strand, Inserting(s), Inserts(s)
  PROVE  /\ Looks(s) \/ GivesUp(s) \/ Replaces(s) => keys' = keys
         /\ GivesUp(s) \/ Replaces(s) => keys[h[s]] = getKey(v[s])
         /\ Fills(s) \/ Displaces(s) => /\ keys' = [keys EXCEPT ![h[s]] = getKey(v[s])]
                                        /\ keys[h[s]] = getKey(c[s]) /\ keys[h[s]] < getKey(v[s])
         /\ Passed(hashStruct.hash, keys, getKey(v[s]), h[s])
         /\ Rise /\ Resting(hashStruct.hash, keys, {})'
<1> DEFINE k == getKey(v[s])
           p == h[s]
<1>1. /\ TA \in Tables /\ keys = KeysOf(TA) /\ keys' = KeysOf(TA') /\ keys \in KeyTables
      /\ hashStruct.hash \in Hashes
      /\ v[s] \in Elem /\ v[s] \in Entry0 /\ p \in Slot /\ k \in Key /\ keys[p] = getKey(TA[p])
  BY StateFacts, StateFactsThen, ElemFacts DEF Facts, Entry0
<1>2. hashStruct' = hashStruct /\ at[s] \in {"load", "reload", "swap", "replace", "recheck"}
  BY InsertCases DEF Alone
<1>3. Passed(hashStruct.hash, keys, k, p)
  BY <1>2 DEF Inserting
<1>4. Looks(s) \/ GivesUp(s) => keys' = keys
  BY <1>1 DEF Looks, GivesUp
<1>5. ASSUME TA' = Set(TA, p, v[s]) PROVE keys' = [keys EXCEPT ![p] = k]
  BY <1>1, <1>5, SetFacts
<1>6. Replaces(s) => keys' = keys /\ keys[p] = k
  BY <1>1, <1>5 DEF Replaces, Inserting, KeyTables
<1>7. GivesUp(s) => keys[p] = k
  BY <1>1 DEF GivesUp
<1>8. Fills(s) \/ Displaces(s) => /\ keys' = [keys EXCEPT ![p] = k]
                                  /\ keys[p] = getKey(c[s]) /\ keys[p] < k
  BY <1>1, <1>5 DEF Fills, Displaces, Inserting
<1>9. CASE Looks(s) \/ GivesUp(s) \/ Replaces(s)
  <2>1. keys' = keys
    BY <1>4, <1>6, <1>9
  <2>2. \A i \in Slot : keys[i] \in Int
    BY <1>1, Entry
  <2> QED BY <1>2, <1>3, <1>4, <1>6, <1>7, <1>8, <2>1, <2>2 DEF Rise
<1>10. CASE Fills(s) \/ Displaces(s)
  <2>1. Resting(hashStruct.hash, keys', {})
    BY <1>1, <1>3, <1>8, <1>10, InsertKey
  <2>2. Rise
    <3>1. k \in Int /\ \A i \in Slot : keys[i] \in Int
      BY <1>1, Entry, ElemFacts
    <3> QED BY <1>1, <1>8, <1>10, <3>1 DEF Rise, KeyTables
  <2> QED BY <1>2, <1>3, <1>4, <1>6, <1>7, <1>8, <2>1, <2>2
<1> QED BY <1>9, <1>10, InsertCases

\* The key that a strand carries belongs to the content, or it is added.
LEMMA InsertContent ==
  ASSUME TypeOK, TypeOK', kind = "insert", Resting(hashStruct.hash, keys, {}),
         NEW s \in Strand, Inserting(s), Inserts(s)
  PROVE  /\ content' = content \/ content' = content \union {getKey(arg[s])}
         /\ at'[s] = "done" \/ v'[s] # arg[s] => getKey(arg[s]) \in content'
<1> DEFINE k == getKey(v[s])
           p == h[s]
           rest == {getKey(v[t]) : t \in Carrying \ {s}}
           own == IF v[s] # arg[s] THEN {k} ELSE {}
<1>1. /\ keys \in KeyTables /\ p \in Slot /\ k \in Key /\ k # -1 /\ Held = HeldIn(keys) /\ Held' = HeldIn(keys')
      /\ keys[p] \in Int /\ k \in Key \union {-1}
  <2>1. p \in Slot /\ TA[p] \in Entry0 /\ keys[p] = getKey(TA[p]) /\ v[s] \in Elem
    BY StateFacts DEF Facts
  <2>2. keys[p] \in Int /\ k \in Key /\ k # -1
    BY <2>1, ElemFacts
  <2> QED BY <2>1, <2>2, StateFacts, StateFactsThen DEF Facts
<1>2. Alone(s) /\ at[s] # "done" /\ kind' = "insert" /\ arg' = arg
  BY InsertCases DEF Alone
<1>3. content = Held \union rest \union own
  BY <1>2 DEF content, Carrying
<1>4. /\ Carrying' \ {s} = Carrying \ {s} /\ \A t \in Carrying \ {s} : v'[t] = v[t]
      /\ s \in Carrying' <=> at'[s] # "done" /\ v'[s] # arg[s]
  BY <1>2 DEF Alone, Carrying
<1>5. content' = Held' \union rest \union (IF at'[s] # "done" /\ v'[s] # arg[s] THEN {getKey(v'[s])} ELSE {})
  BY <1>4 DEF content
<1>6. \/ v[s] = arg[s]
      \/ getKey(arg[s]) \in content
  BY <1>2 DEF Inserting
<1> HIDE DEF rest
<1>7. CASE Looks(s)
  BY <1>3, <1>5, <1>6, <1>7, <1>1, InsertKeys DEF Looks
<1>8. CASE GivesUp(s) \/ Replaces(s)
  <2>1. keys' = keys /\ keys[p] = k /\ at'[s] = "done"
    BY <1>8, InsertKeys DEF GivesUp, Replaces
  <2>2. Held' = Held /\ k \in Held
    BY <1>1, <2>1 DEF HeldIn
  <2>3. content' = content
    BY <1>3, <1>5, <2>1, <2>2
  <2> QED BY <1>3, <1>6, <2>2, <2>3
<1>9. CASE Fills(s) \/ Displaces(s)
  <2>1. keys' = [keys EXCEPT ![p] = k] /\ keys[p] = getKey(c[s]) /\ keys[p] < k
    BY <1>9, InsertKeys
  <2>2. Held' = Others(keys, p) \union {k} /\ Held = Others(keys, p) \union ({keys[p]} \ {-1})
    <3>1. /\ HeldIn([keys EXCEPT ![p] = k]) = Others(keys, p) \union ({k} \ {-1})
          /\ HeldIn(keys) = Others(keys, p) \union ({keys[p]} \ {-1})
      BY <1>1, HeldAfter
    <3> QED BY <1>1, <2>1, <3>1
  <2>3. content' = content \union {k}
    <3>1. CASE Fills(s)
      <4>1. keys[p] = -1 /\ at'[s] = "done"
        BY <2>1, <3>1, ElemFacts DEF Fills
      <4> QED BY <1>3, <1>5, <2>2, <4>1
    <3>2. CASE Displaces(s)
      <4>1. v'[s] = c[s] /\ at'[s] # "done" /\ keys[p] # -1
        <5>1. c[s] \in Entry0
          BY StateFacts DEF Facts
        <5> QED BY <2>1, <3>2, <5>1, ElemFacts DEF Displaces
      <4>2. c[s] # arg[s]
        <5>1. getKey(arg[s]) \in Nat /\ k \in Nat /\ (v[s] = arg[s] \/ k < getKey(arg[s]))
          <6>1. arg[s] \in Elem /\ v[s] \in Elem
            BY StateFacts DEF Facts
          <6> QED BY <1>2, <6>1, ElemFacts DEF Inserting
        <5> QED BY <1>1, <2>1, <5>1
      <4> QED BY <1>3, <1>5, <2>1, <2>2, <4>1, <4>2
    <3> QED BY <1>9, <3>1, <3>2
  <2>4. v[s] # arg[s] => content' = content
    BY <1>3, <2>3
  <2> QED BY <1>6, <2>3, <2>4
<1> QED BY <1>7, <1>8, <1>9, InsertCases

\* What holds for the strand that takes the step.
LEMMA InsertOwn ==
  ASSUME TypeOK, TypeOK', kind = "insert", Resting(hashStruct.hash, keys, {}),
         NEW s \in Strand, Inserting(s), Inserts(s)
  PROVE  Inserting(s)'
<1> DEFINE k == getKey(v[s])
           p == h[s]
<1>1. /\ keys \in KeyTables /\ p \in Slot /\ k \in Key /\ k \in Nat /\ hashStruct.hash \in Hashes
      /\ keys[p] \in Int /\ keys[p] = getKey(TA[p])
      /\ getKey(arg[s]) \in Nat
  <2>1. /\ p \in Slot /\ TA[p] \in Entry0 /\ keys[p] = getKey(TA[p]) /\ v[s] \in Elem /\ arg[s] \in Elem
        /\ keys \in KeyTables /\ hashStruct.hash \in Hashes
    BY StateFacts DEF Facts
  <2> QED BY <2>1, ElemFacts
<1>2. Alone(s) /\ at[s] \in {"load", "reload", "swap", "replace", "recheck"}
  BY InsertCases
<1>3. hashStruct' = hashStruct /\ arg' = arg
  BY <1>2 DEF Alone
<1>4. at'[s] = "done" \/ v'[s] # arg[s] => getKey(arg[s]) \in content'
  BY InsertContent
<1>5. Passed(hashStruct.hash, keys, k, p) /\ (v[s] = arg[s] \/ k < getKey(arg[s]))
  BY <1>2 DEF Inserting
<1>6. CASE Looks(s)
  <2>1. keys' = keys
    BY <1>6, InsertKeys
  <2>2. keys[p] > k => Passed(hashStruct.hash, keys, k, incrementIndex(p))
    BY <1>1, <1>5, PassedNext DEF Resting
  <2>3. at[s] \in {"replace", "recheck"} => keys[p] >= k
    BY DEF Inserting
  <2> QED BY <1>1, <1>3, <1>4, <1>5, <1>6, <2>1, <2>2, <2>3 DEF Looks, Inserting, replaceQ
<1>7. CASE GivesUp(s) \/ Replaces(s) \/ Fills(s)
  BY <1>3, <1>4, <1>7 DEF GivesUp, Replaces, Fills, Inserting
<1>8. CASE Displaces(s)
  <2>1. keys' = [keys EXCEPT ![p] = k] /\ keys[p] = getKey(c[s]) /\ keys[p] < k
    BY <1>8, InsertKeys
  <2>2. keys[p] # -1
    <3>1. c[s] \in Entry0
      BY StateFacts DEF Facts
    <3> QED BY <1>8, <2>1, <3>1, ElemFacts DEF Displaces
  <2>3. Passed(hashStruct.hash, keys', keys[p], incrementIndex(p))
    BY <1>1, <1>5, <2>1, <2>2, InsertKey
  <2>4. keys[p] < getKey(arg[s])
    BY <1>1, <1>5, <2>1
  <2> QED BY <1>3, <1>4, <1>8, <2>1, <2>3, <2>4 DEF Displaces, Inserting
<1> QED BY <1>6, <1>7, <1>8, InsertCases

\* The invariant of the insertions.
LEMMA InsertStep ==
  ASSUME TypeOK, TypeOK', kind = "insert", Resting(hashStruct.hash, keys, {}),
         \A t \in Strand : Inserting(t), NEW s \in Strand, Inserts(s)
  PROVE  Resting(hashStruct.hash, keys, {})' /\ \A t \in Strand : Inserting(t)'
<1>1. Rise /\ Resting(hashStruct.hash, keys, {})'
  BY InsertKeys
<1>2. content \subseteq content'
  BY InsertContent
<1>3. Alone(s)
  BY InsertCases
<1>4. \A t \in Strand \ {s} : Inserting(t)'
  BY <1>1, <1>2, <1>3, InsertFrame DEF Alone
<1> QED BY <1>1, <1>4, InsertOwn

-----------------------------------------------------------------------------
(***************************************************************************)
(* Insertions: the data and the answers.                                   *)
(***************************************************************************)
\* An element that is lost was replaced by a greater one of its key, or it met
\* one that is no less.
LEMMA LiveStep ==
  ASSUME TypeOK, TypeOK', kind = "insert", Resting(hashStruct.hash, keys, {}),
         NEW s \in Strand, Inserting(s), Inserts(s), hashStruct.replaces
  PROVE  \A e \in Live : \E f \in Live' : getKey(f) = getKey(e) /\ f[2] >= e[2]
<1> DEFINE p == h[s]
           rest == {v[t] : t \in {u \in Strand \ {s} : at[u] # "done"}}
<1>1. /\ p \in Slot /\ v[s] \in Elem /\ v[s] \in Entry0 /\ v[s] # Empty /\ v[s][2] \in Nat
      /\ TA \in Tables /\ \A i \in Slot : TA[i] \in Entry0
      /\ TA[p] # Empty => TA[p][2] \in Nat
  <2>1. p \in Slot /\ v[s] \in Elem /\ TA \in Tables /\ \A i \in Slot : TA[i] \in Entry0
    BY StateFacts DEF Facts
  <2> QED BY <2>1, ElemFacts DEF Entry0
<1>2. Alone(s) /\ at[s] # "done"
  BY InsertCases
<1>3. Live = Entries \union rest \union {v[s]}
  BY <1>2 DEF Live
<1>4. Live' = Entries' \union rest \union (IF at'[s] # "done" THEN {v'[s]} ELSE {})
  BY <1>2 DEF Live, Alone
<1>5. \A e \in Live : e[2] >= e[2]
  <2>1. \A e \in Live : e \in Elem
    BY <1>1 DEF Live, Entries, Occupied, TypeOK
  <2> QED BY <2>1, ElemFacts
<1> HIDE DEF rest
<1>6. CASE Looks(s)
  <2>1. Live' = Live
    BY <1>3, <1>4, <1>6 DEF Looks, Entries, Occupied
  <2> QED BY <1>5, <2>1
<1>7. CASE GivesUp(s)
  <2>1. Live = Live' \union {v[s]} /\ Entries' = Entries
    BY <1>3, <1>4, <1>7 DEF GivesUp, Entries, Occupied
  <2>2. TA[p] # Empty
    BY <1>1, <1>7, ElemFacts DEF GivesUp
  <2>3. TA[p] \in Live' /\ getKey(TA[p]) = getKey(v[s]) /\ TA[p][2] >= v[s][2]
    BY <1>1, <1>4, <1>7, <2>1, <2>2 DEF GivesUp, replaceQ, Entries, Occupied
  <2> QED BY <1>5, <2>1, <2>3
<1>8. ASSUME TA' = Set(TA, p, v[s])
      PROVE  /\ v[s] \in Entries'
             /\ \A e \in Entries : e \in Entries' \/ e = TA[p]
  <2>1. TA'[p] = v[s] /\ \A i \in Slot \ {p} : TA'[i] = TA[i]
    BY <1>1, <1>8 DEF Set, Tables
  <2> QED BY <1>1, <2>1 DEF Entries, Occupied
<1>9. CASE Replaces(s)
  <2>1. getKey(TA[p]) = getKey(v[s]) /\ v[s][2] > TA[p][2]
    BY <1>2, <1>9 DEF Replaces, Inserting, replaceQ
  <2>2. TA[p] # Empty
    BY <1>1, <2>1, ElemFacts
  <2>3. v[s][2] >= TA[p][2]
    BY <1>1, <2>1, <2>2
  <2> QED BY <1>3, <1>4, <1>5, <1>8, <1>9, <2>1, <2>3 DEF Replaces
<1>10. CASE Fills(s)
  <2>1. \A e \in Entries : e # TA[p]
    BY <1>10 DEF Fills, Entries, Occupied
  <2> QED BY <1>3, <1>4, <1>5, <1>8, <1>10, <2>1 DEF Fills
<1>11. CASE Displaces(s)
  BY <1>3, <1>4, <1>5, <1>8, <1>11 DEF Displaces
<1> QED BY <1>6, <1>7, <1>9, <1>10, <1>11, InsertCases

\* So for every insertion of the first loop an element stays that is no less.
LEMMA InsertData ==
  ASSUME TypeOK, TypeOK', kind = "insert", Resting(hashStruct.hash, keys, {}),
         NEW s \in Strand, Inserting(s), Inserts(s), DataInv
  PROVE  DataInv'
<1> SUFFICES ASSUME phase = 1, hashStruct.replaces, NEW t \in Strand
             PROVE  \E e \in Live' : getKey(e) = getKey(arg[t]) /\ e[2] >= arg[t][2]
  BY InsertCases DEF DataInv, Alone
<1>1. PICK e \in Live : getKey(e) = getKey(arg[t]) /\ e[2] >= arg[t][2]
  BY DEF DataInv
<1>2. PICK f \in Live' : getKey(f) = getKey(e) /\ f[2] >= e[2]
  BY LiveStep
<1>3. e \in Elem /\ f \in Elem /\ arg[t] \in Elem
  BY DEF Live, Entries, Occupied, TypeOK
<1>4. e[2] \in Nat /\ f[2] \in Nat /\ arg[t][2] \in Nat
  BY <1>3, ElemFacts
<1> QED BY <1>1, <1>2, <1>4

\* The insertions that return 1 are those that fill a slot.
LEMMA InsertReturns ==
  ASSUME TypeOK, TypeOK', kind = "insert", Resting(hashStruct.hash, keys, {}),
         NEW s \in Strand, Inserting(s), Inserts(s), ReturnInv
  PROVE  ReturnInv'
<1> DEFINE one == {t \in Strand : result[t] = 1}
<1>1. Alone(s) /\ at[s] # "done" /\ result[s] = 0
  BY InsertCases DEF ReturnInv
<1>2. \A t \in Strand \ {s} : result'[t] = result[t] /\ at'[t] = at[t]
  BY <1>1 DEF Alone
<1>3. IsFiniteSet(one) /\ IsFiniteSet(Occupied)
  <2>1. IsFiniteSet(Slot)
    BY Sizes, FS_Interval
  <2> QED BY <2>1, HashAssumption, FS_Subset DEF Occupied
<1>4. \A t \in Strand : at'[t] # "done" => result'[t] = 0
  BY <1>1, <1>2, InsertCases DEF Looks, GivesUp, Replaces, Fills, Displaces, ReturnInv
<1> SUFFICES ASSUME phase = 1, ~ hashStruct.replaces
             PROVE  Cardinality(one') = Cardinality(Occupied')
  BY <1>1, <1>4 DEF Alone, ReturnInv, count
<1>5. Cardinality(one) = Cardinality(Occupied)
  BY DEF ReturnInv, count
<1>6. TA' = Set(TA, h[s], v[s]) =>
        h[s] \in Slot /\ TA'[h[s]] # Empty /\ \A i \in Slot \ {h[s]} : TA'[i] = TA[i]
  <2>1. TA \in Tables /\ h[s] \in Slot /\ v[s] \in Elem
    BY StateFacts DEF Facts
  <2> QED BY <2>1, SetFacts, ElemFacts DEF Entry0
<1>7. CASE Looks(s) \/ GivesUp(s)
  <2>1. one' = one
    BY <1>1, <1>2, <1>7 DEF Looks, GivesUp
  <2>2. Occupied' = Occupied
    BY <1>7 DEF Looks, GivesUp, Occupied
  <2> QED BY <1>5, <2>1, <2>2
<1>8. CASE Replaces(s)
  BY <1>8 DEF Replaces, Inserting, replaceQ
<1>9. CASE Fills(s)
  <2>1. one' = one \union {s} /\ s \notin one
    BY <1>1, <1>2, <1>9 DEF Fills
  <2>2. Occupied' = Occupied \union {h[s]} /\ h[s] \notin Occupied
    BY <1>6, <1>9 DEF Fills, Occupied
  <2> HIDE DEF one
  <2>3. Cardinality(one') = Cardinality(one) + 1
    BY <1>3, <2>1, FS_AddElement
  <2>4. Cardinality(Occupied') = Cardinality(Occupied) + 1
    BY <1>3, <2>2, FS_AddElement
  <2> QED BY <1>5, <2>3, <2>4
<1>10. CASE Displaces(s)
  <2>1. one' = one
    BY <1>1, <1>2, <1>10 DEF Displaces
  <2>2. Occupied' = Occupied
    BY <1>6, <1>10 DEF Displaces, Occupied
  <2> QED BY <1>5, <2>1, <2>2
<1> QED BY <1>7, <1>8, <1>9, <1>10, InsertCases

-----------------------------------------------------------------------------
(***************************************************************************)
(* Deletions, one after the other.                                         *)
(***************************************************************************)
Deletes(s) == Begin(s) \/ Scan(s) \/ Search(s) \/ Back(s) \/ Copy(s)

Idle(t) == at[t] \in {"call", "done"}

\* Before a deletion, and when it has returned, the others are not under way
\* either or one of them is.
Apart == \A s, t \in Strand : {at[s], at[t]} \intersect {"call", "done"} = {} => s = t

LEMMA DeleteAlone ==
  ASSUME TypeOK, ~ ConcurrentDeletes, Apart, NEW s \in Strand, Deletes(s)
  PROVE  /\ UNCHANGED <<hashStruct, phase, kind, arg, result>>
         /\ \A t \in Strand \ {s} : /\ at'[t] = at[t] /\ v'[t] = v[t] /\ h'[t] = h[t] /\ Idle(t)
         /\ at[s] # "done" /\ at'[s] # "call" /\ Apart'
<1>1. UNCHANGED <<hashStruct, phase, kind, arg, result>> /\ at[s] # "done"
  BY DEF Deletes, Begin, Scan, Search, Back, Copy, table
<1>2. \A f, a : f \in {at, v, h, c, jj, jjj, x, result} =>
        Set(f, s, a)[s] = a /\ \A t \in Strand \ {s} : Set(f, s, a)[t] = f[t]
  BY SetOne
<1>3. \A t \in Strand \ {s} : at'[t] = at[t] /\ v'[t] = v[t] /\ h'[t] = h[t]
  BY <1>2 DEF Deletes, Begin, Scan, Search, Back, Copy, StepDown, Leave, Look, AfterSearch, search
<1>4. at'[s] # "call"
  <2>1. CASE at'[s] = at[s]
    BY <1>2, <2>1 DEF Deletes, Begin, Scan, Search, Back, Copy
  <2> QED BY <1>2, <2>1 DEF Deletes, Begin, Scan, Search, Back, Copy, StepDown, Leave, Look, AfterSearch
<1>5. \A t \in Strand \ {s} : Idle(t)
  <2>1. CASE Begin(s)
    BY <2>1 DEF Begin, Idle
  <2>2. CASE ~ Begin(s)
    <3>1. at[s] \notin {"call", "done"}
      BY <2>2 DEF Deletes, Scan, Search, Back, Copy
    <3> QED BY <3>1 DEF Apart, Idle
  <2> QED BY <2>1, <2>2
<1>6. Apart'
  BY <1>3, <1>5 DEF Apart, Idle
<1> QED BY <1>1, <1>3, <1>4, <1>5, <1>6

\* Which entries may move to a slot.
LEMMA FitsFacts ==
  ASSUME TypeOK
  PROVE  \A e \in Entry0, p \in Slot :
           Fits(e, p) <=> getKey(e) = -1 \/ ~ (2 * ahead(hashStruct.hash[getKey(e)], p) > m)
<1> SUFFICES ASSUME NEW e \in Entry0, NEW p \in Slot
             PROVE  Fits(e, p) <=> getKey(e) = -1 \/ ~ (2 * ahead(hashStruct.hash[getKey(e)], p) > m)
  OBVIOUS
<1>1. CASE e = Empty
  BY <1>1, ElemFacts DEF Fits
<1>2. CASE e # Empty
  <2>1. e \in Elem /\ getKey(e) # -1
    BY <1>2, ElemFacts DEF Entry0
  <2>2. firstIndex(e) \in Slot /\ firstIndex(e) = hashStruct.hash[getKey(e)]
    BY <2>1, FirstFacts
  <2>3. hashToRange(p - firstIndex(e)) = ahead(firstIndex(e), p)
    BY <2>2, AheadFacts
  <2> QED BY <1>2, <2>1, <2>2, <2>3 DEF Fits, lessIndex
<1> QED BY <1>1, <1>2

\* A deletion that is not under way notices only that keys are gone.
LEMMA DeleteFrame ==
  ASSUME NEW t \in Strand, Deleting(t), Idle(t), hashStruct' = hashStruct, arg' = arg,
         at'[t] = at[t], v'[t] = v[t], h'[t] = h[t], Held' \subseteq Held
  PROVE  Deleting(t)' /\ ~ Moving(t)'
BY DEF Deleting, Idle, Moving, firstIndex

\* What the strand that takes a step promises.
OwnStep(s) ==
  /\ Deleting(s)'
  /\ ~ Moving(s)' => Resting(hashStruct.hash, keys, {})'
  /\ Held' = Held \/ Held' = Held \ {getKey(arg[s])}

\* The facts about the strand that the steps start from.
DelFacts(s) ==
  /\ keys \in KeyTables /\ hashStruct.hash \in Hashes /\ h[s] \in Slot /\ jj[s] \in Slot /\ jjj[s] \in Slot
  /\ v[s] \in Elem /\ arg[s] \in Elem /\ TA[h[s]] \in Entry0
  /\ getKey(v[s]) \in Key /\ getKey(v[s]) \in Nat /\ getKey(v[s]) # -1
  /\ \A i \in Slot : keys[i] = getKey(TA[i]) /\ keys[i] \in Int /\ keys[i] \in Key \union {-1}
  /\ Held = HeldIn(keys)
  /\ m \in Nat /\ m >= 3
  /\ firstIndex(arg[s]) = hashStruct.hash[getKey(arg[s])] /\ firstIndex(arg[s]) \in Slot
  /\ \A f, a : f \in {at, v, h, c, jj, jjj, x} => Set(f, s, a)[s] = a

LEMMA DelStrandFacts ==
  ASSUME TypeOK, NEW s \in Strand
  PROVE  DelFacts(s)
<1>1. Facts
  BY StateFacts
<1>2. /\ keys \in KeyTables /\ hashStruct.hash \in Hashes /\ h[s] \in Slot /\ jj[s] \in Slot /\ jjj[s] \in Slot
      /\ v[s] \in Elem /\ arg[s] \in Elem /\ TA[h[s]] \in Entry0 /\ Held = HeldIn(keys)
  BY <1>1 DEF Facts
<1>3. getKey(v[s]) \in Key /\ getKey(v[s]) \in Nat /\ getKey(v[s]) # -1
  <2>1. getKey(v[s]) \in Key /\ getKey(v[s]) \in Nat
    BY <1>2, ElemFacts
  <2> QED BY <2>1
<1>4. \A i \in Slot : keys[i] = getKey(TA[i]) /\ keys[i] \in Int /\ keys[i] \in Key \union {-1}
  <2> SUFFICES ASSUME NEW i \in Slot
               PROVE  keys[i] = getKey(TA[i]) /\ keys[i] \in Int /\ keys[i] \in Key \union {-1}
    OBVIOUS
  <2>1. keys[i] = getKey(TA[i]) /\ TA[i] \in Entry0
    BY <1>1 DEF Facts
  <2> QED BY <2>1, ElemFacts
<1>5. m \in Nat /\ m >= 3
  BY <1>3, ThreeSlots, Sizes
<1>6. firstIndex(arg[s]) = hashStruct.hash[getKey(arg[s])] /\ firstIndex(arg[s]) \in Slot
  BY <1>2, FirstFacts
<1>7. \A f, a : f \in {at, v, h, c, jj, jjj, x} => Set(f, s, a)[s] = a
  BY SetOne
<1> QED BY <1>2, <1>3, <1>4, <1>5, <1>6, <1>7 DEF DelFacts

\* While the table stays as it is, so do its keys.
LEMMA SameTable ==
  ASSUME TA' = TA, hashStruct' = hashStruct
  PROVE  keys' = keys /\ Held' = Held /\ \A e : firstIndex(e)' = firstIndex(e)
BY DEF keys, Held, Entries, Occupied, firstIndex

\* The deletion starts where its key would be first.
LEMMA BeginStep ==
  ASSUME TypeOK, kind = "delete", NEW s \in Strand, Deleting(s), Resting(hashStruct.hash, keys, {}),
         UNCHANGED <<hashStruct, arg>>, Begin(s)
  PROVE  OwnStep(s)
<1>1. DelFacts(s)
  BY DelStrandFacts
<1>2. keys' = keys /\ Held' = Held
  BY SameTable DEF Begin
<1>3. at[s] = "call" /\ at'[s] = "scan" /\ UNCHANGED <<v, h>>
  BY <1>1 DEF Begin, DelFacts
<1>4. v[s] = arg[s] /\ h[s] = hashStruct.hash[getKey(v[s])]
  BY <1>1, <1>3 DEF Deleting, DelFacts
<1>5. Passed(hashStruct.hash, keys, getKey(v[s]), h[s])
  <2>1. \A i \in Slot : ahead(h[s], i) \in Nat /\ ahead(h[s], h[s]) = 0
    BY <1>1, AheadFacts DEF DelFacts
  <2> QED BY <1>4, <2>1 DEF Passed
<1>6. Deleting(s)' /\ ~ Moving(s)'
  BY <1>2, <1>3, <1>4, <1>5 DEF Deleting, Moving
<1> QED BY <1>2, <1>6 DEF OwnStep

\* The entry that is to go has been found.
LEMMA FoundStep ==
  ASSUME TypeOK, kind = "delete", NEW s \in Strand,
         keys[h[s]] = getKey(v[s]), Resting(hashStruct.hash, keys, {h[s]}),
         getKey(arg[s]) \notin Others(keys, h[s]),
         getKey(v[s]) = getKey(arg[s]) \/ getKey(v[s]) \in Others(keys, h[s]),
         UNCHANGED <<hashStruct, arg, TA, v, h, jjj, x>>, at' = Set(at, s, "search"),
         c' = Set(c, s, TA[h[s]]), jj' = Set(jj, s, incrementIndex(h[s]))
  PROVE  OwnStep(s)
<1>1. DelFacts(s)
  BY DelStrandFacts
<1>2. keys' = keys /\ Held' = Held
  BY SameTable
<1>3. at'[s] = "search" /\ c'[s] = TA[h[s]] /\ jj'[s] = incrementIndex(h[s])
  BY <1>1 DEF DelFacts
<1>4. ahead(h[s], incrementIndex(h[s])) = 1 /\ incrementIndex(h[s]) # h[s]
  <2>1. h[s] \in Slot /\ m \in Nat /\ m >= 3 /\ incrementIndex(h[s]) \in Slot
    BY <1>1, Neighbours DEF DelFacts
  <2>2. ahead(h[s], h[s]) = 0
    BY <2>1, AheadFacts
  <2>3. ahead(h[s], incrementIndex(h[s])) = 1
    BY <2>1, <2>2, AheadFacts
  <2> QED BY <2>2, <2>3
<1>5. NoneFits(hashStruct.hash, keys, h[s], incrementIndex(h[s]))
  <2>1. \A i \in Slot : ahead(h[s], i) \in Int
    BY <1>1, AheadFacts DEF DelFacts
  <2> QED BY <1>4, <2>1 DEF NoneFits
<1>6. Deleting(s)' /\ Moving(s)'
  BY <1>2, <1>3, <1>4, <1>5 DEF Deleting, Moving
<1> QED BY <1>2, <1>6 DEF OwnStep

\* The way up ends at the key, or where it is not to be found.
LEMMA ScanStep ==
  ASSUME TypeOK, kind = "delete", NEW s \in Strand, Deleting(s),
         ~ Moving(s) => Resting(hashStruct.hash, keys, {}),
         UNCHANGED <<hashStruct, arg>>, Scan(s)
  PROVE  OwnStep(s)
<1> DEFINE k == getKey(v[s])
           p == h[s]
<1>1. DelFacts(s)
  BY DelStrandFacts
<1>2. keys' = keys /\ Held' = Held /\ firstIndex(arg[s])' = firstIndex(arg[s])
  BY SameTable DEF Scan
<1>3. /\ cmp(v[s], TA[p]) = 1 <=> keys[p] < k
      /\ cmp(v[s], TA[p]) = 0 <=> keys[p] = k
      /\ cmp(v[s], TA[p]) = -1 <=> keys[p] > k
  BY <1>1, CmpFacts DEF DelFacts
<1>4. CASE at[s] = "look"
  <2>1. CASE Moving(s)
    <3>1. keys[p] = k
      BY <2>1 DEF Deleting
    <3>2. ~ (keys[p] < k) /\ ~ (keys[p] > k)
      BY <1>1, <3>1 DEF DelFacts
    <3>3. /\ at' = Set(at, s, "search") /\ c' = Set(c, s, TA[p])
          /\ jj' = Set(jj, s, incrementIndex(p)) /\ UNCHANGED <<TA, v, h, jjj, x>>
      BY <1>3, <3>1, <3>2 DEF Scan
    <3> QED BY <2>1, <3>1, <3>3, FoundStep DEF Deleting
  <2>2. CASE ~ Moving(s)
    <3>1. keys[p] > k /\ getKey(arg[s]) \notin Held
      BY <1>4, <2>2 DEF Deleting
    <3>2. ~ (keys[p] < k) /\ keys[p] # k
      BY <1>1, <3>1 DEF DelFacts
    <3>3. Leave(s)
      BY <1>3, <1>4, <3>1, <3>2 DEF Scan
    <3>4. at'[s] = "done"
      BY <1>1, <3>3 DEF Leave, DelFacts
    <3>5. Deleting(s)'
      BY <1>2, <3>1, <3>4 DEF Deleting, Moving
    <3> QED BY <1>2, <2>2, <3>5 DEF OwnStep
  <2> QED BY <2>1, <2>2
<1>5. CASE at[s] = "scan"
  <2>1. /\ Resting(hashStruct.hash, keys, {}) /\ v[s] = arg[s]
        /\ Passed(hashStruct.hash, keys, k, p)
    BY <1>5 DEF Moving, Deleting
  <2>2. CASE keys[p] < k
    <3>1. k \notin Held
      <4>1. \A i \in Slot : keys[i] # k
        BY <1>1, <2>1, <2>2, AbsentKey DEF DelFacts
      <4> QED BY <1>1, <4>1 DEF HeldIn, DelFacts
    <3>2. StepDown(s) /\ v' = v
      BY <1>1, <1>3, <1>5, <2>2 DEF Scan, DelFacts
    <3>3. CASE p = firstIndex(arg[s]) /\ Leave(s)
      <4>1. at'[s] = "done"
        BY <1>1, <3>3 DEF Leave, DelFacts
      <4>2. Deleting(s)'
        BY <1>2, <2>1, <3>1, <4>1 DEF Deleting, Moving
      <4> QED BY <1>2, <2>1, <4>2 DEF OwnStep
    <3>4. CASE p # firstIndex(arg[s]) /\ Look(s, decrementIndex(p))
      <4>1. at'[s] = "look" /\ h'[s] = decrementIndex(p) /\ decrementIndex(p) \in Slot
        BY <1>1, <3>4, Neighbours DEF Look, DelFacts
      <4>2. keys[decrementIndex(p)] > k
        <5>1. hashStruct.hash[k] # p /\ hashStruct.hash[k] \in Slot /\ p \in Slot
          BY <1>1, <2>1, <3>4 DEF DelFacts
        <5>2. /\ ahead(hashStruct.hash[k], decrementIndex(p)) = ahead(hashStruct.hash[k], p) - 1
              /\ ahead(hashStruct.hash[k], p) \in Int
          BY <5>1, AheadFacts
        <5>3. ahead(hashStruct.hash[k], decrementIndex(p)) < ahead(hashStruct.hash[k], p)
          BY <5>2
        <5> QED BY <2>1, <4>1, <5>3 DEF Passed
      <4>3. keys[decrementIndex(p)] # k
        BY <1>1, <4>1, <4>2 DEF DelFacts
      <4>4. Deleting(s)' /\ ~ Moving(s)'
        BY <1>2, <2>1, <3>1, <3>2, <4>1, <4>2, <4>3 DEF Deleting, Moving
      <4> QED BY <1>2, <2>1, <4>4 DEF OwnStep
    <3> QED BY <3>2, <3>3, <3>4 DEF StepDown
  <2>3. CASE keys[p] = k
    <3>1. ~ (keys[p] < k) /\ ~ (keys[p] > k)
      BY <1>1, <2>3 DEF DelFacts
    <3>2. /\ at' = Set(at, s, "search") /\ c' = Set(c, s, TA[p])
          /\ jj' = Set(jj, s, incrementIndex(p)) /\ UNCHANGED <<TA, v, h, jjj, x>>
      BY <1>3, <2>3, <3>1 DEF Scan
    <3>3. Resting(hashStruct.hash, keys, {p}) /\ k \notin Others(keys, p)
      BY <1>1, <2>1, <2>3 DEF Resting, Sorted, Distinct, Others, DelFacts
    <3> QED BY <2>1, <2>3, <3>2, <3>3, FoundStep
  <2>4. CASE keys[p] > k
    <3>1. ~ (keys[p] < k) /\ keys[p] # k
      BY <1>1, <2>4 DEF DelFacts
    <3>2. h' = Set(h, s, incrementIndex(p)) /\ UNCHANGED <<at, v>>
      BY <1>3, <1>5, <2>4, <3>1 DEF Scan
    <3>3. h'[s] = incrementIndex(p) /\ at'[s] = "scan"
      BY <1>1, <1>5, <3>2 DEF DelFacts
    <3>4. Passed(hashStruct.hash, keys, k, incrementIndex(p))
      BY <1>1, <2>1, <2>4, PassedNext DEF Resting, DelFacts
    <3>5. Deleting(s)' /\ ~ Moving(s)'
      BY <1>2, <2>1, <3>2, <3>3, <3>4 DEF Deleting, Moving
    <3> QED BY <1>2, <2>1, <3>5 DEF OwnStep
  <2>5. keys[p] \in Int /\ k \in Int
    BY <1>1 DEF DelFacts
  <2> QED BY <2>2, <2>3, <2>4, <2>5
<1> QED BY <1>4, <1>5 DEF Scan

\* A deletion in search of an entry that fits into its slot.
Gap(s) ==
  LET p == h[s]
      q == jj[s]
  IN /\ Resting(hashStruct.hash, keys, {p}) /\ keys[p] = getKey(v[s])
     /\ getKey(arg[s]) \notin Others(keys, p)
     /\ getKey(v[s]) = getKey(arg[s]) \/ getKey(v[s]) \in Others(keys, p)
     /\ c[s] = TA[p] /\ q # p
     /\ NoneFits(hashStruct.hash, keys, p, q)

LEMMA GapFacts ==
  ASSUME NEW s \in Strand, Deleting(s), at[s] \in {"search", "back", "copy"}
  PROVE  Moving(s) /\ Gap(s)
BY DEF Deleting, Moving, Gap

\* The table stays and so does the gap.
LEMMA GapStays ==
  ASSUME NEW s \in Strand, Gap(s), UNCHANGED <<hashStruct, arg, TA, v, h, c>>, jj'[s] = jj[s]
  PROVE  Gap(s)'
BY SameTable DEF Gap

\* An entry that fits, or an empty slot, has been found.
LEMMA AfterSearchStep ==
  ASSUME TypeOK, NEW s \in Strand, Gap(s), UNCHANGED <<hashStruct, arg, TA, v, h, c, jj>>,
         x'[s] = TA[jj[s]], Fits(TA[jj[s]], h[s]),
         NEW k \in Slot, k = h[s] \/ ahead(h[s], k) < ahead(h[s], jj[s]),
         AfterSearch(s, k)
  PROVE  OwnStep(s)
<1>1. DelFacts(s)
  BY DelStrandFacts
<1>2. keys' = keys /\ Held' = Held /\ firstIndex(TA[jj[s]])' = firstIndex(TA[jj[s]])
  BY SameTable
<1>3. jjj'[s] = k /\ at'[s] = IF k = h[s] THEN "copy" ELSE "back"
  BY <1>1 DEF AfterSearch, DelFacts
<1>4. Gap(s)'
  BY GapStays
<1>5. Deleting(s)' /\ Moving(s)'
  BY <1>2, <1>3, <1>4 DEF Deleting, Moving, Gap, Fits
<1> QED BY <1>2, <1>5 DEF OwnStep

\* The way up looks for the first entry that fits.
LEMMA SearchStep ==
  ASSUME TypeOK, kind = "delete", NEW s \in Strand, Deleting(s), UNCHANGED <<hashStruct, arg>>, Search(s)
  PROVE  OwnStep(s)
<1> DEFINE p == h[s]
           q == jj[s]
<1>1. DelFacts(s)
  BY DelStrandFacts
<1>2. at[s] = "search" /\ x' = Set(x, s, TA[q]) /\ UNCHANGED <<TA, v, h, c>>
  BY DEF Search
<1>3. Gap(s)
  BY <1>2, GapFacts
<1>4. x'[s] = TA[q] /\ q \in Slot /\ p \in Slot /\ TA[q] \in Entry0 /\ q # p
  BY <1>1, <1>2, <1>3, StateFacts DEF DelFacts, Facts, Gap
<1>5. CASE Fits(TA[q], p)
  <2>1. AfterSearch(s, decrementIndex(q)) /\ UNCHANGED jj
    BY <1>5 DEF Search
  <2>2. decrementIndex(q) \in Slot /\ ahead(p, decrementIndex(q)) = ahead(p, q) - 1 /\ ahead(p, q) \in Int
    BY <1>4, AheadFacts, Neighbours
  <2>3. ahead(p, decrementIndex(q)) < ahead(p, q)
    BY <2>2
  <2> QED BY <1>2, <1>3, <1>4, <1>5, <2>1, <2>2, <2>3, AfterSearchStep
<1>6. CASE ~ Fits(TA[q], p)
  <2>1. jj' = Set(jj, s, incrementIndex(q)) /\ UNCHANGED <<jjj, at>>
    BY <1>6 DEF Search
  <2>2. keys' = keys /\ Held' = Held
    BY <1>2, SameTable
  <2>3. jj'[s] = incrementIndex(q) /\ at'[s] = "search"
    BY <1>1, <1>2, <2>1 DEF DelFacts
  <2>4. keys[q] # -1 /\ 2 * ahead(hashStruct.hash[keys[q]], p) > m
    BY <1>1, <1>4, <1>6, FitsFacts DEF DelFacts
  <2>5. NoneFits(hashStruct.hash, keys, p, incrementIndex(q)) /\ incrementIndex(q) # p
    <3>1. keys[p] # -1
      BY <1>1, <1>3 DEF Gap, DelFacts
    <3> QED BY <1>1, <1>3, <1>4, <2>4, <3>1, SearchNext DEF Gap, DelFacts
  <2>6. Gap(s)'
    BY <1>2, <1>3, <2>2, <2>3, <2>5 DEF Gap
  <2>7. Deleting(s)' /\ Moving(s)'
    BY <2>3, <2>6 DEF Deleting, Moving, Gap
  <2> QED BY <2>2, <2>7 DEF OwnStep
<1> QED BY <1>5, <1>6

\* The way back finds none that is nearer.
LEMMA BackStep ==
  ASSUME TypeOK, kind = "delete", NEW s \in Strand, Deleting(s), UNCHANGED <<hashStruct, arg>>, Back(s)
  PROVE  OwnStep(s)
<1> DEFINE p == h[s]
           q == jj[s]
           t == jjj[s]
<1>1. DelFacts(s)
  BY DelStrandFacts
<1>2. at[s] = "back" /\ UNCHANGED <<TA, v, h, c, jj>> /\ AfterSearch(s, decrementIndex(t))
  BY DEF Back
<1>3. Gap(s) /\ x[s] = TA[q] /\ Fits(x[s], p) /\ t # p /\ ahead(p, t) < ahead(p, q)
  BY <1>2, GapFacts DEF Deleting
<1>4. t \in Slot /\ p \in Slot /\ q \in Slot /\ TA[t] \in Entry0
  BY <1>1, StateFacts DEF DelFacts, Facts
<1>5. ahead(p, t) \in Nat /\ ahead(p, t) # 0 /\ ahead(p, q) \in Nat
  BY <1>3, <1>4, AheadFacts
<1>6. ~ Fits(TA[t], p)
  <2>1. keys[t] # -1 /\ 2 * ahead(hashStruct.hash[keys[t]], p) > m
    BY <1>3, <1>4, <1>5 DEF Gap, NoneFits
  <2> QED BY <1>1, <1>4, <2>1, FitsFacts DEF DelFacts
<1>7. x'[s] = TA[q]
  BY <1>3, <1>6 DEF Back
<1>8. decrementIndex(t) \in Slot /\ ahead(p, decrementIndex(t)) = ahead(p, t) - 1
  BY <1>3, <1>4, AheadFacts, Neighbours
<1>9. ahead(p, decrementIndex(t)) < ahead(p, q)
  BY <1>3, <1>5, <1>8
<1> QED BY <1>2, <1>3, <1>7, <1>8, <1>9, AfterSearchStep

\* The entry is overwritten; if by another one, that is deleted next.
LEMMA CopyStep ==
  ASSUME TypeOK, TypeOK', kind = "delete", NEW s \in Strand, Deleting(s), UNCHANGED <<hashStruct, arg>>, Copy(s)
  PROVE  OwnStep(s)
<1> DEFINE p == h[s]
           q == jj[s]
           K == keys
           L == [keys EXCEPT ![p] = keys[q]]
<1>1. DelFacts(s)
  BY DelStrandFacts
<1>2. at[s] = "copy"
  BY DEF Copy
<1>3. Gap(s) /\ x[s] = TA[q] /\ Fits(TA[q], p)
  BY <1>2, GapFacts DEF Deleting
<1>4. p \in Slot /\ q \in Slot /\ q # p /\ TA[q] \in Entry0 /\ TA \in Tables /\ keys = KeysOf(TA)
      /\ keys' = KeysOf(TA') /\ Held' = HeldIn(keys')
  BY <1>1, <1>3, StateFacts, StateFactsThen DEF DelFacts, Facts, Gap
<1>5. TA' = Set(TA, p, TA[q])
  BY <1>3 DEF Copy, Gap
<1>6. keys' = L /\ keys[q] = getKey(TA[q])
  <2>1. KeysOf(Set(TA, p, TA[q])) = [KeysOf(TA) EXCEPT ![p] = getKey(TA[q])]
    BY <1>4, SetFacts
  <2>2. keys[q] = getKey(TA[q])
    BY <1>1, <1>4 DEF DelFacts
  <2> QED BY <1>4, <1>5, <2>1, <2>2
<1>7. K \in KeyTables /\ K[q] \in Key \union {-1} /\ K[p] # -1 /\ L[p] = K[q] /\ L[q] = K[q]
      /\ \A i \in Slot \ {p} : L[i] = K[i]
  BY <1>1, <1>3, <1>4 DEF DelFacts, Gap, KeyTables
<1>8. Held' = Others(K, p)
  <2>1. HeldIn(L) = Others(K, p) \union ({K[q]} \ {-1})
    BY <1>4, <1>7, HeldAfter
  <2>2. K[q] # -1 => K[q] \in Others(K, p)
    BY <1>4 DEF Others
  <2> QED BY <1>4, <1>6, <2>1, <2>2
<1>9. Held' = Held \/ Held' = Held \ {getKey(arg[s])}
  <2>1. Held = Others(K, p) \union {getKey(v[s])}
    <3>1. HeldIn(K) = Others(K, p) \union ({K[p]} \ {-1})
      BY <1>4, <1>7, HeldAfter
    <3> QED BY <1>1, <1>3, <1>7, <3>1 DEF DelFacts, Gap
  <2> QED BY <1>3, <1>8, <2>1 DEF Gap
<1>10. getKey(arg[s]) \notin Held'
  BY <1>3, <1>8 DEF Gap
<1>11. CASE TA[q] = Empty
  <2>1. K[q] = -1
    BY <1>6, <1>11, ElemFacts
  <2>2. Resting(hashStruct.hash, L, {})
    BY <1>1, <1>3, <1>4, <1>7, <2>1, CloseGap DEF Gap, DelFacts
  <2>3. at'[s] = "done"
    BY <1>1, <1>3, <1>11 DEF Copy, Leave, Gap, DelFacts
  <2>4. Deleting(s)'
    BY <1>10, <2>3 DEF Deleting, Moving
  <2> QED BY <1>6, <1>9, <2>2, <2>4 DEF OwnStep
<1>12. CASE TA[q] # Empty
  <2>1. K[q] # -1 /\ 2 * ahead(hashStruct.hash[K[q]], p) <= m
    <3>1. K[q] # -1
      BY <1>4, <1>6, <1>12, ElemFacts
    <3>2. ~ (2 * ahead(hashStruct.hash[K[q]], p) > m)
      BY <1>3, <1>4, <1>6, <3>1, FitsFacts
    <3>3. ahead(hashStruct.hash[K[q]], p) \in Int /\ m \in Int
      <4>1. hashStruct.hash[K[q]] \in Slot
        BY <1>1, <1>7, <3>1 DEF DelFacts, Hashes
      <4> QED BY <1>1, <1>4, <4>1, AheadFacts DEF DelFacts
    <3> QED BY <3>1, <3>2, <3>3
  <2>2. Resting(hashStruct.hash, L, {q})
    BY <1>1, <1>3, <1>4, <1>7, <2>1, MoveKey DEF Gap, DelFacts
  <2>3. v' = Set(v, s, TA[q]) /\ Look(s, q)
    BY <1>3, <1>12 DEF Copy, Gap
  <2>4. at'[s] = "look" /\ h'[s] = q /\ v'[s] = TA[q]
    BY <1>1, <2>3 DEF Look, DelFacts
  <2>5. getKey(arg[s]) \notin Others(L, q) /\ K[q] \in Others(L, q)
    <3>1. Others(L, q) \subseteq Others(K, p)
      BY <1>4, <1>7, <2>1 DEF Others
    <3>2. K[q] \in Others(L, q)
      BY <1>4, <1>7, <2>1 DEF Others
    <3> QED BY <1>3, <3>1, <3>2 DEF Gap
  <2>6. keys'[h'[s]] = getKey(v'[s])
    BY <1>6, <1>7, <2>4
  <2>7. Moving(s)'
    BY <2>4, <2>6 DEF Moving
  <2>8. Deleting(s)'
    BY <1>6, <2>2, <2>4, <2>5, <2>6, <2>7 DEF Deleting
  <2> QED BY <1>9, <2>7, <2>8 DEF OwnStep
<1> QED BY <1>11, <1>12

\* A deletion keeps the invariant.
LEMMA DeleteStep ==
  ASSUME ~ ConcurrentDeletes, IInv, TypeOK', kind = "delete", NEW s \in Strand, Deletes(s)
  PROVE  /\ LoopInv' /\ TableInv' /\ DataInv' /\ ReturnInv'
         /\ Held' = Held \/ Held' = Held \ {getKey(arg[s])}
<1>1. TypeOK /\ \A t \in Strand : Deleting(t)
  BY DEF IInv, LoopInv
<1>2. Apart
  BY DEF IInv, LoopInv, Apart
<1>3. /\ UNCHANGED <<hashStruct, phase, kind, arg, result>>
      /\ \A t \in Strand \ {s} : /\ at'[t] = at[t] /\ v'[t] = v[t] /\ h'[t] = h[t] /\ Idle(t)
      /\ at[s] # "done" /\ at'[s] # "call" /\ Apart'
  BY <1>1, <1>2, DeleteAlone
<1>4. \A t \in Strand \ {s} : ~ Moving(t)
  BY <1>3 DEF Idle, Moving
<1>5. ~ Moving(s) => Resting(hashStruct.hash, keys, {})
  BY <1>4 DEF IInv, TableInv
<1>6. OwnStep(s)
  <2>1. CASE Begin(s)
    <3>1. ~ Moving(s)
      BY <2>1 DEF Begin, Moving
    <3> QED BY <1>1, <1>3, <1>5, <2>1, <3>1, BeginStep
  <2> QED BY <1>1, <1>3, <1>5, <2>1, ScanStep, SearchStep, BackStep, CopyStep DEF Deletes
<1>7. \A t \in Strand \ {s} : Deleting(t)' /\ ~ Moving(t)'
  <2>1. Held' \subseteq Held
    BY <1>6 DEF OwnStep
  <2> QED BY <1>1, <1>3, <2>1, DeleteFrame
<1>8. phase # 1 /\ phase' # 1 /\ kind' = "delete"
  BY <1>3 DEF IInv, LoopInv
<1>9. LoopInv'
  <2>1. \A t \in Strand : Deleting(t)'
    BY <1>6, <1>7 DEF OwnStep
  <2> QED BY <1>3, <1>8, <2>1 DEF LoopInv, Apart
<1>10. TableInv'
  BY <1>6, <1>8 DEF OwnStep, TableInv
<1>11. DataInv'
  BY <1>8 DEF DataInv
<1>12. ReturnInv'
  BY <1>3, <1>8 DEF IInv, ReturnInv
<1> QED BY <1>6, <1>9, <1>10, <1>11, <1>12 DEF OwnStep

\* An insertion keeps the invariant.
LEMMA InsertInv ==
  ASSUME IInv, TypeOK', kind = "insert", NEW s \in Strand, Inserts(s)
  PROVE  LoopInv' /\ TableInv' /\ DataInv' /\ ReturnInv'
<1>1. /\ TypeOK /\ Resting(hashStruct.hash, keys, {}) /\ DataInv /\ ReturnInv
      /\ \A t \in Strand : Inserting(t)
  BY DEF IInv, LoopInv, TableInv
<1>2. Resting(hashStruct.hash, keys, {})' /\ \A t \in Strand : Inserting(t)'
  BY <1>1, InsertStep
<1>3. kind' = "insert"
  BY <1>1, InsertCases DEF Alone
<1>4. DataInv' /\ ReturnInv'
  BY <1>1, InsertData, InsertReturns
<1> QED BY <1>2, <1>3, <1>4 DEF LoopInv, TableInv

\* A step belongs to the operation of the loop.
LEMMA StepKind ==
  ASSUME IInv, NEW s \in Strand, Step(s)
  PROVE  \/ kind = "insert" /\ Inserts(s)
         \/ kind = "delete" /\ Deletes(s)
<1>1. kind \in {"insert", "delete"}
  BY DEF IInv, TypeOK
<1>2. CASE kind = "insert"
  <2>1. Inserting(s)
    BY <1>2 DEF IInv, LoopInv
  <2> QED BY <1>2, <2>1 DEF Inserting, Step, Inserts, Begin, Scan, Search, Back, Copy
<1>3. CASE kind = "delete"
  <2>1. Deleting(s)
    BY <1>3 DEF IInv, LoopInv
  <2> QED BY <1>3, <2>1 DEF Deleting, Step, Deletes, Load, Swap, Replace, Recheck
<1> QED BY <1>1, <1>2, <1>3

\* At first the table is empty, and every insertion starts at its first index.
LEMMA InitInv == Init => IInv
<1> SUFFICES ASSUME Init PROVE IInv
  OBVIOUS
<1> USE DEF Init
<1>1. TypeOK
  <2>1. arg \in [Strand -> Elem] /\ hashStruct.hash \in [Key -> Slot]
    BY HashAssumption
  <2>2. h \in [Strand -> Slot]
    <3>1. \A e \in Elem : firstIndex(e) \in Slot
      BY <2>1, ElemFacts DEF firstIndex
    <3> QED BY <2>1, <3>1 DEF FirstIndices
  <2>3. jj \in [Strand -> Slot] /\ jjj \in [Strand -> Slot]
    <3>1. \A s \in Strand : 0 \in Slot
      BY <2>2, Sizes
    <3> QED BY <3>1 DEF Zero
  <2>4. c \in [Strand -> Elem \union {Empty}] /\ x \in [Strand -> Elem \union {Empty}] /\ result \in [Strand -> {0, 1}]
    BY DEF Nothing, Zero
  <2>5. phase \in 1 .. MaxPhases
    BY HashAssumption
  <2> QED BY <2>1, <2>2, <2>3, <2>4, <2>5 DEF TypeOK
<1>2. Facts
  BY <1>1, StateFacts
<1>3. /\ \A i \in Slot : keys[i] = -1
      /\ \A s \in Strand : /\ at[s] = "load" /\ v[s] = arg[s] /\ arg[s] \in Elem /\ result[s] = 0
                           /\ h[s] = hashStruct.hash[getKey(v[s])] /\ h[s] \in Slot
  <2>1. \A s \in Strand : arg[s] \in Elem /\ h[s] \in Slot
    BY <1>2 DEF Facts
  <2> QED BY <1>2, <2>1 DEF Facts, FirstIndices, firstIndex, Zero
<1>4. Resting(hashStruct.hash, keys, {})
  BY <1>3 DEF Resting, Sorted, Distinct
<1>5. ASSUME NEW s \in Strand PROVE Inserting(s)
  <2>1. Passed(hashStruct.hash, keys, getKey(v[s]), h[s])
    <3>1. \A i \in Slot : ahead(h[s], i) \in Nat /\ ahead(h[s], h[s]) = 0
      BY <1>3, AheadFacts
    <3> QED BY <1>3, <3>1 DEF Passed
  <2> QED BY <1>3, <2>1 DEF Inserting
<1>6. LoopInv /\ TableInv
  BY <1>4, <1>5 DEF LoopInv, TableInv
<1>7. DataInv
  <2> SUFFICES ASSUME NEW s \in Strand PROVE \E e \in Live : getKey(e) = getKey(arg[s]) /\ e[2] >= arg[s][2]
    BY DEF DataInv
  <2>1. v[s] \in Live
    BY <1>3 DEF Live
  <2>2. v[s][2] \in Nat
    BY <1>3, ElemFacts
  <2> QED BY <1>3, <2>1, <2>2
<1>8. ReturnInv
  <2>1. {s \in Strand : result[s] = 1} = {} /\ Occupied = {}
    BY <1>2, <1>3 DEF Facts, Occupied
  <2> QED BY <1>3, <2>1 DEF ReturnInv, count
<1> QED BY <1>1, <1>6, <1>7, <1>8 DEF IInv

\* A new loop starts on a table at rest.
LEMMA NextPhaseStep ==
  ASSUME IInv, NextPhase
  PROVE  IInv' /\ keys' = keys /\ Held' = Held
<1>1. /\ TypeOK'
      /\ UNCHANGED <<hashStruct, TA>> /\ phase' = phase + 1 /\ v' = arg' /\ Quiescent
      /\ \A s \in Strand : /\ arg'[s] \in Elem
                           /\ h'[s] = firstIndex(arg'[s])
                           /\ at'[s] = IF kind' = "insert" THEN "load" ELSE "call"
                           /\ result'[s] = 0
  BY NextPhaseFacts DEF IInv
<1>2. keys' = keys /\ Held' = Held
  BY <1>1, SameTable
<1>3. Resting(hashStruct.hash, keys, {})
  BY <1>1 DEF IInv, TableInv, Quiescent, Moving
<1>4. kind' \in {"insert", "delete"} /\ phase' # 1
  BY <1>1 DEF TypeOK, IInv
<1>5. ASSUME NEW s \in Strand
      PROVE  /\ h'[s] \in Slot /\ Passed(hashStruct.hash, keys, getKey(v'[s]), h'[s])
             /\ firstIndex(arg'[s]) = firstIndex(arg[s])'
  <2>1. h'[s] = hashStruct.hash[getKey(arg'[s])] /\ h'[s] \in Slot
    BY <1>1, FirstFacts DEF IInv
  <2>2. \A i \in Slot : ahead(h'[s], i) \in Nat /\ ahead(h'[s], h'[s]) = 0
    BY <2>1, AheadFacts
  <2> QED BY <1>1, <2>1, <2>2 DEF Passed, firstIndex
<1>6. LoopInv'
  <2>1. CASE kind' = "insert"
    BY <1>1, <1>2, <1>4, <1>5, <2>1 DEF LoopInv, Inserting
  <2>2. CASE kind' = "delete"
    BY <1>1, <1>2, <1>4, <1>5, <2>2 DEF LoopInv, Deleting, Moving
  <2> QED BY <1>4, <2>1, <2>2
<1>7. TableInv'
  BY <1>1, <1>2, <1>3 DEF TableInv
<1>8. DataInv' /\ ReturnInv'
  BY <1>1, <1>4 DEF DataInv, ReturnInv
<1> QED BY <1>1, <1>2, <1>6, <1>7, <1>8 DEF IInv

\* The inductive invariant.
LEMMA Invariance ==
  ASSUME ~ ConcurrentDeletes
  PROVE  Spec => []IInv
<1>1. IInv /\ [Next]_vars => IInv'
  <2> SUFFICES ASSUME IInv, [Next]_vars PROVE IInv'
    OBVIOUS
  <2>1. TypeOK'
    BY TypeStep DEF IInv
  <2>2. CASE UNCHANGED vars
    <3>1. UNCHANGED <<hashStruct, TA, phase, kind, arg, at, v, h, c, jj, jjj, x, result>>
      BY <2>2 DEF vars
    <3>2. keys' = keys /\ Entries' = Entries /\ Occupied' = Occupied
      BY <3>1 DEF keys, Entries, Occupied
    <3>3. content' = content /\ Held' = Held /\ Live' = Live /\ count' = count
      BY <3>1, <3>2 DEF content, Held, Carrying, Live, count
    <3>4. \A s \in Strand : Inserting(s) => Inserting(s)'
      BY <3>1, <3>2, <3>3 DEF Inserting, replaceQ
    <3>5. \A s \in Strand : (Deleting(s) => Deleting(s)') /\ Moving(s)' = Moving(s)
      BY <3>1, <3>2, <3>3 DEF Deleting, Moving, firstIndex, Fits
    <3>6. LoopInv'
      BY <3>1, <3>4, <3>5 DEF IInv, LoopInv
    <3>7. TableInv'
      BY <3>1, <3>2, <3>5 DEF IInv, TableInv
    <3>8. DataInv' /\ ReturnInv'
      BY <3>1, <3>3 DEF IInv, DataInv, ReturnInv
    <3> QED BY <2>1, <3>6, <3>7, <3>8 DEF IInv
  <2>3. ASSUME NEW s \in Strand, Step(s) PROVE IInv'
    <3>1. LoopInv' /\ TableInv' /\ DataInv' /\ ReturnInv'
      BY <2>1, <2>3, StepKind, InsertInv, DeleteStep
    <3> QED BY <2>1, <3>1 DEF IInv
  <2>4. CASE NextPhase
    BY <2>4, NextPhaseStep
  <2> QED BY <2>2, <2>3, <2>4 DEF Next, Done
<1> QED BY <1>1, InitInv, PTL DEF Spec

-----------------------------------------------------------------------------
(***************************************************************************)
(* find.                                                                   *)
(***************************************************************************)
\* The recursive function in the definition of find, and what it makes of the
\* value at the next index.
Probe(T, a, k, i, next) ==
  LET entry == T[hashToRange(a + i)]
  IN IF i = m \/ entry = Empty \/ k > getKey(entry) THEN Empty
     ELSE IF k = getKey(entry) THEN entry ELSE next

Probes(T, a, k, p) == p = [i \in 0 .. m |-> Probe(T, a, k, i, p[i + 1])]

\* There is such a function: it is built from the last index down.
LEMMA ProbesExist ==
  ASSUME NEW T \in Tables, NEW a \in Slot, NEW k \in Key
  PROVE  \E p : Probes(T, a, k, p)
<1> DEFINE R == (0 .. m) \X Entry0
           down(i) == IF i = 0 THEN 0 ELSE i - 1
           g == [y \in R |-> <<down(y[1]), Probe(T, a, k, down(y[1]), y[2])>>]
           start == <<m, Empty>>
<1>1. m \in Nat /\ m >= 3 /\ a \in Nat /\ a < m
  BY Sizes, ThreeSlots
<1>2. \A i \in 0 .. m : T[hashToRange(a + i)] \in Entry0
  <2> SUFFICES ASSUME NEW i \in 0 .. m PROVE hashToRange(a + i) \in Slot
    BY DEF Tables
  <2>1. a + i \in Int /\ 0 <= a + i /\ a + i < 2 * m
    BY <1>1
  <2>2. hashToRange(a + i) = IF a + i < m THEN a + i ELSE a + i - m
    BY <2>1, <1>1, Modulo
  <2> QED BY <2>1, <2>2, <1>1, Sizes
<1>3. \A i \in 0 .. m, e \in Entry0 : Probe(T, a, k, i, e) \in Entry0
  BY <1>2 DEF Probe, Entry0
<1>4. g \in [R -> R] /\ start \in R
  <2>1. \A i \in 0 .. m : down(i) \in 0 .. m
    BY <1>1
  <2>2. Empty \in Entry0
    BY DEF Entry0
  <2> HIDE DEF down
  <2> QED BY <1>1, <1>3, <2>1, <2>2
<1>5. PICK f \in [0 .. m -> R] : f[0] = start /\ \A i \in 1 .. m : f[i] = g[f[i - 1]]
  <2> HIDE DEF R, g, start
  <2>1. IteratesIn(R, m, start, g)
    BY <1>1, <1>4, RecursionExists
  <2> QED BY <2>1 DEF IteratesIn, Iterates
<1>6. \A i \in 1 .. m : f[i][1] = down(f[i - 1][1]) /\ f[i][2] = Probe(T, a, k, down(f[i - 1][1]), f[i - 1][2])
  <2> SUFFICES ASSUME NEW i \in 1 .. m
               PROVE  f[i] = <<down(f[i - 1][1]), Probe(T, a, k, down(f[i - 1][1]), f[i - 1][2])>>
    OBVIOUS
  <2>1. i - 1 \in 0 .. m /\ f[i - 1] \in R
    BY <1>1, <1>5
  <2>2. f[i] = g[f[i - 1]]
    BY <1>5
  <2> HIDE DEF R, down
  <2> QED BY <2>1, <2>2
<1>7. \A i \in 0 .. m : f[i][1] = m - i
  <2> DEFINE S == {i \in 0 .. m : f[i][1] = m - i}
  <2>1. 0 \in S
    BY <1>1, <1>5
  <2>2. \A i \in 0 .. m - 1 : i \in S => i + 1 \in S
    <3> SUFFICES ASSUME NEW i \in 0 .. m - 1, f[i][1] = m - i PROVE f[i + 1][1] = m - (i + 1)
      BY <1>1
    <3>1. i + 1 \in 1 .. m /\ (i + 1) - 1 = i
      BY <1>1
    <3>2. f[i + 1][1] = down(f[i][1])
      BY <3>1, <1>6
    <3> QED BY <1>1, <3>1, <3>2
  <2>3. \A i \in 0 .. m : i \in S
    <3> HIDE DEF S
    <3> QED BY <1>1, <2>1, <2>2, BoundedInduction
  <2> QED BY <2>3
<1> DEFINE p == [i \in 0 .. m |-> f[m - i][2]]
<1>8. ASSUME NEW i \in 0 .. m PROVE p[i] = Probe(T, a, k, i, p[i + 1])
  <2>1. CASE i = m
    <3>1. m - i = 0 /\ p[i] = f[0][2]
      BY <1>1, <2>1
    <3>2. p[i] = Empty
      BY <3>1, <1>5
    <3> QED BY <2>1, <3>2 DEF Probe
  <2>2. CASE i # m
    <3>1. i + 1 \in 0 .. m /\ m - i \in 1 .. m /\ (m - i) - 1 = m - (i + 1) /\ m - (i + 1) \in 0 .. m
      BY <1>1, <2>2
    <3>2. p[i + 1] = f[m - (i + 1)][2] /\ p[i] = f[m - i][2]
      BY <3>1
    <3>3. f[m - (i + 1)][1] = i + 1 /\ down(i + 1) = i
      BY <1>1, <1>7, <3>1
    <3> HIDE DEF p, down
    <3> QED BY <1>6, <3>1, <3>2, <3>3
  <2> QED BY <2>1, <2>2
<1>9. p = [i \in 0 .. m |-> Probe(T, a, k, i, p[i + 1])]
  <2> DEFINE q == [i \in 0 .. m |-> Probe(T, a, k, i, p[i + 1])]
  <2>1. \A i \in 0 .. m : p[i] = q[i]
    BY <1>8
  <2>2. p = [i \in 0 .. m |-> p[i]] /\ q = [i \in 0 .. m |-> q[i]]
    OBVIOUS
  <2> HIDE DEF p, q
  <2> QED BY <2>1, <2>2 DEF q
<1> QED BY <1>9 DEF Probes

\* What find returns is the first value of any of them.
LEMMA FindIs ==
  ASSUME NEW k, \E p : Probes(TA, hashStruct.hash[k], k, p)
  PROVE  \E p : Probes(TA, hashStruct.hash[k], k, p) /\ find(k) = p[0]
<1> DEFINE p == CHOOSE q : Probes(TA, hashStruct.hash[k], k, q)
<1>1. Probes(TA, hashStruct.hash[k], k, p)
  OBVIOUS
<1>2. find(k) = p[0]
  BY DEF find, Probes, Probe
<1> QED BY <1>1, <1>2

\* The slot that is some number of slots ahead.
LEMMA SlotAhead ==
  \A i \in Slot, d \in 0 .. m - 1 : hashToRange(i + d) \in Slot /\ ahead(i, hashToRange(i + d)) = d
<1> SUFFICES ASSUME NEW i \in Slot, NEW d \in 0 .. m - 1
             PROVE  hashToRange(i + d) \in Slot /\ ahead(i, hashToRange(i + d)) = d
  OBVIOUS
<1>1. i \in Nat /\ i < m /\ m \in Nat /\ d \in Nat /\ d < m
  BY Sizes
<1>2. hashToRange(i + d) = IF i + d < m THEN i + d ELSE i + d - m
  BY <1>1, Modulo
<1> QED BY <1>1, <1>2, Sizes DEF ahead

\* find returns the entry of a key that is in the table.
LEMMA FindsHeld ==
  ASSUME NEW T \in Tables, NEW hash \in Hashes, NEW j \in Slot, NEW k \in Key,
         Resting(hash, KeysOf(T), {}), getKey(T[j]) = k,
         NEW p, Probes(T, hash[k], k, p)
  PROVE  p[0] = T[j]
<1> DEFINE K == KeysOf(T)
           a == hash[k]
           d == ahead(a, j)
<1>1. /\ K \in KeyTables /\ K[j] = k
      /\ \A i \in Slot : K[i] = getKey(T[i]) /\ K[i] \in Int /\ (T[i] = Empty <=> K[i] = -1)
  BY TableFacts, Entry
<1>2. a \in Slot /\ k \in Nat /\ d \in 0 .. m - 1 /\ m \in Nat
  BY AheadFacts, ThreeSlots, Sizes DEF Hashes
<1>3. Passed(hash, K, k, j)
  BY <1>1, <1>2 DEF Resting, Sorted
<1>4. \A i \in 0 .. d - 1 : p[i] = p[i + 1]
  <2> SUFFICES ASSUME NEW i \in 0 .. d - 1 PROVE p[i] = p[i + 1]
    OBVIOUS
  <2> DEFINE t == hashToRange(a + i)
  <2>1. i \in 0 .. m - 1 /\ i \in 0 .. m /\ i # m /\ i < d
    BY <1>2
  <2>2. t \in Slot /\ ahead(a, t) = i
    BY <1>2, <2>1, SlotAhead
  <2>3. K[t] > k
    BY <1>3, <2>1, <2>2 DEF Passed
  <2>4. T[t] # Empty /\ ~ (k > getKey(T[t])) /\ k # getKey(T[t])
    BY <1>1, <1>2, <2>2, <2>3
  <2>5. p[i] = Probe(T, a, k, i, p[i + 1])
    BY <2>1 DEF Probes
  <2> QED BY <2>1, <2>4, <2>5 DEF Probe
<1>5. p[d] = T[j]
  <2>1. d \in 0 .. m /\ d # m
    BY <1>2
  <2>2. hashToRange(a + d) = j
    <3>1. hashToRange(a + d) \in Slot /\ ahead(a, hashToRange(a + d)) = d
      BY <1>2, SlotAhead
    <3> QED BY <1>2, <3>1, AheadOrder
  <2>3. p[d] = Probe(T, a, k, d, p[d + 1])
    BY <2>1 DEF Probes
  <2>4. T[j] # Empty /\ ~ (k > getKey(T[j])) /\ k = getKey(T[j])
    BY <1>1, <1>2
  <2> QED BY <2>1, <2>2, <2>3, <2>4 DEF Probe
<1> DEFINE S == {i \in 0 .. d : p[i] = p[0]}
<1>6. \A i \in 0 .. d : i \in S
  <2>1. d \in Nat
    BY <1>2
  <2>2. 0 \in S /\ \A i \in 0 .. d - 1 : i \in S => i + 1 \in S
    <3> HIDE DEF d
    <3> QED BY <2>1, <1>4
  <2> HIDE DEF S, d
  <2> QED BY <2>1, <2>2, BoundedInduction
<1>7. d \in 0 .. d
  BY <1>2
<1>8. p[d] = p[0]
  BY <1>6, <1>7
<1> QED BY <1>5, <1>8

\* find returns the empty element for one that is not.
LEMMA FindsNothing ==
  ASSUME NEW T \in Tables, NEW hash \in Hashes, NEW k \in Key,
         \A i \in Slot : getKey(T[i]) # k,
         NEW p, Probes(T, hash[k], k, p)
  PROVE  p[0] = Empty
<1>1. hash[k] \in Slot /\ m \in Nat /\ k \in Nat
  BY Sizes, ThreeSlots DEF Hashes
<1>2. \A i \in 0 .. m - 1 : p[i] = Empty \/ p[i] = p[i + 1]
  <2> SUFFICES ASSUME NEW i \in 0 .. m - 1 PROVE p[i] = Empty \/ p[i] = p[i + 1]
    OBVIOUS
  <2>1. hashToRange(hash[k] + i) \in Slot /\ i \in 0 .. m
    BY <1>1, SlotAhead
  <2>2. p[i] = Probe(T, hash[k], k, i, p[i + 1])
    BY <2>1 DEF Probes
  <2>3. k # getKey(T[hashToRange(hash[k] + i)])
    BY <2>1
  <2> QED BY <2>2, <2>3 DEF Probe
<1>3. p[m] = Empty
  <2>1. p[m] = Probe(T, hash[k], k, m, p[m + 1])
    BY <1>1 DEF Probes
  <2> QED BY <2>1 DEF Probe
<1> DEFINE S == {i \in 0 .. m : p[0] = Empty \/ p[0] = p[i]}
<1>4. 0 \in S /\ \A i \in 0 .. m - 1 : i \in S => i + 1 \in S
  BY <1>1, <1>2
<1>5. \A i \in 0 .. m : i \in S
  <2> HIDE DEF S
  <2> QED BY <1>1, <1>4, BoundedInduction
<1>6. m \in 0 .. m
  BY <1>1
<1> QED BY <1>3, <1>5, <1>6

\* At a quiescent point the table is at rest.
LEMMA AtRest ==
  ASSUME IInv, Quiescent
  PROVE  Facts /\ Resting(hashStruct.hash, keys, {}) /\ Live = Entries /\ content = Held
<1>1. Facts
  BY StateFacts DEF IInv
<1>2. Resting(hashStruct.hash, keys, {})
  BY DEF IInv, TableInv, Quiescent, Moving
<1> QED BY <1>1, <1>2 DEF Quiescent, Live, content, Carrying

\* So find tells what is held.
LEMMA FindAnswers ==
  ASSUME IInv, Quiescent, NEW k \in Key
  PROVE  IF k \in Held THEN find(k) \in Entries /\ getKey(find(k)) = k ELSE find(k) = Empty
<1>1. Facts /\ Resting(hashStruct.hash, keys, {})
  BY AtRest
<1>2. hashStruct.hash[k] \in Slot
  BY <1>1 DEF Facts, Hashes
<1>3. \E p : Probes(TA, hashStruct.hash[k], k, p)
  BY <1>1, <1>2, ProbesExist DEF Facts
<1>4. PICK p : Probes(TA, hashStruct.hash[k], k, p) /\ find(k) = p[0]
  BY <1>3, FindIs
<1>5. CASE k \in Held
  <2>1. PICK j \in Slot : TA[j] # Empty /\ getKey(TA[j]) = k
    BY <1>5 DEF Held, Entries, Occupied
  <2>2. find(k) = TA[j]
    BY <1>1, <1>4, <2>1, FindsHeld DEF Facts
  <2>3. TA[j] \in Entries
    BY <2>1 DEF Entries, Occupied
  <2> QED BY <1>5, <2>1, <2>2, <2>3
<1>6. CASE k \notin Held
  <2>1. \A i \in Slot : getKey(TA[i]) # k
    <3> SUFFICES ASSUME NEW i \in Slot, getKey(TA[i]) = k PROVE FALSE
      OBVIOUS
    <3>1. k # -1
      BY ThreeSlots
    <3>2. keys[i] = k /\ keys[i] # -1
      BY <1>1, <3>1 DEF Facts
    <3> QED BY <1>1, <1>6, <3>2 DEF Facts, HeldIn
  <2>2. find(k) = Empty
    BY <1>1, <1>4, <2>1, FindsNothing DEF Facts
  <2> QED BY <1>6, <2>2
<1> QED BY <1>5, <1>6

\* The entries are as many as their keys.
LEMMA CountIsKeys ==
  ASSUME IInv, Quiescent
  PROVE  count = Cardinality(Held)
<1>1. Facts /\ Resting(hashStruct.hash, keys, {})
  BY AtRest
<1> DEFINE f == [i \in Occupied |-> keys[i]]
<1>2. /\ \A i \in Occupied : i \in Slot /\ keys[i] = getKey(TA[i]) /\ keys[i] # -1
      /\ Held = {keys[i] : i \in Occupied}
  BY <1>1 DEF Facts, Occupied, Held, Entries
<1>3. f \in Injection(Occupied, Held) /\ f \in Surjection(Occupied, Held)
  <2>1. f \in [Occupied -> Held]
    BY <1>2
  <2>2. \A i, j \in Occupied : f[i] = f[j] => i = j
    BY <1>1, <1>2 DEF Resting, Distinct
  <2>3. \A k \in Held : \E i \in Occupied : f[i] = k
    BY <1>2
  <2> QED BY <2>1, <2>2, <2>3 DEF Injection, Surjection, IsInjective
<1>4. IsFiniteSet(Occupied)
  <2>1. IsFiniteSet(Slot)
    <3>1. 0 \in Int /\ m - 1 \in Int
      BY Sizes
    <3> QED BY <3>1, Intervals DEF Slot
  <2> QED BY <2>1, FS_Subset DEF Occupied
<1> HIDE DEF f
<1>5. IsFiniteSet(Held)
  BY <1>3, <1>4, FS_Surjection
<1> QED BY <1>3, <1>4, <1>5, FS_Injection DEF count

\* What the table answers at a quiescent point.
LEMMA Answers == IInv => AnswersAreRight
<1> SUFFICES ASSUME IInv, Quiescent
             PROVE  /\ count = Cardinality(Held)
                    /\ \A k \in Key : IF k \in Held THEN find(k) \in Entries /\ getKey(find(k)) = k
                                                    ELSE find(k) = Empty
                    /\ phase = 1 /\ hashStruct.replaces => \A s \in Strand : find(getKey(arg[s]))[2] >= arg[s][2]
                    /\ phase = 1 /\ ~ hashStruct.replaces => Cardinality({s \in Strand : result[s] = 1}) = count
  BY DEF AnswersAreRight, FindsWhatIsHeld, GreatestDataStays, OneReturnPerKey
<1>1. \A k \in Key : IF k \in Held THEN find(k) \in Entries /\ getKey(find(k)) = k ELSE find(k) = Empty
  BY FindAnswers
<1>2. ASSUME phase = 1, hashStruct.replaces, NEW s \in Strand
      PROVE  find(getKey(arg[s]))[2] >= arg[s][2]
  <2> DEFINE k == getKey(arg[s])
  <2>1. Facts /\ Resting(hashStruct.hash, keys, {}) /\ Live = Entries
    BY AtRest
  <2>2. PICK e \in Entries : getKey(e) = k /\ e[2] >= arg[s][2]
    BY <1>2, <2>1 DEF IInv, DataInv
  <2>3. k \in Key
    BY <2>1, ElemFacts DEF Facts
  <2>4. k \in Held
    BY <2>2 DEF Held
  <2>5. find(k) \in Entries /\ getKey(find(k)) = k
    BY <1>1, <2>3, <2>4
  <2>6. PICK i \in Slot, j \in Slot : TA[i] = e /\ TA[j] = find(k) /\ TA[i] # Empty /\ TA[j] # Empty
    BY <2>2, <2>5 DEF Entries, Occupied
  <2>7. keys[i] = keys[j] /\ keys[i] # -1
    BY <2>1, <2>2, <2>5, <2>6 DEF Facts
  <2>8. i = j
    BY <2>1, <2>7 DEF Resting, Distinct
  <2> QED BY <2>2, <2>6, <2>8
<1>3. phase = 1 /\ ~ hashStruct.replaces => Cardinality({s \in Strand : result[s] = 1}) = count
  BY DEF IInv, ReturnInv
<1> QED BY <1>1, <1>2, <1>3, CountIsKeys

-----------------------------------------------------------------------------
(***************************************************************************)
(* The table that plain linear probing gives.                              *)
(***************************************************************************)
\* A set of numbers has a least one.
LEMMA LeastNumber ==
  ASSUME NEW D, D \subseteq Nat, D # {}
  PROVE  \E d \in D : \A e \in D : d <= e
<1>1. PICK d \in D : \A e \in D : ~ (<<e, d>> \in OpToRel(<, Nat))
  BY WFMin, NatLessThanWellFounded
<1>2. \A e \in D : ~ (e < d)
  BY <1>1 DEF OpToRel
<1> QED BY <1>2

\* The next empty slot.
LEMMA FreeSlot ==
  ASSUME NEW T \in Tables, Distinct(KeysOf(T), {}), NEW i \in Slot, NEW k \in Key
  PROVE  /\ free(T, i) \in Slot
         /\ T[free(T, i)] = Empty
         /\ \A t \in Slot : ahead(i, t) < ahead(i, free(T, i)) => T[t] # Empty
<1> DEFINE K == KeysOf(T)
           D == {ahead(i, t) : t \in {u \in Slot : T[u] = Empty}}
           IsFree(j) == T[j] = Empty /\ \A d \in 0 .. hashToRange(j - i) - 1 : T[hashToRange(i + d)] # Empty
<1>1. m \in Nat /\ m >= 3 /\ \A t \in Slot : ahead(i, t) \in 0 .. m - 1
  BY Sizes, ThreeSlots, AheadFacts
<1>2. D \subseteq Nat
  BY <1>1
<1>3. D # {}
  <2> SUFFICES ASSUME \A t \in Slot : T[t] # Empty PROVE FALSE
    OBVIOUS
  <2>1. K \in KeyTables /\ \A t \in Slot : K[t] # -1
    BY TableFacts
  <2>2. Distinct(K, {i})
    BY DEF Distinct
  <2>3. m \in 0 .. m
    BY <1>1
  <2>4. m <= Cardinality(Key) + 1
    <3> HIDE DEF K
    <3> QED BY <2>1, <2>2, <2>3, RunsAreShort
  <2> QED BY <2>4, Sizes, ThreeSlots
<1>4. PICK j \in Slot : T[j] = Empty /\ \A e \in D : ahead(i, j) <= e
  <2> HIDE DEF D
  <2>1. PICK d \in D : \A e \in D : d <= e
    BY <1>2, <1>3, LeastNumber
  <2> QED BY <2>1 DEF D
<1>5. IsFree(j)
  <2> SUFFICES ASSUME NEW d \in 0 .. ahead(i, j) - 1 PROVE T[hashToRange(i + d)] # Empty
    BY <1>4, AheadFacts
  <2>1. d \in 0 .. m - 1 /\ d < ahead(i, j)
    BY <1>1
  <2>2. hashToRange(i + d) \in Slot /\ ahead(i, hashToRange(i + d)) = d
    BY <2>1, SlotAhead
  <2>3. T[hashToRange(i + d)] = Empty => d \in D
    BY <2>2
  <2>4. d \in Nat /\ ahead(i, j) \in Nat
    BY <1>1
  <2> HIDE DEF D
  <2> QED BY <1>4, <2>1, <2>3, <2>4
<1>6. free(T, i) \in Slot /\ IsFree(free(T, i))
  BY <1>5 DEF free
<1> DEFINE p == free(T, i)
<1>7. ASSUME NEW t \in Slot, ahead(i, t) < ahead(i, p) PROVE T[t] # Empty
  <2> DEFINE d == ahead(i, t)
  <2>1. d \in 0 .. ahead(i, p) - 1 /\ d \in 0 .. m - 1
    BY <1>1, <1>6, <1>7
  <2>2. hashToRange(i + d) \in Slot /\ ahead(i, hashToRange(i + d)) = d
    BY <2>1, SlotAhead
  <2>3. hashToRange(i + d) = t
    BY <2>2, AheadOrder
  <2>4. T[hashToRange(i + d)] # Empty
    BY <1>6, <2>1, AheadFacts
  <2> QED BY <2>3, <2>4
<1> QED BY <1>6, <1>7

\* The element of least priority.
LEMMA LowestFacts ==
  ASSUME NEW E, E \subseteq Elem, E # {}
  PROVE  lowest(E) \in E /\ \A f \in E : getKey(lowest(E)) <= getKey(f)
<1> DEFINE D == {getKey(e) : e \in E}
<1>1. D \subseteq Nat /\ D # {}
  BY ElemFacts
<1> HIDE DEF D
<1>2. PICK d \in D : \A e \in D : d <= e
  BY <1>1, LeastNumber
<1>3. PICK e \in E : d = getKey(e)
  BY DEF D
<1>4. \A f \in E : getKey(e) <= getKey(f)
  BY <1>2, <1>3 DEF D
<1> QED BY <1>4 DEF lowest

\* The recursive function in the definition of Canonical.
Canonicals(E, it) ==
  it = [S \in SUBSET E |-> IF S = {} THEN [i \in Slot |-> Empty]
                           ELSE put(it[S \ {lowest(S)}], lowest(S))]

\* There is such a function.
LEMMA CanonicalsExist ==
  ASSUME NEW E, E \subseteq Elem, IsFiniteSet(E)
  PROVE  \E it : Canonicals(E, it)
<1> DEFINE R == [SUBSET E -> Tables]
           none == [i \in Slot |-> Empty]
           zero == [S \in SUBSET E |-> none]
           step(it) == [S \in SUBSET E |-> IF S = {} THEN none ELSE put(it[S \ {lowest(S)}], lowest(S))]
           g == [it \in R |-> step(it)]
           n == Cardinality(E)
<1>1. \A S \in SUBSET E : S # {} => lowest(S) \in S /\ lowest(S) \in Elem
  BY LowestFacts
<1>2. none \in Tables /\ \A T \in Tables, e \in Elem : put(T, e) \in Tables
  BY DEF Tables, Entry0, put
<1>3. g \in [R -> R]
  <2> SUFFICES ASSUME NEW it \in R PROVE step(it) \in R
    OBVIOUS
  <2>1. ASSUME NEW S \in SUBSET E, S # {} PROVE put(it[S \ {lowest(S)}], lowest(S)) \in Tables
    <3>1. it[S \ {lowest(S)}] \in Tables
      OBVIOUS
    <3> QED BY <1>1, <1>2, <2>1, <3>1
  <2> HIDE DEF none
  <2> QED BY <1>2, <2>1
<1>4. zero \in R /\ n \in Nat
  <2> HIDE DEF none
  <2> QED BY <1>2, FS_CardinalityType
<1>5. PICK F \in [0 .. n -> R] : F[0] = zero /\ \A k \in 1 .. n : F[k] = g[F[k - 1]]
  <2> HIDE DEF R, zero, g, n
  <2>1. IteratesIn(R, n, zero, g)
    BY <1>3, <1>4, RecursionExists
  <2> QED BY <2>1 DEF IteratesIn, Iterates
<1> DEFINE it == [S \in SUBSET E |-> F[Cardinality(S)][S]]
<1> HIDE DEF none
<1>6. ASSUME NEW S \in SUBSET E
      PROVE  it[S] = IF S = {} THEN none ELSE put(it[S \ {lowest(S)}], lowest(S))
  <2>1. CASE S = {}
    <3>1. Cardinality(S) = 0 /\ F[0][S] = none
      BY <2>1, <1>5, FS_EmptySet
    <3> QED BY <2>1, <3>1
  <2>2. CASE S # {}
    <3> DEFINE k == Cardinality(S)
               U == S \ {lowest(S)}
    <3>1. k \in 1 .. n /\ Cardinality(U) = k - 1 /\ U \in SUBSET E
      <4>1. IsFiniteSet(S) /\ k <= n /\ k \in Nat /\ k # 0
        BY <2>2, FS_Subset, FS_CardinalityType, FS_EmptySet
      <4>2. Cardinality(U) = k - 1
        BY <2>2, <1>1, <4>1, FS_RemoveElement
      <4> QED BY <4>1, <4>2, <1>4
    <3>2. F[k] = step(F[k - 1])
      <4>1. F[k - 1] \in R /\ F[k] = g[F[k - 1]]
        <5> HIDE DEF R, g, zero
        <5> QED BY <3>1, <1>4, <1>5
      <4> HIDE DEF R, step
      <4> QED BY <4>1
    <3>3. F[k][S] = put(F[k - 1][U], lowest(S))
      BY <3>2, <2>2
    <3> QED BY <3>1, <3>3, <2>2
  <2> QED BY <2>1, <2>2
<1>7. it = [S \in SUBSET E |-> IF S = {} THEN none ELSE put(it[S \ {lowest(S)}], lowest(S))]
  <2> DEFINE f == [S \in SUBSET E |-> IF S = {} THEN none ELSE put(it[S \ {lowest(S)}], lowest(S))]
  <2>1. \A S \in SUBSET E : it[S] = f[S]
    BY <1>6
  <2>2. it = [S \in SUBSET E |-> it[S]] /\ f = [S \in SUBSET E |-> f[S]]
    OBVIOUS
  <2> HIDE DEF it, f
  <2> QED BY <2>1, <2>2 DEF f
<1> QED BY <1>7 DEF Canonicals, none

\* The element of least priority goes to the next empty slot.
LEMMA PutFacts ==
  ASSUME TypeOK, NEW T \in Tables, Resting(hashStruct.hash, KeysOf(T), {}), NEW e \in Elem,
         \A i \in Slot : T[i] # Empty => getKey(T[i]) > getKey(e)
  PROVE  LET U == put(T, e)
         IN /\ U \in Tables /\ Resting(hashStruct.hash, KeysOf(U), {})
            /\ \A f \in Elem : (\E i \in Slot : U[i] = f) <=> f = e \/ \E i \in Slot : T[i] = f
<1> DEFINE k == getKey(e)
           a == firstIndex(e)
           j == free(T, a)
           U == put(T, e)
<1>1. /\ k \in Key /\ a \in Slot /\ a = hashStruct.hash[k] /\ e \in Entry0 /\ e # Empty /\ k \in Nat
      /\ hashStruct.hash \in Hashes
  BY FirstFacts, ElemFacts, StateFacts DEF Entry0, Facts
<1>2. j \in Slot /\ T[j] = Empty /\ \A t \in Slot : ahead(a, t) < ahead(a, j) => T[t] # Empty
  BY <1>1, FreeSlot DEF Resting
<1>3. U = Set(T, j, e)
  BY DEF put, Set
<1> HIDE DEF U, j
<1>4. U \in Tables /\ KeysOf(U) = [KeysOf(T) EXCEPT ![j] = k] /\ U[j] = e /\ \A i \in Slot \ {j} : U[i] = T[i]
  BY <1>1, <1>2, <1>3, SetFacts
<1>5. KeysOf(T) \in KeyTables /\ \A i \in Slot : KeysOf(T)[i] = getKey(T[i]) /\ (T[i] = Empty <=> KeysOf(T)[i] = -1)
  BY TableFacts
<1>6. Passed(hashStruct.hash, KeysOf(T), k, j) /\ KeysOf(T)[j] < k
  BY <1>1, <1>2, <1>5 DEF Passed
<1>7. Resting(hashStruct.hash, KeysOf(U), {})
  <2>1. Resting(hashStruct.hash, [KeysOf(T) EXCEPT ![j] = k], {})
    <3> DEFINE K == KeysOf(T)
               hash == hashStruct.hash
    <3>1. K \in KeyTables /\ hash \in Hashes /\ Resting(hash, K, {}) /\ Passed(hash, K, k, j) /\ K[j] < k
      BY <1>1, <1>5, <1>6
    <3>2. k \in Key /\ j \in Slot
      BY <1>1, <1>2
    <3> HIDE DEF K, hash, k
    <3>3. Resting(hash, [K EXCEPT ![j] = k], {})
      BY <3>1, <3>2, InsertKey
    <3> QED BY <3>3 DEF K, hash
  <2> QED BY <1>4, <2>1
<1>8. \A f \in Elem : (\E i \in Slot : U[i] = f) <=> f = e \/ \E i \in Slot : T[i] = f
  BY <1>2, <1>4, ElemFacts
<1> QED BY <1>4, <1>7, <1>8 DEF U

\* What linear probing makes of a set of elements with different keys.
LEMMA CanonicalFacts ==
  ASSUME TypeOK, NEW E, E \subseteq Elem, IsFiniteSet(E),
         \A e, f \in E : getKey(e) = getKey(f) => e = f
  PROVE  LET U == Canonical(E)
         IN /\ U \in Tables /\ Resting(hashStruct.hash, KeysOf(U), {})
            /\ \A f \in Elem : (\E i \in Slot : U[i] = f) <=> f \in E
<1> DEFINE it == CHOOSE jt : Canonicals(E, jt)
<1>1. Canonicals(E, it)
  BY CanonicalsExist
<1>2. Canonical(E) = it[E]
  BY DEF Canonical, Canonicals
<1> HIDE DEF it
<1> DEFINE Right(U, S) == /\ U \in Tables /\ Resting(hashStruct.hash, KeysOf(U), {})
                          /\ \A f \in Elem : (\E i \in Slot : U[i] = f) <=> f \in S
           P == {S \in SUBSET E : Right(it[S], S)}
<1>3. {} \in P
  <2> DEFINE U == [i \in Slot |-> Empty]
  <2>1. it[{}] = U
    BY <1>1 DEF Canonicals
  <2>2. U \in Tables /\ \A i \in Slot : U[i] = Empty
    BY DEF Tables, Entry0
  <2> HIDE DEF U
  <2>3. \A i \in Slot : KeysOf(U)[i] = -1
    BY <2>2, TableFacts
  <2>4. Resting(hashStruct.hash, KeysOf(U), {})
    BY <2>3 DEF Resting, Sorted, Distinct
  <2>5. Right(U, {})
    BY <2>2, <2>4, ElemFacts
  <2> QED BY <2>1, <2>5
<1>4. ASSUME NEW S \in SUBSET E, S # {}, \A e \in S : S \ {e} \in P PROVE S \in P
  <2> DEFINE e == lowest(S)
             T == it[S \ {e}]
  <2>1. e \in S /\ e \in Elem /\ \A f \in S : getKey(e) <= getKey(f)
    BY <1>4, LowestFacts
  <2>2. it[S] = put(T, e)
    BY <1>1, <1>4 DEF Canonicals
  <2>3. Right(T, S \ {e})
    BY <1>4, <2>1
  <2> HIDE DEF e, T
  <2>4. ASSUME NEW i \in Slot, T[i] # Empty PROVE getKey(T[i]) > getKey(e)
    <3>1. T[i] \in Elem
      BY <2>3, <2>4 DEF Tables, Entry0
    <3>2. T[i] \in S /\ T[i] # e
      BY <2>3, <3>1
    <3>3. getKey(T[i]) # getKey(e) /\ getKey(e) <= getKey(T[i])
      BY <2>1, <3>2
    <3> QED BY <2>1, <3>1, <3>3, ElemFacts
  <2>5. Right(put(T, e), S)
    <3>1. LET U == put(T, e)
          IN /\ U \in Tables /\ Resting(hashStruct.hash, KeysOf(U), {})
             /\ \A f \in Elem : (\E i \in Slot : U[i] = f) <=> f = e \/ \E i \in Slot : T[i] = f
      BY <2>1, <2>3, <2>4, PutFacts
    <3> QED BY <2>1, <2>3, <3>1
  <2> QED BY <2>2, <2>5
<1>5. \A S \in SUBSET E : S \in P
  <2> HIDE DEF P
  <2> QED BY <1>3, <1>4, SubsetInduction
<1>6. E \in P
  BY <1>5
<1> QED BY <1>2, <1>6

\* At a quiescent point the table is that one: it is at rest and so is this.
LEMMA Forgets == IInv => HistoryIndependent
<1> SUFFICES ASSUME IInv, Quiescent PROVE TA = Canonical(Entries)
  BY DEF HistoryIndependent
<1> DEFINE U == Canonical(Entries)
<1>1. TypeOK /\ Facts /\ Resting(hashStruct.hash, keys, {})
  BY AtRest DEF IInv
<1>2. /\ TA \in Tables /\ keys = KeysOf(TA) /\ keys \in KeyTables
      /\ \A i \in Slot : keys[i] = getKey(TA[i]) /\ TA[i] \in Entry0 /\ (TA[i] = Empty <=> keys[i] = -1)
  BY <1>1 DEF Facts
<1>3. Entries \subseteq Elem /\ \A i \in Slot : TA[i] # Empty => TA[i] \in Entries
  BY <1>2 DEF Entries, Occupied, Entry0
<1>4. IsFiniteSet(Entries)
  <2> DEFINE f == [i \in Occupied |-> TA[i]]
  <2>1. IsFiniteSet(Slot)
    <3>1. 0 \in Int /\ m - 1 \in Int
      BY Sizes
    <3> QED BY <3>1, Intervals DEF Slot
  <2>2. IsFiniteSet(Occupied)
    BY <2>1, FS_Subset DEF Occupied
  <2>3. f \in Surjection(Occupied, Entries)
    BY DEF Surjection, Entries
  <2> HIDE DEF f
  <2> QED BY <2>2, <2>3, FS_Surjection
<1>5. \A e, f \in Entries : getKey(e) = getKey(f) => e = f
  <2> SUFFICES ASSUME NEW i \in Slot, NEW j \in Slot, TA[i] # Empty, TA[j] # Empty, getKey(TA[i]) = getKey(TA[j])
               PROVE  TA[i] = TA[j]
    BY DEF Entries, Occupied
  <2>1. keys[i] # -1 /\ keys[i] = keys[j]
    BY <1>2
  <2> QED BY <1>1, <2>1 DEF Resting, Distinct
<1>6. /\ U \in Tables /\ Resting(hashStruct.hash, KeysOf(U), {})
      /\ \A f \in Elem : (\E i \in Slot : U[i] = f) <=> f \in Entries
  BY <1>1, <1>3, <1>4, <1>5, CanonicalFacts
<1> HIDE DEF U
<1>7. /\ KeysOf(U) \in KeyTables
      /\ \A i \in Slot : KeysOf(U)[i] = getKey(U[i]) /\ U[i] \in Entry0 /\ (U[i] = Empty <=> KeysOf(U)[i] = -1)
  BY <1>6, TableFacts
<1>8. \A i \in Slot : U[i] # Empty => U[i] \in Entries
  BY <1>6, <1>7 DEF Entry0
<1>9. \A i \in Slot : TA[i] # Empty => \E j \in Slot : U[j] = TA[i]
  BY <1>3, <1>6
<1>10. \A i \in Slot : U[i] # Empty => \E j \in Slot : TA[j] = U[i]
  BY <1>8 DEF Entries, Occupied
<1>11. \A k \in Key : (\E i \in Slot : keys[i] = k) <=> (\E i \in Slot : KeysOf(U)[i] = k)
  <2> SUFFICES ASSUME NEW k \in Key
               PROVE  (\E i \in Slot : keys[i] = k) <=> (\E i \in Slot : KeysOf(U)[i] = k)
    OBVIOUS
  <2>1. k # -1
    BY ThreeSlots
  <2> QED BY <2>1, <1>2, <1>7, <1>9, <1>10
<1>12. keys = KeysOf(U)
  <2>1. hashStruct.hash \in Hashes
    BY <1>1 DEF Facts
  <2> QED BY <1>1, <1>2, <1>6, <1>7, <1>11, <2>1, OneTable
<1>13. \A i \in Slot : TA[i] = U[i]
  <2> SUFFICES ASSUME NEW i \in Slot PROVE TA[i] = U[i]
    OBVIOUS
  <2>1. getKey(TA[i]) = getKey(U[i])
    BY <1>2, <1>7, <1>12
  <2>2. TA[i] = Empty <=> U[i] = Empty
    BY <1>2, <1>7, <1>12
  <2> QED BY <1>3, <1>5, <1>8, <2>1, <2>2
<1> QED BY <1>2, <1>6, <1>13 DEF Tables, U

-----------------------------------------------------------------------------
(***************************************************************************)
(* The table implements a set of keys.                                     *)
(***************************************************************************)
Args0 == [s \in Strand |-> getKey(arg[s])]
Pending0 == {s \in Strand : at[s] # "done"}

\* The operation of one strand takes effect and returns, does one of the two or
\* does neither.
LEMMA OneOperates ==
  ASSUME NEW s \in Strand, at[s] # "done",
         \A t \in Strand \ {s} : at'[t] = at[t],
         UNCHANGED <<phase, kind, arg>>, kind \in {"insert", "delete"},
         \/ content' = content
         \/ kind = "insert" /\ content' = content \union {getKey(arg[s])}
         \/ kind = "delete" /\ content' = content \ {getKey(arg[s])},
         at'[s] = "done" => (getKey(arg[s]) \in content' <=> kind = "insert")
  PROVE  PS!Next
<1> DEFINE R == IF at'[s] = "done" THEN {s} ELSE {}
<1>1. Args0' = Args0 /\ Args0[s] = getKey(arg[s])
  BY DEF Args0
<1>2. Pending0' = Pending0 \ R /\ R \in SUBSET Pending0 /\ {s} \in SUBSET Pending0 /\ {} \in SUBSET Pending0
  BY DEF Pending0
<1>3. \A t \in R : (Args0[t] \in content') <=> (kind = "insert")
  BY <1>1
<1>4. \E S \in SUBSET Pending0 :
        content' = IF kind = "insert" THEN content \union {Args0[t] : t \in S}
                                      ELSE content \ {Args0[t] : t \in S}
  <2>1. CASE content' = content
    <3>1. content' = IF kind = "insert" THEN content \union {Args0[t] : t \in {}}
                                        ELSE content \ {Args0[t] : t \in {}}
      BY <2>1
    <3> QED BY <1>2, <3>1
  <2>2. CASE content' # content
    <3>1. {Args0[t] : t \in {s}} = {getKey(arg[s])}
      BY <1>1
    <3>2. content' = IF kind = "insert" THEN content \union {Args0[t] : t \in {s}}
                                        ELSE content \ {Args0[t] : t \in {s}}
      BY <2>2, <3>1
    <3> QED BY <1>2, <3>2
  <2> QED BY <2>1, <2>2
<1> HIDE DEF R
<1>5. \E S, U \in SUBSET Pending0 :
        /\ content' = IF kind = "insert" THEN content \union {Args0[t] : t \in S}
                                         ELSE content \ {Args0[t] : t \in S}
        /\ \A t \in U : (Args0[t] \in content') <=> (kind = "insert")
        /\ Pending0' = Pending0 \ U
  BY <1>2, <1>3, <1>4
<1>6. \E S, U \in SUBSET Pending0 : PS!Operate(S, U)
  BY <1>1, <1>5 DEF PS!Operate, PS!Effect, Args0, Pending0
<1> QED BY <1>6 DEF PS!Next, Pending0

\* Every step of the table is one of the set, or changes nothing of it.
LEMMA StepImplements ==
  ASSUME ~ ConcurrentDeletes, IInv, IInv', [Next]_vars
  PROVE  [PS!Next]_(PS!vars)
<1>1. TypeOK /\ TypeOK' /\ kind \in {"insert", "delete"}
  BY DEF IInv, TypeOK
<1>2. ASSUME NEW s \in Strand, Step(s) PROVE PS!Next
  <2>1. CASE kind = "insert" /\ Inserts(s)
    <3>1. Inserting(s) /\ Resting(hashStruct.hash, keys, {})
      BY <2>1 DEF IInv, LoopInv, TableInv
    <3>2. /\ Alone(s) /\ at[s] # "done"
          /\ content' = content \/ content' = content \union {getKey(arg[s])}
          /\ at'[s] = "done" => getKey(arg[s]) \in content'
      BY <1>1, <2>1, <3>1, InsertCases, InsertContent
    <3> QED BY <1>1, <2>1, <3>2, OneOperates DEF Alone
  <2>2. CASE kind = "delete" /\ Deletes(s)
    <3>1. Apart
      BY <2>2 DEF IInv, LoopInv, Apart
    <3>2. /\ UNCHANGED <<phase, kind, arg>> /\ at[s] # "done"
          /\ \A t \in Strand \ {s} : at'[t] = at[t]
      BY <1>1, <2>2, <3>1, DeleteAlone
    <3>3. Held' = Held \/ Held' = Held \ {getKey(arg[s])}
      BY <1>1, <2>2, DeleteStep
    <3>4. content = Held /\ content' = Held'
      BY <2>2, <3>2 DEF content, Carrying
    <3>5. at'[s] = "done" => getKey(arg[s]) \notin content'
      <4>1. Deleting(s)'
        BY <2>2, <3>2 DEF IInv, LoopInv
      <4> QED BY <3>2, <3>4, <4>1 DEF Deleting
    <3> QED BY <1>1, <2>2, <3>2, <3>3, <3>4, <3>5, OneOperates
  <2> QED BY <1>2, <2>1, <2>2, StepKind
<1>3. CASE NextPhase
  <2>1. Held' = Held
    BY <1>3, NextPhaseStep
  <2>2. /\ Quiescent /\ phase < MaxPhases /\ phase' = phase + 1 /\ v' = arg'
        /\ kind' \in {"insert", "delete"} /\ \A s \in Strand : at'[s] # "done"
    BY <1>3 DEF NextPhase
  <2>3. content = Held /\ content' = Held'
    BY <2>2 DEF content, Carrying, Quiescent
  <2>4. Args0' \in [Strand -> Key]
    <3>1. \A s \in Strand : arg'[s] \in Elem
      BY <1>1, StateFactsThen DEF Facts
    <3> QED BY <3>1, ElemFacts DEF Args0
  <2>5. Pending0 = {} /\ Pending0' = Strand
    BY <2>2 DEF Pending0, Quiescent
  <2>6. PS!NextPhase
    BY <2>1, <2>2, <2>3, <2>4, <2>5 DEF PS!NextPhase, Args0, Pending0
  <2> QED BY <2>6 DEF PS!Next
<1>4. CASE UNCHANGED vars
  <2>1. UNCHANGED <<TA, phase, kind, arg, at, v>>
    BY <1>4 DEF vars
  <2>2. content' = content /\ Args0' = Args0 /\ Pending0' = Pending0
    BY <2>1 DEF content, Held, Entries, Occupied, Carrying, Args0, Pending0
  <2> QED BY <2>1, <2>2 DEF PS!vars, Args0, Pending0
<1> QED BY <1>2, <1>3, <1>4 DEF Next, Done

LEMMA InitImplements == Init => PS!Init
<1> SUFFICES ASSUME Init PROVE PS!Init
  OBVIOUS
<1>1. IInv
  BY InitInv
<1>2. content = {}
  BY DEF Init, content, Held, Entries, Occupied, Carrying
<1>3. Args0 \in [Strand -> Key]
  <2>1. \A s \in Strand : arg[s] \in Elem
    BY <1>1, StateFacts DEF IInv, Facts
  <2> QED BY <2>1, ElemFacts DEF Args0
<1>4. Pending0 = Strand
  BY DEF Init, Pending0
<1> QED BY <1>2, <1>3, <1>4 DEF Init, PS!Init, Args0, Pending0

-----------------------------------------------------------------------------
(***************************************************************************)
(* The theorems.  The deletions of a loop must not overlap, which is what  *)
(* the comment of deleteVal asks for.                                      *)
(***************************************************************************)
\* The variables of HashTable keep to their types.
THEOREM TypeCorrect == Spec => []TypeOK
<1>1. Init => TypeOK
  BY InitInv DEF IInv
<1> QED BY <1>1, TypeStep, PTL DEF Spec

\* However the strands of the loops before were interleaved, at a quiescent
\* point the table is the one that plain linear probing gives of its elements.
THEOREM OrderIsForgotten ==
  ASSUME ~ ConcurrentDeletes
  PROVE  Spec => []HistoryIndependent
BY Invariance, Forgets, PTL

\* find and count, and the numbers that insert returns, tell what is held.
THEOREM AnswersHold ==
  ASSUME ~ ConcurrentDeletes
  PROVE  Spec => []AnswersAreRight
BY Invariance, Answers, PTL

\* Insertions and deletions take effect between their call and their return,
\* and nothing else changes the keys of the table.
THEOREM TableIsASet ==
  ASSUME ~ ConcurrentDeletes
  PROVE  Spec => ImplementsPhaseSet
BY InitImplements, StepImplements, Invariance, PTL DEF Spec, ImplementsPhaseSet, PS!Spec
=============================================================================
