------------------------------ MODULE HashTable ------------------------------
(* The hash table of graphtools/deterministicHash.h: prioritized linear       *)
(* probing on an array TA of m slots.  The iterations of a parallel loop      *)
(* insert, or delete, one element each; every read of a slot and every        *)
(* compare-and-swap is a step.  The end of a loop is a quiescent point: only  *)
(* then are find, count and entries called.                                   *)
(*                                                                            *)
(* The operations of the template parameter HASH (hash, cmp, replaceQ) are    *)
(* the record `hashStruct`, chosen once; the priority of a key is the number  *)
(* it is.                                                                     *)
EXTENDS Integers, FiniteSets

CONSTANTS Key,          \* keys, by priority
          Data,         \* the rest of an element (a pointer, a value)
          m,            \* slots of the table
          Strand,       \* the iterations of a phase's parallel loop
          MaxPhases,    \* bound on the phases of a behaviour
          HashStructs,  \* the HASH structures to try
          Args(_),      \* the arguments to try, by the kind of the loop
          ConcurrentDeletes \* do the deletions of a loop overlap?

Slot == 0 .. m - 1

Elem == Key \X Data
Empty == <<-1, -1>>
getKey(e) == e[1]

\* Table(size, hashF) makes m the power of two above 100 + 2*size: the table
\* never holds as many as m/2 elements.  Keys are what numbers compare.
ASSUME HashAssumption ==
  /\ Key \subseteq Nat /\ Data \subseteq Nat
  /\ IsFiniteSet(Key) /\ IsFiniteSet(Strand)
  /\ m \in Nat /\ 2 * Cardinality(Key) < m
  /\ MaxPhases \in Nat \ {0}
  /\ \A hs \in HashStructs: hs.hash \in [Key -> Slot] /\ hs.replaces \in BOOLEAN
  /\ \A k \in {"insert", "delete"}: Args(k) \subseteq [Strand -> Elem]
  /\ ConcurrentDeletes \in BOOLEAN

VARIABLES hashStruct,  \* the HASH parameter: hash function, does replaceQ compare data
          TA,          \* the table
          phase, kind, \* the parallel loops so far, what the current one does
          arg,         \* the element each strand was called with
          at,          \* where each strand is
          v,           \* the element a strand carries (its key, when it deletes)
          h,           \* the slot it looks at (h of insert, j of deleteVal)
          c,           \* the entry it read there
          jj, jjj, x,  \* deleteVal's search for a replacement
          result       \* what its insert returned

table == <<hashStruct, phase, kind, arg>>
search == <<jj, jjj, x>>
vars == <<hashStruct, TA, phase, kind, arg, at, v, h, c, jj, jjj, x, result>>

hashToRange(i) == i % m
firstIndex(e) == hashStruct.hash[getKey(e)]
incrementIndex(i) == hashToRange(i + 1)
decrementIndex(i) == hashToRange(i - 1)
lessIndex(a, b) == 2 * hashToRange(a - b) > m

\* Wrong variant: linear probing without priorities.
cmp_NoPriority(e, entry) == IF entry = Empty THEN 1
                            ELSE IF getKey(e) = getKey(entry) THEN 0 ELSE -1
\* The comparison both operations make, an empty slot having the least priority.
cmp(e, entry) == IF entry = Empty \/ getKey(e) > getKey(entry) THEN 1
                 ELSE IF getKey(e) = getKey(entry) THEN 0 ELSE -1
replaceQ(e, entry) == hashStruct.replaces /\ e[2] > entry[2]

Set(f, s, value) == [f EXCEPT ![s] = value]

Nothing == [s \in Strand |-> Empty]
Zero == [s \in Strand |-> 0]
FirstIndices(args) == [s \in Strand |-> firstIndex(args[s])]

Init ==
  /\ hashStruct \in HashStructs
  /\ TA = [i \in Slot |-> Empty]
  /\ phase = 1 /\ kind = "insert"
  /\ arg \in Args(kind) /\ v = arg
  /\ at = [s \in Strand |-> "load"]
  /\ h = FirstIndices(arg)
  /\ c = Nothing /\ x = Nothing
  /\ jj = Zero /\ jjj = Zero /\ result = Zero

-----------------------------------------------------------------------------
(* insert.  The entry read is kept only where a compare-and-swap needs it.    *)

ReturnFrom(s, r) ==
  /\ at' = Set(at, s, "done")
  /\ result' = Set(result, s, r)
  /\ c' = Set(c, s, Empty)
  /\ UNCHANGED <<v, h>>

NextBucket(s) ==
  /\ at' = Set(at, s, "load")
  /\ h' = Set(h, s, incrementIndex(h[s]))
  /\ c' = Set(c, s, Empty)
  /\ UNCHANGED <<v, result>>

Goto(s, label, entry) ==
  /\ at' = Set(at, s, label)
  /\ c' = Set(c, s, entry)
  /\ UNCHANGED <<v, h, result>>

\* Equal keys: quit, or try to replace.
Equal(s, entry) ==
  \/ ~ replaceQ(v[s], entry) /\ ReturnFrom(s, 0)
  \/ replaceQ(v[s], entry) /\ Goto(s, "replace", entry)

\* The entry of the bucket is read, at first or after a lost swap.
Load(s) ==
  /\ at[s] \in {"load", "reload"}
  /\ LET entry == TA[h[s]]
         order == cmp(v[s], entry)
     IN \/ order = 1 /\ Goto(s, "swap", entry)
        \/ order = 0 /\ Equal(s, entry)
        \/ order = -1 /\ NextBucket(s)
  /\ UNCHANGED <<table, TA, search>>

\* Wrong variants: a plain store; the displaced entry is dropped; a lost swap is
\* tried again with the entry read before.
Swap_Store(s) ==
  /\ at[s] = "swap"
  /\ TA' = Set(TA, h[s], v[s])
  /\ \/ c[s] = Empty /\ ReturnFrom(s, 1)
     \/ /\ c[s] # Empty
        /\ v' = Set(v, s, c[s])
        /\ h' = Set(h, s, incrementIndex(h[s]))
        /\ at' = Set(at, s, "load")
        /\ c' = Set(c, s, Empty)
        /\ UNCHANGED result
  /\ UNCHANGED <<table, search>>

Swap_Drops(s) ==
  /\ at[s] = "swap"
  /\ \/ TA[h[s]] = c[s] /\ TA' = Set(TA, h[s], v[s]) /\ ReturnFrom(s, 1)
     \/ TA[h[s]] # c[s] /\ Goto(s, "reload", Empty) /\ UNCHANGED TA
  /\ UNCHANGED <<table, search>>

Swap_Retries(s) ==
  /\ at[s] = "swap"
  /\ \/ TA[h[s]] = c[s] /\ TA' = Set(TA, h[s], v[s]) /\ ReturnFrom(s, 1)
     \/ TA[h[s]] # c[s] /\ UNCHANGED <<TA, at, c, v, h, result>>
  /\ UNCHANGED <<table, search>>

\* Try to swap the element in; the entry it displaces is carried on.
Swap(s) ==
  /\ at[s] = "swap"
  /\ \/ /\ TA[h[s]] = c[s]
        /\ TA' = Set(TA, h[s], v[s])
        /\ \/ c[s] = Empty /\ ReturnFrom(s, 1)
           \/ /\ c[s] # Empty
              /\ v' = Set(v, s, c[s])
              /\ h' = Set(h, s, incrementIndex(h[s]))
              /\ at' = Set(at, s, "load")
              /\ c' = Set(c, s, Empty)
              /\ UNCHANGED result
     \/ /\ TA[h[s]] # c[s]
        /\ Goto(s, "reload", Empty)
        /\ UNCHANGED TA
  /\ UNCHANGED <<table, search>>

Replace(s) ==
  /\ at[s] = "replace"
  /\ \/ TA[h[s]] = c[s] /\ TA' = Set(TA, h[s], v[s]) /\ ReturnFrom(s, 1)
     \/ TA[h[s]] # c[s] /\ Goto(s, "recheck", Empty) /\ UNCHANGED TA
  /\ UNCHANGED <<table, search>>

\* The replacement lost against a concurrent write: look again.
Recheck(s) ==
  /\ at[s] = "recheck"
  /\ LET entry == TA[h[s]]
     IN IF cmp(v[s], entry) = 0 THEN Equal(s, entry) ELSE NextBucket(s)
  /\ UNCHANGED <<table, TA, search>>

-----------------------------------------------------------------------------
(* deleteVal: j is h; i is the first index of the key it was called with.     *)

Leave(s) ==
  /\ at' = Set(at, s, "done")
  /\ c' = Set(c, s, Empty) /\ x' = Set(x, s, Empty)
  /\ jj' = Set(jj, s, 0) /\ jjj' = Set(jjj, s, 0)
  /\ UNCHANGED h

Look(s, j) ==
  /\ at' = Set(at, s, "look")
  /\ h' = Set(h, s, j)
  /\ c' = Set(c, s, Empty) /\ x' = Set(x, s, Empty)
  /\ jj' = Set(jj, s, 0) /\ jjj' = Set(jjj, s, 0)

StepDown(s) ==
  \/ h[s] = firstIndex(arg[s]) /\ Leave(s)
  \/ h[s] # firstIndex(arg[s]) /\ Look(s, decrementIndex(h[s]))

\* Deletions of different loop iterations overlap only if the user lets them.
Begin(s) ==
  /\ at[s] = "call"
  /\ ConcurrentDeletes \/ \A t \in Strand: at[t] \in {"call", "done"}
  /\ at' = Set(at, s, "scan")
  /\ UNCHANGED <<table, TA, v, h, c, search, result>>

\* The first entry not above the key, going up; after a move, going down.
Scan(s) ==
  /\ at[s] \in {"scan", "look"}
  /\ LET entry == TA[h[s]]
         order == cmp(v[s], entry)
     IN \/ order = 1 /\ StepDown(s)
        \/ /\ order = 0
           /\ at' = Set(at, s, "search")
           /\ c' = Set(c, s, entry)
           /\ jj' = Set(jj, s, incrementIndex(h[s]))
           /\ UNCHANGED <<h, jjj, x>>
        \/ /\ order = -1 /\ at[s] = "scan"
           /\ h' = Set(h, s, incrementIndex(h[s]))
           /\ UNCHANGED <<at, c, search>>
        \/ order = -1 /\ at[s] = "look" /\ Leave(s)
  /\ UNCHANGED <<table, TA, v, result>>

\* An entry that may move to slot j.
Fits(e, j) == e = Empty \/ ~ lessIndex(j, firstIndex(e))

AfterSearch(s, k) ==
  /\ jjj' = Set(jjj, s, k)
  /\ at' = Set(at, s, IF k = h[s] THEN "copy" ELSE "back")

Search(s) ==
  /\ at[s] = "search"
  /\ x' = Set(x, s, TA[jj[s]])
  /\ IF Fits(TA[jj[s]], h[s])
     THEN AfterSearch(s, decrementIndex(jj[s])) /\ UNCHANGED jj
     ELSE jj' = Set(jj, s, incrementIndex(jj[s])) /\ UNCHANGED <<jjj, at>>
  /\ UNCHANGED <<table, TA, v, h, c, result>>

\* Others may have moved an entry since: keep the nearest that fits.
Back(s) ==
  /\ at[s] = "back"
  /\ x' = IF Fits(TA[jjj[s]], h[s]) THEN Set(x, s, TA[jjj[s]]) ELSE x
  /\ AfterSearch(s, decrementIndex(jjj[s]))
  /\ UNCHANGED <<table, TA, v, h, c, jj, result>>

\* Try to copy the replacement over the entry.  Then one of the two copies of
\* the replacement has to go.
Copy(s) ==
  /\ at[s] = "copy"
  /\ \/ /\ TA[h[s]] = c[s]
        /\ TA' = Set(TA, h[s], x[s])
        /\ \/ x[s] = Empty /\ Leave(s) /\ UNCHANGED v
           \/ x[s] # Empty /\ v' = Set(v, s, x[s]) /\ Look(s, jj[s])
     \/ TA[h[s]] # c[s] /\ StepDown(s) /\ UNCHANGED <<TA, v>>
  /\ UNCHANGED <<table, result>>

-----------------------------------------------------------------------------
Quiescent == \A s \in Strand: at[s] = "done"

\* The loop is over; its user starts another one.
NextPhase ==
  /\ Quiescent
  /\ phase < MaxPhases
  /\ phase' = phase + 1
  /\ kind' \in {"insert", "delete"}
  /\ arg' \in Args(kind') /\ v' = arg'
  /\ at' = [s \in Strand |-> IF kind' = "insert" THEN "load" ELSE "call"]
  /\ h' = FirstIndices(arg')
  /\ c' = Nothing /\ x' = Nothing
  /\ jj' = Zero /\ jjj' = Zero /\ result' = Zero
  /\ UNCHANGED <<hashStruct, TA>>

Done ==
  /\ Quiescent
  /\ phase = MaxPhases
  /\ UNCHANGED vars

Step(s) == \/ Load(s) \/ Swap(s) \/ Replace(s) \/ Recheck(s)
           \/ Begin(s) \/ Scan(s) \/ Search(s) \/ Back(s) \/ Copy(s)

Next == (\E s \in Strand: Step(s)) \/ NextPhase \/ Done

Spec == Init /\ [][Next]_vars /\ WF_vars(Next)

-----------------------------------------------------------------------------
(* What users see at a quiescent point                                        *)

Occupied == {i \in Slot: TA[i] # Empty}
Entries == {TA[i]: i \in Occupied}
Held == {getKey(e): e \in Entries}

\* find: up from the first index, until the entry is not above the key.
find(k) ==
  LET probe[i \in 0 .. m] ==
        LET entry == TA[hashToRange(hashStruct.hash[k] + i)]
        IN IF i = m \/ entry = Empty \/ k > getKey(entry) THEN Empty
           ELSE IF k = getKey(entry) THEN entry ELSE probe[i + 1]
  IN probe[0]

\* count: the number of entries.
count == Cardinality(Occupied)

-----------------------------------------------------------------------------
(* Properties                                                                 *)

TypeOK ==
  /\ hashStruct \in HashStructs
  /\ TA \in [Slot -> Elem \union {Empty}]
  /\ phase \in 1 .. MaxPhases /\ kind \in {"insert", "delete"}
  /\ arg \in [Strand -> Elem] /\ v \in [Strand -> Elem]
  /\ at \in [Strand -> {"load", "reload", "swap", "replace", "recheck", "call",
                        "scan", "look", "search", "back", "copy", "done"}]
  /\ h \in [Strand -> Slot] /\ jj \in [Strand -> Slot] /\ jjj \in [Strand -> Slot]
  /\ c \in [Strand -> Elem \union {Empty}] /\ x \in [Strand -> Elem \union {Empty}]
  /\ result \in [Strand -> {0, 1}]

\* Reference: plain linear probing, from the highest priority down.
free(T, i) ==
  CHOOSE j \in Slot: /\ T[j] = Empty
                     /\ \A d \in 0 .. hashToRange(j - i) - 1: T[hashToRange(i + d)] # Empty

put(T, e) == [T EXCEPT ![free(T, firstIndex(e))] = e]

lowest(E) == CHOOSE e \in E: \A f \in E: getKey(e) <= getKey(f)

Canonical(E) ==
  LET canonical[S \in SUBSET E] ==
        IF S = {} THEN [i \in Slot |-> Empty]
        ELSE put(canonical[S \ {lowest(S)}], lowest(S))
  IN canonical[E]

\* At every quiescent point the table is the one that inserting its elements in
\* the order of their priorities gives: the order in which the strands of the
\* loops before inserted, displaced and deleted is forgotten.
HistoryIndependent == Quiescent => TA = Canonical(Entries)

\* At a quiescent point find returns the entry of every key that is held, and
\* the empty element for every other; a key is held in one slot only, so that
\* count and entries tell the keys.
FindsWhatIsHeld ==
  Quiescent =>
    /\ count = Cardinality(Held)
    /\ \A k \in Key: IF k \in Held THEN find(k) \in Entries /\ getKey(find(k)) = k
                                   ELSE find(k) = Empty

\* Of the elements of a key inserted so far (and none deleted) the one with the
\* greatest data stays, when replaceQ compares them: a replacement that races
\* with the displacement of the entry it replaces is not lost.
GreatestDataStays ==
  Quiescent /\ phase = 1 /\ hashStruct.replaces =>
    \A s \in Strand: find(getKey(arg[s]))[2] >= arg[s][2]

\* The inserts of the first loop that return 1 are as many as its keys, although
\* the one that returns 0 for a key need not be an insert of that key: it may
\* have been carrying a displaced entry.
OneReturnPerKey ==
  Quiescent /\ phase = 1 /\ ~ hashStruct.replaces =>
    Cardinality({s \in Strand: result[s] = 1}) = count

\* What insert, find and count answer to the programs that call them.
AnswersAreRight == FindsWhatIsHeld /\ GreatestDataStays /\ OneReturnPerKey

\* The strands that carry an entry their insert has displaced.
Carrying == {s \in Strand: kind = "insert" /\ at[s] # "done" /\ v[s] # arg[s]}

content == Held \union {getKey(v[s]): s \in Carrying}

PS == INSTANCE PhaseSet WITH
        content <- content,
        arg <- [s \in Strand |-> getKey(arg[s])],
        pending <- {s \in Strand: at[s] # "done"}

\* The table implements the set of keys of PhaseSet: a strand's operation takes
\* effect between its call and its return, and nothing else changes the keys.
ImplementsPhaseSet == PS!Spec

\* Every operation of every loop returns: a lost compare-and-swap is another
\* strand's progress, and no cycle of displacements goes on for ever.
Terminates == \A n \in 1 .. MaxPhases: phase = n ~> phase = n /\ Quiescent

-----------------------------------------------------------------------------
(* The inductive invariant behind these properties, for deletions that do not *)
(* overlap (HashTable_proofs).  It is about the keys of the slots, an empty   *)
(* one having -1.                                                             *)
keys == [i \in Slot |-> getKey(TA[i])]

\* How many increments lead from slot i to slot j.
ahead(i, j) == IF i <= j THEN j - i ELSE j - i + m

\* All slots from that of the hash value of k up to j have keys above k.
Passed(hash, K, k, j) ==
  \A i \in Slot: ahead(hash[k], i) < ahead(hash[k], j) => K[i] > k

\* Each key is where linear probing in the order of the priorities puts it, and
\* none occurs twice, the slots of the set S left out.
Sorted(hash, K, S) == \A j \in Slot \ S: K[j] # -1 => Passed(hash, K, K[j], j)
Distinct(K, S) == \A i, j \in Slot \ S: K[i] # -1 /\ K[i] = K[j] => i = j
Resting(hash, K, S) == Sorted(hash, K, S) /\ Distinct(K, S)

\* The deletion that has found what to delete, at first and after a move: its
\* slot may hold a key twice.
Moving(s) == \/ at[s] \in {"search", "back", "copy"}
             \/ at[s] = "look" /\ keys[h[s]] = getKey(v[s])

Inserting(s) ==
  /\ at[s] \in {"load", "reload", "swap", "replace", "recheck", "done"}
  /\ at[s] # "done" =>
       /\ Passed(hashStruct.hash, keys, getKey(v[s]), h[s])
       /\ at[s] = "swap" => getKey(c[s]) < getKey(v[s])
       /\ at[s] = "replace" => getKey(c[s]) = getKey(v[s]) /\ replaceQ(v[s], c[s])
       /\ at[s] \in {"replace", "recheck"} => keys[h[s]] >= getKey(v[s])
       /\ v[s] = arg[s] \/ getKey(v[s]) < getKey(arg[s])
  /\ at[s] = "done" \/ v[s] # arg[s] => getKey(arg[s]) \in content

\* No entry between slot j and slot k may move to j.
NoneFits(hash, K, j, k) ==
  \A i \in Slot: 0 < ahead(j, i) /\ ahead(j, i) < ahead(j, k) =>
    K[i] # -1 /\ 2 * ahead(hash[K[i]], j) > m

\* The keys but for the one in slot j.
Others(K, j) == {K[i]: i \in Slot \ {j}} \ {-1}

Deleting(s) ==
  /\ at[s] \in {"call", "scan", "look", "search", "back", "copy", "done"}
  /\ at[s] \in {"call", "scan"} => v[s] = arg[s]
  /\ at[s] = "call" => h[s] = firstIndex(arg[s])
  /\ at[s] = "scan" => Passed(hashStruct.hash, keys, getKey(v[s]), h[s])
  /\ at[s] = "done" => getKey(arg[s]) \notin Held
  /\ at[s] = "look" /\ ~ Moving(s) => keys[h[s]] > getKey(v[s]) /\ getKey(arg[s]) \notin Held
  /\ Moving(s) =>
       /\ keys[h[s]] = getKey(v[s])
       /\ Resting(hashStruct.hash, keys, {h[s]})
       /\ getKey(arg[s]) \notin Others(keys, h[s])
       /\ getKey(v[s]) = getKey(arg[s]) \/ getKey(v[s]) \in Others(keys, h[s])
       /\ at[s] # "look" =>
            /\ c[s] = TA[h[s]]
            /\ jj[s] # h[s]
            /\ NoneFits(hashStruct.hash, keys, h[s], jj[s])
       /\ at[s] \in {"back", "copy"} => x[s] = TA[jj[s]] /\ Fits(x[s], h[s])
       /\ at[s] = "back" => jjj[s] # h[s] /\ ahead(h[s], jjj[s]) < ahead(h[s], jj[s])

LoopInv ==
  /\ kind = "insert" => \A s \in Strand: Inserting(s)
  /\ kind = "delete" => \A s \in Strand: Deleting(s)
  /\ kind = "delete" => \A s, t \in Strand: {at[s], at[t]} \intersect {"call", "done"} = {} => s = t
  /\ phase = 1 => kind = "insert"

TableInv == (\A s \in Strand: kind = "insert" \/ ~ Moving(s)) => Resting(hashStruct.hash, keys, {})

\* The elements in the table, or on their way to it.
Live == Entries \union {v[s]: s \in {t \in Strand: at[t] # "done"}}

DataInv ==
  phase = 1 /\ hashStruct.replaces =>
    \A s \in Strand: \E e \in Live: getKey(e) = getKey(arg[s]) /\ e[2] >= arg[s][2]

ReturnInv ==
  /\ \A s \in Strand: at[s] # "done" => result[s] = 0
  /\ phase = 1 /\ ~ hashStruct.replaces => Cardinality({s \in Strand: result[s] = 1}) = count

IInv == TypeOK /\ LoopInv /\ TableInv /\ DataInv /\ ReturnInv
=============================================================================
