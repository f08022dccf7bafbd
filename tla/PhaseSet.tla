------------------------------ MODULE PhaseSet ------------------------------
(* What the hash table of graphtools/deterministicHash.h promises its users:  *)
(* a set of keys, worked on in phases.  All the operations of a phase are     *)
(* of one kind and may overlap; each takes effect at one instant between its  *)
(* call and its return.                                                       *)
EXTENDS Naturals

CONSTANTS Key,       \* the keys
          Strand,    \* the iterations of a phase's parallel loop
          MaxPhases  \* bound on the phases of a behaviour

VARIABLES content,   \* the keys held
          phase,     \* the number of the current phase
          kind,      \* what the current phase does: "insert" or "delete"
          arg,       \* the key of each strand's operation
          pending    \* the strands whose operation has not returned

vars == <<content, phase, kind, arg, pending>>

Init ==
  /\ content = {}
  /\ phase = 1
  /\ kind = "insert"
  /\ arg \in [Strand -> Key]
  /\ pending = Strand

Effect(S) == IF kind = "insert" THEN content \union {arg[s]: s \in S}
                                ELSE content \ {arg[s]: s \in S}

\* The operations of the strands S take effect, those of R return; an operation
\* returns only when its effect is in place.
Operate(S, R) ==
  /\ content' = Effect(S)
  /\ \A s \in R: (arg[s] \in content') <=> (kind = "insert")
  /\ pending' = pending \ R
  /\ UNCHANGED <<phase, kind, arg>>

\* The loop is over and another one starts.
NextPhase ==
  /\ pending = {}
  /\ phase < MaxPhases
  /\ phase' = phase + 1
  /\ kind' \in {"insert", "delete"}
  /\ arg' \in [Strand -> Key]
  /\ pending' = Strand
  /\ UNCHANGED content

Next ==
  \/ \E S, R \in SUBSET pending: Operate(S, R)
  \/ NextPhase

Spec == Init /\ [][Next]_vars
=============================================================================
