------------------------------ MODULE MinLabel ------------------------------
(***************************************************************************)
(* What label propagation promises, whatever the schedule: a label only    *)
(* moves down, and only to the number of a vertex that reaches its owner;  *)
(* the result is declared when no edge could lower a label any more.       *)
(* Components is shown to implement this specification.                    *)
(***************************************************************************)
EXTENDS Digraph

CONSTANT EdgeSets  \* the sets of edges the specification may start on

VARIABLES edges, label, done

vars == <<edges, label, done>>

Init ==
  /\ edges \in EdgeSets
  /\ label = [v \in Vertex |-> v]
  /\ done = FALSE

Lower(v, u) ==
  /\ ~done
  /\ u < label[v]
  /\ Reaches(edges, u, v)
  /\ label' = [label EXCEPT ![v] = u]
  /\ UNCHANGED <<edges, done>>

Stable == \A e \in edges : label[dst(e)] <= label[src(e)]

Finish ==
  /\ ~done
  /\ Stable
  /\ done' = TRUE
  /\ UNCHANGED <<edges, label>>

Next == Finish \/ \E v, u \in Vertex : Lower(v, u)

Spec == Init /\ [][Next]_vars

-----------------------------------------------------------------------------
TypeOK ==
  /\ edges \in EdgeSets
  /\ label \in [Vertex -> Vertex]
  /\ done \in BOOLEAN

\* Labels are always numbers of vertices that reach their owner.
LabelsReach == \A v \in Vertex : Reaches(edges, label[v], v)

(***************************************************************************)
(* The declared result is the smallest number of a vertex that reaches the *)
(* owner of the label.  (A theorem of Components_proofs.)                  *)
(***************************************************************************)
DoneIsMinimum ==
  done => \A u, v \in Vertex : Reaches(edges, u, v) => label[v] <= u
=============================================================================
