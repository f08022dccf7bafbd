------------------------------ MODULE LevelBFS ------------------------------
(***************************************************************************)
(* What a breadth-first search promises: a round replaces the frontier by  *)
(* the vertices one edge further that no earlier round met.  BFS is shown  *)
(* to implement this specification with each of its rounds as one step.    *)
(***************************************************************************)
EXTENDS Digraph

CONSTANTS
  EdgeSets, \* the sets of edges the specification may start on
  Start     \* the vertex searched from

VARIABLES edges, visited, frontier, done

vars == <<edges, visited, frontier, done>>

Init ==
  /\ edges \in EdgeSets
  /\ visited = {Start}
  /\ frontier = {Start}
  /\ done = FALSE

Advance ==
  /\ frontier # {}
  /\ frontier' = Successors(edges, frontier) \ visited
  /\ visited' = visited \union frontier'
  /\ UNCHANGED <<edges, done>>

Finish ==
  /\ ~done
  /\ frontier = {}
  /\ done' = TRUE
  /\ UNCHANGED <<edges, visited, frontier>>

Next == Advance \/ Finish

Spec == Init /\ [][Next]_vars
=============================================================================
