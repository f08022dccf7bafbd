------------------------------ MODULE Digraph ------------------------------
(***************************************************************************)
(* Directed graphs as the rest of the project sees them: the vertices are  *)
(* 0 .. N-1 (GA.n is N), and an edge is a tuple that starts with its       *)
(* source and its destination (class Edge of graphgrind/graph-numa.h).     *)
(***************************************************************************)
EXTENDS Integers

CONSTANT N

ASSUME SizeAssumption == N \in Nat \ {0}

Vertex == 0 .. N-1

src(e) == e[1]
dst(e) == e[2]

IsEdge(e) == src(e) \in Vertex /\ dst(e) \in Vertex

Successors(E, S) == {dst(e) : e \in {x \in E : src(x) \in S}}

\* v can be reached from u along the edges E: every set of vertices that holds
\* u and is closed under E holds v.
Closed(E, S) == \A e \in E : src(e) \in S => dst(e) \in S
Reaches(E, u, v) == \A S \in SUBSET Vertex : u \in S /\ Closed(E, S) => v \in S
=============================================================================
