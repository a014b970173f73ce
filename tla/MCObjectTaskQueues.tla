------------------------- MODULE MCObjectTaskQueues -------------------------
(***************************************************************************)
(* Pointer graphs for model checking ObjectTaskQueues.                     *)
(***************************************************************************)
EXTENDS ObjectTaskQueues

\* A graph from a set of edges.
Graph(E) == [o \in Objects |-> {p \in Objects : <<o, p>> \in E}]

Instance(E, all, n) == [points |-> Graph(E), saveAll |-> all, changes |-> n]

\* Two parents of one child; a triangle, whose saves need up to three waves;
\* one pointer, with a change while saves are under way.
PassingInstances ==
  {Instance({<<1, 3>>, <<2, 3>>}, FALSE, 0),
   Instance({<<1, 2>>, <<2, 3>>, <<1, 3>>}, TRUE, 0),
   Instance({<<1, 2>>}, FALSE, 1)}

\* A child with a child of its own.
Chain == {Instance({<<1, 2>>, <<2, 3>>}, FALSE, 0)}
=============================================================================
