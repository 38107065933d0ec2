---------------------------- MODULE MCRepairLoop ----------------------------
(* Instances of RepairLoop for TLC: two structures a and b. *)
EXTENDS RepairLoop

CONSTANTS a, b

TwoStructures == {a, b}

\* A reordering and an atomic section that is deferred; and two red edges of the
\* other pair that give equal atomic sections, which LearnedBlack suggests, of
\* different cost, the first with a reordering.
RepairEdges ==
  {[pair |-> <<a, b>>, metric |-> 0, moves |-> "up", atomic |-> TRUE],
   [pair |-> <<b, a>>, metric |-> 0, moves |-> "up", atomic |-> TRUE],
   [pair |-> <<b, a>>, metric |-> 20, moves |-> "ordered", atomic |-> TRUE]}

LearnedBlack == {<<a, b>>}
=============================================================================
