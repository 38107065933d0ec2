------------------------- MODULE MCGoodTraceLearning -------------------------
(* Instances of GoodTraceLearning for TLC. *)
EXTENDS GoodTraceLearning

CONSTANTS a1, a2, r1, r2

TwoAssertions == {a1, a2}
TwoReads == {r1, r2}
TwoEdges == {<<1, 2>>, <<2, 1>>}

\* Two assertions that read in the ways given; an execution that finishes shows
\* an edge of the text and, from another turn of a loop, the same edge backwards.
Sample(reads1, reads2) ==
  {[finishes |-> f, reads |-> [a \in TwoAssertions |-> IF a = a1 THEN x ELSE y],
    black |-> [w \in Workers |-> IF f THEN TwoEdges ELSE {}],
    suggested |-> [w \in Workers |-> IF x = r1 THEN TwoEdges ELSE {}]] :
     f \in BOOLEAN, x \in reads1, y \in reads2}

ManyExecutions == Sample({r1, r2, NotReached}, {r1})
===============================================================================
