--------------------------- MODULE MCStatementOrder ---------------------------
(* Instances of StatementOrder for TLC: lines 1..Size, and sections numbered  *)
(* downwards as SectionBlock.freshLocation does.                              *)
EXTENDS StatementOrder

CONSTANT Size

Lines == 1..Size
Source == [i \in Lines |-> i]
NewSections == {-i : i \in 1..MaxRepairs}
Everything == Lines \cup NewSections
Alternate == {[s \in Everything |-> 1 + (s % 2)]}
NoProblems == {}
LastLine == {Size}
===============================================================================
