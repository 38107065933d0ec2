--------------------------- MODULE BlackEdgeLevels ---------------------------
(***************************************************************************)
(* The black edges of a good trace are edges between statements; the order *)
(* of the program is between structures at one level.  addBlackEdge looks  *)
(* for the level of each black edge a proof object gives.                  *)
(***************************************************************************)
EXTENDS ProofObject, CommonLevel

CONSTANT
  Located      \* for every event, where its statement is in the program

\* "assert(assertion = false);None // should never happen" (StatementOrder.scala:283):
\* the statements of a black edge have a common level.
BlackEdgesHaveLevel ==
  phase = "done" =>
    \A b \in black : SameLevel(Located[trace[b[1]]], Located[trace[b[2]]]) # NoLevel
===============================================================================
