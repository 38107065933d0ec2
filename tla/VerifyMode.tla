----------------------------- MODULE VerifyMode -----------------------------
(***************************************************************************)
(* Mode Verify of processFile: verify without trace; if that fails ask for *)
(* a complete trace, and at last for one that need not be faithful.        *)
(***************************************************************************)
EXTENDS InstrumentedProgram

VARIABLES
  program,     \* the program
  phase        \* what is asked next, or how it ended

vars == <<program, phase>>

Init == program \in Programs /\ phase = "verify"

Ask(noTrace, preventDeadlock) ==
  Fails(program, [noTrace |-> noTrace, preventDeadlock |-> preventDeadlock])

Verify ==
  /\ phase = "verify"
  /\ phase' = IF Ask(TRUE, FALSE) THEN "trace" ELSE "no bugs found"
  /\ UNCHANGED program

ProduceTrace ==
  /\ phase = "trace"
  /\ phase' = IF Ask(FALSE, FALSE) THEN "trace written" ELSE "forced trace"
  /\ UNCHANGED program

ProduceForcedTrace ==
  /\ phase = "forced trace"
  /\ phase' = IF Ask(FALSE, TRUE) THEN "trace written" ELSE "assert(false)"
  /\ UNCHANGED program

Next == Verify \/ ProduceTrace \/ ProduceForcedTrace

Spec == Init /\ [][Next]_vars

\* "assert(false) // this should really never happen" (Main.scala:505).
NeverHappens == phase # "assert(false)"
=============================================================================
