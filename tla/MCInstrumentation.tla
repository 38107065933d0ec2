------------------------- MODULE MCInstrumentation -------------------------
(* Two threads of two and three statements on two variables; those of the  *)
(* first may be an atomic section.                                         *)
EXTENDS Instrumentation, SequencesExt

CONSTANTS x, y

Conditions == {x :> 0, x :> 1, y :> 1}

Steps ==
  {[op |-> "write", variable |-> v, value |-> 1] : v \in {x, y}}
  \cup {[op |-> "assert", condition |-> c] : c \in {x :> 0, y :> 1}}
  \cup {[op |-> "assume", condition |-> c] : c \in {x :> 1, y :> 1}}
  \cup {[op |-> "if", condition |-> x :> 1, skip |-> 1]}

Bodies == [1 .. 2 -> Steps]
Section(body) == <<[op |-> "begin"]>> \o body \o <<[op |-> "end"]>>

OneVariablePrograms ==
  {<<first, second>> : second \in [1 .. 3 -> Steps], first \in
     Bodies \cup {Section(b) : b \in {b \in Bodies : b[2].op # "if"}}}

\* They are what the proofs about executions assume of a program.
ASSUME ProgramsSound == \A p \in Programs : SoundProgram(p)
============================================================================
