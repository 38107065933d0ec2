---------------------------- MODULE MCVerifyMode ----------------------------
(* The first thread decides on two variables which the second one changes  *)
(* in an atomic section, and then asserts something of one of them.        *)
EXTENDS VerifyMode, SequencesExt

CONSTANTS x, y

Writes == [1 .. 2 -> {[op |-> "write", variable |-> v, value |-> 1] : v \in {x, y}}]

TornPrograms ==
  {<<<<[op |-> "if", condition |-> c @@ d, skip |-> 1],
       [op |-> "assert", condition |-> a]>>,
     <<[op |-> "begin"]>> \o w \o <<[op |-> "end"]>>>> :
   c \in {x :> 0, x :> 1}, d \in {y :> 0, y :> 1}, a \in {x :> 0, y :> 0}, w \in Writes}
=============================================================================
