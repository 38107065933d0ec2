--------------------------- MODULE MCProofObject ---------------------------
(* Main writes both variables, then two threads take five steps or three   *)
(* threads four; the last step works on the asserted variable, x.          *)
EXTENDS ProofObject, SequencesExt

InitialWrites == <<[thread |-> 0, kind |-> "write", variables |-> {"x"}],
                   [thread |-> 0, kind |-> "write", variables |-> {"y"}]>>

Runs(steps, threads) ==
  {run \in [1 .. steps ->
              [thread : threads, kind : {"write", "assume"}, variables : {{"x"}, {"y"}}]
              \cup [thread : threads, kind : {"assert"}, variables : {{"x"}}]] :
     /\ run[1].thread = 1
     /\ \E i \in 1 .. steps : run[i].kind = "assert"
     /\ run[steps].kind # "assume" /\ run[steps].variables = {"x"}}

GoodTraces == {InitialWrites \o run : run \in Runs(5, {1, 2}) \cup Runs(4, {1, 2, 3})}
============================================================================
