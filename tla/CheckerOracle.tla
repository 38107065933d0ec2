----------------------------- MODULE CheckerOracle -----------------------------
(***************************************************************************)
(* What a caller of invokeChecker may rely on: a call is answered with     *)
(* what the model checker says of that program, or it fails.  Caches,      *)
(* files, processes and crashes are not seen.                              *)
(***************************************************************************)
CONSTANTS Callers, Codes, NoCode

VARIABLES asked,    \* the program each caller waits for an answer about
          reply,    \* what its last call returned
          verdict   \* what the model checker says of each program

oracleVars == <<asked, reply, verdict>>

OracleInit == /\ asked = [k \in Callers |-> NoCode]
              /\ reply = [k \in Callers |-> "none"]
              /\ verdict \in [Codes -> {"Success", "Failure"}]

Ask(k, c) == /\ asked[k] = NoCode
             /\ asked' = [asked EXCEPT ![k] = c]
             /\ reply' = [reply EXCEPT ![k] = "none"]

Answer(k) == /\ asked[k] # NoCode
             /\ asked' = [asked EXCEPT ![k] = NoCode]
             /\ reply' = [reply EXCEPT ![k] = verdict[asked[k]]]

Fail(k) == /\ asked[k] # NoCode
           /\ asked' = [asked EXCEPT ![k] = NoCode]
           /\ reply' = [reply EXCEPT ![k] = "failed"]

\* The run of these callers ends; what they asked is forgotten.
Abandon(ks) == /\ asked' = [k \in Callers |-> IF k \in ks THEN NoCode ELSE asked[k]]
               /\ reply' = [k \in Callers |-> IF k \in ks THEN "none" ELSE reply[k]]

OracleNext == /\ \/ \E k \in Callers : (\E c \in Codes : Ask(k, c)) \/ Answer(k) \/ Fail(k)
                 \/ \E ks \in SUBSET Callers : Abandon(ks)
              /\ UNCHANGED verdict

OracleSpec == OracleInit /\ [][OracleNext]_oracleVars
===============================================================================
