----------------------------- MODULE RepairSearch -----------------------------
(***************************************************************************)
(* What Main.repairProgram promises, whatever it does with queues, stashes *)
(* and modes: a search that settles every candidate it ever derives, at    *)
(* most once, and gives up only when none is left.  RepairLoop implements  *)
(* it.                                                                     *)
(***************************************************************************)
CONSTANTS Candidate, \* everything that may be tried, records with a program so
          Program,   \* the programs
          Root       \* the candidate that is the program to repair

VARIABLES pending, \* candidates to try
          trying,  \* the candidate being analysed, if any
          settled, \* candidates analysed and not accepted
          outcome, \* "searching", or how the search ended
          failing, \* the programs in which an assertion can fail
          correct  \* the programs in which none fails and that can finish

facts == <<failing, correct>>
searchVars == <<pending, trying, settled, outcome, failing, correct>>

TypeOK == /\ pending \subseteq Candidate
          /\ trying \subseteq Candidate
          /\ settled \subseteq Candidate
          /\ outcome \in {"searching", "solved", "exhausted", "stopped"}
          /\ failing \subseteq Program
          /\ correct \subseteq Program

Init == /\ pending = {Root}
        /\ trying = {}
        /\ settled = {}
        /\ outcome = "searching"
        /\ failing \subseteq Program
        /\ correct \subseteq Program \ failing

\* One pending candidate becomes the one that is tried.
Try == /\ outcome = "searching" /\ trying = {}
       /\ \E s \in pending : trying' = {s} /\ pending' = pending \ {s}
       /\ UNCHANGED <<settled, outcome, facts>>

\* New candidates are derived from the one being tried.
Derive == /\ outcome = "searching" /\ trying # {}
          /\ pending \subseteq pending'
          /\ pending' \ pending \subseteq Candidate \ (trying \cup settled)
          /\ UNCHANGED <<trying, settled, outcome, facts>>

\* The candidate being tried turns out not to be a solution.
Settle == /\ outcome = "searching"
          /\ \E s \in trying : s.so \notin correct
          /\ settled' = settled \cup trying
          /\ trying' = {}
          /\ UNCHANGED <<pending, outcome, facts>>

\* The candidate being tried is the solution.
Solve == /\ outcome = "searching"
         /\ \E s \in trying : s.so \notin failing
         /\ outcome' = "solved"
         /\ UNCHANGED <<pending, trying, settled, facts>>

GiveUp == /\ outcome = "searching" /\ trying = {} /\ pending = {}
          /\ outcome' = "exhausted"
          /\ UNCHANGED <<pending, trying, settled, facts>>

\* The user stops the search.
Stop == /\ outcome = "searching"
        /\ outcome' = "stopped"
        /\ UNCHANGED <<pending, trying, settled, facts>>

Next == Try \/ Derive \/ Settle \/ Solve \/ GiveUp \/ Stop

Spec == Init /\ [][Next]_searchVars
===============================================================================
