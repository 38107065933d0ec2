-------------------------- MODULE MCBlackEdgeLevels --------------------------
(* thread1: while (nondet) { if (nondet) { x = 1; } else { f = 1; } }      *)
(* thread2: assume(f == 1); assert(x == 1);                                *)
EXTENDS BlackEdgeLevels, SequencesExt

InitialWrites == <<[thread |-> 0, kind |-> "write", variables |-> {"x"}],
                   [thread |-> 0, kind |-> "write", variables |-> {"f"}]>>
SetX  == [thread |-> 1, kind |-> "write", variables |-> {"x"}]
SetF  == [thread |-> 1, kind |-> "write", variables |-> {"f"}]
WaitF == [thread |-> 2, kind |-> "assume", variables |-> {"f"}]
TestX == [thread |-> 2, kind |-> "assert", variables |-> {"x"}]

\* Up to three rounds of the loop; the assumption and the assertion hold.
LoopTraces ==
  {InitialWrites \o t : t \in
     {t \in UNION {[1 .. n -> {SetX, SetF, WaitF, TestX}] : n \in 4 .. 5} :
        \E i, j \in DOMAIN t :
          /\ i < j
          /\ \A k \in DOMAIN t : /\ t[k] = WaitF <=> k = i
                                 /\ t[k] = TestX <=> k = j
          /\ \E k \in 1 .. i : t[k] = SetF
          /\ \E k \in 1 .. j : t[k] = SetX}}

ThreadFunctions == {"main", "thread1", "thread2"}
Statements == {"x=1", "f=1", "assume", "assert", "init x", "init f"}
LoopStructures == ThreadFunctions \cup {"while", "if"} \cup Statements

LoopKind == [s \in LoopStructures |->
  IF s \in ThreadFunctions THEN "function" ELSE IF s \in Statements THEN "statement" ELSE s]

LoopParent == [s \in LoopStructures |->
  CASE s \in ThreadFunctions -> "program"
    [] s = "while" -> "thread1"
    [] s = "if" -> "while"
    [] s \in {"x=1", "f=1"} -> "if"
    [] s \in {"assume", "assert"} -> "thread2"
    [] s \in {"init x", "init f"} -> "main"]

LoopLocated == [e \in {InitialWrites[1], InitialWrites[2], SetX, SetF, WaitF, TestX} |->
  <<CASE e = InitialWrites[1] -> "init x" [] e = InitialWrites[2] -> "init f"
      [] e = SetX -> "x=1" [] e = SetF -> "f=1"
      [] e = WaitF -> "assume" [] e = TestX -> "assert", <<>>>>]
===============================================================================
