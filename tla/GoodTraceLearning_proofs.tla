----------------------- MODULE GoodTraceLearning_proofs -----------------------
(***************************************************************************)
(* Theorems about learning from good traces, for any set of assertions,    *)
(* any executions, any number of threads and any limit on the rounds.      *)
(***************************************************************************)
EXTENDS GoodTraceLearning, FiniteSetTheorems, TLAPS

\* A question without an answer means that there is nothing new to read.
SuccessCovers ==
  \A a \in Assertions : lastRes[a] = "Success" => ~finishTrace[a] /\ Covered(a, runs)

\* No question is asked after that.
AsksInFailure == \A a \in Assertions : pc[a] = "ask" => lastRes[a] = "Failure"

\* How many questions had no answer so far.
Unanswered(a) == IF finishTrace[a] THEN 0 ELSE IF lastRes[a] = "Success" THEN 2 ELSE 1

RoundsCounted ==
  \A a \in Assertions :
    /\ IsFiniteSet(readFrom[a])
    /\ rounds[a] <= Cardinality(readFrom[a]) + Unanswered(a)
                      + (IF pc[a] = "ask" THEN 1 ELSE 0)

LearnInv == /\ LearnTypeOK
            /\ FinishedFirst
            /\ SuccessCovers
            /\ AsksInFailure
            /\ LearnsEveryRead
            /\ RoundsCounted
-------------------------------------------------------------------------------
\* What the checker answers is an execution of the program in which an assertion
\* reads something new; an answer to the first kind of question finishes.
LEMMA AnswerFacts ==
  ASSUME LearnTypeOK, NEW w \in Workers, NEW known, NEW finish, NEW e \in Answers(w, known, finish)
  PROVE  /\ e \in runs /\ e \in Execution
         /\ w \in Assertions => e.reads[w] \in Reads /\ e.reads[w] \notin known
         /\ finish => e.finishes
BY LearningAssumption DEF Answers, LearnTypeOK, Execution

\* Without an answer every execution asked for is covered.
LEMMA NoAnswerCovers ==
  ASSUME NEW a \in Assertions, NEW finish, Answers(a, readFrom[a], finish) = {}
  PROVE  Covered(a, {e \in runs : finish => e.finishes})
BY DEF Answers, Covered

\* The initial states satisfy the invariant.
LEMMA LearnInvInit == LearnInit => LearnInv
<1> SUFFICES ASSUME LearnInit PROVE LearnInv
  OBVIOUS
<1>1. LearnTypeOK
  <2>1. rounds \in [Workers -> 0..MaxRounds]
    BY LearningAssumption DEF LearnInit
  <2>2. /\ pc \in [Workers -> {"waiting", "guard", "ask", "done"}]
        /\ lastRes \in [Workers -> {"Failure", "Success"}]
        /\ finishTrace \in [Workers -> BOOLEAN]
    BY DEF LearnInit
  <2>3. /\ readFrom \in [Workers -> SUBSET Reads]
        /\ be \in [Workers -> SUBSET Edges]
        /\ sug \in [Workers -> SUBSET Edges]
    BY DEF LearnInit
  <2> QED
    BY <2>1, <2>2, <2>3 DEF LearnInit, LearnTypeOK
<1>2. FinishedFirst /\ SuccessCovers /\ AsksInFailure /\ LearnsEveryRead
  BY DEF LearnInit, FinishedFirst, SuccessCovers, AsksInFailure, LearnsEveryRead, Workers
<1>3. RoundsCounted
  <2>1. IsFiniteSet({}) /\ Cardinality({}) = 0
    BY FS_EmptySet
  <2> QED
    BY <2>1 DEF LearnInit, RoundsCounted, Unanswered, Workers
<1> QED
  BY <1>1, <1>2, <1>3 DEF LearnInv

\* Every step keeps the types.
LEMMA LearnStepTypes == LearnTypeOK /\ [LearnNext]_learnVars => LearnTypeOK'
<1> SUFFICES ASSUME LearnTypeOK, [LearnNext]_learnVars PROVE LearnTypeOK'
  OBVIOUS
<1> USE DEF LearnTypeOK
<1>1. ASSUME NEW w \in Workers, Begin(w) PROVE LearnTypeOK'
  BY <1>1 DEF Begin, local, learned
<1>2. ASSUME NEW w \in Workers, Guard(w) PROVE LearnTypeOK'
  BY <1>2, LearningAssumption DEF Guard, GoesOn, learned
<1>3. ASSUME NEW w \in Workers, FoundTrace(w) PROVE LearnTypeOK'
  <2> PICK e \in Answers(w, readFrom[w], finishTrace[w]) : Learn(w, e)
    BY <1>3 DEF FoundTrace
  <2>1. /\ e.black[w] \subseteq Edges /\ e.suggested[w] \subseteq Edges
        /\ (IF w = Whole THEN {} ELSE {e.reads[w]}) \subseteq Reads
    <3>1. e \in Execution /\ (w \in Assertions => e.reads[w] \in Reads)
      BY AnswerFacts
    <3>2. w \in Assertions \/ w = Whole
      BY DEF Workers
    <3> QED
      BY <3>1, <3>2 DEF Execution
  <2>2. /\ readFrom' \in [Workers -> SUBSET Reads]
        /\ be' \in [Workers -> SUBSET Edges]
        /\ sug' \in [Workers -> SUBSET Edges]
    BY <2>1 DEF Learn
  <2> QED
    BY <1>3, <2>2 DEF FoundTrace, Learn, learned
<1>4. ASSUME NEW w \in Workers, NoTrace(w) PROVE LearnTypeOK'
  BY <1>4 DEF NoTrace, LastRes, learned
<1>5. CASE Merge
  BY <1>5 DEF Merge, BlackEdges, SuggestedSwaps, local
<1>6. CASE RequestCancel
  BY <1>6 DEF RequestCancel, local, learned
<1>7. CASE UNCHANGED learnVars
  BY <1>7 DEF learnVars, local, learned
<1> QED
  BY <1>1, <1>2, <1>3, <1>4, <1>5, <1>6, <1>7 DEF LearnNext, Work

\* Every step keeps what is known of the executions already covered.
LEMMA LearnStepCovers ==
  ASSUME LearnInv, [LearnNext]_learnVars
  PROVE  (FinishedFirst /\ SuccessCovers /\ AsksInFailure /\ LearnsEveryRead)'
<1> DEFINE Goal(a) ==
      /\ ~finishTrace[a] => Covered(a, {e \in runs : e.finishes})
      /\ lastRes[a] = "Success" => ~finishTrace[a] /\ Covered(a, runs)
      /\ pc[a] = "ask" => lastRes[a] = "Failure"
      /\ pc[a] = "done" /\ (lastRes[a] = "Success" \/ (~cancel /\ rounds[a] < MaxRounds))
           => Covered(a, runs)
<1> USE DEF LearnInv, LearnTypeOK
<1>0. \A a \in Assertions : Goal(a) /\ a \in Workers /\ a # Whole
  BY LearningAssumption
     DEF FinishedFirst, SuccessCovers, AsksInFailure, LearnsEveryRead, Workers
<1> SUFFICES ASSUME NEW a \in Assertions PROVE Goal(a)'
  BY DEF FinishedFirst, SuccessCovers, AsksInFailure, LearnsEveryRead
<1>1. ASSUME NEW w \in Workers, Begin(w) PROVE Goal(a)'
  BY <1>0, <1>1 DEF Begin, local, learned, Covered
<1>2. ASSUME NEW w \in Workers, Guard(w) PROVE Goal(a)'
  <2>1. CASE w # a
    BY <1>0, <1>2, <2>1 DEF Guard, learned, Covered
  <2>2. CASE w = a /\ GoesOn(a)
    BY <1>0, <1>2, <2>2 DEF Guard, GoesOn, learned, Covered
  <2>3. CASE w = a /\ ~GoesOn(a)
    BY <1>0, <1>2, <2>3 DEF Guard, GoesOn, learned, Covered
  <2> QED
    BY <2>1, <2>2, <2>3
<1>3. ASSUME NEW w \in Workers, FoundTrace(w) PROVE Goal(a)'
  <2> PICK e \in Answers(w, readFrom[w], finishTrace[w]) : Learn(w, e)
    BY <1>3 DEF FoundTrace
  <2>1. readFrom[a] \subseteq readFrom'[a] /\ finishTrace' = finishTrace /\ runs' = runs
    BY <1>0, <1>3 DEF Learn, FoundTrace
  <2>2. \A es : Covered(a, es) => Covered(a, es)'
    BY <2>1 DEF Covered
  <2> QED
    BY <1>0, <1>3, <2>1, <2>2 DEF FoundTrace, learned
<1>4. ASSUME NEW w \in Workers, NoTrace(w) PROVE Goal(a)'
  <2>1. CASE w # a
    BY <1>0, <1>4, <2>1 DEF NoTrace, learned, Covered
  <2>2. CASE w = a /\ finishTrace[a]
    BY <1>0, <1>4, <2>2, NoAnswerCovers DEF NoTrace, LastRes, learned, Covered
  <2>3. CASE w = a /\ ~finishTrace[a]
    BY <1>0, <1>4, <2>3, NoAnswerCovers DEF NoTrace, LastRes, learned, Covered
  <2> QED
    BY <2>1, <2>2, <2>3
<1>5. CASE Merge
  BY <1>0, <1>5 DEF Merge, local, Covered
<1>6. CASE RequestCancel
  BY <1>0, <1>6 DEF RequestCancel, local, learned, Covered
<1>7. CASE UNCHANGED learnVars
  BY <1>0, <1>7 DEF learnVars, local, learned, Covered
<1> QED
  BY <1>1, <1>2, <1>3, <1>4, <1>5, <1>6, <1>7 DEF LearnNext, Work

\* Every step keeps the count of the rounds.
LEMMA LearnStepRounds ==
  ASSUME LearnInv, [LearnNext]_learnVars
  PROVE  RoundsCounted'
<1> DEFINE Goal(a) ==
      /\ IsFiniteSet(readFrom[a])
      /\ rounds[a] <= Cardinality(readFrom[a]) + Unanswered(a)
                        + (IF pc[a] = "ask" THEN 1 ELSE 0)
<1> USE DEF LearnInv, LearnTypeOK
<1>0. \A a \in Assertions : Goal(a) /\ a \in Workers /\ a # Whole
  BY LearningAssumption DEF RoundsCounted, Workers
<1> SUFFICES ASSUME NEW a \in Assertions PROVE Goal(a)'
  BY DEF RoundsCounted
<1>a. Cardinality(readFrom[a]) \in Nat /\ rounds[a] \in Int
  BY <1>0, FS_CardinalityType
<1>1. ASSUME NEW w \in Workers, Begin(w) PROVE Goal(a)'
  BY <1>0, <1>a, <1>1 DEF Begin, local, learned, Unanswered
<1>2. ASSUME NEW w \in Workers, Guard(w) PROVE Goal(a)'
  BY <1>0, <1>a, <1>2 DEF Guard, learned, Unanswered
<1>3. ASSUME NEW w \in Workers, FoundTrace(w) PROVE Goal(a)'
  <2> PICK e \in Answers(w, readFrom[w], finishTrace[w]) : Learn(w, e)
    BY <1>3 DEF FoundTrace
  <2>1. CASE w # a
    <3>1. readFrom'[a] = readFrom[a] /\ finishTrace'[a] = finishTrace[a]
          /\ lastRes'[a] = lastRes[a] /\ pc'[a] = pc[a] /\ rounds'[a] = rounds[a]
      BY <1>0, <1>3, <2>1 DEF FoundTrace, Learn
    <3> QED
      BY <1>0, <3>1 DEF Unanswered
  <2>2. CASE w = a
    <3>1. e.reads[a] \notin readFrom[a]
      BY <1>0, <2>2, AnswerFacts
    <3>2. readFrom'[a] = readFrom[a] \cup {e.reads[a]}
      BY <1>0, <2>2 DEF Learn
    <3>3. /\ IsFiniteSet(readFrom'[a])
          /\ Cardinality(readFrom'[a]) = Cardinality(readFrom[a]) + 1
      <4>1. \A S, x : IsFiniteSet(S) /\ x \notin S
                       => IsFiniteSet(S \cup {x}) /\ Cardinality(S \cup {x}) = Cardinality(S) + 1
        BY FS_AddElement
      <4>2. IsFiniteSet(readFrom[a])
        BY <1>0
      <4>3. /\ IsFiniteSet(readFrom[a] \cup {e.reads[a]})
            /\ Cardinality(readFrom[a] \cup {e.reads[a]}) = Cardinality(readFrom[a]) + 1
        BY <3>1, <4>1, <4>2, Zenon
      <4> QED
        BY <3>2, <4>3
    <3>4. /\ lastRes[a] = "Failure" /\ lastRes'[a] = "Failure" /\ finishTrace'[a] = finishTrace[a]
          /\ pc[a] = "ask" /\ pc'[a] = "guard" /\ rounds'[a] = rounds[a]
      BY <1>0, <1>3, <2>2 DEF FoundTrace, Learn, AsksInFailure
    <3> QED
      BY <1>0, <1>a, <3>3, <3>4 DEF Unanswered
  <2> QED
    BY <2>1, <2>2
<1>4. ASSUME NEW w \in Workers, NoTrace(w) PROVE Goal(a)'
  <2>1. readFrom'[a] = readFrom[a] /\ rounds'[a] = rounds[a]
    BY <1>4 DEF NoTrace
  <2>2. CASE w # a
    BY <1>0, <1>a, <1>4, <2>1, <2>2 DEF NoTrace, Unanswered
  <2>3. CASE w = a
    <3>1. /\ lastRes[a] = "Failure" /\ ~finishTrace'[a]
          /\ pc[a] = "ask" /\ pc'[a] = "guard"
          /\ lastRes'[a] = IF finishTrace[a] THEN "Failure" ELSE "Success"
      BY <1>0, <1>4, <2>3 DEF NoTrace, LastRes, AsksInFailure
    <3> QED
      BY <1>0, <1>a, <2>1, <3>1 DEF Unanswered
  <2> QED
    BY <2>2, <2>3
<1>5. CASE Merge
  BY <1>0, <1>5 DEF Merge, local, Unanswered
<1>6. CASE RequestCancel
  BY <1>0, <1>6 DEF RequestCancel, local, learned, Unanswered
<1>7. CASE UNCHANGED learnVars
  BY <1>0, <1>7 DEF learnVars, local, learned, Unanswered
<1> QED
  BY <1>1, <1>2, <1>3, <1>4, <1>5, <1>6, <1>7 DEF LearnNext, Work
-------------------------------------------------------------------------------
\* The invariant holds in every reachable state.
THEOREM LearnInvariance == LearnSpec => []LearnInv
<1>1. LearnInv /\ [LearnNext]_learnVars => LearnInv'
  BY LearnStepTypes, LearnStepCovers, LearnStepRounds DEF LearnInv
<1> QED
  BY <1>1, LearnInvInit, PTL DEF LearnSpec

\* The types hold; no black edge goes against the text, no suggestion with it.
THEOREM LearnTypeCorrect == LearnSpec => []LearnTypeOK
<1>1. LearnInv => LearnTypeOK
  BY DEF LearnInv
<1> QED
  BY <1>1, LearnInvariance, PTL

\* A worker of processAssertion that is not cut short has seen every way in which
\* its assertion can read, in executions that finish first.
THEOREM LearningIsExhaustive == LearnSpec => []LearnsCompletely
<1>1. LearnInv => LearnsCompletely
  BY DEF LearnInv, LearnsCompletely
<1> QED
  BY <1>1, LearnInvariance, PTL

\* All but two rounds of processAssertion find something new.
THEOREM NoRoundIsWasted == LearnSpec => []RoundsLearn
<1>1. ASSUME LearnInv PROVE RoundsLearn
  <2> SUFFICES ASSUME NEW a \in Assertions
               PROVE  rounds[a] <= Cardinality(readFrom[a]) + 2
                                     + (IF pc[a] = "ask" THEN 1 ELSE 0)
    BY DEF RoundsLearn
  <2>1. /\ IsFiniteSet(readFrom[a]) /\ rounds[a] \in Int
        /\ rounds[a] <= Cardinality(readFrom[a]) + Unanswered(a)
                          + (IF pc[a] = "ask" THEN 1 ELSE 0)
    BY <1>1 DEF LearnInv, RoundsCounted, LearnTypeOK, Workers
  <2>2. Cardinality(readFrom[a]) \in Nat
    BY <2>1, FS_CardinalityType
  <2> QED
    BY <2>1, <2>2 DEF Unanswered
<1> QED
  BY <1>1, LearnInvariance, PTL
===============================================================================
