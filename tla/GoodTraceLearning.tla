-------------------------- MODULE GoodTraceLearning --------------------------
(***************************************************************************)
(* Learning from good traces: Main.learnFromGoodTraces and, in parallel    *)
(* for every assertion and once for the whole program, processAssertion.   *)
(* A worker asks the checker again and again for an execution in which its *)
(* assertion succeeds and reads its variables from other statements than   *)
(* in all the executions before: first for executions that run to their    *)
(* end, when there are none left for any.  What the proof objects of these *)
(* executions say is merged when all workers have ended.                   *)
(*                                                                         *)
(* An execution is known by whether it finishes, by what each assertion    *)
(* reads in it, and by the edges its proof object holds.                   *)
(***************************************************************************)
EXTENDS Integers, FiniteSets

CONSTANTS Assertions,  \* the assertions to be analysed
          Whole,       \* None: the worker that asks for any complete execution
          Reads,       \* what an assertion may read: the values of proof.readFrom
          NotReached,  \* an assertion is not reached in an execution
          Edges,       \* pairs of lines on a common level
          Executions,  \* the good executions a program may have
          Threads,     \* the option of that name, the size of the pool
          MaxRounds    \* the rounds of a worker; 10 in the code

Workers == Assertions \cup {Whole}

Execution == [finishes: BOOLEAN, reads: [Assertions -> Reads \cup {NotReached}],
              black: [Workers -> SUBSET Edges], suggested: [Workers -> SUBSET Edges]]

ASSUME LearningAssumption ==
  /\ Whole \notin Assertions
  /\ NotReached \notin Reads
  /\ Edges \subseteq Nat \X Nat
  /\ Executions \subseteq Execution
  /\ Threads \in Nat
  /\ MaxRounds \in Nat

VARIABLES
  pc,             \* where a worker is
  rounds, lastRes, finishTrace, readFrom, be, sug,  \* its local variables
  cancel,         \* Main.cancel, written by the CommandReader thread
  merged,         \* learnFromGoodTraces has returned
  black, suggestions,   \* what it returned
  warned,         \* the workers that printed a warning
  runs            \* the good executions of the program, fixed

local == <<rounds, lastRes, finishTrace, readFrom, be, sug>>
learned == <<merged, black, suggestions>>
learnVars == <<pc, local, cancel, learned, warned, runs>>
-------------------------------------------------------------------------------
\* The executions the checker may answer with: they end if they have to, and
\* the assertion is reached and reads something new.
Answers(w, known, finish) ==
  {e \in runs : /\ finish => e.finishes
                /\ w \in Assertions => e.reads[w] \notin known \cup {NotReached}}

LearnInit ==
  /\ pc = [w \in Workers |-> "waiting"]
  /\ rounds = [w \in Workers |-> 0]
  /\ lastRes = [w \in Workers |-> "Failure"]
  /\ finishTrace = [w \in Workers |-> TRUE]
  /\ readFrom = [w \in Workers |-> {}]
  /\ be = [w \in Workers |-> {}]
  /\ sug = [w \in Workers |-> {}]
  /\ cancel = FALSE
  /\ merged = FALSE /\ black = {} /\ suggestions = {}
  /\ warned = {}
  /\ runs \in SUBSET Executions

RequestCancel ==
  /\ ~merged /\ ~cancel
  /\ cancel' = TRUE
  /\ UNCHANGED <<pc, local, learned, warned, runs>>

\* (Definitions named ..._Bug are variants with a bug the properties must catch;
\* nothing uses them here.)
\* a worker that has ended keeps its thread
Active_Bug == {w \in Workers : pc[w] # "waiting"}

Active == {w \in Workers : pc[w] \in {"guard", "ask"}}

\* The pool takes up another assertion.
Begin(w) ==
  /\ pc[w] = "waiting" /\ Cardinality(Active) < Threads
  /\ pc' = [pc EXCEPT ![w] = "guard"]
  /\ UNCHANGED <<local, cancel, learned, warned, runs>>

\* the condition of the while loop
GoesOn(w) ==
  /\ rounds[w] < MaxRounds
  /\ lastRes[w] # "Success" \/ finishTrace[w]
  /\ ~cancel
  /\ ~(w = Whole /\ rounds[w] > 0)

Guard(w) ==
  /\ pc[w] = "guard"
  /\ IF GoesOn(w)
     THEN /\ rounds' = [rounds EXCEPT ![w] = @ + 1]
          /\ pc' = [pc EXCEPT ![w] = "ask"]
     ELSE pc' = [pc EXCEPT ![w] = "done"] /\ UNCHANGED rounds
  /\ UNCHANGED <<lastRes, finishTrace, readFrom, be, sug, cancel, learned, warned, runs>>

\* what was read is not remembered
Learn_Forget_Bug(w, e) ==
  /\ UNCHANGED <<readFrom, finishTrace>>
  /\ be' = [be EXCEPT ![w] = @ \cup e.black[w]]
  /\ sug' = [sug EXCEPT ![w] = @ \cup e.suggested[w]]

\* the next execution need not finish
Learn_Unfinished_Bug(w, e) ==
  /\ readFrom' = [readFrom EXCEPT ![w] = @ \cup (IF w = Whole THEN {} ELSE {e.reads[w]})]
  /\ finishTrace' = [finishTrace EXCEPT ![w] = FALSE]
  /\ be' = [be EXCEPT ![w] = @ \cup e.black[w]]
  /\ sug' = [sug EXCEPT ![w] = @ \cup e.suggested[w]]

\* The proof object of the execution is added to what the worker knows.
Learn(w, e) ==
  /\ readFrom' = [readFrom EXCEPT ![w] = @ \cup (IF w = Whole THEN {} ELSE {e.reads[w]})]
  /\ be' = [be EXCEPT ![w] = @ \cup e.black[w]]
  /\ sug' = [sug EXCEPT ![w] = @ \cup e.suggested[w]]
  /\ UNCHANGED finishTrace

\* CheckerResult.Failure: the checker has an execution.
FoundTrace(w) ==
  /\ pc[w] = "ask"
  /\ \E e \in Answers(w, readFrom[w], finishTrace[w]) : Learn(w, e)
  /\ lastRes' = [lastRes EXCEPT ![w] = "Failure"]
  /\ pc' = [pc EXCEPT ![w] = "guard"]
  /\ UNCHANGED <<rounds, cancel, learned, warned, runs>>

\* the result of the first kind of question ends the loop
LastRes_Bug(w) == "Success"

\* After the last execution that finishes, executions that do not are asked for.
LastRes(w) == IF finishTrace[w] THEN "Failure" ELSE "Success"

\* CheckerResult.Success: there is no such execution.  The warning is printed in
\* round 0.
NoTrace(w) ==
  /\ pc[w] = "ask"
  /\ Answers(w, readFrom[w], finishTrace[w]) = {}
  /\ lastRes' = [lastRes EXCEPT ![w] = LastRes(w)]
  /\ finishTrace' = [finishTrace EXCEPT ![w] = FALSE]
  /\ warned' = IF rounds[w] = 0 THEN warned \cup {w} ELSE warned
  /\ pc' = [pc EXCEPT ![w] = "guard"]
  /\ UNCHANGED <<rounds, readFrom, be, sug, cancel, learned, runs>>

\* the direction is not looked at
BlackEdges_Bug == UNION {be[w] : w \in Workers}

\* addBlackEdge takes edges in the order of the text (the same edge found in
\* another iteration of a loop points backwards) ...
BlackEdges == {e \in UNION {be[w] : w \in Workers} : e[1] < e[2]}

\* ... and a suggestion is one that would change this order.
SuggestedSwaps == {e \in UNION {sug[w] : w \in Workers} : e[1] > e[2]}

\* aggregate has joined all the workers.
Merge ==
  /\ ~merged /\ \A w \in Workers : pc[w] = "done"
  /\ merged' = TRUE
  /\ black' = BlackEdges
  /\ suggestions' = SuggestedSwaps
  /\ UNCHANGED <<pc, local, cancel, warned, runs>>

Work(w) == Begin(w) \/ Guard(w) \/ FoundTrace(w) \/ NoTrace(w)

LearnNext == (\E w \in Workers : Work(w)) \/ Merge \/ RequestCancel

LearnSpec == LearnInit /\ [][LearnNext]_learnVars

\* Every checker call returns and the pool serves every worker.
FairLearnSpec ==
  /\ LearnSpec
  /\ \A w \in Workers : WF_learnVars(Work(w))
  /\ WF_learnVars(Merge)
-------------------------------------------------------------------------------
\* The variables have their types; black edges go with the text and suggestions
\* against it, so no edge is ever both.
LearnTypeOK ==
  /\ pc \in [Workers -> {"waiting", "guard", "ask", "done"}]
  /\ rounds \in [Workers -> 0..MaxRounds]
  /\ lastRes \in [Workers -> {"Failure", "Success"}]
  /\ finishTrace \in [Workers -> BOOLEAN]
  /\ readFrom \in [Workers -> SUBSET Reads]
  /\ be \in [Workers -> SUBSET Edges]
  /\ sug \in [Workers -> SUBSET Edges]
  /\ cancel \in BOOLEAN /\ merged \in BOOLEAN
  /\ black \subseteq {e \in Edges : e[1] < e[2]}
  /\ suggestions \subseteq {e \in Edges : e[1] > e[2]}
  /\ warned \subseteq Workers
  /\ runs \subseteq Executions

Covered(w, es) == \A e \in es : e.reads[w] \in readFrom[w] \cup {NotReached}

\* A worker that ends by itself, neither cancelled nor at its last round, has
\* seen its assertion read in every way the program can read it, executions that
\* do not finish included.
LearnsEveryRead ==
  \A a \in Assertions :
    pc[a] = "done" /\ (lastRes[a] = "Success" \/ (~cancel /\ rounds[a] < MaxRounds))
      => Covered(a, runs)

\* Executions that do not finish are asked for only when those that do show
\* nothing new any more.
FinishedFirst ==
  \A a \in Assertions : ~finishTrace[a] => Covered(a, {e \in runs : e.finishes})

\* Together, for the loop of processAssertion: the complete executions are covered
\* when it turns to the others, and all executions when it ends by itself.
LearnsCompletely == LearnsEveryRead /\ FinishedFirst

\* No round is wasted: all but two of a worker's questions give a new way to
\* read, so that the limit of ten rounds is met only after eight of them.
RoundsLearn ==
  \A a \in Assertions :
    rounds[a] <= Cardinality(readFrom[a]) + 2 + (IF pc[a] = "ask" THEN 1 ELSE 0)

\* Learning ends, with fewer threads than workers too.
LearningEnds == <>merged

===============================================================================
