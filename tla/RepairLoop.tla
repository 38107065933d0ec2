------------------------------ MODULE RepairLoop ------------------------------
(***************************************************************************)
(* The bad-trace repair loop of ConRepair: Main.repairProgram with the     *)
(* verify calls it makes, StatementOrder.integrate, the Solution ordering  *)
(* and equality, the asynchronous "cancel" command and printResult.        *)
(*                                                                         *)
(* A program is known only through what the model checker reports of it in *)
(* the four modes the loop uses (its nature).  A red edge is known through *)
(* what StatementOrder.integrate can do with it.                           *)
(***************************************************************************)
EXTENDS Integers, Sequences, FiniteSets

CONSTANTS LastProgram,        \* programs are 0..LastProgram, 0 the one given
          Structures,         \* the structures an edge may order
          RedEdges,           \* the red edges a generalised bad trace may have
          BugIds,             \* the values of CheckerBase.getBugId
          LearnFromGood,      \* mode Mixed (TRUE) or BadOnly (FALSE)
          PlaceAtomicSections,\* the option of that name
          BlackEdges,         \* learned from good traces
          Suggestions,        \* learned from good traces
          MaxPerRound,        \* bound: no further red edge once this many
                              \* candidates were kept in a round
          NoSolution          \* Scala's None

Programs == 0..LastProgram
Pairs == Structures \X Structures
SolutionTypes == {"MoveDown", "MoveUp", "AtomicSection", "Initial"}

(***************************************************************************)
(* What the checker says of a program.  "safe": no assertion fails and the *)
(* program can finish; "deadlocks": no assertion fails and no execution    *)
(* finishes; "exposed": a failing execution runs to completion; "hidden":  *)
(* assertions fail, but only in executions that cannot be completed;       *)
(* "untraceable": verification without trace fails, but no mode has a      *)
(* trace (a condition is read in one atomic section only with a trace).    *)
(***************************************************************************)
Natures == {"safe", "deadlocks", "exposed", "hidden", "untraceable"}

RedEdge == [pair: Pairs, metric: Int,
            moves: {"ordered", "unchanged", "up", "both"}, atomic: BOOLEAN]

Solution == [so: Programs, roundId: Nat, originalNumber: Nat,
             parentSolution: (Nat \X Nat \X SolutionTypes) \cup {NoSolution},
             solutionType: SolutionTypes, originalCost: Int,
             swapped: Pairs \cup {NoSolution}]

ASSUME RepairAssumption ==
  /\ LastProgram \in Nat
  /\ RedEdges \subseteq RedEdge
  /\ BugIds \subseteq Int
  /\ LearnFromGood \in BOOLEAN
  /\ PlaceAtomicSections \in BOOLEAN
  /\ BlackEdges \subseteq Pairs
  /\ Suggestions \subseteq Pairs
  /\ ~LearnFromGood => BlackEdges = {} /\ Suggestions = {}
  /\ MaxPerRound \in Nat
  /\ NoSolution \notin Solution

VARIABLES
  pc,                     \* where the main thread is
  solutionsToTry,         \* the priority queue, a set of solutions
  solutionStash,          \* the stack of <<bug id, set of solutions>>, top last
  atomicSectionSolutions, \* deferred atomic sections
  solution,               \* the solution of the current iteration
  lastVerified,           \* Some(solution) if its iteration is to be redone
  lastBugId,
  preventDeadlock,
  badRounds,              \* statistic.badRounds
  n,                      \* numbers the solutions found in this round
  cancel,                 \* Main.cancel, written by the CommandReader thread
  result,                 \* what repairProgram returns
  printed,                \* what printResult reports
  nature,                 \* the nature of every program, fixed
  tried                   \* history: the solutions dequeued so far

search == <<solutionsToTry, solutionStash, atomicSectionSolutions>>
vars == <<pc, solutionsToTry, solutionStash, atomicSectionSolutions, solution,
          lastVerified, lastBugId, preventDeadlock, badRounds, n, cancel,
          result, printed, nature, tried>>
-------------------------------------------------------------------------------
(* The four questions asked of the model checker; TRUE stands for          *)
(* CheckerResult.Failure, a counterexample.                                *)

\* (Definitions named ..._Bug are variants with a bug the properties must catch;
\* nothing uses them here.)

\* verify(so, None, false): some assertion can fail.
AssertFails(p) == nature[p] \in {"exposed", "hidden", "untraceable"}

\* the second verification skipped, or its meaning inverted
FailsOrFinishes_Skip_Bug(p) == TRUE
FailsOrFinishes_Inverted_Bug(p) == nature[p] = "deadlocks"

\* verify(so, None, true): an assertion fails, or all threads can finish.
FailsOrFinishes(p) == nature[p] # "deadlocks"

\* invokeChecker(so, None, deadlockMode, false): there is a bad trace; outside
\* deadlock mode only a trace that satisfies every assumption to its end.
HasBadTrace(p, deadlockMode) ==
  nature[p] \in IF deadlockMode THEN {"exposed", "hidden"} ELSE {"exposed"}
-------------------------------------------------------------------------------
(* Solutions.                                                              *)

\* A parent is named by what is unique to it (see IdentifiesSolution).
Key(s) == <<s.roundId, s.originalNumber, s.solutionType>>

InitialSolution ==
  [so |-> 0, roundId |-> 0, originalNumber |-> 0, parentSolution |-> NoSolution,
   solutionType |-> "Initial", originalCost |-> 0, swapped |-> NoSolution]

Cost(s) == s.originalCost + (IF s.solutionType = "AtomicSection" THEN 15 ELSE 0)

\* Solution.compare: the lower (roundId, cost) has priority.
Before(s, t) == \/ s.roundId < t.roundId
                \/ s.roundId = t.roundId /\ Cost(s) < Cost(t)

SameSolution(s, t) == /\ s.solutionType = t.solutionType
                      /\ s.swapped = t.swapped
                      /\ s.roundId = t.roundId

\* The heads a priority queue may have; its order among equals is arbitrary.
Heads(queue) == {s \in queue : \A t \in queue : ~Before(t, s)}

\* StatementOrder.integrate for one red edge; edit gives the resulting program
\* of each kind of change.
Integrate(edge, parent, round, number, edit) ==
  LET cost == edge.metric - (IF edge.moves # "ordered" /\ edge.pair \in Suggestions
                             THEN 1000 ELSE 0)
      found(type, c, pair) ==
        [so |-> edit[type], roundId |-> round, originalNumber |-> number,
         parentSolution |-> Key(parent), solutionType |-> type,
         originalCost |-> c, swapped |-> pair]
      up     == IF edge.moves \in {"up", "both"}
                THEN {found("MoveUp", cost, edge.pair)} ELSE {}
      down   == IF edge.moves = "both"
                THEN {found("MoveDown", cost, edge.pair)} ELSE {}
      atomic == IF edge.atomic
                THEN {found("AtomicSection",
                            IF edge.moves = "ordered" THEN cost ELSE cost + 100,
                            <<edge.pair[2], edge.pair[1]>>)}
                ELSE {}
  IN  up \cup down \cup atomic

\* Every change adds to the partial order or merges statements into a section:
\* no program is a change of one of its own changes.
Edits(p) == [SolutionTypes \ {"Initial"} -> {q \in Programs : q > p}]

\* The same change of the same program is the same program.
Consistent(new, known) ==
  \A s \in new, t \in known : SameSolution(s, t) => s.so = t.so

\* the order of the queue taken for the equality of solutions
AlreadyQueued_Bug(s) ==
  \E t \in solutionsToTry : SameSolution(s, t) /\ Cost(s) = Cost(t)

AlreadyQueued(s) == \E t \in solutionsToTry : SameSolution(s, t)

\* Atomic sections are kept for later unless the good traces suggest them.
Deferred(s) == /\ s.solutionType = "AtomicSection"
               /\ LearnFromGood \/ ~PlaceAtomicSections
               /\ s.swapped \notin BlackEdges
-------------------------------------------------------------------------------
Init == /\ pc = "loop"
        /\ solutionsToTry = {InitialSolution}
        /\ solutionStash = <<>>
        /\ atomicSectionSolutions = {}
        /\ solution = NoSolution
        /\ lastVerified = NoSolution
        /\ lastBugId = 0
        /\ preventDeadlock = FALSE
        /\ badRounds = 0
        /\ n = 1
        /\ cancel = FALSE
        /\ result = NoSolution
        /\ printed = "nothing"
        /\ nature \in [Programs -> Natures]
        /\ tried = {}

\* The daemon thread of CommandReader reads "cancel" from the console.
RequestCancel ==
  /\ pc # "done" /\ ~cancel
  /\ cancel' = TRUE
  /\ UNCHANGED <<pc, search, solution, lastVerified, lastBugId, preventDeadlock,
                 badRounds, n, result, printed, nature, tried>>

\* lastVerified forgotten
LoopGuard_NoRedo_Bug == solutionsToTry # {} /\ ~cancel

LoopGuard == (solutionsToTry # {} \/ lastVerified # NoSolution) /\ ~cancel

\* An iteration starts with the best solution of the queue ...
NextSolution ==
  /\ pc = "loop" /\ LoopGuard /\ lastVerified = NoSolution
  /\ \E s \in Heads(solutionsToTry) :
       /\ solution' = s
       /\ solutionsToTry' = solutionsToTry \ {s}
       /\ tried' = tried \cup {s}
  /\ badRounds' = badRounds + 1
  /\ pc' = IF preventDeadlock THEN "verify" ELSE "check"
  /\ UNCHANGED <<solutionStash, atomicSectionSolutions, lastVerified, lastBugId,
                 preventDeadlock, n, cancel, result, printed, nature>>

\* ... or redoes the one at which the loop switched to deadlock mode.
RedoIteration ==
  /\ pc = "loop" /\ LoopGuard /\ lastVerified # NoSolution
  /\ solution' = lastVerified
  /\ badRounds' = badRounds + 1
  /\ pc' = "check"
  /\ UNCHANGED <<search, lastVerified, lastBugId, preventDeadlock, n, cancel,
                 result, printed, nature, tried>>

\* The loop ends without a solution.
LeaveLoop ==
  /\ pc = "loop" /\ ~LoopGuard
  /\ pc' = "print"
  /\ UNCHANGED <<search, solution, lastVerified, lastBugId, preventDeadlock,
                 badRounds, n, cancel, result, printed, nature, tried>>

\* return Some(so)
Return ==
  /\ result' = solution
  /\ pc' = "print"
  /\ UNCHANGED <<search, solution, lastVerified, lastBugId, preventDeadlock,
                 badRounds, n, cancel, printed, nature, tried>>

GoTo(label) ==
  /\ pc' = label
  /\ UNCHANGED <<search, solution, lastVerified, lastBugId, preventDeadlock,
                 badRounds, n, cancel, result, printed, nature, tried>>

\* Deadlock mode verifies the assertions first.
Verify ==
  /\ pc = "verify"
  /\ GoTo(IF AssertFails(solution.so) THEN "check" ELSE "finishes")

\* If none fails: can the program still finish?
VerifyFinishes ==
  /\ pc = "finishes"
  /\ IF FailsOrFinishes(solution.so) THEN Return ELSE GoTo("check")

\* the queue cleared before it is copied, or an empty one pushed
StashOther_Cleared_Bug(bugId) ==
  IF bugId # lastBugId /\ solutionsToTry # {}
  THEN /\ solutionsToTry' = {}
       /\ solutionStash' = Append(solutionStash, <<lastBugId, solutionsToTry'>>)
  ELSE UNCHANGED <<solutionStash, solutionsToTry>>
StashOther_Empty_Bug(bugId) ==
  IF bugId # lastBugId
  THEN /\ solutionStash' = Append(solutionStash, <<lastBugId, solutionsToTry>>)
       /\ solutionsToTry' = {}
  ELSE UNCHANGED <<solutionStash, solutionsToTry>>

\* The candidates of another bug are put aside.
StashOther(bugId) ==
  IF bugId # lastBugId /\ solutionsToTry # {}
  THEN /\ solutionStash' = Append(solutionStash, <<lastBugId, solutionsToTry>>)
       /\ solutionsToTry' = {}
  ELSE UNCHANGED <<solutionStash, solutionsToTry>>

\* A bad trace: its generalisation is about to be integrated.
BadTraceFound ==
  /\ pc = "check" /\ HasBadTrace(solution.so, preventDeadlock)
  /\ \E bugId \in BugIds :
       /\ StashOther(bugId)
       /\ lastBugId' = bugId
  /\ n' = 1
  /\ pc' = "integrate"
  /\ UNCHANGED <<atomicSectionSolutions, solution, lastVerified, preventDeadlock,
                 badRounds, cancel, result, printed, nature, tried>>

\* No bad trace: verify outside deadlock mode, give the solution up in it.
NoBadTrace ==
  /\ pc = "check" /\ ~HasBadTrace(solution.so, preventDeadlock)
  /\ GoTo(IF preventDeadlock THEN "refill" ELSE "confirm")

Confirm ==
  /\ pc = "confirm" /\ ~AssertFails(solution.so)
  /\ Return

\* the round taken back twice
UncountedRounds_Twice_Bug == badRounds - 2

\* The redone iteration is not to be counted twice.
UncountedRounds == badRounds - 1

\* the mode is not switched
SwitchMode_Bug ==
  /\ pc = "confirm" /\ AssertFails(solution.so)
  /\ lastVerified' = solution
  /\ badRounds' = UncountedRounds
  /\ pc' = "loop"
  /\ UNCHANGED <<search, solution, lastBugId, preventDeadlock, n, cancel, result,
                 printed, nature, tried>>

\* "Switching to non-deadlock mode, redoing iteration."
SwitchMode ==
  /\ pc = "confirm" /\ AssertFails(solution.so)
  /\ preventDeadlock' = TRUE
  /\ lastVerified' = solution
  /\ badRounds' = UncountedRounds
  /\ pc' = "loop"
  /\ UNCHANGED <<search, solution, lastBugId, n, cancel, result, printed, nature,
                 tried>>

\* One solution of the generalisation: its red edge is integrated and the
\* candidates that are not in the queue yet are kept.
IntegrateEdge ==
  /\ pc = "integrate" /\ n <= MaxPerRound
  /\ \E edge \in RedEdges, edit \in Edits(solution.so) :
       LET found == Integrate(edge, solution, badRounds, n, edit)
           new   == {s \in found : ~AlreadyQueued(s)}
           later == {s \in new : Deferred(s)}
       IN  /\ Consistent(found, solutionsToTry \cup atomicSectionSolutions)
           /\ solutionsToTry' = solutionsToTry \cup (new \ later)
           /\ atomicSectionSolutions' = atomicSectionSolutions \cup later
           /\ n' = n + Cardinality(new)
  /\ UNCHANGED <<pc, solutionStash, solution, lastVerified, lastBugId,
                 preventDeadlock, badRounds, cancel, result, printed, nature, tried>>

\* the stash read without being popped, or the atomic sections not cleared
Refill_Top_Bug ==
  IF solutionsToTry # {} \/ solutionStash = <<>>
  THEN UNCHANGED <<search, lastBugId>>
  ELSE /\ solutionsToTry' = solutionStash[Len(solutionStash)][2]
       /\ lastBugId' = solutionStash[Len(solutionStash)][1]
       /\ UNCHANGED <<solutionStash, atomicSectionSolutions>>
Refill_Atomic_Bug ==
  IF solutionsToTry # {} \/ solutionStash # <<>>
  THEN UNCHANGED <<search, lastBugId>>
  ELSE /\ solutionsToTry' = atomicSectionSolutions
       /\ UNCHANGED <<solutionStash, atomicSectionSolutions, lastBugId>>

\* An empty queue takes the top of the stash, or else all atomic sections.
Refill ==
  IF solutionsToTry # {} THEN UNCHANGED <<search, lastBugId>>
  ELSE IF solutionStash # <<>>
  THEN LET top == solutionStash[Len(solutionStash)]
       IN  /\ solutionsToTry' = top[2]
           /\ solutionStash' = SubSeq(solutionStash, 1, Len(solutionStash) - 1)
           /\ lastBugId' = top[1]
           /\ UNCHANGED atomicSectionSolutions
  ELSE /\ solutionsToTry' = atomicSectionSolutions
       /\ atomicSectionSolutions' = {}
       /\ UNCHANGED <<solutionStash, lastBugId>>

\* lastVerified cleared where a bad trace was found only
EndIteration_Kept_Bug ==
  /\ pc \in {"integrate", "refill"}
  /\ Refill
  /\ lastVerified' = IF pc = "integrate" THEN NoSolution ELSE lastVerified
  /\ pc' = "loop"
  /\ UNCHANGED <<solution, preventDeadlock, badRounds, n, cancel, result, printed,
                 nature, tried>>

EndIteration ==
  /\ pc \in {"integrate", "refill"}
  /\ Refill
  /\ lastVerified' = NoSolution
  /\ pc' = "loop"
  /\ UNCHANGED <<solution, preventDeadlock, badRounds, n, cancel, result, printed,
                 nature, tried>>

\* printResult: a cancelled run reports no solution, whatever was returned.
PrintResult ==
  /\ pc = "print"
  /\ printed' = IF cancel THEN "cancelled"
                ELSE IF result = NoSolution THEN "unsolved" ELSE "written"
  /\ pc' = "done"
  /\ UNCHANGED <<search, solution, lastVerified, lastBugId, preventDeadlock,
                 badRounds, n, cancel, result, nature, tried>>

MainThread ==
  \/ NextSolution \/ RedoIteration \/ LeaveLoop
  \/ Verify \/ VerifyFinishes
  \/ BadTraceFound \/ NoBadTrace \/ Confirm \/ SwitchMode
  \/ IntegrateEdge \/ EndIteration
  \/ PrintResult

Next == MainThread \/ RequestCancel

Spec == Init /\ [][Next]_vars

\* The main thread keeps running: every checker call returns (loops are
\* unwound twice), and the for loop over a trace's red edges is finite.
FairSpec == Spec /\ WF_vars(MainThread)
-------------------------------------------------------------------------------
(* Properties.                                                             *)

Iteration == {"verify", "finishes", "check", "confirm", "integrate", "refill"}

Stashed == UNION {solutionStash[i][2] : i \in DOMAIN solutionStash}

Pending == solutionsToTry \cup Stashed \cup atomicSectionSolutions

\* The solution under analysis: between SwitchMode and RedoIteration it is the
\* one in lastVerified.
InProgress == IF pc \in Iteration \/ result # NoSolution THEN {solution}
              ELSE {lastVerified} \ {NoSolution}

Settled == tried \ InProgress

\* The variables have their types; in particular no empty list is ever stashed
\* (the loop pops one list and would stop at an empty one).
TypeOK ==
  /\ pc \in Iteration \cup {"loop", "print", "done"}
  /\ solutionsToTry \subseteq Solution
  /\ solutionStash \in Seq((BugIds \cup {0}) \X ((SUBSET Solution) \ {{}}))
  /\ atomicSectionSolutions \subseteq Solution
  /\ solution \in Solution \cup {NoSolution}
  /\ lastVerified \in Solution \cup {NoSolution}
  /\ lastBugId \in BugIds \cup {0}
  /\ preventDeadlock \in BOOLEAN
  /\ badRounds \in Nat
  /\ n \in Nat
  /\ cancel \in BOOLEAN
  /\ result \in Solution \cup {NoSolution}
  /\ printed \in {"nothing", "cancelled", "unsolved", "written"}
  /\ nature \in [Programs -> Natures]
  /\ tried \subseteq Solution

\* The queue, the lists on the stash and the deferred atomic sections do not
\* overlap.
Apart ==
  /\ solutionsToTry \cap Stashed = {}
  /\ atomicSectionSolutions \cap (solutionsToTry \cup Stashed) = {}
  /\ \A i, j \in DOMAIN solutionStash :
       i # j => solutionStash[i][2] \cap solutionStash[j][2] = {}

\* No candidate waits in two places, and none that was dequeued waits again:
\* the moves between queue, stash and deferred atomic sections duplicate nothing.
TriedOnce == Apart /\ Pending \cap tried = {}

\* A candidate that waits is never lost: it keeps waiting until it is dequeued.
NeverForgotten == [][Pending \subseteq Pending' \cup tried']_vars

\* "No solution found" is printed only after every candidate ever derived was
\* analysed to the end, the one redone in deadlock mode included.
NoneMeansExhausted ==
  printed = "unsolved" => Pending = {} /\ InProgress = {}

\* A returned program has no failing assertion; one returned after the switch to
\* deadlock mode can also finish.
ResultVerified ==
  result # NoSolution =>
    nature[result.so] \in IF preventDeadlock THEN {"safe"} ELSE {"safe", "deadlocks"}

\* A correct program is never analysed and dropped.
SafeNeverDropped == \A s \in Settled : nature[s.so] # "safe"

\* The round number of a candidate determines its parent, in spite of the rounds
\* that are redone: this is what makes the comparison of roundId in
\* Solution.equals tell candidates of different programs apart.
RoundIdentifiesParent ==
  \A s, t \in Pending \cup tried :
    s.roundId = t.roundId => s.parentSolution = t.parentSolution

\* No two candidates that were put in the queue are equal by Solution.equals,
\* wherever they have moved since (deferred atomic sections are not compared).
NoEqualCandidates ==
  \A s, t \in Pending \cup tried :
    SameSolution(s, t) /\ ~Deferred(s) => s = t

\* Every round that counts analyses a candidate for the first time: the iteration
\* redone after the switch of modes is not counted twice, and it is redone once,
\* whatever comes of it. A candidate that lastVerified keeps would be analysed
\* in round after round.
EveryRoundNew == badRounds <= Cardinality(tried)

\* The repair ends: every program has finitely many changes, and the mode is
\* switched once.
Termination == <>(pc = "done")

Search == INSTANCE RepairSearch WITH
  Candidate <- Solution,
  Program <- Programs,
  Root <- InitialSolution,
  failing <- {p \in Programs : AssertFails(p)},
  correct <- {p \in Programs : nature[p] = "safe"},
  pending <- Pending,
  trying <- InProgress,
  settled <- Settled,
  outcome <- IF pc \notin {"print", "done"} THEN "searching"
             ELSE IF result # NoSolution THEN "solved"
             ELSE IF Pending = {} /\ InProgress = {} THEN "exhausted"
             ELSE "stopped"

\* The loop implements the abstract search.
ImplementsSearch == Search!Spec
-------------------------------------------------------------------------------
(* The inductive invariant.                                                *)

\* Within an iteration a solution is at hand; only there is it analysed.
InIteration ==
  pc \in Iteration => /\ solution \in tried
                      /\ badRounds > 0
                      /\ result = NoSolution

\* What the verifications made so far say of the solution at hand.
Diagnosis ==
  /\ pc \in {"verify", "finishes"} => preventDeadlock /\ lastVerified = NoSolution
  /\ pc = "confirm" => ~preventDeadlock
  /\ pc = "confirm" => nature[solution.so] # "exposed"
  /\ pc = "finishes" => ~AssertFails(solution.so)
  /\ pc = "check" /\ preventDeadlock => nature[solution.so] # "safe"
  /\ pc \in {"integrate", "refill"} => nature[solution.so] # "safe"

\* A solution to redo is the one at which the mode was switched.
Redo ==
  lastVerified # NoSolution =>
    /\ preventDeadlock
    /\ lastVerified \in tried
    /\ nature[lastVerified.so] \in {"hidden", "untraceable"}
    /\ pc \in Iteration => solution = lastVerified
    /\ result = NoSolution

Outcome ==
  /\ result # NoSolution => /\ pc \in {"print", "done"}
                            /\ result = solution
                            /\ solution \in tried
  /\ printed # "nothing" => pc = "done"

\* Between iterations nothing is put aside while the queue is empty.
NothingAside == solutionsToTry = {} /\ lastVerified = NoSolution => Pending = {}

Exhausted ==
  /\ pc = "loop" => NothingAside
  /\ pc = "print" /\ result = NoSolution /\ ~cancel
       => Pending = {} /\ lastVerified = NoSolution
  /\ printed = "unsolved"
       => Pending = {} /\ lastVerified = NoSolution /\ result = NoSolution

\* The candidates of the current round are still where IntegrateEdge put them;
\* all the others come from earlier rounds.
Rounds ==
  \A s \in Pending \cup tried :
    /\ s.roundId <= badRounds
    /\ pc \in {"verify", "finishes", "check", "confirm", "refill"}
         => s.roundId < badRounds
    /\ pc = "integrate" /\ s.roundId = badRounds
         => /\ s \in solutionsToTry \cup atomicSectionSolutions
            /\ s \notin tried
            /\ s.originalNumber < n
            /\ s.parentSolution = Key(solution)

\* A round is a candidate tried, save that the one to redo is not counted yet.
RoundsCounted ==
  /\ IsFiniteSet(tried)
  /\ badRounds = Cardinality(tried) -
       (IF lastVerified # NoSolution /\ pc \notin Iteration THEN 1 ELSE 0)

Control == InIteration /\ Diagnosis /\ Redo /\ Outcome

IInv == /\ TypeOK
        /\ Control
        /\ ResultVerified
        /\ SafeNeverDropped
        /\ Rounds
        /\ RoundsCounted
        /\ TriedOnce
        /\ RoundIdentifiesParent
        /\ Exhausted
===============================================================================
