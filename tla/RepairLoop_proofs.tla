--------------------------- MODULE RepairLoop_proofs ---------------------------
(***************************************************************************)
(* Theorems about RepairLoop, for all values of its constants.             *)
(***************************************************************************)
EXTENDS RepairLoop, FiniteSetTheorems, TLAPS

\* What the step from an iteration to the next relies on: the types, and that a
\* solution is at hand in an iteration.
AtHand == pc \in Iteration => solution \in Solution /\ badRounds > 0

WellTyped == TypeOK /\ AtHand

\* Every candidate that integrate makes of a solution is a solution.
LEMMA IntegrateType ==
  ASSUME NEW edge \in RedEdges, NEW s \in Solution, NEW r \in Nat, NEW k \in Nat,
         NEW edit \in Edits(s.so)
  PROVE  Integrate(edge, s, r, k, edit) \subseteq Solution
<1> USE RepairAssumption
<1>1. edge \in RedEdge
  OBVIOUS
<1>2. Key(s) \in Nat \X Nat \X SolutionTypes
  BY DEF Key, Solution
<1>3. \A t \in SolutionTypes \ {"Initial"} : edit[t] \in Programs
  BY DEF Edits
<1>4. /\ edge.pair \in Pairs
      /\ <<edge.pair[2], edge.pair[1]>> \in Pairs
      /\ edge.metric \in Int
  BY <1>1 DEF RedEdge, Pairs
<1>5. /\ edge.metric - 1000 \in Int
      /\ edge.metric - 0 \in Int
      /\ edge.metric - 1000 + 100 \in Int
      /\ edge.metric - 0 + 100 \in Int
  BY <1>4
<1> QED
  BY <1>2, <1>3, <1>4, <1>5 DEF Integrate, Solution, SolutionTypes

\* integrate finds finitely many candidates (at most three).
LEMMA IntegrateFinite ==
  ASSUME NEW edge, NEW s, NEW r, NEW k, NEW edit
  PROVE  IsFiniteSet(Integrate(edge, s, r, k, edit))
<1>1. \A x : IsFiniteSet({x})
  BY FS_Singleton
<1>2. IsFiniteSet({})
  BY FS_EmptySet
<1>3. ASSUME NEW S, NEW T, IsFiniteSet(S), IsFiniteSet(T)
      PROVE  IsFiniteSet(S \cup T)
  BY <1>3, FS_Union
<1>4. \A U, D, A : IsFiniteSet(U) /\ IsFiniteSet(D) /\ IsFiniteSet(A)
                     => IsFiniteSet(U \cup D \cup A)
  BY <1>3
<1>5. \E U, D, A : /\ Integrate(edge, s, r, k, edit) = U \cup D \cup A
                   /\ U = {} \/ \E x : U = {x}
                   /\ D = {} \/ \E x : D = {x}
                   /\ A = {} \/ \E x : A = {x}
  <2> DEFINE cost == edge.metric - (IF edge.moves # "ordered" /\ edge.pair \in Suggestions
                                    THEN 1000 ELSE 0)
             found(type, c, pair) ==
               [so |-> edit[type], roundId |-> r, originalNumber |-> k,
                parentSolution |-> Key(s), solutionType |-> type,
                originalCost |-> c, swapped |-> pair]
             U == IF edge.moves \in {"up", "both"}
                  THEN {found("MoveUp", cost, edge.pair)} ELSE {}
             D == IF edge.moves = "both"
                  THEN {found("MoveDown", cost, edge.pair)} ELSE {}
             A == IF edge.atomic
                  THEN {found("AtomicSection",
                              IF edge.moves = "ordered" THEN cost ELSE cost + 100,
                              <<edge.pair[2], edge.pair[1]>>)}
                  ELSE {}
  <2>1. Integrate(edge, s, r, k, edit) = U \cup D \cup A
    BY DEF Integrate
  <2>2. U = {} \/ \E x : U = {x}
    OBVIOUS
  <2>3. D = {} \/ \E x : D = {x}
    OBVIOUS
  <2>4. A = {} \/ \E x : A = {x}
    <3>1. CASE edge.atomic
      <4>1. A = {found("AtomicSection",
                       IF edge.moves = "ordered" THEN cost ELSE cost + 100,
                       <<edge.pair[2], edge.pair[1]>>)}
        BY <3>1, Zenon
      <4> HIDE DEF A, found
      <4> QED
        BY <4>1
    <3>2. CASE ~edge.atomic
      BY <3>2
    <3> QED
      BY <3>1, <3>2
  <2> HIDE DEF U, D, A
  <2> QED
    BY <2>1, <2>2, <2>3, <2>4
<1>6. PICK U, D, A : /\ Integrate(edge, s, r, k, edit) = U \cup D \cup A
                     /\ U = {} \/ \E x : U = {x}
                     /\ D = {} \/ \E x : D = {x}
                     /\ A = {} \/ \E x : A = {x}
  BY <1>5
<1>7. IsFiniteSet(U) /\ IsFiniteSet(D) /\ IsFiniteSet(A)
  BY <1>1, <1>2, <1>6
<1> QED
  BY <1>4, <1>6, <1>7

\* The initial states are well typed.
LEMMA InitWellTyped == Init => WellTyped
<1> SUFFICES ASSUME Init PROVE WellTyped
  OBVIOUS
<1> USE RepairAssumption DEF Init
<1>1. InitialSolution \in Solution
  BY DEF InitialSolution, Solution, Programs, SolutionTypes
<1>2. solutionsToTry \subseteq Solution
  BY <1>1
<1>3. solutionStash \in Seq((BugIds \cup {0}) \X ((SUBSET Solution) \ {{}}))
  OBVIOUS
<1> QED
  BY <1>2, <1>3 DEF WellTyped, TypeOK, AtHand, Iteration

\* Every step keeps the types.
LEMMA StepWellTyped == WellTyped /\ [Next]_vars => WellTyped'
<1> SUFFICES ASSUME WellTyped, [Next]_vars
             PROVE  WellTyped'
  OBVIOUS
<1> USE RepairAssumption DEF WellTyped, TypeOK, AtHand, Iteration, search
<1>1. CASE RequestCancel
  BY <1>1 DEF RequestCancel
<1>2. CASE NextSolution
  <2>1. PICK s \in Heads(solutionsToTry) :
          /\ solution' = s
          /\ solutionsToTry' = solutionsToTry \ {s}
          /\ tried' = tried \cup {s}
    BY <1>2 DEF NextSolution
  <2>2. s \in Solution
    BY DEF Heads
  <2> QED
    BY <1>2, <2>1, <2>2 DEF NextSolution
<1>3. CASE RedoIteration
  BY <1>3 DEF RedoIteration
<1>4. CASE LeaveLoop
  BY <1>4 DEF LeaveLoop
<1>5. CASE Verify
  BY <1>5 DEF Verify, GoTo
<1>6. CASE VerifyFinishes
  BY <1>6 DEF VerifyFinishes, Return, GoTo
<1>7. CASE BadTraceFound
  <2>1. PICK b \in BugIds : StashOther(b) /\ lastBugId' = b
    BY <1>7 DEF BadTraceFound
  <2>2. CASE b # lastBugId /\ solutionsToTry # {}
    <3>1. <<lastBugId, solutionsToTry>>
            \in (BugIds \cup {0}) \X ((SUBSET Solution) \ {{}})
      BY <2>2
    <3> DEFINE T == (BugIds \cup {0}) \X ((SUBSET Solution) \ {{}})
    <3>a. solutionStash \in Seq(T) /\ <<lastBugId, solutionsToTry>> \in T
      BY <3>1
    <3>b. Append(solutionStash, <<lastBugId, solutionsToTry>>) \in Seq(T)
      BY ONLY <3>a
    <3>2. solutionStash'
            \in Seq((BugIds \cup {0}) \X ((SUBSET Solution) \ {{}}))
      BY <2>1, <2>2, <3>b DEF StashOther
    <3> QED
      BY <1>7, <2>1, <2>2, <3>2 DEF BadTraceFound, StashOther
  <2>3. CASE ~(b # lastBugId /\ solutionsToTry # {})
    BY <1>7, <2>1, <2>3 DEF BadTraceFound, StashOther
  <2> QED
    BY <2>2, <2>3
<1>8. CASE NoBadTrace
  BY <1>8 DEF NoBadTrace, GoTo
<1>9. CASE Confirm
  BY <1>9 DEF Confirm, Return
<1>10. CASE SwitchMode
  BY <1>10 DEF SwitchMode, UncountedRounds
<1>11. CASE IntegrateEdge
  <2>1. PICK edge \in RedEdges, edit \in Edits(solution.so) :
          LET found == Integrate(edge, solution, badRounds, n, edit)
              new   == {s \in found : ~AlreadyQueued(s)}
              later == {s \in new : Deferred(s)}
          IN  /\ solutionsToTry' = solutionsToTry \cup (new \ later)
              /\ atomicSectionSolutions' = atomicSectionSolutions \cup later
              /\ n' = n + Cardinality(new)
    BY <1>11 DEF IntegrateEdge
  <2> DEFINE found == Integrate(edge, solution, badRounds, n, edit)
             new == {s \in found : ~AlreadyQueued(s)}
  <2>2. solution \in Solution
    BY <1>11 DEF IntegrateEdge
  <2>3. found \subseteq Solution
    BY <2>2, IntegrateType
  <2>4. Cardinality(new) \in Nat
    BY IntegrateFinite, FS_Subset, FS_CardinalityType
  <2>5. n' \in Nat
    BY <2>1, <2>4
  <2>6. solutionsToTry' \subseteq Solution /\ atomicSectionSolutions' \subseteq Solution
    BY <2>1, <2>3
  <2> QED
    BY <1>11, <2>5, <2>6 DEF IntegrateEdge
<1>12. CASE EndIteration
  <2>1. /\ solutionsToTry' \subseteq Solution
        /\ atomicSectionSolutions' \subseteq Solution
        /\ lastBugId' \in BugIds \cup {0}
        /\ solutionStash'
             \in Seq((BugIds \cup {0}) \X ((SUBSET Solution) \ {{}}))
    <3> USE <1>12 DEF EndIteration
    <3>1. CASE solutionsToTry # {}
      BY <3>1 DEF Refill
    <3>2. CASE solutionsToTry = {} /\ solutionStash # <<>>
      <4> DEFINE T == (BugIds \cup {0}) \X ((SUBSET Solution) \ {{}})
      <4>1. Len(solutionStash) \in 1..Len(solutionStash)
        BY <3>2
      <4>2. solutionStash[Len(solutionStash)] \in T
        BY <4>1
      <4>3. SubSeq(solutionStash, 1, Len(solutionStash) - 1) \in Seq(T)
        <5>1. solutionStash \in Seq(T) /\ Len(solutionStash) \in Nat
          OBVIOUS
        <5>2. \A k \in 1..(Len(solutionStash) - 1) : solutionStash[k] \in T
          BY <5>1
        <5> HIDE DEF T
        <5> QED BY <5>1, <5>2
      <4> QED
        BY <3>2, <4>2, <4>3 DEF Refill
    <3>3. CASE solutionsToTry = {} /\ solutionStash = <<>>
      BY <3>3 DEF Refill
    <3> QED
      BY <3>1, <3>2, <3>3
  <2> QED
    BY <1>12, <2>1 DEF EndIteration
<1>13. CASE PrintResult
  BY <1>13 DEF PrintResult
<1>14. CASE UNCHANGED vars
  BY <1>14 DEF vars
<1> QED
  BY <1>1, <1>2, <1>3, <1>4, <1>5, <1>6, <1>7, <1>8, <1>9, <1>10, <1>11, <1>12,
     <1>13, <1>14 DEF Next, MainThread

\* The types hold in every reachable state.
THEOREM TypeCorrect == Spec => []TypeOK
<1>1. WellTyped => TypeOK
  BY DEF WellTyped
<1> QED
  BY <1>1, InitWellTyped, StepWellTyped, PTL DEF Spec
-------------------------------------------------------------------------------
(* Control: what is known at each place of the loop.                       *)

\* The initial states satisfy what is known at each place of the loop.
LEMMA InitControl == Init => Control
  BY RepairAssumption DEF Init, Control, InIteration, Diagnosis, Redo, Outcome, Iteration

\* Every step keeps what is known at each place of the loop.
LEMMA StepControl == TypeOK /\ Control /\ [Next]_vars => Control'
<1> SUFFICES ASSUME TypeOK, Control, [Next]_vars
             PROVE  Control'
  OBVIOUS
<1> USE RepairAssumption
    DEF Control, InIteration, Diagnosis, Redo, Outcome, Iteration, search
<1>1. CASE RequestCancel
  BY <1>1 DEF RequestCancel, AssertFails
<1>2. CASE NextSolution
  <2>1. PICK s \in Heads(solutionsToTry) :
          solution' = s /\ tried' = tried \cup {s}
    BY <1>2 DEF NextSolution
  <2>2. s \in Solution
    BY DEF Heads, TypeOK
  <2> QED
    BY <1>2, <2>1, <2>2 DEF NextSolution, TypeOK
<1>3. CASE RedoIteration
  BY <1>3 DEF RedoIteration, TypeOK
<1>4. CASE LeaveLoop
  BY <1>4 DEF LeaveLoop
<1>5. CASE Verify
  BY <1>5 DEF Verify, GoTo, AssertFails
<1>6. CASE VerifyFinishes
  <2>1. CASE FailsOrFinishes(solution.so)
    BY <1>6, <2>1 DEF VerifyFinishes, Return
  <2>2. CASE ~FailsOrFinishes(solution.so)
    <3>1. nature[solution.so] = "deadlocks"
      BY <2>2 DEF FailsOrFinishes
    <3> QED
      BY <1>6, <2>2, <3>1 DEF VerifyFinishes, GoTo
  <2> QED
    BY <2>1, <2>2
<1>7. CASE BadTraceFound
  BY <1>7 DEF BadTraceFound, HasBadTrace
<1>8. CASE NoBadTrace
  BY <1>8 DEF NoBadTrace, GoTo, HasBadTrace
<1>9. CASE Confirm
  BY <1>9 DEF Confirm, Return
<1>10. CASE SwitchMode
  BY <1>10 DEF SwitchMode, UncountedRounds, AssertFails
<1>11. CASE IntegrateEdge
  BY <1>11 DEF IntegrateEdge
<1>12. CASE EndIteration
  BY <1>12 DEF EndIteration
<1>13. CASE PrintResult
  BY <1>13 DEF PrintResult
<1>14. CASE UNCHANGED vars
  BY <1>14 DEF vars, AssertFails
<1> QED
  BY <1>1, <1>2, <1>3, <1>4, <1>5, <1>6, <1>7, <1>8, <1>9, <1>10, <1>11, <1>12,
     <1>13, <1>14 DEF Next, MainThread

\* A returned program was verified; no correct one was dropped.
LEMMA StepVerdicts ==
  TypeOK /\ Control /\ ResultVerified /\ SafeNeverDropped /\ [Next]_vars
    => ResultVerified' /\ SafeNeverDropped'
<1> SUFFICES ASSUME TypeOK, Control, ResultVerified, SafeNeverDropped, [Next]_vars
             PROVE  ResultVerified' /\ SafeNeverDropped'
  OBVIOUS
<1> USE RepairAssumption
    DEF Control, InIteration, Diagnosis, Redo, Outcome, Iteration, search,
        ResultVerified, SafeNeverDropped, Settled, InProgress
<1>1. CASE RequestCancel
  BY <1>1 DEF RequestCancel
<1>2. CASE NextSolution
  <2>1. PICK s \in Heads(solutionsToTry) :
          solution' = s /\ tried' = tried \cup {s}
    BY <1>2 DEF NextSolution
  <2> QED
    BY <1>2, <2>1 DEF NextSolution
<1>3. CASE RedoIteration
  BY <1>3 DEF RedoIteration
<1>4. CASE LeaveLoop
  BY <1>4 DEF LeaveLoop
<1>5. CASE Verify
  BY <1>5 DEF Verify, GoTo
<1>6. CASE VerifyFinishes
  <2>1. nature[solution.so] \in Natures
    BY <1>6 DEF VerifyFinishes, TypeOK, Solution
  <2>2. CASE FailsOrFinishes(solution.so)
    <3>1. nature[solution.so] = "safe"
      BY <1>6, <2>1, <2>2 DEF VerifyFinishes, FailsOrFinishes, AssertFails, Natures
    <3> QED
      BY <1>6, <2>2, <3>1 DEF VerifyFinishes, Return, TypeOK
  <2>3. CASE ~FailsOrFinishes(solution.so)
    BY <1>6, <2>3 DEF VerifyFinishes, GoTo
  <2> QED
    BY <2>2, <2>3
<1>7. CASE BadTraceFound
  BY <1>7 DEF BadTraceFound
<1>8. CASE NoBadTrace
  BY <1>8 DEF NoBadTrace, GoTo
<1>9. CASE Confirm
  <2>1. nature[solution.so] \in {"safe", "deadlocks"}
    BY <1>9 DEF Confirm, AssertFails, TypeOK, Solution, Natures
  <2>2. solution # NoSolution
    BY <1>9 DEF Confirm, TypeOK
  <2> QED
    BY <1>9, <2>1, <2>2 DEF Confirm, Return
<1>10. CASE SwitchMode
  BY <1>10 DEF SwitchMode, TypeOK
<1>11. CASE IntegrateEdge
  BY <1>11 DEF IntegrateEdge
<1>12. CASE EndIteration
  BY <1>12 DEF EndIteration
<1>13. CASE PrintResult
  BY <1>13 DEF PrintResult
<1>14. CASE UNCHANGED vars
  BY <1>14 DEF vars
<1> QED
  BY <1>1, <1>2, <1>3, <1>4, <1>5, <1>6, <1>7, <1>8, <1>9, <1>10, <1>11, <1>12,
     <1>13, <1>14 DEF Next, MainThread

\* A program that is returned has no failing assertion and, in deadlock mode,
\* can finish; a correct program that was analysed is returned.
THEOREM ResultCorrect == Spec => [](ResultVerified /\ SafeNeverDropped)
<1> DEFINE I == TypeOK /\ Control /\ ResultVerified /\ SafeNeverDropped
<1>1. Init => Control /\ ResultVerified /\ SafeNeverDropped
  BY InitControl DEF Init, ResultVerified, SafeNeverDropped, Settled
<1>2. TypeOK /\ TypeOK' /\ I /\ [Next]_vars => I'
  BY StepControl, StepVerdicts
<1> QED
  BY <1>1, <1>2, TypeCorrect, PTL DEF Spec

\* No correct program is analysed and then dropped by repairProgram.
THEOREM SafeIsKept == Spec => []SafeNeverDropped
<1> QED
  BY ResultCorrect, PTL
-------------------------------------------------------------------------------
(* Where the candidates wait.                                              *)

\* What is on the stash, element by element.
LEMMA StashedDef ==
  ASSUME TypeOK
  PROVE  \A s : s \in Stashed
                  <=> \E k \in 1..Len(solutionStash) : s \in solutionStash[k][2]
  BY DEF Stashed, TypeOK

\* Putting the queue aside moves candidates and loses none.
LEMMA StashEffect ==
  ASSUME TypeOK, TypeOK', Apart, NEW b, StashOther(b), UNCHANGED atomicSectionSolutions
  PROVE  Pending' = Pending /\ Apart'
<1>1. CASE b # lastBugId /\ solutionsToTry # {}
  <2> DEFINE T == (BugIds \cup {0}) \X ((SUBSET Solution) \ {{}})
             L == Len(solutionStash)
             e == <<lastBugId, solutionsToTry>>
  <2>1. solutionStash' = Append(solutionStash, e) /\ solutionsToTry' = {}
    BY <1>1 DEF StashOther
  <2>2. solutionStash \in Seq(T) /\ e \in T /\ L \in Nat
    BY <1>1 DEF TypeOK
  <2>3. /\ Len(solutionStash') = L + 1
        /\ \A k \in 1..L : solutionStash'[k] = solutionStash[k]
        /\ solutionStash'[L + 1] = e
        /\ DOMAIN solutionStash = 1..L
        /\ DOMAIN solutionStash' = 1..(L + 1)
    <3> HIDE DEF T, e
    <3> QED BY <2>1, <2>2
  <2>4. \A s : s \in Stashed' <=> s \in Stashed \/ s \in solutionsToTry
    <3>1. \A s : s \in Stashed' <=> \E k \in 1..(L + 1) : s \in solutionStash'[k][2]
      BY <2>3 DEF Stashed
    <3>2. \A s : s \in Stashed <=> \E k \in 1..L : s \in solutionStash[k][2]
      BY <2>3 DEF Stashed
    <3>3. \A k \in 1..(L + 1) : k \in 1..L \/ k = L + 1
      BY <2>2
    <3>4. 1..L \subseteq 1..(L + 1) /\ L + 1 \in 1..(L + 1)
      BY <2>2
    <3>5. e[2] = solutionsToTry
      OBVIOUS
    <3> HIDE DEF e, L
    <3> QED BY <2>3, <3>1, <3>2, <3>3, <3>4, <3>5
  <2>5. Pending' = Pending
    BY <2>1, <2>4 DEF Pending
  <2>6. \A i, j \in 1..(L + 1) :
          i # j => solutionStash'[i][2] \cap solutionStash'[j][2] = {}
    <3> SUFFICES ASSUME NEW i \in 1..(L + 1), NEW j \in 1..(L + 1), i # j,
                        NEW s, s \in solutionStash'[i][2], s \in solutionStash'[j][2]
                 PROVE  FALSE
      OBVIOUS
    <3>1. CASE i \in 1..L /\ j \in 1..L
      BY <2>3, <3>1 DEF Apart
    <3>2. CASE i = L + 1
      <4>1. j \in 1..L /\ s \in solutionsToTry
        BY <2>2, <2>3, <3>2
      <4>2. s \in Stashed
        BY <2>3, <4>1 DEF Stashed
      <4> QED
        BY <4>1, <4>2 DEF Apart
    <3>3. CASE j = L + 1
      <4>1. i \in 1..L /\ s \in solutionsToTry
        BY <2>2, <2>3, <3>3
      <4>2. s \in Stashed
        BY <2>3, <4>1 DEF Stashed
      <4> QED
        BY <4>1, <4>2 DEF Apart
    <3> QED
      BY <2>2, <3>1, <3>2, <3>3
  <2> HIDE DEF L, e
  <2> QED
    BY <2>1, <2>3, <2>4, <2>5, <2>6 DEF Apart
<1>2. CASE ~(b # lastBugId /\ solutionsToTry # {})
  BY <1>2 DEF StashOther, Pending, Stashed, Apart
<1> QED
  BY <1>1, <1>2

\* Refilling the queue moves candidates, loses none, and leaves the queue empty
\* only if nothing waits anywhere.
LEMMA RefillEffect ==
  ASSUME TypeOK, TypeOK', Apart, Refill
  PROVE  /\ Pending' = Pending
         /\ Apart'
         /\ solutionsToTry' = {} => Pending' = {}
<1>1. CASE solutionsToTry # {}
  BY <1>1 DEF Refill, Pending, Stashed, Apart, search
<1>2. CASE solutionsToTry = {} /\ solutionStash = <<>>
  <2>1. Stashed = {} /\ Stashed' = {}
    BY <1>2 DEF Refill, Stashed
  <2> QED
    BY <1>2, <2>1 DEF Refill, Pending, Apart
<1>3. CASE solutionsToTry = {} /\ solutionStash # <<>>
  <2> DEFINE T == (BugIds \cup {0}) \X ((SUBSET Solution) \ {{}})
             L == Len(solutionStash)
             top == solutionStash[L]
  <2>1. /\ solutionsToTry' = top[2]
        /\ solutionStash' = SubSeq(solutionStash, 1, L - 1)
        /\ UNCHANGED atomicSectionSolutions
    BY <1>3 DEF Refill
  <2>2. solutionStash \in Seq(T) /\ L \in Nat \ {0}
    BY <1>3 DEF TypeOK
  <2>3. /\ L - 1 \in Nat
        /\ DOMAIN solutionStash = 1..L
        /\ DOMAIN solutionStash' = 1..(L - 1)
        /\ \A k \in 1..(L - 1) : solutionStash'[k] = solutionStash[k]
        /\ 1..(L - 1) \subseteq 1..L
        /\ L \in 1..L
        /\ L \notin 1..(L - 1)
        /\ \A k \in 1..L : k = L \/ k \in 1..(L - 1)
    <3> HIDE DEF T
    <3> QED BY <2>1, <2>2
  <2>4. top[2] # {}
    <3>1. top \in T
      <4> HIDE DEF T, L
      <4> QED BY <2>2, <2>3
    <3> HIDE DEF top
    <3> QED BY <3>1
  <2>5. \A s : s \in Stashed <=> s \in Stashed' \/ s \in solutionsToTry'
    <3>1. \A s : s \in Stashed' <=> \E k \in 1..(L - 1) : s \in solutionStash'[k][2]
      BY <2>3 DEF Stashed
    <3>2. \A s : s \in Stashed <=> \E k \in 1..L : s \in solutionStash[k][2]
      BY <2>3 DEF Stashed
    <3> HIDE DEF L
    <3> QED BY <2>1, <2>3, <3>1, <3>2
  <2>6. Pending' = Pending
    BY <1>3, <2>1, <2>5 DEF Pending
  <2>7. solutionsToTry' \cap Stashed' = {}
    <3>0. \A s : s \in Stashed' <=> \E k \in 1..(L - 1) : s \in solutionStash'[k][2]
      BY <2>3 DEF Stashed
    <3>1. \A s : s \in Stashed' => \E k \in 1..(L - 1) : s \in solutionStash[k][2]
      <4> HIDE DEF L
      <4> QED BY <2>3, <3>0
    <3>2. \A k \in 1..(L - 1) : solutionStash[k][2] \cap top[2] = {}
      <4> HIDE DEF L
      <4> QED BY <2>3 DEF Apart
    <3> HIDE DEF L
    <3> QED BY <2>1, <3>1, <3>2
  <2>8. \A i, j \in DOMAIN solutionStash' :
          i # j => solutionStash'[i][2] \cap solutionStash'[j][2] = {}
    <3> HIDE DEF L
    <3> QED BY <2>3 DEF Apart
  <2>9. atomicSectionSolutions' \cap (solutionsToTry' \cup Stashed') = {}
    BY <2>1, <2>5 DEF Apart
  <2> QED
    BY <2>1, <2>4, <2>6, <2>7, <2>8, <2>9 DEF Apart
<1> QED
  BY <1>1, <1>2, <1>3

\* Steps that leave queue, stash and deferred list alone leave what waits alone.
LEMMA SearchFrame ==
  ASSUME UNCHANGED search
  PROVE  Pending' = Pending /\ Apart' = Apart
  BY DEF search, Pending, Stashed, Apart

\* What waits are solutions.
LEMMA PendingType == TypeOK => Pending \subseteq Solution
<1> SUFFICES ASSUME TypeOK PROVE Stashed \subseteq Solution
  BY DEF Pending, TypeOK
<1> DEFINE T == (BugIds \cup {0}) \X ((SUBSET Solution) \ {{}})
<1>1. \A k \in 1..Len(solutionStash) : solutionStash[k] \in T
  <2>1. solutionStash \in Seq(T)
    BY DEF TypeOK
  <2> HIDE DEF T
  <2> QED BY <2>1
<1>2. \A t \in T : t[2] \subseteq Solution
  OBVIOUS
<1> HIDE DEF T
<1> QED
  BY <1>1, <1>2, StashedDef

\* What IntegrateEdge adds is new: it carries the number of the round and a
\* number that no candidate of this round has yet.
LEMMA IntegrateEffect ==
  ASSUME TypeOK, TypeOK', Control, Rounds, IntegrateEdge
  PROVE  \E new \in SUBSET Solution :
           /\ Pending' = Pending \cup new
           /\ new \subseteq solutionsToTry' \cup atomicSectionSolutions'
           /\ solutionsToTry \subseteq solutionsToTry'
           /\ atomicSectionSolutions \subseteq atomicSectionSolutions'
           /\ new \cap (Pending \cup tried) = {}
           /\ n' >= n
           /\ \A s \in new : /\ s.roundId = badRounds
                             /\ s.originalNumber < n'
                             /\ s.parentSolution = Key(solution)
           /\ Apart => Apart'
<1>1. PICK edge \in RedEdges, edit \in Edits(solution.so) :
        LET found == Integrate(edge, solution, badRounds, n, edit)
            new   == {s \in found : ~AlreadyQueued(s)}
            later == {s \in new : Deferred(s)}
        IN  /\ solutionsToTry' = solutionsToTry \cup (new \ later)
            /\ atomicSectionSolutions' = atomicSectionSolutions \cup later
            /\ n' = n + Cardinality(new)
  BY DEF IntegrateEdge
<1> DEFINE found == Integrate(edge, solution, badRounds, n, edit)
           new == {s \in found : ~AlreadyQueued(s)}
           later == {s \in new : Deferred(s)}
<1>2. solution \in Solution /\ badRounds \in Nat /\ n \in Nat
  BY DEF IntegrateEdge, Control, InIteration, Iteration, TypeOK
<1>3. new \in SUBSET Solution
  BY <1>2, IntegrateType
<1>4. \A s \in new : /\ s.roundId = badRounds
                     /\ s.originalNumber = n
                     /\ s.parentSolution = Key(solution)
  BY DEF Integrate
<1>5. IsFiniteSet(new)
  BY IntegrateFinite, FS_Subset
<1>6. Cardinality(new) \in Nat /\ (Cardinality(new) = 0 => new = {})
  BY <1>5, FS_CardinalityType, FS_EmptySet
<1>7. /\ solutionsToTry' = solutionsToTry \cup (new \ later)
      /\ atomicSectionSolutions' = atomicSectionSolutions \cup later
      /\ n' = n + Cardinality(new)
  BY <1>1
<1>8. Stashed' = Stashed /\ solutionStash' = solutionStash
  BY DEF IntegrateEdge, Stashed
<1> HIDE DEF found, new
<1>9. new \cap (Pending \cup tried) = {}
  BY <1>2, <1>4 DEF Rounds, IntegrateEdge
<1>10. n' >= n /\ (new # {} => n < n')
  BY <1>2, <1>6, <1>7
<1>11. later \subseteq new
  OBVIOUS
<1> HIDE DEF later
<1>12. Pending' = Pending \cup new
  BY <1>7, <1>8, <1>11 DEF Pending
<1>13. Apart => Apart'
  BY <1>7, <1>8, <1>9, <1>11 DEF Apart, Pending
<1>14. \A s \in new : s.originalNumber < n'
  BY <1>4, <1>10
<1>15. new \subseteq solutionsToTry' \cup atomicSectionSolutions'
  BY <1>7, <1>11
<1> QED
  BY <1>3, <1>4, <1>7, <1>9, <1>10, <1>12, <1>13, <1>14, <1>15

\* What the invariant says of the candidates.
Candidates == Rounds /\ TriedOnce /\ RoundIdentifiesParent

\* Initially there is one candidate, of round 0.
LEMMA InitCandidates == Init => Candidates
<1> SUFFICES ASSUME Init PROVE Candidates
  OBVIOUS
<1>1. Stashed = {} /\ Pending = {InitialSolution}
  BY DEF Init, Pending, Stashed
<1>2. InitialSolution.roundId = 0
  BY DEF InitialSolution
<1> QED
  BY <1>1, <1>2 DEF Init, Candidates, Rounds, TriedOnce, Apart, RoundIdentifiesParent

\* Every step keeps the candidates apart and their rounds in order.
LEMMA StepCandidates ==
  TypeOK /\ TypeOK' /\ Control /\ Candidates /\ [Next]_vars => Candidates'
<1> SUFFICES ASSUME TypeOK, TypeOK', Control, Candidates, [Next]_vars
             PROVE  Candidates'
  OBVIOUS
<1>1. \A s \in Pending \cup tried : s.roundId \in Nat /\ s \in Solution
  BY PendingType DEF TypeOK, Solution
<1>2. badRounds \in Nat
  BY DEF TypeOK
<1>3. \* nothing moves
      ASSUME UNCHANGED search, tried' = tried,
             \/ badRounds' = badRounds /\ pc' = pc /\ UNCHANGED <<solution, n>>
             \/ badRounds' = badRounds /\ pc' \in {"loop", "print", "done"}
             \/ /\ badRounds' = badRounds
                /\ pc \in {"verify", "finishes", "check", "confirm"}
                /\ pc' \in {"finishes", "check", "confirm", "refill"}
             \/ badRounds' = badRounds + 1 /\ pc' = "check"
             \/ badRounds' = badRounds - 1 /\ pc = "confirm" /\ pc' = "loop"
      PROVE  Candidates'
  <2>1. Pending' = Pending /\ Apart' = Apart
    BY <1>3, SearchFrame
  <2>2. TriedOnce' /\ RoundIdentifiesParent'
    BY <1>3, <2>1 DEF Candidates, TriedOnce, RoundIdentifiesParent
  <2>3. solutionsToTry' = solutionsToTry
        /\ atomicSectionSolutions' = atomicSectionSolutions
    BY <1>3 DEF search
  <2>4. Rounds'
    <3> SUFFICES ASSUME NEW s \in Pending \cup tried
                 PROVE  /\ s.roundId <= badRounds'
                        /\ pc' \in {"verify", "finishes", "check", "confirm", "refill"}
                             => s.roundId < badRounds'
                        /\ pc' = "integrate" /\ s.roundId = badRounds'
                             => /\ s \in solutionsToTry' \cup atomicSectionSolutions'
                                /\ s \notin tried'
                                /\ s.originalNumber < n'
                                /\ s.parentSolution = Key(solution')
      BY <1>3, <2>1 DEF Rounds, Key
    <3>1. /\ s.roundId <= badRounds
          /\ pc \in {"verify", "finishes", "check", "confirm", "refill"}
               => s.roundId < badRounds
          /\ pc = "integrate" /\ s.roundId = badRounds
               => /\ s \in solutionsToTry \cup atomicSectionSolutions
                  /\ s \notin tried
                  /\ s.originalNumber < n
                  /\ s.parentSolution = Key(solution)
      BY DEF Candidates, Rounds
    <3> QED
      BY <1>1, <1>2, <1>3, <2>3, <3>1
  <2> QED
    BY <2>2, <2>4 DEF Candidates
<1>4. CASE RequestCancel
  BY <1>3, <1>4 DEF RequestCancel
<1>5. CASE NextSolution
  <2>1. PICK s \in Heads(solutionsToTry) :
          /\ solution' = s
          /\ solutionsToTry' = solutionsToTry \ {s}
          /\ tried' = tried \cup {s}
    BY <1>5 DEF NextSolution
  <2>2. s \in solutionsToTry
    BY DEF Heads
  <2>3. /\ badRounds' = badRounds + 1
        /\ pc' \in {"verify", "check"}
        /\ UNCHANGED <<solutionStash, atomicSectionSolutions>>
    BY <1>5 DEF NextSolution
  <2>4. Stashed' = Stashed
    BY <2>3 DEF Stashed
  <2>5. Pending' = Pending \ {s} /\ s \in Pending /\ Apart'
    BY <2>1, <2>2, <2>3, <2>4 DEF Pending, Apart, Candidates, TriedOnce
  <2>6. Pending' \cup tried' = Pending \cup tried
    BY <2>1, <2>5
  <2>7. TriedOnce'
    BY <2>1, <2>5 DEF Candidates, TriedOnce
  <2>8. RoundIdentifiesParent'
    BY <2>6 DEF Candidates, RoundIdentifiesParent
  <2>9. Rounds'
    BY <1>1, <1>2, <2>3, <2>6 DEF Candidates, Rounds
  <2> QED
    BY <2>7, <2>8, <2>9 DEF Candidates
<1>6. CASE RedoIteration
  BY <1>3, <1>6 DEF RedoIteration
<1>7. CASE LeaveLoop
  BY <1>3, <1>7 DEF LeaveLoop
<1>8. CASE Verify
  BY <1>3, <1>8 DEF Verify, GoTo
<1>9. CASE VerifyFinishes
  BY <1>3, <1>9 DEF VerifyFinishes, Return, GoTo
<1>10. CASE BadTraceFound
  <2>1. PICK b \in BugIds : StashOther(b)
    BY <1>10 DEF BadTraceFound
  <2>2. /\ UNCHANGED <<atomicSectionSolutions, tried, badRounds>>
        /\ pc = "check" /\ pc' = "integrate"
    BY <1>10 DEF BadTraceFound
  <2>3. Pending' = Pending /\ Apart'
    BY <2>1, <2>2, StashEffect DEF Candidates, TriedOnce
  <2>4. \A s \in Pending \cup tried : s.roundId < badRounds
    BY <2>2 DEF Candidates, Rounds
  <2>5. Rounds'
    BY <1>1, <1>2, <2>2, <2>3, <2>4 DEF Rounds
  <2> QED
    BY <2>2, <2>3, <2>5 DEF Candidates, TriedOnce, RoundIdentifiesParent
<1>11. CASE NoBadTrace
  BY <1>3, <1>11 DEF NoBadTrace, GoTo
<1>12. CASE Confirm
  BY <1>3, <1>12 DEF Confirm, Return
<1>13. CASE SwitchMode
  BY <1>3, <1>13 DEF SwitchMode, UncountedRounds
<1>14. CASE IntegrateEdge
  <2>1. PICK new \in SUBSET Solution :
           /\ Pending' = Pending \cup new
           /\ new \subseteq solutionsToTry' \cup atomicSectionSolutions'
           /\ solutionsToTry \subseteq solutionsToTry'
           /\ atomicSectionSolutions \subseteq atomicSectionSolutions'
           /\ new \cap (Pending \cup tried) = {}
           /\ n' >= n
           /\ \A s \in new : /\ s.roundId = badRounds
                             /\ s.originalNumber < n'
                             /\ s.parentSolution = Key(solution)
           /\ Apart => Apart'
    BY <1>14, IntegrateEffect DEF Candidates
  <2>2. UNCHANGED <<pc, tried, badRounds, solution>> /\ pc = "integrate"
    BY <1>14 DEF IntegrateEdge
  <2>3. TriedOnce'
    BY <2>1, <2>2 DEF Candidates, TriedOnce
  <2>4. \A s \in Pending \cup new \cup tried :
          s.roundId = badRounds => s.parentSolution = Key(solution)
    BY <2>1, <2>2 DEF Candidates, Rounds
  <2>5. RoundIdentifiesParent'
    BY <2>1, <2>2, <2>4 DEF Candidates, RoundIdentifiesParent
  <2>6. Rounds'
    <3> SUFFICES ASSUME NEW s \in Pending \cup new \cup tried
                 PROVE  /\ s.roundId <= badRounds
                        /\ s.roundId = badRounds
                             => /\ s \in solutionsToTry' \cup atomicSectionSolutions'
                                /\ s \notin tried
                                /\ s.originalNumber < n'
                                /\ s.parentSolution = Key(solution)
      BY <2>1, <2>2 DEF Rounds, Key
    <3>1. CASE s \in new
      BY <1>2, <2>1, <3>1
    <3>2. CASE s \in Pending \cup tried
      <4>1. /\ s.roundId <= badRounds
            /\ s.roundId = badRounds
                 => /\ s \in solutionsToTry \cup atomicSectionSolutions
                    /\ s \notin tried
                    /\ s.originalNumber < n
                    /\ s.parentSolution = Key(solution)
        BY <2>2, <3>2 DEF Candidates, Rounds
      <4>2. s.originalNumber \in Nat /\ n \in Nat /\ n' \in Nat
        BY <1>1, <3>2 DEF Solution, TypeOK
      <4> QED
        BY <2>1, <4>1, <4>2
    <3> QED
      BY <3>1, <3>2
  <2> QED
    BY <2>3, <2>5, <2>6 DEF Candidates
<1>15. CASE EndIteration
  <2>1. Refill /\ UNCHANGED <<tried, badRounds>> /\ pc' = "loop"
    BY <1>15 DEF EndIteration
  <2>2. Pending' = Pending /\ Apart'
    BY <2>1, RefillEffect DEF Candidates, TriedOnce
  <2>3. Rounds'
    BY <2>1, <2>2 DEF Candidates, Rounds
  <2> QED
    BY <2>1, <2>2, <2>3 DEF Candidates, TriedOnce, RoundIdentifiesParent
<1>16. CASE PrintResult
  BY <1>3, <1>16 DEF PrintResult
<1>17. CASE UNCHANGED vars
  BY <1>3, <1>17 DEF vars, search
<1> QED
  BY <1>4, <1>5, <1>6, <1>7, <1>8, <1>9, <1>10, <1>11, <1>12, <1>13, <1>14, <1>15,
     <1>16, <1>17 DEF Next, MainThread
-------------------------------------------------------------------------------
(* The end of the search.                                                  *)

\* Initially the queue is not empty.
LEMMA InitExhausted == Init => Exhausted
  BY DEF Init, Exhausted, NothingAside

\* Every step keeps nothing aside while the queue is empty between iterations.
LEMMA StepExhausted ==
  TypeOK /\ TypeOK' /\ Control /\ Candidates /\ Exhausted /\ [Next]_vars => Exhausted'
<1> SUFFICES ASSUME TypeOK, TypeOK', Control, Candidates, Exhausted, [Next]_vars
             PROVE  Exhausted'
  OBVIOUS
<1>1. printed # "nothing" => pc = "done"
  BY DEF Control, Outcome
<1>2. ASSUME pc' \notin {"loop", "print", "done"}, pc # "done", printed' = printed
      PROVE  Exhausted'
  BY <1>1, <1>2 DEF Exhausted
<1>3. CASE RequestCancel
  <2>1. Pending' = Pending
    BY <1>3, SearchFrame DEF RequestCancel
  <2> QED
    BY <1>1, <1>3, <2>1 DEF RequestCancel, Exhausted, NothingAside, search
<1>4. CASE NextSolution
  BY <1>2, <1>4 DEF NextSolution
<1>5. CASE RedoIteration
  BY <1>2, <1>5 DEF RedoIteration
<1>6. CASE LeaveLoop
  <2>1. Pending' = Pending
    BY <1>6, SearchFrame DEF LeaveLoop
  <2>2. ~cancel => Pending = {} /\ lastVerified = NoSolution
    BY <1>6 DEF LeaveLoop, LoopGuard, Exhausted, NothingAside
  <2> QED
    BY <1>1, <1>6, <2>1, <2>2 DEF LeaveLoop, Exhausted
<1>7. CASE Verify
  BY <1>2, <1>7 DEF Verify, GoTo
<1>8. ASSUME Return, pc \in Iteration
      PROVE  Exhausted'
  <2>1. result' # NoSolution
    BY <1>8, RepairAssumption DEF Return, Control, InIteration, TypeOK
  <2> QED
    BY <1>1, <1>8, <2>1 DEF Return, Exhausted, Iteration
<1>9. CASE VerifyFinishes
  BY <1>2, <1>8, <1>9 DEF VerifyFinishes, GoTo, Iteration
<1>10. CASE BadTraceFound
  BY <1>2, <1>10 DEF BadTraceFound
<1>11. CASE NoBadTrace
  BY <1>2, <1>11 DEF NoBadTrace, GoTo
<1>12. CASE Confirm
  BY <1>8, <1>12 DEF Confirm, Iteration
<1>13. CASE SwitchMode
  <2>1. lastVerified' # NoSolution
    BY <1>13, RepairAssumption
    DEF SwitchMode, Control, InIteration, Iteration, TypeOK
  <2> QED
    BY <1>1, <1>13, <2>1 DEF SwitchMode, Exhausted, NothingAside
<1>14. CASE IntegrateEdge
  BY <1>2, <1>14 DEF IntegrateEdge
<1>15. CASE EndIteration
  <2>1. solutionsToTry' = {} => Pending' = {}
    BY <1>15, RefillEffect DEF EndIteration, Candidates, TriedOnce
  <2> QED
    BY <1>1, <1>15, <2>1 DEF EndIteration, Exhausted, NothingAside
<1>16. CASE PrintResult
  <2>1. Pending' = Pending
    BY <1>16, SearchFrame DEF PrintResult
  <2> QED
    BY <1>1, <1>16, <2>1 DEF PrintResult, Exhausted
<1>17. CASE UNCHANGED vars
  <2>1. Pending' = Pending
    BY <1>17, SearchFrame DEF vars, search
  <2> QED
    BY <1>17, <2>1 DEF vars, Exhausted, NothingAside
<1> QED
  BY <1>3, <1>4, <1>5, <1>6, <1>7, <1>9, <1>10, <1>11, <1>12, <1>13, <1>14, <1>15,
     <1>16, <1>17 DEF Next, MainThread
-------------------------------------------------------------------------------
(* The count of the rounds.                                                *)

\* Before the first round nothing was tried.
LEMMA InitCounted == Init => RoundsCounted
  BY FS_EmptySet DEF Init, RoundsCounted

\* Only NextSolution adds to what was tried; the round that SwitchMode takes back
\* is counted again when RedoIteration begins, and EndIteration leaves nothing to
\* redo.
LEMMA StepCounted ==
  TypeOK /\ TriedOnce /\ Control /\ RoundsCounted /\ [Next]_vars => RoundsCounted'
<1> SUFFICES ASSUME TypeOK, TriedOnce, Control, RoundsCounted, [Next]_vars
             PROVE  RoundsCounted'
  OBVIOUS
<1>1. IsFiniteSet(tried) /\ Cardinality(tried) \in Nat /\ badRounds \in Nat
  BY FS_CardinalityType DEF RoundsCounted, TypeOK
<1>2. CASE NextSolution
  <2>1. PICK s \in Heads(solutionsToTry) : tried' = tried \cup {s}
    BY <1>2 DEF NextSolution
  <2>2. s \notin tried
    BY <2>1 DEF Heads, TriedOnce, Pending
  <2>3. IsFiniteSet(tried') /\ Cardinality(tried') = Cardinality(tried) + 1
    BY <1>1, <2>1, <2>2, FS_AddElement
  <2>4. badRounds = Cardinality(tried) /\ badRounds' = badRounds + 1 /\ lastVerified' = NoSolution
    BY <1>1, <1>2 DEF NextSolution, RoundsCounted
  <2> QED
    BY <1>1, <2>3, <2>4 DEF RoundsCounted
<1>3. CASE RedoIteration
  <2>1. /\ badRounds = Cardinality(tried) - 1 /\ badRounds' = badRounds + 1
        /\ tried' = tried /\ pc' \in Iteration
    BY <1>3 DEF RedoIteration, RoundsCounted, Iteration
  <2> QED
    BY <1>1, <2>1 DEF RoundsCounted
<1>4. CASE SwitchMode
  <2>1. /\ lastVerified = NoSolution /\ pc \in Iteration /\ pc' \notin Iteration
        /\ lastVerified' # NoSolution
    BY <1>4, RepairAssumption
    DEF SwitchMode, Control, InIteration, Diagnosis, Redo, Iteration, TypeOK
  <2>2. badRounds = Cardinality(tried) /\ badRounds' = badRounds - 1 /\ tried' = tried
    BY <1>1, <1>4, <2>1 DEF SwitchMode, UncountedRounds, RoundsCounted
  <2> QED
    BY <1>1, <2>1, <2>2 DEF RoundsCounted
<1>5. CASE EndIteration
  <2>1. pc \in Iteration /\ lastVerified' = NoSolution /\ tried' = tried /\ badRounds' = badRounds
    BY <1>5 DEF EndIteration, Iteration
  <2> QED
    BY <1>1, <2>1 DEF RoundsCounted
<1>6. ASSUME UNCHANGED <<tried, badRounds, lastVerified>>,
             lastVerified = NoSolution \/ (pc \in Iteration <=> pc' \in Iteration)
      PROVE  RoundsCounted'
  BY <1>6 DEF RoundsCounted
<1>7. CASE LeaveLoop \/ PrintResult \/ RequestCancel \/ IntegrateEdge \/ UNCHANGED vars
  BY <1>6, <1>7
  DEF LeaveLoop, PrintResult, RequestCancel, IntegrateEdge, vars, Iteration
<1>8. CASE Verify \/ BadTraceFound \/ NoBadTrace
  BY <1>6, <1>8 DEF Verify, BadTraceFound, NoBadTrace, GoTo, Iteration
<1>9. CASE VerifyFinishes \/ Confirm
  <2>1. lastVerified = NoSolution
    BY <1>9 DEF VerifyFinishes, Confirm, Control, Diagnosis, Redo
  <2> QED
    BY <1>6, <1>9, <2>1 DEF VerifyFinishes, Confirm, Return, GoTo
<1> QED
  BY <1>2, <1>3, <1>4, <1>5, <1>7, <1>8, <1>9 DEF Next, MainThread
-------------------------------------------------------------------------------
(* The invariant and what it implies.                                      *)

\* The inductive invariant holds initially.
LEMMA InitInvariant == Init => IInv
  BY InitWellTyped, InitControl, InitCandidates, InitExhausted, InitCounted
  DEF IInv, WellTyped, Candidates, Init, ResultVerified, SafeNeverDropped, Settled

\* Every step keeps the inductive invariant.
LEMMA StepInvariant == IInv /\ [Next]_vars => IInv'
<1> SUFFICES ASSUME IInv, [Next]_vars PROVE IInv'
  OBVIOUS
<1>1. TypeOK /\ Control /\ Candidates /\ ResultVerified /\ SafeNeverDropped
      /\ Exhausted /\ TriedOnce /\ RoundsCounted
  BY DEF IInv, Candidates
<1>2. WellTyped
  BY <1>1 DEF WellTyped, AtHand, Control, InIteration, TypeOK
<1>3. TypeOK'
  BY <1>2, StepWellTyped DEF WellTyped
<1>4. Control' /\ ResultVerified' /\ SafeNeverDropped'
  BY <1>1, StepControl, StepVerdicts
<1>5. Candidates' /\ Exhausted'
  BY <1>1, <1>3, StepCandidates, StepExhausted
<1>6. RoundsCounted'
  BY <1>1, StepCounted
<1> QED
  BY <1>3, <1>4, <1>5, <1>6 DEF IInv, Candidates

\* The inductive invariant holds in every reachable state.
THEOREM Invariance == Spec => []IInv
  BY InitInvariant, StepInvariant, PTL DEF Spec

\* Queue, stash and deferred atomic sections never overlap, and nothing that was
\* tried waits again.
THEOREM TriedAtMostOnce == Spec => []TriedOnce
<1>1. IInv => TriedOnce
  BY DEF IInv
<1> QED
  BY <1>1, Invariance, PTL

\* Equal round numbers mean equal parents.
THEOREM RoundsIdentifyParents == Spec => []RoundIdentifiesParent
<1>1. IInv => RoundIdentifiesParent
  BY DEF IInv
<1> QED
  BY <1>1, Invariance, PTL

\* The loop makes at most as many rounds as it takes candidates from the queue: it
\* comes back to a solution once, at the switch of modes, and then leaves it,
\* whether or not the checker finds a trace (Main.scala:339-340, 401).
THEOREM RoundsAreNew == Spec => []EveryRoundNew
<1>1. IInv => EveryRoundNew
  <2> SUFFICES ASSUME IInv PROVE badRounds <= Cardinality(tried)
    BY DEF EveryRoundNew
  <2>1. Cardinality(tried) \in Nat
    BY FS_CardinalityType DEF IInv, RoundsCounted
  <2> QED
    BY <2>1 DEF IInv, RoundsCounted
<1> QED
  BY <1>1, Invariance, PTL

\* The search reports failure only when it is exhausted.
THEOREM FailureIsExhaustive == Spec => []NoneMeansExhausted
<1>1. IInv => NoneMeansExhausted
  <2> SUFFICES ASSUME IInv, printed = "unsolved"
               PROVE  Pending = {} /\ InProgress = {}
    BY DEF NoneMeansExhausted
  <2>1. Pending = {} /\ lastVerified = NoSolution /\ result = NoSolution
    BY DEF IInv, Exhausted
  <2>2. pc = "done"
    BY DEF IInv, Control, Outcome
  <2> QED
    BY <2>1, <2>2 DEF InProgress, Iteration
<1> QED
  BY <1>1, Invariance, PTL
-------------------------------------------------------------------------------
(* The loop implements the abstract search.                                *)

\* How a step changes what the abstract search sees of the waiting candidates.
LEMMA PendingSteps ==
  ASSUME IInv, IInv', [Next]_vars
  PROVE  \/ Pending' = Pending /\ tried' = tried
         \/ /\ NextSolution
            /\ \E s \in Pending : /\ solution' = s
                                  /\ Pending' = Pending \ {s}
                                  /\ tried' = tried \cup {s}
         \/ /\ IntegrateEdge
            /\ Pending \subseteq Pending'
            /\ (Pending' \ Pending) \cap tried = {}
            /\ tried' = tried
<1> USE DEF IInv
<1>1. CASE UNCHANGED search /\ tried' = tried
  BY <1>1, SearchFrame
<1>2. CASE NextSolution
  <2>1. PICK s \in Heads(solutionsToTry) :
          /\ solution' = s
          /\ solutionsToTry' = solutionsToTry \ {s}
          /\ tried' = tried \cup {s}
    BY <1>2 DEF NextSolution
  <2>2. /\ s \in solutionsToTry
        /\ UNCHANGED <<solutionStash, atomicSectionSolutions>>
        /\ Stashed' = Stashed
    BY <1>2 DEF NextSolution, Heads, Stashed
  <2>3. s \in Pending /\ Pending' = Pending \ {s}
    BY <2>1, <2>2 DEF Pending, TriedOnce, Apart
  <2> QED
    BY <1>2, <2>1, <2>3
<1>3. CASE BadTraceFound
  BY <1>3, StashEffect DEF BadTraceFound, TriedOnce
<1>4. CASE IntegrateEdge
  BY <1>4, IntegrateEffect DEF IntegrateEdge
<1>5. CASE EndIteration
  BY <1>5, RefillEffect DEF EndIteration, TriedOnce
<1> QED
  BY <1>1, <1>2, <1>3, <1>4, <1>5
  DEF Next, MainThread, RequestCancel, RedoIteration, LeaveLoop, Verify,
      VerifyFinishes, NoBadTrace, Confirm, SwitchMode, PrintResult, Return, GoTo,
      vars, search

\* A waiting candidate keeps waiting until it is tried.
THEOREM CandidatesNeverForgotten == Spec => NeverForgotten
<1>1. IInv /\ IInv' /\ [Next]_vars => Pending \subseteq Pending' \cup tried'
  BY PendingSteps
<1>2. IInv /\ IInv' /\ [Next]_vars => [Pending \subseteq Pending' \cup tried']_vars
  BY <1>1
<1> QED
  BY <1>2, Invariance, PTL DEF Spec, NeverForgotten

\* The initial states are initial states of the abstract search.
LEMMA InitImplements == Init => Search!Init
<1> SUFFICES ASSUME Init PROVE Search!Init
  OBVIOUS
<1>1. Pending = {InitialSolution}
  BY DEF Init, Pending, Stashed
<1>2. InProgress = {} /\ Settled = {}
  BY DEF Init, InProgress, Settled, Iteration
<1>3. {p \in Programs : nature[p] = "safe"}
        \subseteq Programs \ {p \in Programs : AssertFails(p)}
  BY DEF AssertFails
<1> QED
  BY <1>1, <1>2, <1>3 DEF Search!Init, Init

\* Every step is a step of the abstract search or leaves its state alone.
LEMMA StepImplements ==
  IInv /\ IInv' /\ [Next]_vars => [Search!Next]_(Search!searchVars)
<1> SUFFICES ASSUME IInv, IInv', [Next]_vars
             PROVE  [Search!Next]_(Search!searchVars)
  OBVIOUS
<1> DEFINE failing == {p \in Programs : AssertFails(p)}
           correct == {p \in Programs : nature[p] = "safe"}
           outcome == IF pc \notin {"print", "done"} THEN "searching"
                      ELSE IF result # NoSolution THEN "solved"
                      ELSE IF Pending = {} /\ InProgress = {} THEN "exhausted"
                      ELSE "stopped"
<1> USE RepairAssumption DEF IInv
<1>1. failing' = failing /\ correct' = correct
  <2>1. nature' = nature
    BY DEF Next, MainThread, RequestCancel, NextSolution, RedoIteration, LeaveLoop,
           Verify, VerifyFinishes, BadTraceFound, NoBadTrace, Confirm, SwitchMode,
           IntegrateEdge, EndIteration, PrintResult, Return, GoTo, vars
  <2> QED
    BY <2>1 DEF AssertFails
<1>2. pc \in Iteration => /\ solution \in Solution
                          /\ solution \in tried
                          /\ solution # NoSolution
                          /\ result = NoSolution
                          /\ InProgress = {solution}
                          /\ outcome = "searching"
  BY DEF Control, InIteration, TypeOK, InProgress, Iteration
<1>3. ASSUME Pending' = Pending, InProgress' = InProgress, tried' = tried,
             outcome' = outcome
      PROVE  UNCHANGED Search!searchVars
  <2>1. Settled' = Settled
    BY <1>3 DEF Settled
  <2> QED
    BY <1>1, <1>3, <2>1 DEF Search!searchVars
<1>4. CASE RequestCancel
  <2>1. Pending' = Pending
    BY <1>4, SearchFrame DEF RequestCancel
  <2> QED
    BY <1>3, <1>4, <2>1 DEF RequestCancel, InProgress
<1>5. CASE NextSolution
  <2>1. PICK s \in Pending : /\ solution' = s
                             /\ Pending' = Pending \ {s}
                             /\ tried' = tried \cup {s}
    <3>1. pc = "loop" /\ ~IntegrateEdge
      BY <1>5 DEF NextSolution, IntegrateEdge
    <3>2. \E s \in Heads(solutionsToTry) : s \notin tried /\ s \in tried'
      BY <1>5 DEF NextSolution, Heads, TriedOnce, Pending
    <3> QED
      BY <3>1, <3>2, PendingSteps
  <2>2. InProgress = {} /\ InProgress' = {s}
    BY <1>5, <2>1 DEF NextSolution, InProgress, Iteration, Control, Outcome
  <2>3. s \notin tried
    BY <2>1 DEF TriedOnce
  <2>4. Settled' = Settled
    BY <2>1, <2>2, <2>3 DEF Settled
  <2>5. outcome = "searching" /\ outcome' = "searching"
    BY <1>5 DEF NextSolution
  <2> QED
    BY <1>1, <2>1, <2>2, <2>4, <2>5 DEF Search!Next, Search!Try, Search!facts
<1>6. CASE RedoIteration
  <2>1. Pending' = Pending
    BY <1>6, SearchFrame DEF RedoIteration
  <2>2. InProgress' = InProgress
    BY <1>6 DEF RedoIteration, InProgress, Iteration, Control, Redo
  <2> QED
    BY <1>3, <1>6, <2>1, <2>2 DEF RedoIteration
<1>7. CASE LeaveLoop
  <2>1. Pending' = Pending
    BY <1>7, SearchFrame DEF LeaveLoop
  <2>2. InProgress' = InProgress /\ tried' = tried /\ result' = NoSolution
    BY <1>7 DEF LeaveLoop, InProgress, Iteration, Control, Outcome
  <2>3. Settled' = Settled
    BY <2>2 DEF Settled
  <2>4. /\ outcome = "searching"
        /\ outcome' = IF Pending = {} /\ InProgress = {} THEN "exhausted" ELSE "stopped"
    BY <1>7, <2>1, <2>2 DEF LeaveLoop
  <2>5. CASE Pending = {} /\ InProgress = {}
    BY <1>1, <2>1, <2>2, <2>3, <2>4, <2>5 DEF Search!Next, Search!GiveUp, Search!facts
  <2>6. CASE ~(Pending = {} /\ InProgress = {})
    BY <1>1, <2>1, <2>2, <2>3, <2>4, <2>6 DEF Search!Next, Search!Stop, Search!facts
  <2> QED
    BY <2>5, <2>6
<1>8. ASSUME pc \in Iteration, pc' \in Iteration, UNCHANGED <<solution, tried>>,
             Pending' = Pending
      PROVE  UNCHANGED Search!searchVars
  <2>1. InProgress' = InProgress
    BY <1>2, <1>8 DEF InProgress
  <2>2. outcome' = outcome
    BY <1>8 DEF Iteration
  <2> QED
    BY <1>3, <1>8, <2>1, <2>2
<1>9. ASSUME NEW l \in Iteration, pc \in Iteration, GoTo(l)
      PROVE  UNCHANGED Search!searchVars
  BY <1>8, <1>9, SearchFrame DEF GoTo
<1>10. ASSUME pc \in Iteration, Return
       PROVE  Search!Solve
  <2>1. Pending' = Pending
    BY <1>10, SearchFrame DEF Return
  <2>2. result' = solution /\ solution' = solution /\ tried' = tried /\ pc' = "print"
    BY <1>10 DEF Return
  <2>3. InProgress' = InProgress
    BY <1>2, <1>10, <2>2 DEF InProgress
  <2>4. Settled' = Settled
    BY <2>2, <2>3 DEF Settled
  <2>5. outcome = "searching" /\ outcome' = "solved"
    BY <1>2, <1>10, <2>2
  <2>6. solution.so \notin failing
    <3>1. nature'[solution.so] \in {"safe", "deadlocks"}
      BY <1>2, <1>10, <2>2 DEF ResultVerified
    <3>2. nature' = nature
      BY <1>10 DEF Return
    <3> QED
      BY <3>1, <3>2 DEF AssertFails
  <2> QED
    BY <1>1, <1>2, <1>10, <2>1, <2>3, <2>4, <2>5, <2>6
    DEF Search!Solve, Search!facts
<1>11. CASE Verify
  BY <1>9, <1>11 DEF Verify, Iteration
<1>12. CASE VerifyFinishes
  BY <1>9, <1>10, <1>12 DEF VerifyFinishes, Iteration, Search!Next
<1>13. CASE BadTraceFound
  <2>1. Pending' = Pending
    BY <1>13, StashEffect DEF BadTraceFound, TriedOnce
  <2> QED
    BY <1>8, <1>13, <2>1 DEF BadTraceFound, Iteration
<1>14. CASE NoBadTrace
  BY <1>9, <1>14 DEF NoBadTrace, Iteration
<1>15. CASE Confirm
  BY <1>10, <1>15 DEF Confirm, Iteration, Search!Next
<1>16. CASE SwitchMode
  <2>1. Pending' = Pending
    BY <1>16, SearchFrame DEF SwitchMode
  <2>2. InProgress' = InProgress
    BY <1>2, <1>16 DEF SwitchMode, InProgress, Iteration
  <2> QED
    BY <1>3, <1>16, <2>1, <2>2 DEF SwitchMode
<1>17. CASE IntegrateEdge
  <2>1. /\ Pending \subseteq Pending'
        /\ (Pending' \ Pending) \cap tried = {}
        /\ UNCHANGED <<tried, pc, solution, result, lastVerified>>
    BY <1>17, IntegrateEffect DEF IntegrateEdge
  <2>2. InProgress' = InProgress /\ outcome = "searching" /\ outcome' = "searching"
    BY <1>2, <1>17, <2>1 DEF IntegrateEdge, InProgress, Iteration
  <2>3. Settled' = Settled /\ Settled \cup InProgress \subseteq tried
    BY <1>2, <1>17, <2>1, <2>2 DEF Settled, IntegrateEdge, Iteration
  <2>4. Pending' \subseteq Solution
    <3>1. \E new \in SUBSET Solution : Pending' = Pending \cup new
      BY <1>17, IntegrateEffect
    <3> QED
      BY <3>1, PendingType
  <2>5. InProgress # {}
    BY <1>2, <1>17 DEF IntegrateEdge, Iteration
  <2> QED
    BY <1>1, <2>1, <2>2, <2>3, <2>4, <2>5 DEF Search!Next, Search!Derive, Search!facts
<1>18. CASE EndIteration
  <2>1. Pending' = Pending
    BY <1>18, RefillEffect DEF EndIteration, TriedOnce
  <2>2. pc \in Iteration /\ pc' = "loop" /\ tried' = tried /\ result' = NoSolution
    BY <1>2, <1>18 DEF EndIteration, Iteration
  <2>3. InProgress = {solution} /\ InProgress' = {}
    BY <1>2, <1>18, <2>2 DEF EndIteration, InProgress, Iteration
  <2>4. Settled' = Settled \cup InProgress
    BY <1>2, <2>2, <2>3 DEF Settled
  <2>5. solution.so \notin correct
    BY <1>18 DEF EndIteration, Control, Diagnosis
  <2>6. outcome = "searching" /\ outcome' = "searching"
    BY <1>2, <2>2
  <2> QED
    BY <1>1, <2>1, <2>3, <2>4, <2>5, <2>6 DEF Search!Next, Search!Settle, Search!facts
<1>19. CASE PrintResult
  <2>1. Pending' = Pending
    BY <1>19, SearchFrame DEF PrintResult
  <2> QED
    BY <1>3, <1>19, <2>1 DEF PrintResult, InProgress, Iteration
<1>20. CASE UNCHANGED vars
  <2>1. Pending' = Pending
    BY <1>20, SearchFrame DEF vars, search
  <2> QED
    BY <1>3, <1>20, <2>1 DEF vars, InProgress
<1> QED
  BY <1>4, <1>5, <1>6, <1>7, <1>11, <1>12, <1>13, <1>14, <1>15, <1>16, <1>17, <1>18,
     <1>19, <1>20 DEF Next, MainThread

\* repairProgram is a search that tries every candidate at most once, settles all
\* it derives, and returns only what was verified.
THEOREM Refinement == Spec => ImplementsSearch
  BY InitImplements, StepImplements, Invariance, PTL
  DEF Spec, ImplementsSearch, Search!Spec
-------------------------------------------------------------------------------
(* No two candidates are equal.                                            *)

\* Only deferred atomic sections are on the list of deferred ones.
OnlyDeferred == \A s \in atomicSectionSolutions : Deferred(s)

\* integrate finds at most one candidate of each type.
LEMMA IntegrateTypesDiffer ==
  ASSUME NEW edge, NEW p, NEW r, NEW k, NEW edit,
         NEW s \in Integrate(edge, p, r, k, edit),
         NEW t \in Integrate(edge, p, r, k, edit),
         s.solutionType = t.solutionType
  PROVE  s = t
  BY DEF Integrate

\* Whether a candidate is deferred is seen from what equality compares.
LEMMA DeferredAlike ==
  ASSUME NEW s, NEW t, SameSolution(s, t)
  PROVE  Deferred(s) <=> Deferred(t)
  BY DEF SameSolution, Deferred

\* The candidates integrate keeps are equal neither to each other nor to an
\* older one: an older one of the same round is still queued, and was compared.
LEMMA IntegrateUnequal ==
  ASSUME IInv, IInv', OnlyDeferred, NoEqualCandidates, IntegrateEdge
  PROVE  NoEqualCandidates' /\ OnlyDeferred'
<1>1. PICK edge \in RedEdges, edit \in Edits(solution.so) :
        LET found == Integrate(edge, solution, badRounds, n, edit)
            new   == {s \in found : ~AlreadyQueued(s)}
            later == {s \in new : Deferred(s)}
        IN  /\ solutionsToTry' = solutionsToTry \cup (new \ later)
            /\ atomicSectionSolutions' = atomicSectionSolutions \cup later
  BY DEF IntegrateEdge
<1> DEFINE found == Integrate(edge, solution, badRounds, n, edit)
           new == {s \in found : ~AlreadyQueued(s)}
           later == {s \in new : Deferred(s)}
<1>2. /\ solutionsToTry' = solutionsToTry \cup (new \ later)
      /\ atomicSectionSolutions' = atomicSectionSolutions \cup later
  BY <1>1
<1>3. pc = "integrate" /\ tried' = tried /\ Stashed' = Stashed
  BY DEF IntegrateEdge, Stashed
<1>4. \A s \in new : s.roundId = badRounds
  BY DEF Integrate
<1>5. \A s, t \in new : s.solutionType = t.solutionType => s = t
  BY IntegrateTypesDiffer
<1>6. \A s \in new : ~AlreadyQueued(s)
  OBVIOUS
<1> HIDE DEF found, new
<1>7. OnlyDeferred'
  BY <1>2 DEF OnlyDeferred, Deferred
<1>8. ASSUME NEW s \in new, NEW t \in Pending \cup tried,
             SameSolution(s, t) \/ SameSolution(t, s), ~Deferred(s)
      PROVE  FALSE
  <2>1. SameSolution(s, t) /\ t.roundId = badRounds
    BY <1>4, <1>8 DEF SameSolution
  <2>2. t \in solutionsToTry \cup atomicSectionSolutions
    BY <1>3, <2>1 DEF IInv, Rounds
  <2>3. t \notin solutionsToTry
    BY <1>6, <2>1 DEF AlreadyQueued
  <2>4. Deferred(t)
    BY <2>2, <2>3 DEF OnlyDeferred
  <2> QED
    BY <1>8, <2>1, <2>4, DeferredAlike
<1>9. Pending' \cup tried' \subseteq Pending \cup tried \cup new
  BY <1>2, <1>3 DEF Pending
<1>10. NoEqualCandidates'
  <2> SUFFICES ASSUME NEW s \in Pending \cup tried \cup new,
                      NEW t \in Pending \cup tried \cup new,
                      SameSolution(s, t), ~Deferred(s)
               PROVE  s = t
    BY <1>9 DEF NoEqualCandidates, SameSolution, Deferred
  <2>1. ~Deferred(t)
    BY DeferredAlike
  <2>2. CASE s \in new /\ t \in new
    BY <1>5, <2>2 DEF SameSolution
  <2>3. CASE s \in new /\ t \in Pending \cup tried
    BY <1>8, <2>3
  <2>4. CASE s \in Pending \cup tried /\ t \in new
    BY <1>8, <2>1, <2>4
  <2>5. CASE s \in Pending \cup tried /\ t \in Pending \cup tried
    BY <2>5 DEF NoEqualCandidates
  <2> QED
    BY <2>2, <2>3, <2>4, <2>5
<1> QED
  BY <1>7, <1>10

\* Every step keeps the candidates unequal; all but IntegrateEdge only move them.
LEMMA StepUnequal ==
  ASSUME IInv, IInv', OnlyDeferred, NoEqualCandidates, [Next]_vars
  PROVE  NoEqualCandidates' /\ OnlyDeferred'
<1>1. CASE IntegrateEdge
  BY <1>1, IntegrateUnequal
<1>2. CASE ~IntegrateEdge
  <2>1. Pending' \cup tried' \subseteq Pending \cup tried
    <3>1. \/ Pending' = Pending /\ tried' = tried
          \/ \E s \in Pending : /\ Pending' = Pending \ {s}
                                /\ tried' = tried \cup {s}
      BY <1>2, PendingSteps
    <3> QED
      BY <3>1
  <2>2. NoEqualCandidates'
    BY <2>1 DEF NoEqualCandidates, SameSolution, Deferred
  <2>3. atomicSectionSolutions' = atomicSectionSolutions
        \/ atomicSectionSolutions' = {}
    BY <1>2
    DEF Next, MainThread, NextSolution, BadTraceFound, EndIteration, Refill,
        RequestCancel, RedoIteration, LeaveLoop, Verify, VerifyFinishes,
        NoBadTrace, Confirm, SwitchMode, PrintResult, Return, GoTo, vars, search
  <2> QED
    BY <2>2, <2>3 DEF OnlyDeferred, Deferred
<1> QED
  BY <1>1, <1>2

\* No two candidates that were put in the queue are equal by Solution.equals,
\* whatever the red edges, the bugs and the rounds that are redone.
THEOREM CandidatesDiffer == Spec => []NoEqualCandidates
<1>1. Init => NoEqualCandidates /\ OnlyDeferred
  <2> SUFFICES ASSUME Init PROVE NoEqualCandidates /\ OnlyDeferred
    OBVIOUS
  <2>1. Stashed = {} /\ Pending \cup tried = {InitialSolution}
    BY DEF Init, Pending, Stashed
  <2> QED
    BY <2>1 DEF Init, NoEqualCandidates, OnlyDeferred
<1>2. IInv /\ IInv' /\ (NoEqualCandidates /\ OnlyDeferred) /\ [Next]_vars
        => (NoEqualCandidates /\ OnlyDeferred)'
  BY StepUnequal
<1> QED
  BY <1>1, <1>2, Invariance, PTL DEF Spec
================================================================================
