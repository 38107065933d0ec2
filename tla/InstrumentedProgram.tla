------------------------- MODULE InstrumentedProgram -------------------------
(***************************************************************************)
(* What the C program that VerPrinter generates does, and so what the      *)
(* bounded model checker answers for it.  The tool generates the program   *)
(* in four ways:                                                           *)
(*   noTrace                    assertions stay where they are; is there a *)
(*                              failure?                                   *)
(*   noTrace, preventDeadlock   the same, and may all threads finish?      *)
(*   neither                    main waits for all threads and then checks *)
(*                              that no assertion has failed: the failing  *)
(*                              execution is a complete trace              *)
(*   preventDeadlock            the same, and assumptions let through what *)
(*                              comes after a failure                      *)
(* Statements are atomic; what else is, depends on the mode.               *)
(***************************************************************************)
EXTENDS Integers, Sequences, FiniteSets

CONSTANTS
  Threads,     \* the threads main starts
  Variables,   \* the global variables, set to 0 by main
  Programs,    \* the programs: a sequence of Statement for every thread
  None,        \* no thread
  MaxExecution \* a bound on the steps of an execution

Values == {0, 1}

\* A conjunction: the value each of some variables is to have.
Condition == UNION {[V -> Values] : V \in (SUBSET Variables) \ {{}}}

\* "if" skips the next statements if the condition does not hold; "begin" and
\* "end" enclose an atomic section, a lock is one with an assumption and a write.
Statement ==
  [op: {"write"}, variable: Variables, value: Values]
  \cup [op: {"assert", "assume"}, condition: Condition]
  \cup [op: {"if"}, condition: Condition, skip: Nat]
  \cup [op: {"begin", "end"}]

Modes == [noTrace: BOOLEAN, preventDeadlock: BOOLEAN]

State ==
  [at: [Threads -> Nat \ {0}],              \* the next statement of each thread
   seen: [Threads -> UNION {[V -> Values] : V \in SUBSET Variables}],
                                            \* what a condition has read so far
   holder: Threads \cup {None},             \* who is in an atomic section
   store: [Variables -> Values],
   failed: BOOLEAN,                         \* __assert_fail
   ended: BOOLEAN,                          \* main has checked its assertion
   reported: BOOLEAN]                       \* an assertion of the C program failed

ASSUME ProgramsAssumption ==
  /\ Programs \subseteq [Threads -> Seq(Statement)]
  /\ None \notin Threads
  /\ MaxExecution \in Nat
-------------------------------------------------------------------------------
Start == [at |-> [t \in Threads |-> 1], seen |-> [t \in Threads |-> <<>>],
          holder |-> None, store |-> [v \in Variables |-> 0],
          failed |-> FALSE, ended |-> FALSE, reported |-> FALSE]

Holds(condition, s) == \A v \in DOMAIN condition : s.store[v] = condition[v]
Goto(s, t, n) == [s EXCEPT !.at[t] = @ + n]

\* the flag says how the last assertion ended
CheckAssertion_Bug(condition, mode, s) ==
  IF mode.noTrace THEN [s EXCEPT !.reported = @ \/ ~Holds(condition, s)]
                  ELSE [s EXCEPT !.failed = ~Holds(condition, s)]

\* The assertion itself, or a flag for main to check at the end.
CheckAssertion(condition, mode, s) ==
  IF mode.noTrace THEN [s EXCEPT !.reported = @ \/ ~Holds(condition, s)]
                  ELSE [s EXCEPT !.failed = @ \/ ~Holds(condition, s)]

\* the assumptions as they were
LetsPass_Bug(condition, mode, s) == Holds(condition, s)

\* "__assert_fail>0 || " in front of the condition.
LetsPass(condition, mode, s) ==
  \/ Holds(condition, s)
  \/ ~mode.noTrace /\ mode.preventDeadlock /\ s.failed

\* What a thread has read of a condition, and one more variable.
Known(s, t, v) ==
  [w \in DOMAIN s.seen[t] \cup {v} |-> IF w = v THEN s.store[v] ELSE s.seen[t][w]]

Read(s, t, v) == [s EXCEPT !.seen[t] = Known(s, t, v)]

\* With trace the condition is read into a variable in an atomic section.
\* Without, it is a C expression, which reads one variable after the other.
Decide(stmt, mode, s, t) ==
  LET branch(holds) == Goto(s, t, IF holds THEN 1 ELSE 1 + stmt.skip)
      unread == DOMAIN stmt.condition \ DOMAIN s.seen[t]
  IN  IF ~mode.noTrace THEN {branch(Holds(stmt.condition, s))}
      ELSE IF unread # {} THEN {Read(s, t, v) : v \in unread}
      ELSE {[branch(s.seen[t] = stmt.condition) EXCEPT !.seen[t] = <<>>]}

Execute(stmt, mode, s, t) ==
  CASE stmt.op = "write"  -> {Goto([s EXCEPT !.store[stmt.variable] = stmt.value], t, 1)}
    [] stmt.op = "assert" -> {Goto(CheckAssertion(stmt.condition, mode, s), t, 1)}
    [] stmt.op = "assume" -> IF LetsPass(stmt.condition, mode, s) THEN {Goto(s, t, 1)} ELSE {}
    [] stmt.op = "if"     -> Decide(stmt, mode, s, t)
    [] stmt.op = "begin"  -> {Goto([s EXCEPT !.holder = t], t, 1)}
    [] stmt.op = "end"    -> {Goto([s EXCEPT !.holder = None], t, 1)}

Finished(program, s, t) == s.at[t] > Len(program[t])

ThreadSteps(program, mode, s, t) ==
  IF Finished(program, s, t) \/ s.holder \notin {None, t} THEN {}
  ELSE Execute(program[t][s.at[t]], mode, s, t)

\* The end of main: wait for __t_finished of every thread, then check.
MainSteps(program, mode, s) ==
  IF \/ mode.noTrace /\ ~mode.preventDeadlock
     \/ s.ended
     \/ \E t \in Threads : ~Finished(program, s, t) THEN {}
  ELSE {[s EXCEPT !.ended = TRUE, !.reported = @ \/ mode.noTrace \/ s.failed]}

After(program, mode, s) ==
  MainSteps(program, mode, s) \cup UNION {ThreadSteps(program, mode, s, t) : t \in Threads}
-------------------------------------------------------------------------------
(* The answer of the model checker.                                        *)

\* Every state that some execution of at most MaxExecution steps reaches.
Reachable(program, mode) ==
  LET within[n \in Nat] ==
        IF n = 0 THEN {Start}
        ELSE LET before == within[n - 1]
             IN  before \cup UNION {After(program, mode, s) : s \in before}
  IN  within[MaxExecution]

Fails(program, mode) == \E s \in Reachable(program, mode) : s.reported
===============================================================================
