--------------------------- MODULE Instrumentation ---------------------------
(***************************************************************************)
(* Executions of a generated program, in any of the four modes.            *)
(***************************************************************************)
EXTENDS InstrumentedProgram

VARIABLES
  program,     \* the program
  mode,        \* the way it is generated
  exec         \* the state of its execution

vars == <<program, mode, exec>>

Init == program \in Programs /\ mode \in Modes /\ exec = Start

ThreadStep(t) == /\ exec' \in ThreadSteps(program, mode, exec, t)
                 /\ UNCHANGED <<program, mode>>

MainStep == /\ exec' \in MainSteps(program, mode, exec)
            /\ UNCHANGED <<program, mode>>

Next == MainStep \/ \E t \in Threads : ThreadStep(t)

Spec == Init /\ [][Next]_vars

\* An execution does not stop while a thread can go on.
FairSpec == Spec /\ WF_vars(Next)
-------------------------------------------------------------------------------
(* The programs.                                                           *)

\* Before statement n of a body an atomic section was begun and not ended.
InSection(body, n) ==
  \E b \in 1..Len(body) :
    /\ b < n /\ body[b].op = "begin"
    /\ \A e \in 1..Len(body) : b < e /\ e < n => body[e].op # "end"

\* Sections end before their thread does, are not nested (an inner one is not
\* printed), and no condition leads into one or out of it; outside a section a
\* condition reads one variable.
Structured(body) ==
  /\ ~InSection(body, Len(body) + 1)
  /\ \A n \in 1..Len(body) :
       /\ body[n].op = "begin" => ~InSection(body, n)
       /\ body[n].op = "if" =>
            /\ InSection(body, n + 1 + body[n].skip) <=> InSection(body, n)
            /\ InSection(body, n) \/ \A v, w \in DOMAIN body[n].condition : v = w

\* What an execution may still have to do: statements, variables that conditions
\* read, the end of main.
LeftStatements(prog, s) ==
  UNION {{<<t, n>> : n \in s.at[t] .. Len(prog[t])} : t \in Threads}

LeftReads(prog, s) ==
  UNION {LET stmt == prog[p[1]][p[2]]
             read == IF p[2] = s.at[p[1]] THEN DOMAIN s.seen[p[1]] ELSE {}
         IN  IF stmt.op = "if" THEN {<<p[1], p[2], v>> : v \in DOMAIN stmt.condition \ read}
                               ELSE {} :
         p \in LeftStatements(prog, s)}

Left(prog, s) ==
  LeftStatements(prog, s) \cup LeftReads(prog, s) \cup (IF s.ended THEN {} ELSE {<<>>})

\* The checker looks at the whole of every execution.
Fits(prog) ==
  IsFiniteSet(Left(prog, Start)) /\ Cardinality(Left(prog, Start)) <= MaxExecution

SoundProgram(prog) == Fits(prog) /\ \A t \in Threads : Structured(prog[t])
-------------------------------------------------------------------------------
\* "At least we get a trace": once an assertion has failed, nothing can keep the
\* program from its end, where main reports it (src/README.md, Non-deadlock mode;
\* VerPrinter.scala:157-178, 296-301).
ForcedFinishes ==
  ~mode.noTrace /\ mode.preventDeadlock /\ exec.failed ~> exec.reported

\* A program that fails verification has a trace, at least one that need not be
\* faithful after the failure: the assumption behind assert(false) at
\* Main.scala:505 and behind the non-deadlock mode of the repair loop.  And a
\* trace is of a program that fails verification.  (If no condition outside an
\* atomic section reads more than one variable.)
VerdictsAgree ==
  exec.reported =>
    IF ~mode.noTrace THEN Fails(program, [noTrace |-> TRUE, preventDeadlock |-> FALSE])
    ELSE mode.preventDeadlock \/ Fails(program, [noTrace |-> FALSE, preventDeadlock |-> TRUE])
===============================================================================
