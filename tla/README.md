# ConRepair in TLA+

ConRepair repairs concurrent C programs. It asks the bounded model checker CBMC
for executions that fail an assertion ("bad traces"), learns from them which
statements must not run in the order they ran in, and changes the program until
no assertion can fail: it reorders statements of one list, or wraps a part of a
list into an atomic section. In its default mode it first learns from executions
that succeed ("good traces") which orders have to stay.

This directory holds TLA+ modules translated from the Scala sources of
`implementation/ConRepair`, the TLC configurations that check them on small
instances, and theorems about them that TLAPS checks for every value of the
constants. Paths below are relative to
`src/implementation/ConRepair/src/main/scala/at/ac/ist/con_repair/`.
`PROJECT.json` says, definition by definition, which lines a definition models.

## 1. The system

### 1.1 Components

| Component | State | Operations | Talks to |
| --- | --- | --- | --- |
| **Repair loop** `Main.repairProgram`, `helpers/Solution` | priority queue, stash of queues per bug, deferred atomic sections, solution to redo, mode flag, round counter | one iteration: take, verify, analyse, integrate, refill | checker (calls), `StatementOrder` (calls), statistic |
| **Cancel** `helpers/CommandReader` | `Main.cancel` | monitor thread reads standard input | repair loop and good-trace workers (shared flag) |
| **Partial order** `helpers/StatementOrder`, `helpers/PartialOrder`, `helpers/GraphExtensions` | graph over statements, list of each structure, bucket of each statement | build from the program, reduce, add black edge, integrate red edge, make atomic, place semaphore | structures, the list sorts |
| **List sorts** `PartialOrder.orderItemsUp/Down` | result list, hash map of pending items, call stack | sort a list by the graph, moving as little as possible | called twice by `integrate` |
| **Good-trace learning** `Main.processAssertion, learnFromGoodTraces` | traces and restrictions found so far | up to ten checker calls per assertion, in parallel over the assertions, then a merge | checker, `ProofObject`, partial order |
| **Proof objects** `algorithm/ProofObject` | events of one good trace | which orders the success of a trace depends on | good-trace learning |
| **Generalisation** `algorithm/Generalisation` | events of one bad trace | which red edges would forbid it, and what they cost | repair loop |
| **Instrumentation** `printing/VerPrinter` | - | prints a program for CBMC in one of five modes | checker front end |
| **Checker front end** `model_checker/` | files of the cache, the child process, call stack per thread | run CBMC or read the cache, parse the trace, bug id | everyone who verifies |
| **Driver** `Main.main, processFile, placeSemaphores` | `cancel`, statistic | the modes, directories, semaphore placement | all of the above |
| **Structures** `structures/` | tree of statements | copy, parents, common level of two statements | all of the above |
| Statistic, parsing, printers, options, IO | counters and times; none; none; flags; files | | |

### 1.2 What is hard, and what makes each part correct

* *Repair loop.* Candidates move between a queue, a stash and a list of deferred
  ones; an iteration is done again in another mode; equality of candidates rests
  on a round counter that is sometimes taken back; a second thread can cancel at
  any time. Correct: what is returned was verified, nothing derived is
  forgotten or tried twice, "no solution" means that nothing is left, and the
  search ends.
* *List sorts.* Recursive functions that change what their callers iterate over.
  Correct: the result is a permutation of the list that respects the graph, and
  only what must move is moved.
* *Partial order.* A graph computed once, then edited by every repair, beside
  lists edited by the same repairs. Correct: the two keep agreeing, and no
  repair undoes what an earlier one decided.
* *Good-trace learning.* Parallel workers, a shared cancel flag, a bounded number
  of rounds, a merge whose order depends on the workers. Correct: the result
  does not depend on the interleaving, and each round finds a new trace.
* *Checker front end.* A cache on disk that a crash can leave half written, files
  that parallel workers share, a child process with two pipes, a trace from
  which call stacks are rebuilt. Correct: a cached answer is the answer; nobody
  waits for ever; every call is returned from.
* *Instrumentation.* Three assertions on two kinds of runs say whether a program
  is correct. Correct: the answers mean what the repair loop takes them to mean.
* *Driver.* One flag for a whole directory; semaphores checked in one mode only.

The list of hazards in `PROJECT.json` names the lines.

## 2. The modules

| Module | Models | Instances |
| --- | --- | --- |
| `RepairSearch` | what the repair loop promises: an abstract search | - |
| `RepairLoop` | `Main.repairProgram` with what it calls, `Solution`, `CommandReader`, `printResult` | `MCRepairLoop` |
| `RepairLoop_proofs` | theorems about `RepairLoop` | |
| `OrderItems` | `PartialOrder.orderItemsUp` and `orderItemsDown` | `MCOrderItems` |
| `OrderItems_proofs` | theorems about `OrderItems`: order, types, permutation, agreement, least movement | |
| `StatementOrder` | `StatementOrder`, the rest of `PartialOrder`, composed with `OrderItems` | `MCStatementOrder` |
| `StatementOrder_proofs` | theorems about `StatementOrder`; cites those about the sorts | |
| `GoodTraceLearning` | `Main.processAssertion` and `learnFromGoodTraces` | `MCGoodTraceLearning` |
| `GoodTraceLearning_proofs` | theorems about `GoodTraceLearning` | |
| `Generalisation` | the class `Generalisation` | `MCGeneralisation` |
| `Generalisation_proofs` | theorems about `Generalisation` | |
| `ProofObject` | the constructor of `ProofObject`: what a good trace teaches | `MCProofObject` |
| `ProofObject_proofs` | theorems about `ProofObject` | |
| `CommonLevel` | `Structure.getSameLevel` and `findCommandParent` on the tree of structures | - |
| `BlackEdgeLevels` | `ProofObject` and `CommonLevel` composed: where black edges meet in the program | `MCBlackEdgeLevels` |
| `CheckerOracle` | what a caller of the checker may rely on: an abstract oracle | - |
| `CheckerFrontEnd` | `CheckerBase.invokeChecker`, its cache, `InvokeCBMC` | `MCCheckerFrontEnd` |
| `CheckerFrontEnd_proofs` | theorems about `CheckerFrontEnd` | |
| `InstrumentedProgram` | `VerPrinter`: what the generated program does, what the checker answers | - |
| `Instrumentation` | executions of a generated program | `MCInstrumentation` |
| `Instrumentation_proofs` | theorems about `Instrumentation` | |
| `VerifyMode` | mode Verify of `Main.processFile` | `MCVerifyMode` |
| `Driver` | `Main.main` over a directory, `processFile` and its output | itself |

How they compose: `RepairLoop` and `GoodTraceLearning` ask the checker, of which
`CheckerFrontEnd` shows that a verdict it returns is the right one (it implements
`CheckerOracle`), and `Instrumentation` that the verdicts of the modes fit together as the
natures of `RepairLoop` say. `StatementOrder` runs the steps of `OrderItems`.
`ProofObject` gives the black edges that `GoodTraceLearning` merges and `BlackEdgeLevels`
looks up in the program. `VerifyMode` asks for the answers of `InstrumentedProgram`.

Definitions whose name ends in `_Bug` are variants of the definition that follows
them, with a bug of the kind one could make in that code. They are not used by
any specification; each property is checked to fail with one of them in place.

### 2.1 RepairLoop (`Main.scala:246-405`)

`pc` is the place in the loop body; `solutionsToTry`, `solutionStash`,
`atomicSectionSolutions`, `lastVerified`, `lastBugId`, `preventDeadlock`,
`badRounds`, `n` and `cancel` are the variables of that name. Each action is the
code between two calls of the checker or between two reads of `cancel`:

| Action | Code |
| --- | --- |
| `NextSolution`, `RedoIteration`, `LeaveLoop` | loop guard and head, l. 283-301, 403-405 |
| `Verify`, `VerifyFinishes` | the two verifications in deadlock mode, l. 301-319 |
| `BadTraceFound`, `NoBadTrace` | the answer of `invokeChecker`, stashing by bug id |
| `Confirm`, `SwitchMode` | verification without trace, switch to the other mode |
| `IntegrateEdge` | one solution of the generalisation, integrated, compared and kept |
| `EndIteration` | refilling the queue from the stash or the deferred list |
| `RequestCancel` | the thread of `CommandReader`, between any two of these |
| `PrintResult` | what `processFile` makes of the answer and of `cancel` |

Abstractions. A program is known by its *nature*, what the checker says of it in
the four modes the loop asks: "safe", "deadlocks" (nothing fails because nothing
finishes), "exposed" (a failing run can be completed), "hidden" (it fails, but no
failing run can be completed), "untraceable" (verification without trace fails, but
no mode has a trace: finding 2). For the last two the loop switches modes and redoes
the iteration; an untraceable program then has no trace again and is dropped. Every assignment of natures to programs is an initial state. A red edge is
known by what `integrate` can make of it (nothing, one reordering, two, an atomic
section), and every edge of `RedEdges` may come out of a bad trace. A change
leads to a program with a higher number: changes only add to the partial
order, so a program is not reached from itself; the same change of the same
program in one round is the same program (`Consistent`). The queue is a set, since
`PriorityQueue` leaves the order among equals open (`Heads`).

`nature` and `tried` are not in the code: the first is the environment, the second
a history variable, all solutions taken from the queue.

### 2.2 RepairSearch

What a reader of the loop should be able to rely on without knowing about queues,
stashes, modes and rounds: candidates are pending, being tried or settled; trying
takes one of the pending; deriving only adds candidates that are new; only a
candidate that is not correct is settled; only one without a failing assertion is
the solution; "exhausted" is reported only with nothing pending and nothing being
tried. `RepairLoop` implements it (`ImplementsSearch`), with `Pending` the union of
queue, stash and deferred list, and the solution to redo counted as being tried
between the two iterations.

### 2.3 OrderItems (`PartialOrder.scala:158-231`)

The stacks `upStack` and `downStack` hold the calls of the two functions named
`addElement`. A call of the upward sort keeps the predecessors that were missing
when it began (the `filter` of line 219 is evaluated then), in any order, since
they come from a set. A call of the downward sort keeps a cursor into the hash map
`pendingNeed`, whose chains (`head`, `next`) are modelled after Scala 2.10's
`HashTable`: iteration from the highest bucket down, insertion at the head of the
chain, a removed entry keeps its own pointer. This is what decides whether
an entry removed under a running iteration makes the iteration lose its place, so
it is not abstracted; what is abstracted is how an Id is hashed: every function
of `Layouts` from statements to buckets. The table does not grow during a sort
(it starts with 16 buckets and grows beyond 12 pending items; not modelled).

### 2.4 StatementOrder (`StatementOrder.scala`, `PartialOrder.scala:93-156`)

`order` is the edge set of `PartialOrder.graph`, `bucket` is `elementBuckets`,
`lists` are the statement lists of the structures. `StartOrder` is
`getPartialOrder` for every set of interfering pairs, with `Reduced` for
`PartialOrder.reduced`. `Integrate` picks a red edge between two elements of one
list that the order does not already contain and, unless the order contradicts it,
starts both sorts, whose steps (`Sort`) are the actions of `OrderItems`. `MoveUp`,
`MoveDown` and `MakeAtomic` each take one of the candidates `integrate` returns and
go on with it as the program; so a behaviour is one branch of the search, as long
as `MaxRepairs`. `required` is a history variable: every pair of statements whose
order was ever decided, by interference, by a black edge or by an earlier repair.

Bounds of this module: one function body of simple statements; the structures
repairs create (atomic sections) nest, the others (branches, loops, calls into
other functions) are in `CommonLevel`; a list in which a statement occurs twice (finding
1) is not repaired further.

### 2.5 GoodTraceLearning (`Main.scala:73-218`)

One worker per assertion, and one (`Whole`) that asks for any complete execution; at
most `Threads` of them are active at a time. `pc` is where a worker is; `rounds`,
`lastRes`, `finishTrace`, `readFrom`, `be`, `sug` are its local variables.

| Action | Code |
| --- | --- |
| `Begin` | the pool takes up an assertion |
| `Guard` | the condition of the loop, which reads `cancel`, and the counting of the round |
| `FoundTrace`, `NoTrace` | the two answers of the checker |
| `Merge` | the third argument of `aggregate` and what is made of its result |
| `RequestCancel` | the thread of `CommandReader`, between any two of these |

Abstractions. An execution is what its proof object gives: whether it finishes, what
each assertion reads in it, its black edges and its suggestions. Every subset of
`Executions` is the set `runs` of good executions of a program. The checker answers
with any of them that the restrictions (`Answers`) admit; that the instrumentation
excludes exactly what was read before is taken from `VerPrinter.addConstraints`. An
assertion has one read per execution. Firm edges, which only the output shows, and
the names of the finders are left out.

### 2.6 Generalisation (`algorithm/Generalisation.scala`)

A bad trace is a sequence of statements with their threads and the globals they use
and change. The constructor is a sequence of phases (`phase`): `scan` and `reach`
walk the trace and put the edges from the end of each block to the first
statement of each other thread into `edges`; `edges` and `generalise` replace each
of them by the edges between statements that interfere; `cycles` builds the graph
without transitive edges (`BuildGraph`) and makes the recursive calls of `findCycles`
(`FindCycles`), all calls of one depth in one step, because their results are only
united.

Left out: `Solution.metric` (`RepairLoop` takes any cost), the DOT export, and
the filter that makes the traces of a deadlock out of those of the checker.

### 2.7 ProofObject (`algorithm/ProofObject.scala`)

A good trace is a sequence of events: thread, kind (`write`, `assume`, `assert`) and the
variables. `graph` is the coloured graph of the class. `Init` is everything that is
put into it before the first search: program order (`Dotted`), what an assertion reads from
(`Red`), the writes that could get in between (`Green`), whom an assumption waits
for (`Blue`). `phase` and `todo` are the three loops over edges: `FindCycle`
(l. 108-131), `RemoveTransitive` (l. 144), `Cover` (l. 147-172 with `suggestReordering`).
The code takes edges from hash sets, so the order is any; `findPath` is a breadth-first
search that may return any shortest path, so `ShortestPaths` gives them all. The
`assert`s of l. 126-127 are the phase `"failed"`. `oneOnly` says whether the
object is made for one assertion (`assertion` is `Some`) or for the deadlock step.

`ReadProtected` is the reference definition: `Kept` is what every later run respects
(black edges, assumptions after what they wait for, main before all threads, and what a
thread may not swap anyway), and if nothing is firm this order must force that the
assertion reads from the same write.

### 2.8 CommonLevel and BlackEdgeLevels (`structures/Structure.scala:28-99`)

A located statement is a structure with the calls it was reached through. `Around` walks
from it to the root, through the caller at the top of a function; `CommonParents`
is `findCommandParent`, `SameLevel` is `getSameLevel`. `BlackEdgeLevels` only adds the
place of each event's statement in the tree, and asks for the level of each black edge
of `ProofObject`, as `addBlackEdge` does.

### 2.9 CheckerFrontEnd (`CheckerBase.scala:58-84, 225-265`, `InvokeCBMC.scala:78-107`)

A caller is a thread of a run of ConRepair; all runs share the folder `ioCache`. `pc` is
where its call of `invokeChecker` is.

| Action | Code |
| --- | --- |
| `Invoke` | the call, up to `checkCache` |
| `CheckCache`, `ReadCache` | `checkCache`: does the file exist, and what is in it |
| `StartProcess` | `createProcess` up to `pb.start()` |
| `ReadPipe`, `EndOfFirstPipe`, `EndOfProcess` | standard output, then standard error, then the exit |
| `ChildWrites` | CBMC, which is blocked when a pipe is full |
| `SkipCache`, `CreateEntry`, `FlushEntry`, `FillEntry` | `addCache`; the file is emptied, written in parts, closed |
| `Interpret` | `interpretResult`, and the exception for an undecided answer |
| `Restart` | a run is stopped at any point, or has ended with an exception, and is started again with or without `--cache` |

A text is known by what the code can make of it: no number in its first line, no verdict,
or one of the two verdicts. Two runs that write one entry may leave either text, the longer
one's end, or a hole (`Filled`); a run that reads meanwhile may get a part (`Readable`).
Exceptions end the call (`"thrown"`); that they pass through the repair loop and
end the run is `Restart`.

### 2.10 InstrumentedProgram, Instrumentation, VerifyMode (`printing/VerPrinter.scala`)

`InstrumentedProgram` gives the C program that `VerPrinter` generates for a program a
semantics: threads of writes, assertions, assumptions, ifs and atomic sections (a lock
is a section with an assumption and a write). `mode` is the pair of
flags `noTrace` and `preventDeadlock`. What depends on it is each an operator:
`CheckAssertion` (the assertion itself, or the flag `__assert_fail`), `LetsPass` (the weakened
assumption), `Decide` (the condition of an if, read in one step or variable by
variable), `MainSteps` (the end of main: wait for `__t_finished`, then the assertion).
`Fails` is the answer of the checker: does some execution fail? It explores up to
`MaxExecution` steps, more than any program of the instances can take.
`Instrumentation` adds the executions as behaviours, so that an execution in one mode can
be compared with the answer in another. It also says what a program must be like for the
verdicts to be comparable (`SoundProgram`): its atomic sections end, are not nested (`printAtomicBegin`
prints no inner one) and no condition leads into one or out of it, a condition outside a section
reads one variable (the finding about `Main.scala:505` is a program that breaks this), and `MaxExecution`
covers the whole of every execution (`Fits`, by what is `Left` to do at the start). `MCInstrumentation`
assumes this of its programs, and TLC evaluates the assumption. `VerifyMode` is the sequence of questions of mode Verify.

Loops and calls are left out (CBMC unwinds both), and the good-trace mode. So are else branches
and ifs on `nondet_int()`; the latter are printed alike in every mode (`VerPrinter.scala:211-214`).

### 2.11 Driver (`Main.scala:450-597`)

`disk` says for each output of each file whether it is of this run, of an earlier one or
not there. A file is processed step by step: `WriteOriginal`, `OpenStatistic`,
then for each repair of the mode (`Passes`) `PrepDirectory` and `Repair`, and
`PrintResult` after the first. `Accepted` is the guard of the directory loop, with the
precedence Scala gives it. The repair is one step with any result, none after cancel.
`left` is a history variable: the output directories of earlier runs, of files that were
not started when cancel was asked for. The trace that mode Verify writes (`.buggyTrace.txt`, l. 491)
is not among the outputs: the directory loop does not depend on it.

## 3. The runs

| Run | Question | Result |
| --- | --- | --- |
| `repair` | mode Mixed with cancel and fairness: `TypeOK`, `TriedOnce`, `NoneMeansExhausted`, `ResultVerified`, `SafeNeverDropped`, `RoundIdentifiesParent`, `NoEqualCandidates`, `EveryRoundNew`, `NeverForgotten`, `Termination`, `ImplementsSearch` | hold |
| `sort` | both sorts on every reduced order of five items with one new edge, and on any set of edges along a list of four: order, no loss, no repetition, agreement on change, `SortsEnd` | hold |
| `order_repairs` | four statements, one a call, every set of conflicts, a black edge, three repairs: graph and lists keep agreeing, sections in sections included, and `OnlyMoveUpRepeats` | hold |
| `statement_twice` | can a repair duplicate a statement? | violated, finding 1 |
| `learn_parallel` | three workers on two threads with cancel and fairness: `LearnsCompletely`, `RoundsLearn`, `LearningEnds` | hold |
| `generalise` | every bad trace of five statements: `ConflictsCovered`, `CyclesAreSwaps`, `SwapsFound` | hold |
| `proof_object` | every good trace of five steps of two threads or four of three: `BlackWithinThread`, `SuggestionsGoBack`, `ReadProtected` | hold |
| `checker` | two runs that share a cache, crashes, restarts, torn files, full pipes, fairness: `PoisonStays`, `EveryCallReturns`, `ImplementsOracle` | hold |
| `instrumentation` | every program of two short threads in the four modes: `VerdictsAgree`, `ForcedFinishes` | hold |
| `verify_never` | is a bug that verification finds always traceable? | violated, finding 2 |
| `same_level` | do black edges always have a common level? | violated, finding 3 |
| `cancel_directory` | does cancel leave the remaining files alone? | violated, finding 4 |

**Bounds of RepairLoop.** `LastProgram = 2` gives the given program, a change, and
a change of the change: enough for the stash to hold the candidates of one bug while
those of another are tried, for an iteration to be redone with an empty or with a
full queue, and for a candidate and its grandchild to carry neighbouring rounds. Two
bug ids are what the stash needs. `MaxPerRound = 2` candidates are kept per
round, so that candidates of one round are compared. Two structures give an edge and its
reverse; three red edges give a reordering with a deferred atomic section, and two
equal atomic sections of different cost, one of which costs enough to stay behind a
reordering. Good traces were learnt from, atomic sections are deferred. An edge
that gives both reorderings (`MoveUp` and `MoveDown`) and the option `-a`, which
puts atomic sections into the queue at once, are in `RepairLoop` and in the proofs
but not in this instance.

**Bounds of OrderItems.** `FirstRepairs` is every reduced order of five items and
every new edge that closes no cycle, over three layouts (all in one chain,
alternating, the last ones apart) and two buckets; `LaterRepairs` every edge set along
the list of four items, over all layouts. Reduced orders matter: the second half of
`UpPermutes`, that no item is added twice, holds of these and fails of others (finding 1), so it and
`MovesOnlyWhatItMust` are stated for the first repair (`FirstRepair`). With five items three calls can be on the stack while an entry that one of them
stands at has been removed by another.

**Bounds of StatementOrder.** Four statements: a statement, two of its
predecessors one of which is also a predecessor of the other, and the source of a
red edge. Three repairs let a section be wrapped into another one and then be moved
as a whole. `layout` is one function here; `sort` varies it.

**Bounds of GoodTraceLearning.** Two assertions and the whole program on two threads, so
that a worker has to wait. The executions (`ManyExecutions`) finish or do not, and
let one assertion read in two ways or not be reached; every subset of them is a program.
`MaxRounds` is 10 in the code. Two ways to read need up to four rounds, so the run
takes 3: the limit is met by some workers and not by others. Edges found in both
directions stand for the iterations of a loop.

**Bounds of Generalisation.** Every schedule of five statements in up to three
threads (numbered in the order in which they appear), each statement one of four
accesses to two variables, each trace once as a deadlock and once not. Five statements are
two that a thread may swap and three of others, so chains of dependences through a third
thread occur.

**Bounds of ProofObject.** Main writes two variables; then two threads take five steps or
three take four, each a write, an assumption or the assertion, and the last works
on the asserted variable (what follows it changes nothing for the assertion). Two waits of
two threads for each other, the shape of a deadlock cycle, take four steps. `same_level` has
one program and every trace of it of up to three rounds of its loop.

**Bounds of CheckerFrontEnd.** Two callers in two runs and one program: entries of
different programs do not touch each other, and workers of one run ask about different
programs. A pipe holds one unit, CBMC writes two to its standard output and up
to two to its standard error: fewer, as many, and more than the pipe holds.

**Bounds of the instrumentation.** A thread of two statements, or of two in an atomic section,
and one of three; six operations and conditions on one variable. That conditions read
one variable is needed: finding 2 is what happens otherwise, and `verify_never` has
conditions of two variables. Executions have at most ten steps, and `MaxExecution` is 12.

**Bounds of Driver.** Two files, one earlier run, mode Mixed without `--renew`.

**Deadlock** is checked for the front end, where a call that nobody can finish would
be one, and for the proof object, whose constructor must reach its end. It is not checked
elsewhere: the repair loop stops when the result has been printed, a sort when it has
finished, a branch of the search after `MaxRepairs` repairs, learning after the
merge, the generalisation when no call is left, the driver after the last file, and an
instrumented program when its threads have finished or wait for ever, which programs may.

**Fairness.** `FairSpec` assumes weak fairness of the main thread: every checker call
returns, because loops are unwound a fixed number of times
(`CheckerBase.scala`, `--unwind 2`), and the red edges of a trace are a finite
list. Nothing is assumed of the thread that cancels. `FairSortSpec` assumes that
the sorts, sequential code, go on. `FairLearnSpec` assumes weak fairness of every worker
(the checker returns, the pool serves every assertion) and of the merge, again
nothing of the thread that cancels. In `CheckerFrontEnd` callers go on and CBMC writes and
ends (its loops are unwound a fixed number of times); nobody has to call, stop or
start a run. In `Instrumentation` some thread of the program goes on as long as one can:
CBMC looks at whole executions, and no thread is favoured.

## 4. What is proved

The proofs are in the modules named `..._proofs`. They assume of the
constants only `RepairAssumption` (types of the constants; without good traces
nothing was learnt from them), `OrderItemsAssumption` (a positive number of
buckets; layouts are functions into them; problems are lists and edges between
their items), `LearningAssumption` (types), `GeneralisationAssumption` (types; no
trace is empty, no thread is main), `FrontEndAssumption` (types; a pipe holds something),
`StatementOrderAssumption` (types; the text is a list of the program's statements without
repetitions, numbered in its order; there are at least as many sections as repairs), `TracesAssumption` of
`ProofObject` (traces are sequences of events) and `ProgramsAssumption` of `InstrumentedProgram` (types). Hypotheses beyond these stand in the `ASSUME` of
the theorem and are named below.

Inductions over data that the proofs need (along a path, a chain, a span of positions) are done by
a smallest counterexample: the natural numbers are well-founded with `<`, so a set of them that is
not empty has a least member (`LeastOf`). What a recursive function in a `LET` is worth
(`findPath`, the rounds of `Ways`) is proved by showing that a function with its equations
exists.

**RepairLoop**, for any number of programs, any bug ids, any red edges, any bound:

* `TypeCorrect`, `ResultCorrect` (`ResultVerified`), `SafeIsKept` (`SafeNeverDropped`),
  `TriedAtMostOnce`, `RoundsIdentifyParents`, `FailureIsExhaustive`,
  `CandidatesDiffer` (`NoEqualCandidates`), `RoundsAreNew` (`EveryRoundNew`),
  `CandidatesNeverForgotten` (an action property) and `Refinement`: the loop implements
  `RepairSearch`.
* The inductive invariant is `IInv`. `ResultVerified` alone is not inductive: one
  must know what the verifications before the current place have shown (`Diagnosis`), that
  a solution to redo is one for which the mode was switched (`Redo`), and that an
  iteration has a solution at hand (`InIteration`). `TriedOnce` and
  `RoundIdentifiesParent` need each other and `Rounds`: a candidate derived now is
  new, because candidates of this round are all still waiting where they were put
  and have smaller numbers, and all others come from earlier rounds; that this
  survives the round that is taken back rests on `Redo`, by which nothing was
  derived in that round. `NoneMeansExhausted` needs `NothingAside`: whenever the
  queue is empty between iterations, so are stash and deferred list.
* `NoEqualCandidates` is kept together with `OnlyDeferred` (what is on the deferred list
  is deferred). Only `IntegrateEdge` adds candidates; by `Rounds` an older one of the same
  round is still in the queue, with which it was compared, or on the deferred list.
* `EveryRoundNew` is the safety half of `Termination`: there are no more rounds than candidates
  taken from the queue, so a solution that `lastVerified` brings back is left after one more analysis,
  with or without a trace. Its invariant is `RoundsCounted`. A loop that came back again and again
  would count rounds without end, which TLC sees as a violation of `EveryRoundNew` and not as a cycle
  of states.
* One lemma per move of candidates (`StashEffect`, `RefillEffect`,
  `IntegrateEffect`) says what it adds to and takes from `Pending`; the steps of the
  invariant and of the refinement cite these.

**OrderItems**, for any list, any graph (cyclic ones too), any hash layout:

* `SortTypeCorrect`: no iteration over the changing hash map ever loses its
  place. `SortsRespectOrder`: neither sort inserts an item before one of its
  predecessors. `UpLosesNothing`: the upward sort's result has exactly the items of
  the list.
* The inductive invariant is `SortInv`. Upwards: a call's predecessors are either in
  the result, or still to be visited, or the element of the call above it
  (`UpCallsOK`); items already visited are in the result or on the stack
  (`UpVisited`). Downwards: what an entry still needs plus what was inserted covers
  its predecessors (`EntriesKnown`), every call on the stack was inserted before its
  visits (`CallsInserted`), and all callers stand at an entry (`CallersAtEntry`).
* `DownSortPermutes` (`DownPermutes`), for a list without repetitions that is in the order of all
  edges but one (`SoundProblem`): the downward sort gives back the list in another order. The
  invariant is `PermInv`. Every caller stands at the entry of the item that its call inserted
  (`FramesOK`), and that entry has been removed. All edges but one lead down the list, and the source of
  that one is never pending (`SourcesReady`), so callers stand further and further down the list
  (`CallersDescend`) and the chains have the later items in front: a removed entry still leads to
  all the pending items behind it (`ChainsOK`). Hence every call still comes to all the items that
  need its element (`StillAhead`), and when no call is left, no pending item needs one that was
  inserted (`NeedsOK`): nothing stays pending, and nothing is inserted twice.
* `SortsAgree` (`SortsAgreeOnChange`), for any list without repetitions: `QuietInv` says that both
  sorts follow the list step by step when it is in order; when it is not, `SortsRespectOrder`
  forbids the result to be the list.
* `UpAddsOnce` (`UpPermutes`) and `SortsMoveLittle` (`MovesOnlyWhatItMust`), for such a list and an
  acyclic graph that was reduced before the red edge came (`FirstRepair`). `ClimbInv`: the calls of the upward sort climb a path of edges, and neither their
  elements nor the predecessors they have still to add are in the result yet (`Unadded`); this is
  what an unreduced graph breaks (finding 1). `ShiftInv`: whatever waits in the downward sort
  comes after the target of the red edge.
* TLC checks on the instance of `sort` that its problems satisfy these hypotheses
  (`RepairsSound`), and `RepairSorts` below proves `SoundProblem` of every use of the sorts.

**StatementOrder**, for any program, conflicts, black edges, layout and number of repairs:

* `OrderTypes` (`OrderTypeOK`), `GraphAgrees` (`ListsRespectOrder`), `AllStatementsKept`
  (`NothingLost`), `DecisionsStand` (`DependenciesKept`) and `SectionsKept` (`SectionsStay`, an action
  property). The inductive invariant is `OrderInv`, and it contains those of the sorts: the
  program changes only through what they return.
* The parts of `OrderInv`. A list holds exactly the elements whose bucket it is
  (`ListsMatchBuckets`): with `ListsRespectOrder` this says that graph, lists and buckets are three
  views of one thing. A section that holds something is in the program (`SectionsInUse`), and
  there is one left for each repair that is left (`SectionsSuffice`). The members of a section
  form a chain of edges (`SectionChains`): a red edge between them is one the order contains already,
  or one against the chain, with which the sort upwards does not end; so no section is reordered. What was decided is a path between the elements that
  contain the two statements now (`Decided`): `reduced` drops edges a path stands for,
  `elementMerge` moves ends of edges to the section (`Outer`), so paths survive where edges do
  not. `Reach` are paths of any length, defined without recursion. `Integrating` says what the sorts
  were given.
* `RepairSorts`: whenever `integrate` runs the sorts, list and edges satisfy `SoundProblem`, the
  downward sort permutes and both agree. That the list has no repetitions is there because
  the model repairs no list in which a statement occurs twice (finding 1).
* `OrderStaysAcyclic`: neither the order nor the edges at the sorts ever have a cycle, so
  `PartialOrder.add` never has to throw "this would cause a cycle" (l. 127), and the upward sort, which
  follows edges without a visited set, comes to an end. Every edge of the order leads
  forward in a list (`ListsRespectOrder`), which excludes a cycle (`OrderAcyclic`); a red edge is
  added only when no path leads back from its target (`NewEdgeAcyclic`). The test for the path is
  what the code computes, so `PathsAreReach` shows that `Paths`, which joins pairs until nothing
  is new, finds exactly the pairs that a path of any length joins.
* `RepairsMoveLittle`: `UpPermutes` and `MovesOnlyWhatItMust` hold of every sort that a repair
  starts, not only of problems given to the sorts. The invariant is `RepairInv`: until the first
  repair, and without black edges, the order is as `reduced` left it (`AsReduced`, by
  `ReducedIsReduced`, `FirstIsReduced`), so the first red edge gives a problem of `FirstRepair`.
* `OnlyUpRepeats` (`OnlyMoveUpRepeats`, an action property): whenever a statement enters the program a second
  time, it is `MoveUp` that puts it there, in a repair that is not the first or follows
  a black edge. The downward sort and new sections never do it, in any repair. `FirstRepairOnce` is the
  invariant that follows: without black edges no candidate of a first repair repeats a statement.
  Together with finding 1 this says exactly where the missing test of `PartialOrder.scala:219` matters.

**GoodTraceLearning**, for any assertions, executions, pool and limit of rounds:

* `LearnTypeCorrect`, `LearningIsExhaustive` (`LearnsCompletely`: `LearnsEveryRead`, and by `FinishedFirst`
  complete executions before the others) and `NoRoundIsWasted` (`RoundsLearn`). The inductive invariant
  is `LearnInv`: a worker whose last answer was
  "no more" in the second kind of question has covered all executions; the
  rounds a worker used are the ways it has read, one more for each kind of question that
  was answered with "no more", and one that is being asked.

**Generalisation**, for any trace, any number of threads and variables:

* `GenTypeCorrect`, and `GeneralisationCovers` (`ConflictsCovered`): the generalised
  edges order exactly what interferes. The inductive invariant is `GenInv`. From a
  block's end `ReachInv` says that the first statement of every thread reached has got
  an edge; `ScanInv` that every pair of statements of different threads behind which
  the scan has gone has an edge between them. `CoverInv` carries this
  through the generalisation: such a pair lies around an edge still to be generalised,
  around one found, or inside the two lists of `generalise` (`ListsInv`), which lose a
  statement only when nothing that interferes is lost with it.
* `SolutionsSwap` (`CyclesAreSwaps`). `SwapInv`: the way of a call follows edges of the graph, goes back
  in the trace at most once, not before it has used a red edge, and stays in two threads
  unless the trace is a deadlock.
* `SearchComplete` (`SwapsFound`), for traces of two threads and for deadlocks: every swap that forbids
  the trace is offered, or a narrower one. First, the transitive reduction keeps all connections: the
  way that makes an edge superfluous has only shorter edges, so, by induction on the span, edges
  that remain link its ends (`ReducedLinked`; the dependences are such chains by `GenInv`). So a swap
  that forbids the trace is a chain from the start of a thread, out of the thread and
  back, closed by a red edge. Second, `SearchInv`: each such way is among the cycles found, or a
  call is under way on a part of it (`UnderWay`), for a call drops only branches that no such
  way takes. When no call is left, all are found. With more threads and no deadlock
  it is false: see the note about `GraphExtensions.scala:91` below.

**ProofObject**, for any traces of any number of threads and variables:

* `BlackInside` (`BlackWithinThread`) and `SuggestionsTurnRound` (`SuggestionsGoBack`). The inductive
  invariant is `GraphInv`: program order is in the graph, dotted or black, at any time
  (`OrderInGraph`; black edges take the place of dotted ones), every edge has the direction and the
  threads of its colour (`EdgesRight`), and the edges still to do are edges of that colour
  and the assertions of the code have not failed (`TodoRight`).
* The core is that a way `findPath` returns is a shortest one (`WaysAreChains`, `ShortestFacts`), and
  program order is always in the graph: where a way back would leave the thread it is to reach,
  program order is a shorter way to the end of that thread (`WayBackCrosses`). So the
  other blue edge of a deadlock cycle crosses in the right direction, the assertions of
  `ProofObject.scala:126-127` hold, and what gets black lies inside one thread. Suggestions are made
  only where there is no way; were what is awaited not above the write that is read, there
  would be one (`SuggestedGoBack`).

**CheckerFrontEnd**, for any callers, runs, programs and sizes of pipes:

* `CheckerTypeCorrect` and `CheckerRefinesOracle`: the front end implements
  `CheckerOracle`. The inductive invariant adds `TextsTrue` to the types: every text, in
  a file, in a process or in a caller's hands, holds the verdict of its program or
  none. A step that returns a verdict maps to `Answer`, one that throws to `Fail`,
  `Restart` to `Abandon`, and all others to a stutter.
* `PoisonIsKept` (`PoisonStays`, an action property): an entry without a verdict is written
  by nobody but a run without `--cache`. A step of a caller that asks about another program
  touches another entry (`PoisonStep`); one that asks about this program in a run with
  `--cache` finds the entry and reads it.

**Instrumentation**, for any threads, variables and set of programs that are a `SoundProgram`; the
instance of `instrumentation` satisfies it (`ProgramsSound`):

* `VerdictsMatch` (`VerdictsAgree`). The inductive invariant (`Inv`) says that the execution has come to a
  state that the checker looks at, keeps its sections (`Sane`), and is followed by an execution
  of the same program in the mode the property compares it with. For a trace that is an execution without
  trace (`PlainFollows`): what one step with trace decides at once, `DecidesAtOnce` does by reading
  the condition's variables and then branching, while nobody else moves. For a failure without trace it is
  an execution in the non-deadlock mode that has done the same, except that it has already taken the
  branch where a thread outside a section has read the one variable of a condition (`Ahead`). In a
  section it waits until all has been read, which nobody else can change meanwhile. Either way what was
  read is what a single moment shows, and one step decides it (`AheadSteps`). From where an assertion fails it goes on to the end of main,
  which reports the failure (`Completes`).
* That an execution can be completed, and that what is completed is still within what the checker
  explores, is one argument: each step takes something from what is `Left` (`LeftShrinks`), so
  the number of things left, `Rank`, goes down; a state of rank `r` is reached within
  `MaxExecution - r` steps (`WithinRank`), and so `Reachable` is closed under steps (`ReachableFacts`).
* `ExecutionsEnd`: every step lowers the rank, which is at most `MaxExecution` to begin with.
  `FailureNeverStuck`: in non-deadlock mode, after a failure and before it is reported, some
  step is possible: who holds a section can go on, and without a holder any thread can, or main. Together
  they are why `ForcedFinishes` holds; what is missing is the weak fairness of `FairSpec`.

**Only model-checked.**

* `Termination`, `SortsEnd`, `LearningEnds`, `EveryCallReturns` and `ForcedFinishes`: liveness under
  fairness is out of the prover's reach.
* `ReadProtected`: as it stands it is not true of all traces, only of what the workers look at. Which
  green edge may be dropped because another way protects the read depends on all the other
  assertions (see the note about `ProofObject.scala:144` below), so a theorem needs hypotheses on
  the trace, and an account of which edges are left at each step.
* The findings are about single instances, and TLC shows them.

`Paths` of `OrderItems`, which `StatementOrder` uses too, is a recursive function and not a RECURSIVE
operator, so that the modules can be proved about. It is exact for graphs of any size (`PathsAreReach`).

## 5. Findings

1. **A repair can put a statement into the program twice** (run `statement_twice`).
   `PartialOrder.scala:226` says "ensure we don't add elements double" and guards the
   outer loop. Inside `addElement` the predecessors that were missing when the call
   began are all added, also those that a recursive call has added meanwhile. For
   statements 1 2 3 4 with 2 before 3 and 2 before 4, the red edges 4 before 3 and then
   3 before 1 give 2 4 2 3 1. In a first repair without
   black edges there is no such case (`FirstRepairOnce`), and it is always the upward sort that
   repeats a statement (`OnlyUpRepeats`).
2. **Verification can fail where no trace exists** (run `verify_never`).
   `Main.scala:505` calls this impossible (`assert(false) // this should really never
   happen`). Without trace the condition of an if is a C expression that reads its
   variables one after the other (`VerPrinter.scala:239`); with trace it is read in an atomic
   section (l. 216-237). A condition on two globals that another thread changes
   together can be decided in a way that only exists without trace. The conditions of
   `test-cases/rtl8169.c:306` have this shape. In mode Verify the assertion error ends the
   run; in the repair loop such a program is analysed, nothing is found, and it is dropped.
3. **A black edge may have no common level** (run `same_level`).
   `StatementOrder.scala:283` says `assert(assertion = false);None // should never happen`.
   `getSameLevel` answers `None` for the two branches of one conditional, and for one statement
   met twice. With a loop around the conditional a good trace has both branches, in
   two iterations, and the order between them can become black. The assertion error
   ends the run while it learns. (Deadlock cycles and longer paths give such edges, too.)
4. **Cancel does not spare the remaining files of a directory** (run `cancel_directory`).
   `README.md:48` says it "will cancel the run as soon as the current iteration is
   complete". `Main.scala:584` tests `!renew || exists && !cancel`: without `--renew`
   cancel is not looked at, and each remaining file loses the results of earlier
   runs before its own repair is cancelled.

Other differences between documents, comments and code, not the subject of a run:

* `Main.scala:255` says deferred atomic sections wait "until the last minute" as a last
  resort. They enter the queue all at once when queue and stash are empty; reorderings
  derived from the first of them then wait behind the others, whose round numbers are
  lower. The search stays complete (`NoneMeansExhausted`).
* `README.md:56` promises a warning if the first iteration of learning finds no trace.
  `Main.scala:110` tests `rounds == 0`, in a loop that counted the round in line 82: it is
  never printed.
* `GraphExtensions.scala:91` says removing transitive edges is "mainly for display".
  `Generalisation.findCycles` searches in the graph after the removal and stays in two
  threads, so an edge that was replaced by a way through a third thread is missing:
  thread 1 writes x, thread 2 writes x, thread 3 copies x to y, thread 1 writes y. The
  swap in thread 1 that forbids this trace is not offered (`SwapsFound` says for which
  traces all swaps are).
* `ProofObject.scala:144` counts program order as a way even where it is not kept. In the
  deadlock step, with two assertions of one thread on one variable, the green edge of the
  first is dropped because of the second, and the first read is then not protected.
  `ReadProtected` is therefore stated for one assertion, which is what the other
  workers look at. For an assertion that reads two variables, only the nearest later
  write of any of them gets a green edge in each thread (l. 194-199), so it is stated for
  assertions of one variable.
* `placeSemaphores` (`Main.scala:424`) asks only for failures, so a program whose semaphores
  block for ever counts as repaired.
* With `-a` the statistic is written to `.AS.statistic.txt`, while `--renew` looks for
  `.statistic.txt` (`Main.scala:468, 583`). A `.corrected.c` of an earlier run stays when
  the new run finds nothing.
* Without `--cache`, `addCache` still writes when the folder exists (`CheckerBase.scala:76`).
* `README.md` says cached times make `--cache` neutral to the timing,
  `helpers/Options.scala:91` says otherwise.

## 6. Not modelled, and why

* *Parsing and post-processing, printers, options*: sequential tree construction and
  layout. Which statements interfere is an input of `StatementOrder`.
* *Statistic*, but for `badRounds` and `solutionFound`: sums and formats times.
* *CBMC* itself is external; the repair loop sees the natures.
* *The text of a trace* (`getTrace`, `parseTrace`, `getBugId`): how CBMC prints traces is not
  in the repository, and the modules start from the statements of a trace. `CheckerFrontEnd` ends with
  the verdict, so an exception of these functions, which would end the run, is not in it.
* Swaps of three or more threads outside a deadlock: `findCycles` looks at two threads at a time, so
  `SwapsFound` promises nothing of them.
* *`integrateSemaphore`*: adds declarations and statements with new names; the order graph
  stays as it was.
* *`Solution.metric`* of the generalisation and *`processFileRaw`*, which repeats `processFile`
  without files.
* *The good-trace mode of `VerPrinter`* (`addConstraints`): `GoodTraceLearning` takes it to
  exclude exactly the reads it is given. For an assertion that runs twice in one
  execution the constraints of its runs share one variable, which this leaves out.
* The C files of `test-cases` are inputs and outputs of the tool, not part of it; the
  implementation is the Scala source.

## 7. What is left

1. `CallStacks`: `getTrace` as a step by step reader of trace lines, against the calls
   that produced them, if the format of CBMC's traces is fixed.
2. The good-trace mode in `InstrumentedProgram`: which executions the constraints exclude.
3. `StatementOrder` on the tree of `CommonLevel`: repairs of lists in branches and loops.
4. Composition of the workers of `GoodTraceLearning` with `CheckerFrontEnd`: it would
   repeat what `ImplementsOracle` shows, so it comes last.

Proofs left: `ReadProtected` for traces of one assertion; and the liveness properties, which stay
with TLC.
