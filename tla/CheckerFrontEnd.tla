---------------------------- MODULE CheckerFrontEnd ----------------------------
(***************************************************************************)
(* CheckerBase.invokeChecker and InvokeCBMC: how a program gets its        *)
(* verdict.  The calls come from the parallel workers of one or more runs  *)
(* of ConRepair that are started in one folder, so they share the cache    *)
(* ioCache.  A cache entry is written in place; CBMC is a child process    *)
(* with two pipes; a run may be stopped at any point and started again.    *)
(*                                                                         *)
(* The text of an answer is known by what the code can make of it:         *)
(*   "noTime"     it does not start with a line that holds a number        *)
(*   "noVerdict"  CBMC's last line, its verdict, is missing                *)
(*   "Success", "Failure"  the verdict is there                            *)
(***************************************************************************)
EXTENDS Integers

CONSTANTS
  Callers,    \* the threads that call invokeChecker
  Runs,       \* the runs of the program
  RunOf,      \* the run of each caller
  Codes,      \* the printed programs (the cache hashes them)
  PipeSize,   \* what a pipe holds
  OutSize,    \* what CBMC writes to its standard output
  ErrSizes,   \* what it may write to its standard error
  NoCode

Verdicts == {"Success", "Failure"}
Outputs == Verdicts \cup {"noVerdict"}
Texts == Outputs \cup {"noTime"}

ASSUME FrontEndAssumption ==
  /\ RunOf \in [Callers -> Runs]
  /\ NoCode \notin Codes
  /\ PipeSize \in Nat \ {0} /\ OutSize \in Nat
  /\ ErrSizes \subseteq Nat

VARIABLES
  pc,        \* where a caller is in invokeChecker
  code,      \* the program it asks about
  result,    \* the output it interprets
  child,     \* its CBMC process: what is yet to be written, what is in the pipes
  useCache,  \* Main.options.cache of each run
  folder,    \* does the folder ioCache exist?
  entry,     \* the text of the file <hash>.output for each program
  reply,     \* what the last call returned
  verdict    \* what CBMC says of each program when nothing disturbs it

calls == <<pc, code, result, reply>>
vars == <<calls, child, useCache, folder, entry, verdict>>

NoChild == [toOut |-> 0, toErr |-> 0, inOut |-> 0, inErr |-> 0, err |-> 0,
            says |-> "noVerdict"]

Init ==
  /\ pc = [k \in Callers |-> "idle"]
  /\ code = [k \in Callers |-> NoCode]
  /\ result = [k \in Callers |-> "noVerdict"]
  /\ child = [k \in Callers |-> NoChild]
  /\ useCache \in [Runs -> BOOLEAN]
  /\ folder = FALSE
  /\ entry = [c \in Codes |-> "absent"]
  /\ reply = [k \in Callers |-> "none"]
  /\ verdict \in [Codes -> Verdicts]

Cached(k) == useCache[RunOf[k]]
GoTo(k, label) == pc' = [pc EXCEPT ![k] = label]

\* (Definitions named ..._Bug are variants with a bug the properties must catch;
\* nothing uses them here.)
\* a call that throws is not over
Return_Bug(k, answer) ==
  /\ GoTo(k, IF answer \in Verdicts THEN "idle" ELSE "thrown")
  /\ reply' = [reply EXCEPT ![k] = answer]
  /\ code' = [code EXCEPT ![k] = IF answer \in Verdicts THEN NoCode ELSE @]
  /\ result' = [result EXCEPT ![k] = "noVerdict"]

\* The call returns a verdict or throws; what it knew is gone.
Return(k, answer) ==
  /\ GoTo(k, IF answer \in Verdicts THEN "idle" ELSE "thrown")
  /\ reply' = [reply EXCEPT ![k] = answer]
  /\ code' = [code EXCEPT ![k] = NoCode]
  /\ result' = [result EXCEPT ![k] = "noVerdict"]

\* Two workers of one run never ask the same: their programs are printed for
\* different assertions.
Invoke(k, c) ==
  /\ pc[k] = "idle"
  /\ \A j \in Callers : RunOf[j] = RunOf[k] => code[j] # c
  /\ GoTo(k, "lookup")
  /\ code' = [code EXCEPT ![k] = c]
  /\ reply' = [reply EXCEPT ![k] = "none"]
  /\ UNCHANGED <<result, child, useCache, folder, entry, verdict>>

\* a file without content counted as absent
CheckCache_Bug(k) ==
  /\ pc[k] = "lookup"
  /\ GoTo(k, IF Cached(k) /\ entry[code[k]] \notin {"absent", "noTime"}
             THEN "hit" ELSE "start")
  /\ UNCHANGED <<code, result, reply, child, useCache, folder, entry, verdict>>

\* checkCache asks whether the file exists ...
CheckCache(k) ==
  /\ pc[k] = "lookup"
  /\ GoTo(k, IF Cached(k) /\ entry[code[k]] # "absent" THEN "hit" ELSE "start")
  /\ UNCHANGED <<code, result, reply, child, useCache, folder, entry, verdict>>

PastMiss == {"start", "readOut", "readErr", "store", "created", "filling"}
Writing(k, c) == code[k] = c /\ pc[k] \in {"created", "filling"}

\* ... and reads it, piece by piece, perhaps while another run writes it.
Readable(k) ==
  {entry[code[k]]} \cup
    (IF \E j \in Callers : Writing(j, code[k]) THEN {"noTime", "noVerdict"} ELSE {})

\* Without a time there is an exception (substring or toLong).
ReadCache(k) ==
  /\ pc[k] = "hit"
  /\ \E text \in Readable(k) :
       IF text = "noTime"
       THEN Return(k, "failed")
       ELSE /\ GoTo(k, "interpret")
            /\ result' = [result EXCEPT ![k] = text]
            /\ UNCHANGED <<code, reply>>
  /\ UNCHANGED <<child, useCache, folder, entry, verdict>>
-------------------------------------------------------------------------------
\* createProcess: CBMC reaches its verdict or dies on the way.
StartProcess(k) ==
  /\ pc[k] = "start"
  /\ \E size \in ErrSizes, says \in {verdict[code[k]], "noVerdict"} :
       child' = [child EXCEPT ![k] = [toOut |-> OutSize, toErr |-> size, inOut |-> 0,
                                      inErr |-> 0, err |-> size, says |-> says]]
  /\ GoTo(k, "readOut")
  /\ UNCHANGED <<code, result, reply, useCache, folder, entry, verdict>>

\* A process after it wrote, or was read from.
Moved(p, toOut, inOut, toErr, inErr) ==
  [toOut |-> toOut, toErr |-> toErr, inOut |-> inOut, inErr |-> inErr, err |-> p.err,
   says |-> p.says]

\* CBMC writes where there is room.
ChildWrites(k) ==
  LET p == child[k]
  IN \/ /\ p.toOut > 0 /\ p.inOut < PipeSize
        /\ child' = [child EXCEPT ![k] =
                       Moved(p, p.toOut - 1, p.inOut + 1, p.toErr, p.inErr)]
        /\ UNCHANGED <<calls, useCache, folder, entry, verdict>>
     \/ /\ p.toErr > 0 /\ p.inErr < PipeSize
        /\ child' = [child EXCEPT ![k] =
                       Moved(p, p.toOut, p.inOut, p.toErr - 1, p.inErr + 1)]
        /\ UNCHANGED <<calls, useCache, folder, entry, verdict>>

Ended(k) == child[k].toOut = 0 /\ child[k].toErr = 0

\* the standard output is read after the standard error
Draining_Bug(k) == IF pc[k] = "readOut" THEN "inErr" ELSE "inOut"

\* The pipe that is read first, and then the other one.
Draining(k) == IF pc[k] = "readOut" THEN "inOut" ELSE "inErr"

InPipe(k) == IF Draining(k) = "inOut" THEN child[k].inOut ELSE child[k].inErr

ReadPipe(k) ==
  /\ pc[k] \in {"readOut", "readErr"} /\ InPipe(k) > 0
  /\ LET p == child[k]
     IN  child' = [child EXCEPT ![k] =
           IF Draining(k) = "inOut" THEN Moved(p, p.toOut, p.inOut - 1, p.toErr, p.inErr)
                                    ELSE Moved(p, p.toOut, p.inOut, p.toErr, p.inErr - 1)]
  /\ UNCHANGED <<calls, useCache, folder, entry, verdict>>

\* The end of a pipe is reached when the process has ended.
EndOfFirstPipe(k) ==
  /\ pc[k] = "readOut" /\ Ended(k) /\ InPipe(k) = 0
  /\ GoTo(k, "readErr")
  /\ UNCHANGED <<code, result, reply, child, useCache, folder, entry, verdict>>

\* Anything on the standard error is an exception; what CBMC said is dropped.
EndOfProcess(k) ==
  /\ pc[k] = "readErr" /\ Ended(k) /\ InPipe(k) = 0
  /\ IF child[k].err > 0
     THEN Return(k, "failed")
     ELSE /\ GoTo(k, "store")
          /\ result' = [result EXCEPT ![k] = child[k].says]
          /\ UNCHANGED <<code, reply>>
  /\ child' = [child EXCEPT ![k] = NoChild]
  /\ UNCHANGED <<useCache, folder, entry, verdict>>
-------------------------------------------------------------------------------
\* addCache writes whatever CBMC said, and also without --cache if the folder is there.
SkipCache(k) ==
  /\ pc[k] = "store" /\ ~Cached(k) /\ ~folder
  /\ GoTo(k, "interpret")
  /\ UNCHANGED <<code, result, reply, child, useCache, folder, entry, verdict>>

CreateEntry(k) ==
  /\ pc[k] = "store" /\ (Cached(k) \/ folder)
  /\ folder' = TRUE
  /\ entry' = [entry EXCEPT ![code[k]] = "noTime"]
  /\ GoTo(k, "created")
  /\ UNCHANGED <<code, result, reply, child, useCache, verdict>>

\* A buffer is written out before the text ends; what another run has completed
\* meanwhile keeps its end.
FlushEntry(k) ==
  /\ pc[k] = "created"
  /\ entry' = [entry EXCEPT ![code[k]] = IF @ \in Verdicts THEN @ ELSE "noVerdict"]
  /\ GoTo(k, "filling")
  /\ UNCHANGED <<code, result, reply, child, useCache, folder, verdict>>

\* What the file holds at the end: the text, with the end of a longer one that was
\* completed meanwhile, or with a hole if another run has emptied the file again.
Filled(k) ==
  {result[k]}
  \cup ({entry[code[k]]} \cap Verdicts)
  \cup (IF \E j \in Callers \ {k} : Writing(j, code[k]) THEN {"noTime"} ELSE {})

FillEntry(k) ==
  /\ pc[k] \in {"created", "filling"}
  /\ \E text \in Filled(k) : entry' = [entry EXCEPT ![code[k]] = text]
  /\ GoTo(k, "interpret")
  /\ UNCHANGED <<code, result, reply, child, useCache, folder, verdict>>

\* whatever is not FAILED is a success
InterpretResult_Bug(text) == IF text = "Failure" THEN "Failure" ELSE "Success"

\* interpretResult, and the exception for an undecided answer.
InterpretResult(text) == IF text \in Verdicts THEN text ELSE "failed"

Interpret(k) ==
  /\ pc[k] = "interpret"
  /\ Return(k, InterpretResult(result[k]))
  /\ UNCHANGED <<child, useCache, folder, entry, verdict>>

\* A run is stopped anywhere, or has ended with an exception, and is started
\* again; the files stay as they are.
Restart(r) ==
  LET stops(k) == RunOf[k] = r
      with(f, v) == [k \in Callers |-> IF stops(k) THEN v ELSE f[k]]
  IN  /\ pc' = with(pc, "idle")
      /\ code' = with(code, NoCode)
      /\ result' = with(result, "noVerdict")
      /\ child' = with(child, NoChild)
      /\ reply' = with(reply, "none")
      /\ \E c \in BOOLEAN : useCache' = [useCache EXCEPT ![r] = c]
      /\ UNCHANGED <<folder, entry, verdict>>

Proceed(k) ==
  \/ CheckCache(k) \/ ReadCache(k)
  \/ StartProcess(k) \/ ReadPipe(k) \/ EndOfFirstPipe(k) \/ EndOfProcess(k)
  \/ SkipCache(k) \/ CreateEntry(k) \/ FlushEntry(k) \/ FillEntry(k)
  \/ Interpret(k)

Next ==
  \/ \E k \in Callers : (\E c \in Codes : Invoke(k, c)) \/ Proceed(k) \/ ChildWrites(k)
  \/ \E r \in Runs : Restart(r)

Spec == Init /\ [][Next]_vars

\* Threads run and CBMC, whose loops are unwound a fixed number of times, writes
\* and ends.  Nothing is assumed of who calls, stops or starts a run.
FairSpec == Spec /\ \A k \in Callers : WF_vars(Proceed(k)) /\ WF_vars(ChildWrites(k))
-------------------------------------------------------------------------------
Children == [toOut : Nat, toErr : Nat, inOut : 0..PipeSize, inErr : 0..PipeSize,
             err : ErrSizes \cup {0}, says : Outputs]

\* The variables have their types; who calls has a program, and nobody else has;
\* no pipe overflows, only a caller at its pipes has a process, and no entry that was
\* seen goes away.
CheckerTypeOK ==
  /\ pc \in [Callers -> PastMiss \cup {"idle", "lookup", "hit", "interpret", "thrown"}]
  /\ code \in [Callers -> Codes \cup {NoCode}]
  /\ result \in [Callers -> Outputs]
  /\ child \in [Callers -> Children]
  /\ useCache \in [Runs -> BOOLEAN] /\ folder \in BOOLEAN
  /\ entry \in [Codes -> Texts \cup {"absent"}]
  /\ reply \in [Callers -> Verdicts \cup {"none", "failed"}]
  /\ verdict \in [Codes -> Verdicts]
  /\ \A k \in Callers : code[k] = NoCode <=> pc[k] \in {"idle", "thrown"}
  /\ \A k \in Callers : child[k] # NoChild => pc[k] \in {"readOut", "readErr"}
  /\ \A c \in Codes : entry[c] # "absent" => folder
  /\ \A k \in Callers : pc[k] \in {"created", "filling"} => folder
  /\ \A k \in Callers : pc[k] = "hit" => entry[code[k]] # "absent"

\* An entry no cached run can use, and nobody is going to write: a run was stopped
\* while it filled the file, or CBMC died and its output was kept all the same.
Poisoned(c) ==
  /\ entry[c] \in {"noTime", "noVerdict"}
  /\ \A k \in Callers : code[k] = c => pc[k] \notin PastMiss

\* A program whose entry is poisoned stays undecided for every cached run, however
\* often it is started again (invokeChecker throws before it would ask CBMC): only
\* a run without --cache mends the entry.
PoisonStays ==
  [][\A c \in Codes : Poisoned(c) =>
       Poisoned(c)' \/ \E k \in Callers : code[k] = c /\ ~Cached(k)]_vars

\* Every call returns or throws, whatever other calls and runs do to the files,
\* unless CBMC writes more to its standard error than the pipe holds: the standard
\* output is read to its end before.
EveryCallReturns ==
  \A k \in Callers : code[k] # NoCode ~> code[k] = NoCode \/ child[k].err > PipeSize

Oracle == INSTANCE CheckerOracle WITH asked <- code

\* A call that returns a verdict returns that of its program: no entry cut off, mixed
\* from two writers, or left by a crash is ever taken for the other verdict.
ImplementsOracle == Oracle!OracleSpec

\* What makes this so: texts hold the verdict of their program or none.
TextsTrue ==
  /\ \A c \in Codes : entry[c] \in {verdict[c], "absent", "noTime", "noVerdict"}
  /\ \A k \in Callers : code[k] # NoCode =>
       /\ child[k].says \in {verdict[code[k]], "noVerdict"}
       /\ pc[k] \in {"store", "created", "filling", "interpret"} =>
            result[k] \in {verdict[code[k]], "noVerdict"}
===============================================================================
