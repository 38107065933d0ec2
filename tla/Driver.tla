------------------------------- MODULE Driver -------------------------------
(***************************************************************************)
(* Main.main over a directory and Main.processFile: which files a run      *)
(* touches, and what is on disk of this run and of earlier ones.  The      *)
(* console thread may ask to cancel at any time.  A repair is one step     *)
(* with any result; RepairLoop has its inside.                             *)
(***************************************************************************)
EXTENDS Sequences, FiniteSets

CONSTANTS
  Files,               \* the C files of the directory
  Mode,                \* options.mode
  Renew,               \* options.renew: only files processed before
  PlaceAtomicSections, \* options.placeAtomicSections
  NoFile               \* no file is processed

VARIABLES
  files,       \* the files main has yet to look at
  file,        \* the file that is processed
  pc,          \* the step of processFile
  passes,      \* the repairs yet to run for it, by the infix of their directory
  disk,        \* for every output file or directory, the run it is from
  res,         \* the result of the last repair
  cancel,      \* Main.cancel
  left         \* for checking: directories of earlier runs when cancel is asked for

vars == <<files, file, pc, passes, disk, res, cancel, left>>
-------------------------------------------------------------------------------
\* The repairs of a file.
Passes == CASE Mode = "Verify"    -> <<>>
            [] Mode = "Mixed"     -> <<"mixed">>
            [] Mode = "BadOnly"   -> <<"badOnly">>
            [] Mode = "Combined"  -> <<"mixed", "badOnly">>
            [] Mode = "CombinedS" -> <<"semaphores", "badOnly">>

\* The output of a file: three files and a directory for each repair.
Directories == {"mixed", "badOnly", "semaphores"}
Outputs == {"original", "statistic", "AS.statistic", "corrected"} \cup Directories
Statistic == IF PlaceAtomicSections THEN "AS.statistic" ELSE "statistic"

Write(f, output) == disk' = [disk EXCEPT ![f][output] = "this run"]

Init ==
  /\ files = Files /\ file = NoFile
  /\ pc = "next" /\ passes = <<>>
  /\ disk \in [Files -> {[o \in Outputs |-> "none"], [o \in Outputs |-> "earlier run"]}]
  /\ res = "none"
  /\ cancel = FALSE /\ left = {}

RequestCancel ==
  /\ ~cancel /\ cancel' = TRUE
  /\ left' = {<<f, o>> \in files \X Directories : disk[f][o] = "earlier run"}
  /\ UNCHANGED <<files, file, pc, passes, disk, res>>

\* "!renew || exists && !cancel"; the file that is to exist is the one without AS.
Accepted(f) == ~Renew \/ (disk[f]["statistic"] # "none" /\ ~cancel)

NextFile ==
  /\ pc = "next"
  /\ \E f \in files :
       /\ files' = files \ {f}
       /\ IF Accepted(f) THEN file' = f /\ pc' = "original" ELSE UNCHANGED <<file, pc>>
  /\ UNCHANGED <<passes, disk, res, cancel, left>>

WriteOriginal ==
  /\ pc = "original"
  /\ Write(file, "original")
  /\ pc' = "statistic"
  /\ UNCHANGED <<files, file, passes, res, cancel, left>>

OpenStatistic ==
  /\ pc = "statistic"
  /\ Write(file, Statistic)
  /\ passes' = Passes
  /\ pc' = IF Passes = <<>> THEN "next" ELSE "prepare"
  /\ UNCHANGED <<files, file, res, cancel, left>>

\* IO.prepDirectory deletes what is there.
PrepDirectory ==
  /\ pc = "prepare"
  /\ Write(file, Head(passes))
  /\ pc' = "repair"
  /\ UNCHANGED <<files, file, passes, res, cancel, left>>

\* A cancelled repair has no solution, except that semaphores are still placed
\* and verified.  Only the first of two is printed.
Repair ==
  /\ pc = "repair"
  /\ res' \in IF cancel /\ Head(passes) # "semaphores" THEN {"none"} ELSE {"none", "solution"}
  /\ passes' = Tail(passes)
  /\ pc' = IF passes = Passes THEN "print" ELSE "next"
  /\ UNCHANGED <<files, file, disk, cancel, left>>

PrintResult ==
  /\ pc = "print"
  /\ IF cancel \/ res = "none" THEN UNCHANGED disk ELSE Write(file, "corrected")
  /\ pc' = IF passes = <<>> THEN "next" ELSE "prepare"
  /\ UNCHANGED <<files, file, passes, res, cancel, left>>

Next == \/ NextFile \/ WriteOriginal \/ OpenStatistic \/ PrepDirectory
        \/ Repair \/ PrintResult \/ RequestCancel

Spec == Init /\ [][Next]_vars
-------------------------------------------------------------------------------
\* "It will cancel the run as soon as the current iteration is complete"
\* (src/README.md:48): of the files that were not started when cancel was asked
\* for, the results of earlier repairs stay on disk.
CancelKeepsEarlierResults ==
  \A d \in left : disk[d[1]][d[2]] = "earlier run"
===============================================================================
