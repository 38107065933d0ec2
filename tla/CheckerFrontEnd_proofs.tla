------------------------- MODULE CheckerFrontEnd_proofs -------------------------
(***************************************************************************)
(* What CheckerFrontEnd promises for any number of runs, callers and       *)
(* programs, and pipes of any size.                                        *)
(***************************************************************************)
EXTENDS CheckerFrontEnd, TLAPS

FrontEndInv == CheckerTypeOK /\ TextsTrue

LEMMA NoChildType == NoChild \in Children
  BY FrontEndAssumption DEF NoChild, Children, Outputs

LEMMA InitInv == Init => FrontEndInv
  <1> SUFFICES ASSUME Init PROVE FrontEndInv
    OBVIOUS
  <1>1. CheckerTypeOK
    BY NoChildType DEF Init, CheckerTypeOK, PastMiss, Outputs, Verdicts, Texts
  <1>2. TextsTrue
    BY DEF Init, TextsTrue, NoChild
  <1> QED
    BY <1>1, <1>2 DEF FrontEndInv

\* A call that returns leaves the texts alone.
LEMMA ReturnKeeps ==
  ASSUME FrontEndInv, NEW k \in Callers, NEW answer \in Verdicts \cup {"failed"},
         Return(k, answer), child' = [child EXCEPT ![k] = NoChild] \/ child' = child,
         child'[k] = NoChild,
         UNCHANGED <<useCache, folder, entry, verdict>>
  PROVE  FrontEndInv'
  <1>1. child' \in [Callers -> Children] /\ \A j \in Callers \ {k} : child'[j] = child[j]
    BY NoChildType DEF FrontEndInv, CheckerTypeOK
  <1>2. PICK label \in {"idle", "thrown"} : pc' = [pc EXCEPT ![k] = label]
    BY DEF Return, GoTo
  <1>3. /\ reply' = [reply EXCEPT ![k] = answer]
        /\ code' = [code EXCEPT ![k] = NoCode]
        /\ result' = [result EXCEPT ![k] = "noVerdict"]
    BY DEF Return
  <1>4. CheckerTypeOK'
    BY <1>1, <1>2, <1>3, FrontEndAssumption
    DEF FrontEndInv, CheckerTypeOK, PastMiss, Outputs
  <1>5. TextsTrue'
    BY <1>1, <1>2, <1>3 DEF FrontEndInv, CheckerTypeOK, TextsTrue
  <1> QED
    BY <1>4, <1>5 DEF FrontEndInv

LEMMA InvokeKeeps ==
  ASSUME FrontEndInv, NEW k \in Callers, NEW c \in Codes, Invoke(k, c)
  PROVE  FrontEndInv'
  BY FrontEndAssumption
  DEF FrontEndInv, CheckerTypeOK, TextsTrue, Invoke, GoTo, Children, NoChild, PastMiss,
      Outputs, Verdicts, Texts

LEMMA CacheReadKeeps ==
  ASSUME FrontEndInv, NEW k \in Callers, CheckCache(k) \/ ReadCache(k)
  PROVE  FrontEndInv'
  <1>1. CASE CheckCache(k)
    BY <1>1, FrontEndAssumption
    DEF FrontEndInv, CheckerTypeOK, TextsTrue, CheckCache, GoTo, Children, NoChild,
        PastMiss, Outputs, Verdicts, Texts
  <1>2. CASE ReadCache(k)
    <2>1. PICK text \in Readable(k) :
            IF text = "noTime" THEN Return(k, "failed")
            ELSE /\ GoTo(k, "interpret")
                 /\ result' = [result EXCEPT ![k] = text]
                 /\ UNCHANGED <<code, reply>>
      BY <1>2 DEF ReadCache
    <2>2. code[k] \in Codes /\ child[k] = NoChild
      BY <1>2 DEF ReadCache, FrontEndInv, CheckerTypeOK
    <2>3. CASE text = "noTime"
      BY <1>2, <2>1, <2>2, <2>3, ReturnKeeps DEF ReadCache
    <2>4. CASE text # "noTime" /\ text # "absent"
      <3>1. entry[code[k]] \in {verdict[code[k]], "absent", "noTime", "noVerdict"}
        BY <2>2 DEF FrontEndInv, TextsTrue
      <3>2. text \in {entry[code[k]], "noTime", "noVerdict"}
        BY <2>1 DEF Readable
      <3>3. text \in {verdict[code[k]], "noVerdict"}
        BY <2>4, <3>1, <3>2
      <3>4. verdict[code[k]] \in Verdicts
        BY <2>2 DEF FrontEndInv, CheckerTypeOK
      <3>5. text \in Outputs
        BY <3>3, <3>4 DEF Outputs
      <3>6. CheckerTypeOK'
        BY <1>2, <2>1, <2>2, <2>4, <3>5
        DEF ReadCache, GoTo, FrontEndInv, CheckerTypeOK, NoChild, PastMiss
      <3>7. TextsTrue'
        BY <1>2, <2>1, <2>2, <2>4, <3>3
        DEF ReadCache, GoTo, FrontEndInv, CheckerTypeOK, TextsTrue, PastMiss
      <3> QED
        BY <3>6, <3>7 DEF FrontEndInv
    <2>5. text # "absent"
      <3>1. entry[code[k]] # "absent"
        BY <1>2 DEF ReadCache, FrontEndInv, CheckerTypeOK
      <3> QED
        BY <2>1, <3>1 DEF Readable
    <2> QED
      BY <2>3, <2>4, <2>5
  <1> QED
    BY <1>1, <1>2

LEMMA MovedKeeps ==
  ASSUME FrontEndInv, NEW k \in Callers, child[k] # NoChild,
         NEW toOut \in Nat, NEW inOut \in 0..PipeSize,
         NEW toErr \in Nat, NEW inErr \in 0..PipeSize,
         child' = [child EXCEPT ![k] = Moved(child[k], toOut, inOut, toErr, inErr)],
         UNCHANGED <<calls, useCache, folder, entry, verdict>>
  PROVE  FrontEndInv'
  <1>1. Moved(child[k], toOut, inOut, toErr, inErr) \in Children
    BY DEF FrontEndInv, CheckerTypeOK, Moved, Children
  <1>2. CheckerTypeOK'
    BY <1>1 DEF FrontEndInv, CheckerTypeOK, calls
  <1>3. TextsTrue'
    BY DEF FrontEndInv, CheckerTypeOK, TextsTrue, calls, Moved
  <1> QED
    BY <1>2, <1>3 DEF FrontEndInv

LEMMA ProcessKeeps ==
  ASSUME FrontEndInv, NEW k \in Callers,
         \/ StartProcess(k) \/ ChildWrites(k) \/ ReadPipe(k)
         \/ EndOfFirstPipe(k) \/ EndOfProcess(k)
  PROVE  FrontEndInv'
  <1>1. CASE StartProcess(k)
    BY <1>1, FrontEndAssumption
    DEF FrontEndInv, CheckerTypeOK, TextsTrue, StartProcess, GoTo, Children, NoChild,
        PastMiss, Outputs, Verdicts, Texts
  <1>2. CASE ChildWrites(k)
    <2> DEFINE p == child[k]
    <2>1. /\ p.toOut \in Nat /\ p.toErr \in Nat
          /\ p.inOut \in 0..PipeSize /\ p.inErr \in 0..PipeSize
      BY DEF FrontEndInv, CheckerTypeOK, Children
    <2>2. CASE /\ p.toOut > 0 /\ p.inOut < PipeSize
               /\ child' = [child EXCEPT ![k] =
                              Moved(p, p.toOut - 1, p.inOut + 1, p.toErr, p.inErr)]
               /\ UNCHANGED <<calls, useCache, folder, entry, verdict>>
      <3>1. p.toOut - 1 \in Nat /\ p.inOut + 1 \in 0..PipeSize /\ p # NoChild
        BY <2>1, <2>2, FrontEndAssumption DEF NoChild
      <3> QED
        BY <2>1, <2>2, <3>1, MovedKeeps
    <2>3. CASE /\ p.toErr > 0 /\ p.inErr < PipeSize
               /\ child' = [child EXCEPT ![k] =
                              Moved(p, p.toOut, p.inOut, p.toErr - 1, p.inErr + 1)]
               /\ UNCHANGED <<calls, useCache, folder, entry, verdict>>
      <3>1. p.toErr - 1 \in Nat /\ p.inErr + 1 \in 0..PipeSize /\ p # NoChild
        BY <2>1, <2>3, FrontEndAssumption DEF NoChild
      <3> QED
        BY <2>1, <2>3, <3>1, MovedKeeps
    <2> QED
      BY <1>2, <2>2, <2>3 DEF ChildWrites
  <1>3. CASE ReadPipe(k)
    <2> DEFINE p == child[k]
    <2>1. /\ p.toOut \in Nat /\ p.toErr \in Nat
          /\ p.inOut \in 0..PipeSize /\ p.inErr \in 0..PipeSize
      BY DEF FrontEndInv, CheckerTypeOK, Children
    <2>2. UNCHANGED <<calls, useCache, folder, entry, verdict>>
      BY <1>3 DEF ReadPipe
    <2>3. CASE Draining(k) = "inOut"
      <3>1. child' = [child EXCEPT ![k] =
                        Moved(p, p.toOut, p.inOut - 1, p.toErr, p.inErr)]
        BY <1>3, <2>3 DEF ReadPipe
      <3>2. p.inOut - 1 \in 0..PipeSize /\ p # NoChild
        BY <1>3, <2>1, <2>3, FrontEndAssumption DEF ReadPipe, InPipe, NoChild
      <3> QED
        BY <2>1, <2>2, <3>1, <3>2, MovedKeeps
    <2>4. CASE Draining(k) # "inOut"
      <3>1. child' = [child EXCEPT ![k] =
                        Moved(p, p.toOut, p.inOut, p.toErr, p.inErr - 1)]
        BY <1>3, <2>4 DEF ReadPipe
      <3>2. p.inErr - 1 \in 0..PipeSize /\ p # NoChild
        BY <1>3, <2>1, <2>4, FrontEndAssumption DEF ReadPipe, InPipe, NoChild
      <3> QED
        BY <2>1, <2>2, <3>1, <3>2, MovedKeeps
    <2> QED
      BY <2>3, <2>4
  <1>4. CASE EndOfFirstPipe(k)
    BY <1>4, FrontEndAssumption
    DEF FrontEndInv, CheckerTypeOK, TextsTrue, EndOfFirstPipe, GoTo, PastMiss
  <1>5. CASE EndOfProcess(k)
    <2>1. child'[k] = NoChild
      BY <1>5 DEF EndOfProcess, FrontEndInv, CheckerTypeOK
    <2>2. CASE child[k].err > 0
      <3>1. Return(k, "failed")
        BY <1>5, <2>2 DEF EndOfProcess
      <3>2. /\ child' = [child EXCEPT ![k] = NoChild]
            /\ UNCHANGED <<useCache, folder, entry, verdict>>
        BY <1>5 DEF EndOfProcess
      <3> QED
        BY <2>1, <3>1, <3>2, ReturnKeeps
    <2>3. CASE ~(child[k].err > 0)
      <3> DEFINE says == child[k].says
      <3>1. /\ pc[k] = "readErr" /\ pc' = [pc EXCEPT ![k] = "store"]
            /\ result' = [result EXCEPT ![k] = says]
            /\ child' = [child EXCEPT ![k] = NoChild]
            /\ UNCHANGED <<code, reply, useCache, folder, entry, verdict>>
        BY <1>5, <2>3 DEF EndOfProcess, GoTo
      <3>2. says \in Outputs /\ code[k] # NoCode
        BY <3>1 DEF FrontEndInv, CheckerTypeOK, Children
      <3>3. says \in {verdict[code[k]], "noVerdict"}
        BY <3>2 DEF FrontEndInv, TextsTrue
      <3> HIDE DEF says
      <3>4. CheckerTypeOK'
        BY <3>1, <3>2, NoChildType DEF FrontEndInv, CheckerTypeOK, PastMiss
      <3>5. TextsTrue'
        BY <3>1, <3>3 DEF FrontEndInv, CheckerTypeOK, TextsTrue, NoChild
      <3> QED
        BY <3>4, <3>5 DEF FrontEndInv
    <2> QED
      BY <2>2, <2>3
  <1> QED
    BY <1>1, <1>2, <1>3, <1>4, <1>5

LEMMA CacheWriteKeeps ==
  ASSUME FrontEndInv, NEW k \in Callers,
         SkipCache(k) \/ CreateEntry(k) \/ FlushEntry(k) \/ FillEntry(k)
  PROVE  FrontEndInv'
  <1> USE DEF FrontEndInv, CheckerTypeOK, TextsTrue, GoTo, PastMiss, Outputs, Verdicts,
              Texts
  <1>1. CASE SkipCache(k)
    BY <1>1 DEF SkipCache
  <1>2. CASE CreateEntry(k)
    BY <1>2 DEF CreateEntry
  <1>3. CASE FlushEntry(k)
    <2>1. code[k] \in Codes
      BY <1>3 DEF FlushEntry
    <2>2. PICK text : /\ text = IF entry[code[k]] \in Verdicts THEN entry[code[k]]
                                ELSE "noVerdict"
                      /\ entry' = [entry EXCEPT ![code[k]] = text]
      BY <1>3 DEF FlushEntry
    <2>3. text \in {verdict[code[k]], "noVerdict"} /\ text \in Outputs
      BY <2>1, <2>2
    <2>4. CheckerTypeOK'
      <3>1. text \in Outputs /\ text # "absent" /\ code[k] \in Codes
        BY <2>1, <2>3
      <3>2. /\ pc[k] = "created" /\ pc' = [pc EXCEPT ![k] = "filling"]
            /\ UNCHANGED <<code, result, reply, child, useCache, folder, verdict>>
        BY <1>3 DEF FlushEntry
      <3> QED
        BY <2>2, <3>1, <3>2
    <2>5. TextsTrue'
      <3>1. \A c \in Codes : entry'[c] \in {verdict[c], "absent", "noTime", "noVerdict"}
        BY <2>1, <2>2, <2>3
      <3>2. /\ pc[k] = "created" /\ pc' = [pc EXCEPT ![k] = "filling"]
            /\ UNCHANGED <<code, result, child, verdict>>
        BY <1>3 DEF FlushEntry
      <3> QED
        BY <3>1, <3>2
    <2> QED
      BY <2>4, <2>5
  <1>4. CASE FillEntry(k)
    <2>1. PICK text \in Filled(k) : entry' = [entry EXCEPT ![code[k]] = text]
      BY <1>4 DEF FillEntry
    <2>2. code[k] \in Codes
      BY <1>4 DEF FillEntry
    <2>3. text \in {verdict[code[k]], "noTime", "noVerdict"}
      <3>1. result[k] \in {verdict[code[k]], "noVerdict"}
        BY <1>4, <2>2 DEF FillEntry
      <3>2. entry[code[k]] \in Verdicts => entry[code[k]] = verdict[code[k]]
        BY <2>2
      <3>3. text \in {result[k], "noTime"} \/ (text = entry[code[k]] /\ text \in Verdicts)
        BY <2>1 DEF Filled
      <3> QED
        BY <3>1, <3>2, <3>3
    <2>4. CheckerTypeOK'
      <3>1. text \in Texts /\ text # "absent" /\ code[k] \in Codes
        BY <2>2, <2>3
      <3>2. /\ pc[k] \in {"created", "filling"} /\ pc' = [pc EXCEPT ![k] = "interpret"]
            /\ UNCHANGED <<code, result, reply, child, useCache, folder, verdict>>
        BY <1>4 DEF FillEntry
      <3> QED
        BY <2>1, <3>1, <3>2
    <2>5. TextsTrue'
      <3>1. \A c \in Codes : entry'[c] \in {verdict[c], "absent", "noTime", "noVerdict"}
        BY <2>1, <2>2, <2>3
      <3>2. /\ pc[k] \in {"created", "filling"} /\ pc' = [pc EXCEPT ![k] = "interpret"]
            /\ UNCHANGED <<code, result, child, verdict>>
        BY <1>4 DEF FillEntry
      <3> QED
        BY <3>1, <3>2
    <2> QED
      BY <2>4, <2>5
  <1> QED
    BY <1>1, <1>2, <1>3, <1>4

LEMMA InterpretKeeps ==
  ASSUME FrontEndInv, NEW k \in Callers, Interpret(k)
  PROVE  FrontEndInv'
  <1>1. child[k] = NoChild
    BY DEF Interpret, FrontEndInv, CheckerTypeOK
  <1>2. InterpretResult(result[k]) \in Verdicts \cup {"failed"}
    BY DEF InterpretResult
  <1> QED
    BY <1>1, <1>2, ReturnKeeps DEF Interpret

LEMMA RestartKeeps ==
  ASSUME FrontEndInv, NEW r \in Runs, Restart(r)
  PROVE  FrontEndInv'
  BY FrontEndAssumption
  DEF FrontEndInv, CheckerTypeOK, TextsTrue, Restart, Children, NoChild, PastMiss,
      Outputs, Verdicts, Texts

LEMMA InvInductive == FrontEndInv /\ [Next]_vars => FrontEndInv'
  <1> SUFFICES ASSUME FrontEndInv, [Next]_vars PROVE FrontEndInv'
    OBVIOUS
  <1>1. ASSUME NEW k \in Callers, NEW c \in Codes, Invoke(k, c) PROVE FrontEndInv'
    BY <1>1, InvokeKeeps
  <1>2. ASSUME NEW k \in Callers, Proceed(k) PROVE FrontEndInv'
    BY <1>2, CacheReadKeeps, ProcessKeeps, CacheWriteKeeps, InterpretKeeps DEF Proceed
  <1>3. ASSUME NEW k \in Callers, ChildWrites(k) PROVE FrontEndInv'
    BY <1>3, ProcessKeeps
  <1>4. ASSUME NEW r \in Runs, Restart(r) PROVE FrontEndInv'
    BY <1>4, RestartKeeps
  <1>5. CASE UNCHANGED vars
    BY <1>5 DEF FrontEndInv, CheckerTypeOK, TextsTrue, vars, calls
  <1> QED
    BY <1>1, <1>2, <1>3, <1>4, <1>5 DEF Next

\* Every text that a call or the cache holds is of its program, or has no verdict.
THEOREM CheckerTypeCorrect == Spec => [](CheckerTypeOK /\ TextsTrue)
  <1>1. Spec => []FrontEndInv
    BY InitInv, InvInductive, PTL DEF Spec
  <1> QED
    BY <1>1, PTL DEF FrontEndInv
-------------------------------------------------------------------------------
(* The refinement: a call answers at Interpret, or fails where it throws.   *)

LEMMA OracleInitial == Init => Oracle!OracleInit
  BY DEF Init, Oracle!OracleInit, Verdicts

LEMMA OracleReturn ==
  ASSUME FrontEndInv, NEW k \in Callers, NEW answer, Return(k, answer), code[k] # NoCode,
         answer \in {verdict[code[k]], "failed"}, verdict' = verdict
  PROVE  Oracle!OracleNext
  BY DEF Return, Oracle!OracleNext, Oracle!Answer, Oracle!Fail

LEMMA OracleStep == FrontEndInv /\ [Next]_vars => [Oracle!OracleNext]_(Oracle!oracleVars)
  <1> SUFFICES ASSUME FrontEndInv, [Next]_vars
               PROVE  Oracle!OracleNext \/ UNCHANGED <<code, reply, verdict>>
    BY DEF Oracle!oracleVars
  <1>1. ASSUME NEW k \in Callers, NEW c \in Codes, Invoke(k, c)
        PROVE  Oracle!OracleNext
    <2>1. code[k] = NoCode
      BY <1>1 DEF Invoke, FrontEndInv, CheckerTypeOK
    <2> QED
      BY <1>1, <2>1 DEF Invoke, Oracle!OracleNext, Oracle!Ask
  <1>2. ASSUME NEW k \in Callers, ReadCache(k)
        PROVE  Oracle!OracleNext \/ UNCHANGED <<code, reply, verdict>>
    <2>1. code[k] # NoCode /\ verdict' = verdict
      BY <1>2 DEF ReadCache, FrontEndInv, CheckerTypeOK
    <2>2. Return(k, "failed") \/ UNCHANGED <<code, reply>>
      BY <1>2 DEF ReadCache
    <2> QED
      BY <2>1, <2>2, OracleReturn
  <1>3. ASSUME NEW k \in Callers, EndOfProcess(k)
        PROVE  Oracle!OracleNext \/ UNCHANGED <<code, reply, verdict>>
    <2>1. code[k] # NoCode /\ verdict' = verdict
      BY <1>3 DEF EndOfProcess, FrontEndInv, CheckerTypeOK
    <2>2. Return(k, "failed") \/ UNCHANGED <<code, reply>>
      BY <1>3 DEF EndOfProcess
    <2> QED
      BY <2>1, <2>2, OracleReturn
  <1>4. ASSUME NEW k \in Callers, Interpret(k)
        PROVE  Oracle!OracleNext
    <2>1. code[k] # NoCode /\ verdict' = verdict
      BY <1>4 DEF Interpret, FrontEndInv, CheckerTypeOK
    <2>2. result[k] \in {verdict[code[k]], "noVerdict"}
      BY <1>4, <2>1 DEF Interpret, FrontEndInv, TextsTrue
    <2>3. InterpretResult(result[k]) \in {verdict[code[k]], "failed"}
      BY <2>2 DEF InterpretResult, Verdicts
    <2> QED
      BY <1>4, <2>1, <2>3, OracleReturn DEF Interpret
  <1>5. ASSUME NEW k \in Callers,
               \/ CheckCache(k) \/ StartProcess(k) \/ ReadPipe(k) \/ EndOfFirstPipe(k)
               \/ SkipCache(k) \/ CreateEntry(k) \/ FlushEntry(k) \/ FillEntry(k)
               \/ ChildWrites(k)
        PROVE  UNCHANGED <<code, reply, verdict>>
    BY <1>5 DEF CheckCache, StartProcess, ReadPipe, EndOfFirstPipe, SkipCache, CreateEntry,
                FlushEntry, FillEntry, ChildWrites, calls
  <1>6. ASSUME NEW r \in Runs, Restart(r)
        PROVE  Oracle!OracleNext
    <2> DEFINE ks == {k \in Callers : RunOf[k] = r}
    <2>1. Oracle!Abandon(ks) /\ verdict' = verdict
      BY <1>6 DEF Restart, Oracle!Abandon
    <2> QED
      BY <2>1 DEF Oracle!OracleNext
  <1>7. CASE UNCHANGED vars
    BY <1>7 DEF vars, calls
  <1> QED
    BY <1>1, <1>2, <1>3, <1>4, <1>5, <1>6, <1>7 DEF Next, Proceed

\* A verdict that is returned is that of the program asked about.
THEOREM CheckerRefinesOracle == Spec => ImplementsOracle
  <1>1. Spec => []FrontEndInv
    BY InitInv, InvInductive, PTL DEF Spec
  <1> QED
    BY <1>1, OracleInitial, OracleStep, PTL DEF Spec, ImplementsOracle, Oracle!OracleSpec
-------------------------------------------------------------------------------
(* Poisoned entries: a caller that finds one never comes to write it.       *)

\* What a step of caller k has to leave alone.
LEMMA StaysPoisoned ==
  ASSUME NEW c \in Codes, Poisoned(c), NEW k \in Callers,
         \A j \in Callers \ {k} : code'[j] = code[j] /\ pc'[j] = pc[j],
         entry'[c] = entry[c],
         code'[k] = c => pc'[k] \notin PastMiss
  PROVE  Poisoned(c)'
  BY DEF Poisoned

LEMMA PoisonStep ==
  FrontEndInv /\ [Next]_vars =>
    \A c \in Codes : Poisoned(c) =>
      Poisoned(c)' \/ \E k \in Callers : code[k] = c /\ ~Cached(k)
  <1> SUFFICES ASSUME FrontEndInv, [Next]_vars, NEW c \in Codes, Poisoned(c),
                      \A k \in Callers : code[k] = c => Cached(k)
               PROVE  Poisoned(c)'
    OBVIOUS
  <1>0. /\ code \in [Callers -> Codes \cup {NoCode}]
        /\ pc \in [Callers -> PastMiss \cup {"idle", "lookup", "hit", "interpret", "thrown"}]
        /\ entry \in [Codes -> Texts \cup {"absent"}]
        /\ NoCode \notin Codes
    BY FrontEndAssumption DEF FrontEndInv, CheckerTypeOK
  <1>1. \A k \in Callers : code[k] = c => pc[k] \notin PastMiss
    BY DEF Poisoned
  <1>2. ASSUME NEW k \in Callers, NEW d \in Codes, Invoke(k, d) PROVE Poisoned(c)'
    <2>1. /\ code' = [code EXCEPT ![k] = d] /\ pc' = [pc EXCEPT ![k] = "lookup"]
          /\ entry' = entry
      BY <1>2 DEF Invoke, GoTo
    <2> QED
      BY <1>0, <2>1, StaysPoisoned DEF PastMiss
  <1>3. ASSUME NEW k \in Callers, CheckCache(k) PROVE Poisoned(c)'
    <2>1. code' = code /\ entry' = entry
      BY <1>3 DEF CheckCache
    <2>2. code[k] = c => pc' = [pc EXCEPT ![k] = "hit"]
      BY <1>3 DEF CheckCache, GoTo, Poisoned
    <2>3. PICK label \in {"hit", "start"} : pc' = [pc EXCEPT ![k] = label]
      BY <1>3 DEF CheckCache, GoTo
    <2> QED
      BY <1>0, <2>1, <2>2, <2>3, StaysPoisoned DEF PastMiss
  <1>4. ASSUME NEW k \in Callers, ReadCache(k) PROVE Poisoned(c)'
    <2>1. entry' = entry
      BY <1>4 DEF ReadCache
    <2>2. PICK label \in {"idle", "thrown", "interpret"} : pc' = [pc EXCEPT ![k] = label]
      BY <1>4 DEF ReadCache, Return, GoTo
    <2>3. code' = code \/ code' = [code EXCEPT ![k] = NoCode]
      BY <1>4 DEF ReadCache, Return
    <2> QED
      BY <1>0, <2>1, <2>2, <2>3, StaysPoisoned DEF PastMiss
  <1>5. ASSUME NEW k \in Callers,
               \/ StartProcess(k) \/ EndOfFirstPipe(k) \/ EndOfProcess(k)
               \/ SkipCache(k) \/ CreateEntry(k) \/ FlushEntry(k) \/ FillEntry(k)
        PROVE  Poisoned(c)'
    <2>1. pc[k] \in PastMiss
      BY <1>5 DEF StartProcess, EndOfFirstPipe, EndOfProcess, SkipCache, CreateEntry,
                  FlushEntry, FillEntry, PastMiss
    <2>2. code[k] # c
      BY <1>1, <2>1
    <2>3. code' = code \/ code' = [code EXCEPT ![k] = NoCode]
      BY <1>5 DEF StartProcess, EndOfFirstPipe, EndOfProcess, SkipCache, CreateEntry,
                  FlushEntry, FillEntry, Return
    <2>4. \A j \in Callers \ {k} : pc'[j] = pc[j]
      BY <1>0, <1>5 DEF StartProcess, EndOfFirstPipe, EndOfProcess, SkipCache, CreateEntry,
                        FlushEntry, FillEntry, Return, GoTo
    <2>5. entry'[c] = entry[c]
      BY <1>0, <1>5, <2>2 DEF StartProcess, EndOfFirstPipe, EndOfProcess, SkipCache,
                              CreateEntry, FlushEntry, FillEntry
    <2> QED
      BY <1>0, <2>2, <2>3, <2>4, <2>5, StaysPoisoned
  <1>6. ASSUME NEW k \in Callers, Interpret(k) PROVE Poisoned(c)'
    <2>1. code' = [code EXCEPT ![k] = NoCode] /\ entry' = entry
      BY <1>6 DEF Interpret, Return
    <2>2. \A j \in Callers \ {k} : pc'[j] = pc[j]
      BY <1>0, <1>6 DEF Interpret, Return, GoTo
    <2> QED
      BY <1>0, <2>1, <2>2, StaysPoisoned
  <1>7. ASSUME NEW r \in Runs, Restart(r) PROVE Poisoned(c)'
    <2>1. /\ entry' = entry
          /\ \A k \in Callers : \/ code'[k] = NoCode
                                \/ code'[k] = code[k] /\ pc'[k] = pc[k]
      BY <1>7 DEF Restart
    <2> QED
      BY <1>0, <2>1 DEF Poisoned
  <1>8. CASE UNCHANGED <<pc, code, entry>>
    BY <1>8 DEF Poisoned
  <1>9. ASSUME NEW k \in Callers, ReadPipe(k) \/ ChildWrites(k)
        PROVE  UNCHANGED <<pc, code, entry>>
    BY <1>9 DEF ReadPipe, ChildWrites, calls
  <1>10. UNCHANGED vars => UNCHANGED <<pc, code, entry>>
    BY DEF vars, calls
  <1> QED
    BY <1>2, <1>3, <1>4, <1>5, <1>6, <1>7, <1>8, <1>9, <1>10 DEF Next, Proceed

\* No cached run ever mends an entry that was cut off.
THEOREM PoisonIsKept == Spec => PoisonStays
  <1>1. Spec => []FrontEndInv
    BY InitInv, InvInductive, PTL DEF Spec
  <1> QED
    BY <1>1, PoisonStep, PTL DEF Spec, PoisonStays
===============================================================================
