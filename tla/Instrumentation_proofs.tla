------------------------ MODULE Instrumentation_proofs ------------------------
(***************************************************************************)
(* Theorems about Instrumentation: for every structured program the        *)
(* verdicts of the ways of generating code agree, and nothing keeps a      *)
(* program in non-deadlock mode from its end after a failure.              *)
(***************************************************************************)
EXTENDS Instrumentation, FiniteSetTheorems, WellFoundedInduction, TLAPS

Texts == [Threads -> Seq(Statement)]

\* The least number of a set of numbers.
LEMMA LeastOf ==
  ASSUME NEW S, S \subseteq Nat, S # {}
  PROVE  \E least \in S : \A n \in S : least <= n
<1> DEFINE less == {pair \in Nat \X Nat : pair[1] < pair[2]}
<1>1. IsWellFoundedOn(less, Nat)
  BY NatLessThanWellFounded DEF OpToRel
<1>2. PICK least \in S : \A y \in S : <<y, least>> \notin less
  BY <1>1, WFMin
<1>3. ASSUME NEW n \in S PROVE least <= n
  <2>1. ~(n < least)
    BY <1>2
  <2> QED
    BY <2>1
<1> QED
  BY <1>3
-------------------------------------------------------------------------------
(* Steps.                                                                  *)

\* Nothing but the place of one thread changes.
LEMMA GotoFacts ==
  ASSUME NEW s \in State, NEW t \in Threads, NEW n \in Nat \ {0}
  PROVE  LET u == Goto(s, t, n)
         IN  /\ u \in State
             /\ u.at = [s.at EXCEPT ![t] = s.at[t] + n] /\ u.seen = s.seen
             /\ u.holder = s.holder /\ u.store = s.store /\ u.failed = s.failed
             /\ u.ended = s.ended /\ u.reported = s.reported
<1>1. s.at[t] + n \in Nat \ {0}
  BY DEF State
<1> QED
  BY <1>1 DEF Goto, State

\* The initial state is one.
LEMMA StartFacts == Start \in State
<1>1. <<>> \in [{} -> Values]
  OBVIOUS
<1>2. {} \in SUBSET Variables
  OBVIOUS
<1>3. <<>> \in UNION {[V -> Values] : V \in SUBSET Variables}
  BY <1>1, <1>2
<1>4. [t \in Threads |-> <<>>] \in [Threads -> UNION {[V -> Values] : V \in SUBSET Variables}]
  BY <1>3
<1>5. [v \in Variables |-> 0] \in [Variables -> Values]
  BY DEF Values
<1>6. [t \in Threads |-> 1] \in [Threads -> Nat \ {0}]
  OBVIOUS
<1> QED
  BY <1>4, <1>5, <1>6 DEF Start, State

\* Nothing else changes when a variable is read.
LEMMA ReadFacts ==
  ASSUME NEW s \in State, NEW t \in Threads, NEW v \in Variables
  PROVE  LET u == Read(s, t, v)
         IN  /\ u \in State /\ u.at = s.at /\ u.seen = [s.seen EXCEPT ![t] = Known(s, t, v)]
             /\ u.holder = s.holder /\ u.store = s.store /\ u.failed = s.failed
             /\ u.ended = s.ended /\ u.reported = s.reported
<1>1. PICK V \in SUBSET Variables : s.seen[t] \in [V -> Values]
  <2>1. s.seen \in [Threads -> UNION {[V -> Values] : V \in SUBSET Variables}]
    BY DEF State
  <2>2. s.seen[t] \in UNION {[V -> Values] : V \in SUBSET Variables}
    BY <2>1
  <2> HIDE DEF Values
  <2> QED
    BY <2>2
<1>2. s.store[v] \in Values
  BY DEF State
<1>3. V \cup {v} \in SUBSET Variables /\ DOMAIN s.seen[t] = V
  BY <1>1
<1>4. Known(s, t, v) \in [V \cup {v} -> Values]
  <2>1. \A w \in V \cup {v} : (IF w = v THEN s.store[v] ELSE s.seen[t][w]) \in Values
    BY <1>1, <1>2
  <2> QED
    BY <1>3, <2>1 DEF Known
<1>5. Known(s, t, v) \in UNION {[W -> Values] : W \in SUBSET Variables}
  BY <1>3, <1>4
<1>6. ASSUME NEW k \in UNION {[W -> Values] : W \in SUBSET Variables}
      PROVE  LET u == [s EXCEPT !.seen[t] = k]
             IN  /\ u \in State /\ u.at = s.at /\ u.seen = [s.seen EXCEPT ![t] = k]
                 /\ u.holder = s.holder /\ u.store = s.store /\ u.failed = s.failed
                 /\ u.ended = s.ended /\ u.reported = s.reported
  <2> HIDE DEF Values
  <2> QED
    BY DEF State
<1> QED
  BY <1>5, <1>6 DEF Read

\* The variables and values of a condition.
LEMMA ConditionFacts ==
  ASSUME NEW c \in Condition
  PROVE  DOMAIN c \subseteq Variables /\ c \in [DOMAIN c -> Values]
BY DEF Condition

\* The statements of a program.
LEMMA StatementFacts ==
  ASSUME NEW p \in Texts, NEW t \in Threads, NEW n \in 1..Len(p[t])
  PROVE  LET stmt == p[t][n]
         IN  /\ stmt \in Statement
             /\ stmt.op \in {"write", "assert", "assume", "if", "begin", "end"}
             /\ stmt.op = "write" => stmt.variable \in Variables /\ stmt.value \in Values
             /\ stmt.op \in {"assert", "assume", "if"} => stmt.condition \in Condition
             /\ stmt.op = "if" => stmt.skip \in Nat
<1>1. p[t] \in Seq(Statement)
  BY DEF Texts
<1>2. p[t][n] \in Statement
  BY <1>1
<1> QED
  BY <1>2 DEF Statement

\* What a thread does, statement by statement.
Does(p, m, s, t, u) ==
  LET stmt == p[t][s.at[t]]
      unread == DOMAIN stmt.condition \ DOMAIN s.seen[t]
      branch(holds) == Goto(s, t, IF holds THEN 1 ELSE 1 + stmt.skip)
  IN  \/ stmt.op = "write" /\ u = Goto([s EXCEPT !.store[stmt.variable] = stmt.value], t, 1)
      \/ stmt.op = "assert" /\ u = Goto(CheckAssertion(stmt.condition, m, s), t, 1)
      \/ stmt.op = "assume" /\ LetsPass(stmt.condition, m, s) /\ u = Goto(s, t, 1)
      \/ stmt.op = "if" /\ ~m.noTrace /\ u = branch(Holds(stmt.condition, s))
      \/ /\ stmt.op = "if" /\ m.noTrace
         /\ \E v \in unread : u = Read(s, t, v)
      \/ /\ stmt.op = "if" /\ m.noTrace /\ unread = {}
         /\ u = [branch(s.seen[t] = stmt.condition) EXCEPT !.seen[t] = <<>>]
      \/ stmt.op = "begin" /\ u = Goto([s EXCEPT !.holder = t], t, 1)
      \/ stmt.op = "end" /\ u = Goto([s EXCEPT !.holder = None], t, 1)

LEMMA ThreadStepsAre ==
  ASSUME NEW p \in Texts, NEW m \in Modes, NEW s \in State, NEW t \in Threads, NEW u
  PROVE  u \in ThreadSteps(p, m, s, t) <=>
           s.at[t] \in 1..Len(p[t]) /\ s.holder \in {None, t} /\ Does(p, m, s, t, u)
<1>1. s.at[t] \in Nat \ {0} /\ Len(p[t]) \in Nat
  BY DEF State, Texts
<1>2. ~Finished(p, s, t) <=> s.at[t] \in 1..Len(p[t])
  BY <1>1 DEF Finished
<1>3. CASE s.at[t] \in 1..Len(p[t]) /\ s.holder \in {None, t}
  <2> DEFINE stmt == p[t][s.at[t]]
  <2>1. ThreadSteps(p, m, s, t) = Execute(stmt, m, s, t)
    BY <1>2, <1>3 DEF ThreadSteps
  <2>2. stmt.op \in {"write", "assert", "assume", "if", "begin", "end"}
    BY <1>3, StatementFacts
  <2> HIDE DEF stmt
  <2>3. u \in Execute(stmt, m, s, t) <=> Does(p, m, s, t, u)
    <3>1. CASE stmt.op = "write"
      BY <3>1 DEF Execute, Does, stmt
    <3>2. CASE stmt.op = "assert"
      BY <3>2 DEF Execute, Does, stmt
    <3>3. CASE stmt.op = "assume"
      BY <3>3 DEF Execute, Does, stmt
    <3>4. CASE stmt.op = "begin"
      BY <3>4 DEF Execute, Does, stmt
    <3>5. CASE stmt.op = "end"
      BY <3>5 DEF Execute, Does, stmt
    <3>6. CASE stmt.op = "if"
      <4>1. Execute(stmt, m, s, t) = Decide(stmt, m, s, t)
        BY <3>6 DEF Execute
      <4>2. CASE ~m.noTrace
        BY <3>6, <4>1, <4>2 DEF Decide, Does, stmt
      <4>3. CASE m.noTrace
        BY <3>6, <4>1, <4>3 DEF Decide, Does, stmt
      <4> QED
        BY <4>2, <4>3
    <3> QED
      BY <2>2, <3>1, <3>2, <3>3, <3>4, <3>5, <3>6
  <2> QED
    BY <1>3, <2>1, <2>3
<1>4. CASE ~(s.at[t] \in 1..Len(p[t]) /\ s.holder \in {None, t})
  BY <1>2, <1>4 DEF ThreadSteps
<1> QED
  BY <1>3, <1>4

\* What every step of a thread brings.
Progress(p, s, t, u) ==
  /\ \A r \in Threads : r # t => u.at[r] = s.at[r] /\ u.seen[r] = s.seen[r]
  /\ u.ended = s.ended
  /\ \/ u.at[t] > s.at[t]
     \/ /\ u.at[t] = s.at[t] /\ p[t][s.at[t]].op = "if"
        /\ \E v \in DOMAIN p[t][s.at[t]].condition \ DOMAIN s.seen[t] :
             DOMAIN u.seen[t] = DOMAIN s.seen[t] \cup {v}

\* A step to a later statement.
LEMMA GotoProgress ==
  ASSUME NEW p \in Texts, NEW s \in State, NEW t \in Threads, NEW n \in Nat \ {0},
         NEW r \in State, r.at = s.at, r.seen = s.seen, r.ended = s.ended
  PROVE  Goto(r, t, n) \in State /\ Progress(p, s, t, Goto(r, t, n))
<1> DEFINE u == Goto(r, t, n)
<1>1. u \in State /\ u.at = [s.at EXCEPT ![t] = s.at[t] + n] /\ u.seen = s.seen /\ u.ended = s.ended
  BY GotoFacts
<1>2. s.at \in [Threads -> Nat \ {0}]
  BY DEF State
<1> HIDE DEF u
<1>3. u.at[t] = s.at[t] + n /\ \A q \in Threads : q # t => u.at[q] = s.at[q]
  BY <1>1, <1>2
<1>4. s.at[t] \in Nat /\ s.at[t] + n > s.at[t]
  BY <1>2
<1>5. Progress(p, s, t, u)
  BY <1>1, <1>3, <1>4 DEF Progress
<1> QED
  BY <1>1, <1>5 DEF u

\* Each step of a thread leads to a state, and forward.
LEMMA DoesProgress ==
  ASSUME NEW p \in Texts, NEW m \in Modes, NEW s \in State, NEW t \in Threads, NEW u,
         s.at[t] \in 1..Len(p[t]), Does(p, m, s, t, u)
  PROVE  u \in State /\ Progress(p, s, t, u)
<1> DEFINE stmt == p[t][s.at[t]]
           unread == DOMAIN stmt.condition \ DOMAIN s.seen[t]
<1>1. /\ stmt.op = "write" => stmt.variable \in Variables /\ stmt.value \in Values
      /\ stmt.op \in {"assert", "assume", "if"} => stmt.condition \in Condition
      /\ stmt.op = "if" => stmt.skip \in Nat
  BY StatementFacts
<1>2. 1 \in Nat \ {0}
  OBVIOUS
<1>3. CASE stmt.op = "write"
  <2> DEFINE r == [s EXCEPT !.store[stmt.variable] = stmt.value]
  <2>1. r \in State /\ r.at = s.at /\ r.seen = s.seen /\ r.ended = s.ended
    <3> HIDE DEF stmt
    <3> QED
      BY <1>1, <1>3 DEF State
  <2>2. u = Goto(r, t, 1)
    BY <1>3 DEF Does
  <2> HIDE DEF r
  <2> QED
    BY <1>2, <2>1, <2>2, GotoProgress
<1>4. CASE stmt.op = "assert"
  <2> DEFINE r == CheckAssertion(stmt.condition, m, s)
  <2>1. r \in State /\ r.at = s.at /\ r.seen = s.seen /\ r.ended = s.ended
    <3> HIDE DEF stmt
    <3>1. (s.reported \/ ~Holds(stmt.condition, s)) \in BOOLEAN
      BY DEF State
    <3>2. (s.failed \/ ~Holds(stmt.condition, s)) \in BOOLEAN
      BY DEF State
    <3> QED
      BY <3>1, <3>2 DEF State, CheckAssertion
  <2>2. u = Goto(r, t, 1)
    BY <1>4 DEF Does
  <2> HIDE DEF r
  <2> QED
    BY <1>2, <2>1, <2>2, GotoProgress
<1>5. CASE stmt.op = "assume"
  <2>1. u = Goto(s, t, 1)
    BY <1>5 DEF Does
  <2> QED
    BY <1>2, <2>1, GotoProgress
<1>6. CASE stmt.op = "begin"
  <2> DEFINE r == [s EXCEPT !.holder = t]
  <2>1. r \in State /\ r.at = s.at /\ r.seen = s.seen /\ r.ended = s.ended
    BY DEF State
  <2>2. u = Goto(r, t, 1)
    BY <1>6 DEF Does
  <2> HIDE DEF r
  <2> QED
    BY <1>2, <2>1, <2>2, GotoProgress
<1>7. CASE stmt.op = "end"
  <2> DEFINE r == [s EXCEPT !.holder = None]
  <2>1. r \in State /\ r.at = s.at /\ r.seen = s.seen /\ r.ended = s.ended
    BY DEF State
  <2>2. u = Goto(r, t, 1)
    BY <1>7 DEF Does
  <2> HIDE DEF r
  <2> QED
    BY <1>2, <2>1, <2>2, GotoProgress
<1>8. CASE stmt.op = "if"
  <2>1. 1 + stmt.skip \in Nat \ {0}
    <3>1. stmt.skip \in Nat
      BY <1>1, <1>8
    <3> HIDE DEF stmt
    <3> QED
      BY <3>1
  <2>2. CASE ~m.noTrace
    <3>1. u = Goto(s, t, 1) \/ u = Goto(s, t, 1 + stmt.skip)
      BY <1>8, <2>2 DEF Does
    <3> QED
      BY <1>2, <2>1, <3>1, GotoProgress
  <2>3. ASSUME NEW v \in unread, u = Read(s, t, v)
        PROVE  u \in State /\ Progress(p, s, t, u)
    <3>1. v \in Variables
      BY <1>1, <1>8, ConditionFacts
    <3>2. /\ u \in State /\ u.at = s.at /\ u.ended = s.ended
          /\ u.seen = [s.seen EXCEPT ![t] = Known(s, t, v)]
      <4> HIDE DEF stmt, unread
      <4> QED
        BY <2>3, <3>1, ReadFacts
    <3>3. s.seen \in [Threads -> UNION {[V -> Values] : V \in SUBSET Variables}]
      BY DEF State
    <3>4. u.seen[t] = Known(s, t, v) /\ \A r \in Threads : r # t => u.seen[r] = s.seen[r]
      <4> HIDE DEF Values
      <4> QED
        BY <3>2, <3>3
    <3> QED
      BY <1>8, <2>3, <3>2, <3>4 DEF Progress, Known
  <2>4. CASE m.noTrace /\ unread = {}
                /\ \E n \in {1, 1 + stmt.skip} : u = [Goto(s, t, n) EXCEPT !.seen[t] = <<>>]
    <3>1. PICK n \in {1, 1 + stmt.skip} : u = [Goto(s, t, n) EXCEPT !.seen[t] = <<>>]
      BY <2>4
    <3>2. n \in Nat \ {0}
      BY <2>1
    <3> DEFINE r == [s EXCEPT !.seen[t] = <<>>]
    <3>3. Start.seen[t] = <<>> /\ Start \in State
      BY StartFacts DEF Start
    <3>4. <<>> \in UNION {[V -> Values] : V \in SUBSET Variables}
      <4>1. Start.seen \in [Threads -> UNION {[V -> Values] : V \in SUBSET Variables}]
        BY <3>3 DEF State
      <4> QED
        BY <3>3, <4>1
    <3>5. /\ Goto(s, t, n) \in State /\ Goto(s, t, n).at = [s.at EXCEPT ![t] = s.at[t] + n]
          /\ Goto(s, t, n).seen = s.seen /\ Goto(s, t, n).ended = s.ended
      BY <3>2, GotoFacts
    <3>6. u \in State /\ u.at = Goto(s, t, n).at /\ u.ended = s.ended
          /\ u.seen = [s.seen EXCEPT ![t] = <<>>]
      <4> HIDE DEF Values
      <4> QED
        BY <3>1, <3>4, <3>5 DEF State
    <3>7. \A q \in Threads : q # t => u.seen[q] = s.seen[q]
      BY <3>6 DEF State
    <3>8. Progress(p, s, t, Goto(s, t, n))
      BY <3>2, GotoProgress
    <3>9. u.at[t] > s.at[t]
      BY <3>2, <3>5, <3>6 DEF State
    <3> QED
      BY <3>6, <3>7, <3>8, <3>9 DEF Progress
  <2> QED
    BY <1>8, <2>2, <2>3, <2>4 DEF Does
<1> QED
  BY <1>3, <1>4, <1>5, <1>6, <1>7, <1>8 DEF Does
-------------------------------------------------------------------------------
(* What an execution may still have to do.                                 *)

LEMMA StatementsLeft ==
  ASSUME NEW p, NEW s, NEW e
  PROVE  e \in LeftStatements(p, s) <=>
           \E t \in Threads : \E n \in s.at[t] .. Len(p[t]) : e = <<t, n>>
BY DEF LeftStatements

\* The variable v of statement n of thread t is to be read.
ToRead(p, s, t, n, v) ==
  /\ p[t][n].op = "if" /\ v \in DOMAIN p[t][n].condition
  /\ n = s.at[t] => v \notin DOMAIN s.seen[t]

LEMMA ReadsLeft ==
  ASSUME NEW p, NEW s, NEW e
  PROVE  e \in LeftReads(p, s) <=>
           \E t \in Threads : \E n \in s.at[t] .. Len(p[t]) :
             \E v : ToRead(p, s, t, n, v) /\ e = <<t, n, v>>
<1> DEFINE stmt(q) == p[q[1]][q[2]]
           read(q) == IF q[2] = s.at[q[1]] THEN DOMAIN s.seen[q[1]] ELSE {}
           toRead(q) == IF stmt(q).op = "if"
                        THEN {<<q[1], q[2], v>> : v \in DOMAIN stmt(q).condition \ read(q)}
                        ELSE {}
<1>1. LeftReads(p, s) = UNION {toRead(q) : q \in LeftStatements(p, s)}
  BY DEF LeftReads
<1>2. ASSUME NEW t \in Threads, NEW n \in s.at[t] .. Len(p[t])
      PROVE  e \in toRead(<<t, n>>) <=> \E v : ToRead(p, s, t, n, v) /\ e = <<t, n, v>>
  BY DEF ToRead
<1> HIDE DEF toRead
<1>3. e \in LeftReads(p, s) <=> \E q \in LeftStatements(p, s) : e \in toRead(q)
  BY <1>1
<1>4. \A q : q \in LeftStatements(p, s) <=>
              \E t \in Threads : \E n \in s.at[t] .. Len(p[t]) : q = <<t, n>>
  BY StatementsLeft
<1>5. e \in LeftReads(p, s) <=>
        \E t \in Threads : \E n \in s.at[t] .. Len(p[t]) : e \in toRead(<<t, n>>)
  BY <1>3, <1>4
<1> QED
  BY <1>2, <1>5

\* A step of a thread leaves less to do.
LEMMA LeftShrinks ==
  ASSUME NEW p \in Texts, NEW s \in State, NEW u \in State, NEW t \in Threads,
         s.at[t] \in 1..Len(p[t]), Progress(p, s, t, u)
  PROVE  Left(p, u) \subseteq Left(p, s) /\ Left(p, u) # Left(p, s)
<1>1. /\ s.at \in [Threads -> Nat \ {0}] /\ u.at \in [Threads -> Nat \ {0}]
      /\ \A r \in Threads : Len(p[r]) \in Nat
  BY DEF State, Texts
<1>2. \A r \in Threads : u.at[r] >= s.at[r]
  BY <1>1 DEF Progress
<1>3. LeftStatements(p, u) \subseteq LeftStatements(p, s)
  <2>1. \A r \in Threads : u.at[r] .. Len(p[r]) \subseteq s.at[r] .. Len(p[r])
    BY <1>1, <1>2
  <2> QED
    BY <2>1, StatementsLeft
<1>4. ASSUME NEW r \in Threads, NEW n \in u.at[r] .. Len(p[r]), NEW v, ToRead(p, u, r, n, v)
      PROVE  n \in s.at[r] .. Len(p[r]) /\ ToRead(p, s, r, n, v)
  <2>1. n \in s.at[r] .. Len(p[r])
    BY <1>1, <1>2, <1>4
  <2>2. CASE r # t
    <3>1. u.at[r] = s.at[r] /\ u.seen[r] = s.seen[r]
      BY <2>2 DEF Progress
    <3> QED
      BY <1>4, <2>1, <3>1 DEF ToRead
  <2>3. CASE r = t /\ u.at[t] > s.at[t]
    <3>1. n # s.at[t]
      BY <1>1, <1>4, <2>3
    <3> QED
      BY <1>4, <2>1, <2>3, <3>1 DEF ToRead
  <2>4. CASE r = t /\ u.at[t] = s.at[t]
    <3>1. DOMAIN s.seen[t] \subseteq DOMAIN u.seen[t]
      BY <1>1, <2>4 DEF Progress
    <3> QED
      BY <1>4, <2>1, <2>4, <3>1 DEF ToRead
  <2> QED
    BY <1>1, <1>2, <2>2, <2>3, <2>4
<1>5. LeftReads(p, u) \subseteq LeftReads(p, s)
  BY <1>4, ReadsLeft
<1>6. u.ended = s.ended
  BY DEF Progress
<1>7. CASE u.at[t] > s.at[t]
  <2> DEFINE e == <<t, s.at[t]>>
  <2>1. e \in LeftStatements(p, s)
    BY <1>1, StatementsLeft
  <2>2. e \notin LeftStatements(p, u)
    <3>1. s.at[t] \notin u.at[t] .. Len(p[t])
      BY <1>1, <1>7
    <3> QED
      BY <3>1, StatementsLeft
  <2>3. e \notin LeftReads(p, u)
    <3>1. \A r, n, v : e # <<r, n, v>>
      OBVIOUS
    <3> HIDE DEF e
    <3> QED
      BY <3>1, ReadsLeft
  <2>4. e # <<>>
    OBVIOUS
  <2> HIDE DEF e
  <2> QED
    BY <1>3, <1>5, <1>6, <2>1, <2>2, <2>3, <2>4 DEF Left
<1>8. CASE u.at[t] = s.at[t]
  <2>1. PICK v \in DOMAIN p[t][s.at[t]].condition \ DOMAIN s.seen[t] :
          DOMAIN u.seen[t] = DOMAIN s.seen[t] \cup {v}
    BY <1>1, <1>8 DEF Progress
  <2>2. p[t][s.at[t]].op = "if"
    BY <1>1, <1>8 DEF Progress
  <2> DEFINE e == <<t, s.at[t], v>>
  <2>3. e \in LeftReads(p, s)
    <3>1. ToRead(p, s, t, s.at[t], v)
      BY <2>1, <2>2 DEF ToRead
    <3>2. s.at[t] \in s.at[t] .. Len(p[t])
      BY <1>1
    <3> QED
      BY <3>1, <3>2, ReadsLeft
  <2>4. e \notin LeftReads(p, u)
    <3>1. ~ToRead(p, u, t, s.at[t], v)
      BY <1>8, <2>1 DEF ToRead
    <3> QED
      BY <3>1, ReadsLeft
  <2>5. e \notin LeftStatements(p, u)
    <3>1. \A r, n : e # <<r, n>>
      OBVIOUS
    <3> HIDE DEF e
    <3> QED
      BY <3>1, StatementsLeft
  <2>6. e # <<>>
    OBVIOUS
  <2> HIDE DEF e
  <2> QED
    BY <1>3, <1>5, <1>6, <2>3, <2>4, <2>5, <2>6 DEF Left
<1>9. u.at[t] > s.at[t] \/ u.at[t] = s.at[t]
  BY <1>1, <1>2
<1> QED
  BY <1>3, <1>5, <1>6, <1>7, <1>8, <1>9 DEF Left

\* Every step leads to a state, and leaves less to do.
LEMMA StepShrinks ==
  ASSUME NEW p \in Texts, NEW m \in Modes, NEW s \in State, NEW u \in After(p, m, s)
  PROVE  u \in State /\ Left(p, u) \subseteq Left(p, s) /\ Left(p, u) # Left(p, s)
<1>1. CASE \E t \in Threads : u \in ThreadSteps(p, m, s, t)
  <2>1. PICK t \in Threads : u \in ThreadSteps(p, m, s, t)
    BY <1>1
  <2>2. s.at[t] \in 1..Len(p[t]) /\ Does(p, m, s, t, u)
    BY <2>1, ThreadStepsAre
  <2> QED
    BY <2>2, DoesProgress, LeftShrinks
<1>2. CASE u \in MainSteps(p, m, s)
  <2>1. /\ ~s.ended
        /\ u = [s EXCEPT !.ended = TRUE, !.reported = @ \/ m.noTrace \/ s.failed]
    BY <1>2 DEF MainSteps
  <2>2. (s.reported \/ m.noTrace \/ s.failed) \in BOOLEAN
    BY DEF State, Modes
  <2>3. u \in State /\ u.at = s.at /\ u.seen = s.seen /\ u.ended
    BY <2>1, <2>2 DEF State
  <2>4. LeftStatements(p, u) = LeftStatements(p, s)
    BY <2>3 DEF LeftStatements
  <2>5. LeftReads(p, u) = LeftReads(p, s)
    BY <2>3, <2>4 DEF LeftReads
  <2> DEFINE e == <<>>
  <2>6. e \notin LeftStatements(p, s)
    <3>1. \A r, n : e # <<r, n>>
      OBVIOUS
    <3> HIDE DEF e
    <3> QED
      BY <3>1, StatementsLeft
  <2>7. e \notin LeftReads(p, s)
    <3>1. \A r, n, v : e # <<r, n, v>>
      OBVIOUS
    <3> HIDE DEF e
    <3> QED
      BY <3>1, ReadsLeft
  <2> QED
    BY <2>1, <2>3, <2>4, <2>5, <2>6, <2>7 DEF Left
<1> QED
  BY <1>1, <1>2 DEF After

\* Nothing is left in any state that was not there at the start.
LEMMA LeftOfStart ==
  ASSUME NEW p \in Texts, NEW s \in State
  PROVE  Left(p, s) \subseteq Left(p, Start)
<1>1. /\ s.at \in [Threads -> Nat \ {0}]
      /\ \A r \in Threads : Len(p[r]) \in Nat
  BY DEF State, Texts
<1>2. /\ Start.at = [r \in Threads |-> 1] /\ Start.seen = [r \in Threads |-> <<>>]
      /\ ~Start.ended
  BY DEF Start
<1>3. \A r \in Threads : s.at[r] .. Len(p[r]) \subseteq Start.at[r] .. Len(p[r])
  BY <1>1, <1>2
<1>4. LeftStatements(p, s) \subseteq LeftStatements(p, Start)
  BY <1>3, StatementsLeft
<1>5. \A r \in Threads : \A n, v : ToRead(p, s, r, n, v) => ToRead(p, Start, r, n, v)
  <2>1. \A r \in Threads : DOMAIN Start.seen[r] = {}
    BY <1>2
  <2> QED
    BY <2>1 DEF ToRead
<1>6. LeftReads(p, s) \subseteq LeftReads(p, Start)
  BY <1>3, <1>5, ReadsLeft
<1> QED
  BY <1>2, <1>4, <1>6 DEF Left

\* How much is left.
Rank(p, s) == Cardinality(Left(p, s))

LEMMA RankFacts ==
  ASSUME NEW p \in Texts, Fits(p), NEW s \in State
  PROVE  /\ IsFiniteSet(Left(p, s))
         /\ Rank(p, s) \in Nat /\ Rank(p, Start) \in Nat
         /\ Rank(p, s) <= Rank(p, Start)
         /\ Rank(p, Start) <= MaxExecution
<1>1. IsFiniteSet(Left(p, Start)) /\ Rank(p, Start) <= MaxExecution
  BY DEF Fits, Rank
<1>2. IsFiniteSet(Left(p, s)) /\ Rank(p, s) <= Rank(p, Start)
  BY <1>1, LeftOfStart, FS_Subset DEF Rank
<1> QED
  BY <1>1, <1>2, FS_CardinalityType DEF Rank

\* It decreases.
LEMMA RankDecreases ==
  ASSUME NEW p \in Texts, Fits(p), NEW m \in Modes, NEW s \in State, NEW u \in After(p, m, s)
  PROVE  u \in State /\ Rank(p, u) < Rank(p, s)
<1>1. u \in State /\ Left(p, u) \subseteq Left(p, s) /\ Left(p, u) # Left(p, s)
  BY StepShrinks
<1>2. IsFiniteSet(Left(p, s)) /\ Rank(p, s) \in Nat /\ Rank(p, u) \in Nat
  BY <1>1, RankFacts
<1>3. Rank(p, u) <= Rank(p, s) /\ Rank(p, u) # Rank(p, s)
  BY <1>1, <1>2, FS_Subset DEF Rank
<1> QED
  BY <1>1, <1>2, <1>3
-------------------------------------------------------------------------------
(* The states that executions reach.                                       *)

\* Executions of n steps, some of which may be none.
Paths(p, m, n) ==
  {c \in [0 .. n -> State] :
     c[0] = Start /\ \A k \in 1 .. n : c[k] = c[k - 1] \/ c[k] \in After(p, m, c[k - 1])}

Within(p, m, n) == {s \in State : \E c \in Paths(p, m, n) : c[n] = s}

\* An execution of no step does nothing.
LEMMA WithinNothing ==
  ASSUME NEW p, NEW m
  PROVE  Within(p, m, 0) = {Start}
<1> DEFINE c == [k \in 0 .. 0 |-> Start]
<1>1. c \in [0 .. 0 -> State] /\ c[0] = Start
  BY StartFacts
<1>2. c \in Paths(p, m, 0)
  BY <1>1 DEF Paths
<1>3. Start \in Within(p, m, 0)
  BY <1>1, <1>2, StartFacts DEF Within
<1>4. \A s \in Within(p, m, 0) : s = Start
  BY DEF Within, Paths
<1> QED
  BY <1>3, <1>4

\* The last step of an execution follows on the others.
LEMMA WithinGrows ==
  ASSUME NEW p \in Texts, NEW m \in Modes, NEW n \in Nat
  PROVE  Within(p, m, n + 1)
           = Within(p, m, n) \cup UNION {After(p, m, s) : s \in Within(p, m, n)}
<1>1. ASSUME NEW s \in Within(p, m, n), NEW u, u = s \/ u \in After(p, m, s)
      PROVE  u \in Within(p, m, n + 1)
  <2>1. s \in State /\ u \in State
    BY <1>1, StepShrinks DEF Within
  <2>2. PICK c \in Paths(p, m, n) : c[n] = s
    BY DEF Within
  <2> DEFINE d == [k \in 0 .. n + 1 |-> IF k = n + 1 THEN u ELSE c[k]]
  <2>3. c \in [0 .. n -> State] /\ c[0] = Start
        /\ \A k \in 1 .. n : c[k] = c[k - 1] \/ c[k] \in After(p, m, c[k - 1])
    BY DEF Paths
  <2>4. d[n + 1] = u /\ \A k \in 0 .. n : d[k] = c[k]
    OBVIOUS
  <2>5. d \in [0 .. n + 1 -> State]
    <3>1. \A k \in 0 .. n + 1 : (IF k = n + 1 THEN u ELSE c[k]) \in State
      BY <2>1, <2>3
    <3> QED
      BY <3>1
  <2> HIDE DEF d
  <2>6. ASSUME NEW k \in 1 .. n + 1
        PROVE  d[k] = d[k - 1] \/ d[k] \in After(p, m, d[k - 1])
    <3>1. CASE k = n + 1
      <4>1. d[k] = u /\ d[k - 1] = s
        BY <2>2, <2>4, <3>1
      <4> QED
        BY <1>1, <4>1
    <3>2. CASE k # n + 1
      <4>1. k \in 1 .. n /\ k \in 0 .. n /\ k - 1 \in 0 .. n
        BY <3>2
      <4>2. d[k] = c[k] /\ d[k - 1] = c[k - 1]
        BY <2>4, <4>1
      <4> QED
        BY <2>3, <4>1, <4>2
    <3> QED
      BY <3>1, <3>2
  <2>7. d[0] = Start
    BY <2>3, <2>4
  <2>8. d \in Paths(p, m, n + 1)
    BY <2>5, <2>6, <2>7 DEF Paths
  <2> QED
    BY <2>1, <2>4, <2>8 DEF Within
<1>2. ASSUME NEW u \in Within(p, m, n + 1)
      PROVE  \E s \in Within(p, m, n) : u = s \/ u \in After(p, m, s)
  <2>1. PICK c \in Paths(p, m, n + 1) : c[n + 1] = u
    BY DEF Within
  <2>2. c \in [0 .. n + 1 -> State] /\ c[0] = Start
        /\ \A k \in 1 .. n + 1 : c[k] = c[k - 1] \/ c[k] \in After(p, m, c[k - 1])
    BY DEF Paths
  <2> DEFINE d == [k \in 0 .. n |-> c[k]]
  <2>3. \A k \in 0 .. n : k \in 0 .. n + 1 /\ d[k] = c[k]
    OBVIOUS
  <2>4. d \in [0 .. n -> State]
    BY <2>2, <2>3
  <2> HIDE DEF d
  <2>5. ASSUME NEW k \in 1 .. n
        PROVE  d[k] = d[k - 1] \/ d[k] \in After(p, m, d[k - 1])
    <3>1. k \in 1 .. n + 1 /\ k \in 0 .. n /\ k - 1 \in 0 .. n
      OBVIOUS
    <3>2. d[k] = c[k] /\ d[k - 1] = c[k - 1]
      BY <2>3, <3>1
    <3> QED
      BY <2>2, <3>1, <3>2
  <2>6. d[0] = Start
    BY <2>2, <2>3
  <2>7. d \in Paths(p, m, n)
    BY <2>4, <2>5, <2>6 DEF Paths
  <2>8. c[n] \in State /\ d[n] = c[n]
    BY <2>2, <2>3
  <2>9. c[n] \in Within(p, m, n)
    BY <2>7, <2>8 DEF Within
  <2>10. c[n + 1] = c[n] \/ c[n + 1] \in After(p, m, c[n])
    <3>1. n + 1 \in 1 .. n + 1 /\ (n + 1) - 1 = n
      OBVIOUS
    <3> QED
      BY <2>2, <3>1
  <2> QED
    BY <2>1, <2>9, <2>10
<1> QED
  BY <1>1, <1>2

\* Reachable are the ends of executions of at most MaxExecution steps.
LEMMA ReachableIsWithin ==
  ASSUME NEW p \in Texts, NEW m \in Modes
  PROVE  Reachable(p, m) = Within(p, m, MaxExecution)
<1> DEFINE grown(before) == before \cup UNION {After(p, m, s) : s \in before}
           Solves(w) == w = [n \in Nat |-> IF n = 0 THEN {Start} ELSE grown(w[n - 1])]
           sets == [n \in Nat |-> Within(p, m, n)]
           found == CHOOSE w : Solves(w)
<1>1. Solves(sets)
  <2>1. ASSUME NEW n \in Nat
        PROVE  sets[n] = IF n = 0 THEN {Start} ELSE grown(sets[n - 1])
    <3>1. CASE n = 0
      BY <3>1, WithinNothing
    <3>2. CASE n # 0
      <4>1. n - 1 \in Nat /\ (n - 1) + 1 = n
        BY <3>2
      <4>2. sets[n] = Within(p, m, (n - 1) + 1) /\ sets[n - 1] = Within(p, m, n - 1)
        BY <4>1
      <4>3. Within(p, m, (n - 1) + 1) = grown(Within(p, m, n - 1))
        BY <4>1, WithinGrows
      <4> QED
        BY <3>2, <4>2, <4>3
    <3> QED
      BY <3>1, <3>2
  <2>2. DOMAIN sets = Nat /\ sets = [n \in Nat |-> sets[n]]
    OBVIOUS
  <2> HIDE DEF sets, grown
  <2> QED
    BY <2>1, <2>2
<1>2. Reachable(p, m) = found[MaxExecution]
  BY DEF Reachable
<1>3. Solves(found)
  <2> HIDE DEF Solves
  <2> QED
    BY <1>1
<1> HIDE DEF found
<1>4. found[0] = {Start} /\ \A n \in Nat : n # 0 => found[n] = grown(found[n - 1])
  <2> HIDE DEF grown
  <2> QED
    BY <1>3
<1> DEFINE wrong == {n \in Nat : found[n] # Within(p, m, n)}
<1>5. wrong = {}
  <2> SUFFICES ASSUME wrong # {} PROVE FALSE
    OBVIOUS
  <2>1. PICK least \in wrong : \A n \in wrong : least <= n
    BY LeastOf
  <2>2. least # 0
    BY <1>4, WithinNothing
  <2>3. least \in Nat /\ least - 1 \in Nat /\ least - 1 \notin wrong /\ (least - 1) + 1 = least
    BY <2>1, <2>2
  <2>4. found[least - 1] = Within(p, m, least - 1)
    BY <2>3
  <2>5. found[least] = grown(Within(p, m, least - 1))
    BY <1>4, <2>2, <2>3, <2>4
  <2>6. Within(p, m, least) = grown(Within(p, m, least - 1))
    <3>1. Within(p, m, (least - 1) + 1) = grown(Within(p, m, least - 1))
      BY <2>3, WithinGrows
    <3> QED
      BY <2>3, <3>1
  <2> QED
    BY <2>1, <2>5, <2>6
<1> QED
  BY <1>2, <1>5, ProgramsAssumption

\* More steps reach more.
LEMMA WithinMonotone ==
  ASSUME NEW p \in Texts, NEW m \in Modes, NEW n \in Nat, NEW k \in Nat
  PROVE  Within(p, m, n) \subseteq Within(p, m, n + k)
<1> DEFINE wrong == {i \in Nat : ~(Within(p, m, n) \subseteq Within(p, m, n + i))}
<1>1. wrong = {}
  <2> SUFFICES ASSUME wrong # {} PROVE FALSE
    OBVIOUS
  <2>1. PICK least \in wrong : \A i \in wrong : least <= i
    BY LeastOf
  <2>2. least # 0
    <3>1. n + 0 = n
      OBVIOUS
    <3> QED
      BY <3>1
  <2>3. least \in Nat /\ least - 1 \in Nat /\ least - 1 \notin wrong
    BY <2>1, <2>2
  <2>4. Within(p, m, n) \subseteq Within(p, m, n + (least - 1))
    BY <2>3
  <2>5. n + (least - 1) \in Nat /\ (n + (least - 1)) + 1 = n + least
    BY <2>3
  <2>6. Within(p, m, n + (least - 1)) \subseteq Within(p, m, (n + (least - 1)) + 1)
    BY <2>5, WithinGrows
  <2>7. Within(p, m, n) \subseteq Within(p, m, n + least)
    BY <2>4, <2>5, <2>6
  <2> QED
    BY <2>1, <2>7
<1> QED
  BY <1>1

\* A state is reached after as many steps as things have been done, if at all.
LEMMA WithinRank ==
  ASSUME NEW p \in Texts, Fits(p), NEW m \in Modes, NEW n \in Nat, NEW s \in Within(p, m, n)
  PROVE  s \in Within(p, m, Rank(p, Start) - Rank(p, s))
<1> DEFINE late(i) == {q \in Within(p, m, i) : q \notin Within(p, m, Rank(p, Start) - Rank(p, q))}
           wrong == {i \in Nat : late(i) # {}}
<1>1. wrong = {}
  <2> SUFFICES ASSUME wrong # {} PROVE FALSE
    OBVIOUS
  <2>1. PICK least \in wrong : \A i \in wrong : least <= i
    BY LeastOf
  <2>2. PICK q \in Within(p, m, least) : q \notin Within(p, m, Rank(p, Start) - Rank(p, q))
    BY <2>1
  <2>3. least # 0
    <3>1. ASSUME least = 0 PROVE FALSE
      <4>1. q = Start
        BY <2>2, <3>1, WithinNothing
      <4>2. Rank(p, Start) - Rank(p, Start) = 0
        BY RankFacts, StartFacts
      <4> QED
        BY <2>2, <4>1, <4>2, WithinNothing
    <3> QED
      BY <3>1
  <2>4. least \in Nat /\ least - 1 \in Nat /\ least - 1 \notin wrong /\ (least - 1) + 1 = least
    BY <2>1, <2>3
  <2>5. late(least - 1) = {}
    BY <2>4
  <2>6. PICK r \in Within(p, m, least - 1) : q = r \/ q \in After(p, m, r)
    <3>1. Within(p, m, (least - 1) + 1)
            = Within(p, m, least - 1) \cup UNION {After(p, m, s_1) : s_1 \in Within(p, m, least - 1)}
      BY <2>4, WithinGrows
    <3> QED
      BY <2>2, <2>4, <3>1
  <2>7. r \in State /\ r \in Within(p, m, Rank(p, Start) - Rank(p, r))
    BY <2>5 DEF Within
  <2>8. q # r /\ q \in After(p, m, r)
    BY <2>2, <2>6, <2>7
  <2>9. /\ Rank(p, r) \in Nat /\ Rank(p, q) \in Nat /\ Rank(p, Start) \in Nat
        /\ Rank(p, q) < Rank(p, r) /\ Rank(p, r) <= Rank(p, Start)
    BY <2>7, <2>8, RankDecreases, RankFacts
  <2> DEFINE i == Rank(p, Start) - Rank(p, r)
             j == (Rank(p, r) - Rank(p, q)) - 1
  <2>10. i \in Nat /\ j \in Nat /\ (i + 1) + j = Rank(p, Start) - Rank(p, q) /\ i + 1 \in Nat
    BY <2>9
  <2> HIDE DEF i, j
  <2>11. q \in Within(p, m, i + 1)
    <3>1. r \in Within(p, m, i)
      BY <2>7 DEF i
    <3> QED
      BY <2>8, <2>10, <3>1, WithinGrows
  <2>12. q \in Within(p, m, (i + 1) + j)
    BY <2>10, <2>11, WithinMonotone
  <2> QED
    BY <2>2, <2>10, <2>12
<1> QED
  BY <1>1

\* If the checker looks at whole executions, its states are closed under steps.
LEMMA ReachableFacts ==
  ASSUME NEW p \in Texts, Fits(p), NEW m \in Modes
  PROVE  /\ Start \in Reachable(p, m)
         /\ Reachable(p, m) \subseteq State
         /\ \A s \in Reachable(p, m) : After(p, m, s) \subseteq Reachable(p, m)
<1>1. MaxExecution \in Nat /\ Reachable(p, m) = Within(p, m, MaxExecution)
  BY ReachableIsWithin, ProgramsAssumption
<1>2. Start \in Reachable(p, m)
  <2>1. Within(p, m, 0) \subseteq Within(p, m, 0 + MaxExecution) /\ 0 + MaxExecution = MaxExecution
    BY <1>1, WithinMonotone
  <2> QED
    BY <1>1, <2>1, WithinNothing
<1>3. Reachable(p, m) \subseteq State
  BY <1>1 DEF Within
<1>4. ASSUME NEW s \in Reachable(p, m), NEW u \in After(p, m, s)
      PROVE  u \in Reachable(p, m)
  <2>1. u \in Within(p, m, MaxExecution + 1) /\ MaxExecution + 1 \in Nat
    BY <1>1, <1>4, WithinGrows
  <2> DEFINE i == Rank(p, Start) - Rank(p, u)
  <2>2. u \in State
    BY <1>3, <1>4, StepShrinks
  <2>3. u \in Within(p, m, i)
    BY <2>1, WithinRank
  <2>4. i \in Nat /\ MaxExecution - i \in Nat /\ i + (MaxExecution - i) = MaxExecution
    BY <1>1, <2>2, RankFacts
  <2> HIDE DEF i
  <2>5. u \in Within(p, m, i + (MaxExecution - i))
    BY <2>3, <2>4, WithinMonotone
  <2> QED
    BY <1>1, <2>4, <2>5
<1> QED
  BY <1>2, <1>3, <1>4

\* What holds at the start and is kept by steps holds of what the checker sees.
LEMMA ReachableInduction ==
  ASSUME NEW p \in Texts, NEW m \in Modes, NEW G, Start \in G,
         \A s \in G \cap State : After(p, m, s) \subseteq G
  PROVE  Reachable(p, m) \subseteq G
<1> DEFINE wrong == {i \in Nat : ~(Within(p, m, i) \subseteq G)}
<1>1. wrong = {}
  <2> SUFFICES ASSUME wrong # {} PROVE FALSE
    OBVIOUS
  <2>1. PICK least \in wrong : \A i \in wrong : least <= i
    BY LeastOf
  <2>2. least # 0
    BY WithinNothing
  <2>3. least \in Nat /\ least - 1 \in Nat /\ least - 1 \notin wrong /\ (least - 1) + 1 = least
    BY <2>1, <2>2
  <2>4. Within(p, m, least - 1) \subseteq G \cap State
    BY <2>3 DEF Within
  <2>5. Within(p, m, (least - 1) + 1) \subseteq G
    BY <2>3, <2>4, WithinGrows
  <2> QED
    BY <2>1, <2>3, <2>5
<1> QED
  BY <1>1, ReachableIsWithin, ProgramsAssumption
-------------------------------------------------------------------------------
(* The effect of each statement.                                           *)

KeepsFlags(s, u) == u.failed = s.failed /\ u.ended = s.ended /\ u.reported = s.reported
Moves(s, t, u, n) == u.at = [s.at EXCEPT ![t] = s.at[t] + n]
Branch(stmt, holds) == IF holds THEN 1 ELSE 1 + stmt.skip

Writes(stmt, s, t, u) ==
  /\ Moves(s, t, u, 1) /\ u.seen = s.seen /\ u.holder = s.holder /\ KeepsFlags(s, u)
  /\ u.store = [s.store EXCEPT ![stmt.variable] = stmt.value]

Asserts(stmt, m, s, t, u) ==
  /\ Moves(s, t, u, 1) /\ u.seen = s.seen /\ u.holder = s.holder /\ u.store = s.store
  /\ u.ended = s.ended
  /\ u.reported = (s.reported \/ (m.noTrace /\ ~Holds(stmt.condition, s)))
  /\ u.failed = (s.failed \/ (~m.noTrace /\ ~Holds(stmt.condition, s)))

\* Only the place and the holder of the atomic section change.
Passes(s, t, u, n, holder) ==
  /\ Moves(s, t, u, n) /\ u.seen = s.seen /\ u.holder = holder /\ u.store = s.store
  /\ KeepsFlags(s, u)

ReadsOne(s, t, u, v) ==
  /\ u.at = s.at /\ u.seen = [s.seen EXCEPT ![t] = Known(s, t, v)] /\ u.holder = s.holder
  /\ u.store = s.store /\ KeepsFlags(s, u)

Branches(stmt, s, t, u) ==
  /\ Moves(s, t, u, Branch(stmt, s.seen[t] = stmt.condition))
  /\ u.seen = [s.seen EXCEPT ![t] = <<>>] /\ u.holder = s.holder /\ u.store = s.store
  /\ KeepsFlags(s, u)

Effect(stmt, m, s, t, u) ==
  LET unread == DOMAIN stmt.condition \ DOMAIN s.seen[t]
  IN  \/ stmt.op = "write" /\ Writes(stmt, s, t, u)
      \/ stmt.op = "assert" /\ Asserts(stmt, m, s, t, u)
      \/ stmt.op = "assume" /\ LetsPass(stmt.condition, m, s) /\ Passes(s, t, u, 1, s.holder)
      \/ stmt.op = "if" /\ ~m.noTrace
           /\ Passes(s, t, u, Branch(stmt, Holds(stmt.condition, s)), s.holder)
      \/ stmt.op = "if" /\ m.noTrace /\ \E v \in unread : ReadsOne(s, t, u, v)
      \/ stmt.op = "if" /\ m.noTrace /\ unread = {} /\ Branches(stmt, s, t, u)
      \/ stmt.op = "begin" /\ Passes(s, t, u, 1, t)
      \/ stmt.op = "end" /\ Passes(s, t, u, 1, None)

\* The state that has nothing read of a condition is a state.
LEMMA ForgetFacts ==
  ASSUME NEW s \in State, NEW t \in Threads
  PROVE  LET u == [s EXCEPT !.seen[t] = <<>>]
         IN  /\ u \in State /\ u.at = s.at /\ u.seen = [s.seen EXCEPT ![t] = <<>>]
             /\ u.holder = s.holder /\ u.store = s.store /\ KeepsFlags(s, u)
<1>1. Start.seen[t] = <<>> /\ Start \in State
  BY StartFacts DEF Start
<1>2. <<>> \in UNION {[V -> Values] : V \in SUBSET Variables}
  <2>1. Start.seen \in [Threads -> UNION {[V -> Values] : V \in SUBSET Variables}]
    BY <1>1 DEF State
  <2> QED
    BY <1>1, <2>1
<1> HIDE DEF Values
<1> QED
  BY <1>2 DEF State, KeepsFlags

\* A statement has its effect.
LEMMA Effects ==
  ASSUME NEW p \in Texts, NEW m \in Modes, NEW s \in State, NEW t \in Threads, NEW u,
         s.at[t] \in 1..Len(p[t]), Does(p, m, s, t, u)
  PROVE  u \in State /\ Effect(p[t][s.at[t]], m, s, t, u)
<1> DEFINE stmt == p[t][s.at[t]]
           unread == DOMAIN stmt.condition \ DOMAIN s.seen[t]
<1>1. /\ stmt.op = "write" => stmt.variable \in Variables /\ stmt.value \in Values
      /\ stmt.op \in {"assert", "assume", "if"} => stmt.condition \in Condition
      /\ stmt.op = "if" => stmt.skip \in Nat
  BY StatementFacts
<1>2. u \in State
  BY DoesProgress
<1>3. CASE stmt.op = "write"
  <2> DEFINE r == [s EXCEPT !.store[stmt.variable] = stmt.value]
  <2>1. /\ r \in State /\ r.at = s.at /\ r.seen = s.seen /\ r.holder = s.holder
        /\ KeepsFlags(s, r) /\ r.store = [s.store EXCEPT ![stmt.variable] = stmt.value]
    <3> HIDE DEF stmt
    <3> QED
      BY <1>1, <1>3 DEF State, KeepsFlags
  <2>2. u = Goto(r, t, 1)
    BY <1>3 DEF Does
  <2> HIDE DEF r
  <2>3. Writes(stmt, s, t, u)
    BY <2>1, <2>2, GotoFacts DEF Writes, Moves, KeepsFlags
  <2> QED
    BY <1>2, <1>3, <2>3 DEF Effect
<1>4. CASE stmt.op = "assert"
  <2> DEFINE r == CheckAssertion(stmt.condition, m, s)
  <2>1. /\ r \in State /\ r.at = s.at /\ r.seen = s.seen /\ r.holder = s.holder
        /\ r.ended = s.ended /\ r.store = s.store
        /\ r.reported = (s.reported \/ (m.noTrace /\ ~Holds(stmt.condition, s)))
        /\ r.failed = (s.failed \/ (~m.noTrace /\ ~Holds(stmt.condition, s)))
    <3> HIDE DEF stmt
    <3>1. (s.reported \/ ~Holds(stmt.condition, s)) \in BOOLEAN /\ s.reported \in BOOLEAN
      BY DEF State
    <3>2. (s.failed \/ ~Holds(stmt.condition, s)) \in BOOLEAN /\ s.failed \in BOOLEAN
      BY DEF State
    <3>3. CASE m.noTrace
      BY <3>1, <3>2, <3>3 DEF State, CheckAssertion
    <3>4. CASE ~m.noTrace
      BY <3>1, <3>2, <3>4 DEF State, CheckAssertion
    <3> QED
      BY <3>3, <3>4
  <2>2. u = Goto(r, t, 1)
    BY <1>4 DEF Does
  <2> HIDE DEF r
  <2>3. Asserts(stmt, m, s, t, u)
    BY <2>1, <2>2, GotoFacts DEF Asserts, Moves
  <2> QED
    BY <1>2, <1>4, <2>3 DEF Effect
<1>5. CASE stmt.op = "assume"
  <2>1. u = Goto(s, t, 1) /\ LetsPass(stmt.condition, m, s)
    BY <1>5 DEF Does
  <2>2. Passes(s, t, u, 1, s.holder)
    BY <2>1, GotoFacts DEF Passes, Moves, KeepsFlags
  <2> QED
    BY <1>2, <1>5, <2>1, <2>2 DEF Effect
<1>6. CASE stmt.op = "begin"
  <2> DEFINE r == [s EXCEPT !.holder = t]
  <2>1. /\ r \in State /\ r.at = s.at /\ r.seen = s.seen /\ r.holder = t /\ r.store = s.store
        /\ KeepsFlags(s, r)
    BY DEF State, KeepsFlags
  <2>2. u = Goto(r, t, 1)
    BY <1>6 DEF Does
  <2> HIDE DEF r
  <2>3. Passes(s, t, u, 1, t)
    BY <2>1, <2>2, GotoFacts DEF Passes, Moves, KeepsFlags
  <2> QED
    BY <1>2, <1>6, <2>3 DEF Effect
<1>7. CASE stmt.op = "end"
  <2> DEFINE r == [s EXCEPT !.holder = None]
  <2>1. /\ r \in State /\ r.at = s.at /\ r.seen = s.seen /\ r.holder = None /\ r.store = s.store
        /\ KeepsFlags(s, r)
    BY DEF State, KeepsFlags
  <2>2. u = Goto(r, t, 1)
    BY <1>7 DEF Does
  <2> HIDE DEF r
  <2>3. Passes(s, t, u, 1, None)
    BY <2>1, <2>2, GotoFacts DEF Passes, Moves, KeepsFlags
  <2> QED
    BY <1>2, <1>7, <2>3 DEF Effect
<1>8. CASE stmt.op = "if"
  <2>1. \A holds : Branch(stmt, holds) \in Nat \ {0}
    <3>1. stmt.skip \in Nat
      BY <1>1, <1>8
    <3> HIDE DEF stmt
    <3> QED
      BY <3>1 DEF Branch
  <2>2. CASE ~m.noTrace
    <3> DEFINE n == Branch(stmt, Holds(stmt.condition, s))
    <3>1. u = Goto(s, t, n)
      BY <1>8, <2>2 DEF Does, Branch
    <3>2. n \in Nat \ {0}
      BY <2>1
    <3> HIDE DEF n
    <3>3. Passes(s, t, u, n, s.holder)
      BY <3>1, <3>2, GotoFacts DEF Passes, Moves, KeepsFlags
    <3> QED
      BY <1>2, <1>8, <2>2, <3>3 DEF Effect, n
  <2>3. CASE m.noTrace /\ \E v \in unread : u = Read(s, t, v)
    <3>1. PICK v \in unread : u = Read(s, t, v)
      BY <2>3
    <3>2. v \in Variables
      BY <1>1, <1>8, ConditionFacts
    <3>3. ReadsOne(s, t, u, v)
      <4> HIDE DEF unread
      <4> QED
        BY <3>1, <3>2, ReadFacts DEF ReadsOne, KeepsFlags
    <3> QED
      BY <1>2, <1>8, <2>3, <3>3 DEF Effect
  <2>4. CASE /\ m.noTrace /\ unread = {}
             /\ u = [Goto(s, t, Branch(stmt, s.seen[t] = stmt.condition)) EXCEPT !.seen[t] = <<>>]
    <3> DEFINE n == Branch(stmt, s.seen[t] = stmt.condition)
               r == Goto(s, t, n)
    <3>1. n \in Nat \ {0}
      BY <2>1
    <3>2. u = [r EXCEPT !.seen[t] = <<>>]
      BY <2>4
    <3> HIDE DEF n
    <3>3. r \in State /\ Passes(s, t, r, n, s.holder)
      BY <3>1, GotoFacts DEF Passes, Moves, KeepsFlags
    <3> HIDE DEF r
    <3>4. /\ u.at = r.at /\ u.seen = [r.seen EXCEPT ![t] = <<>>]
          /\ u.holder = r.holder /\ u.store = r.store /\ KeepsFlags(r, u)
      BY <3>2, <3>3, ForgetFacts
    <3>5. Branches(stmt, s, t, u)
      <4> HIDE DEF stmt
      <4> QED
        BY <3>3, <3>4 DEF Branches, Passes, Moves, KeepsFlags, n
    <3> QED
      BY <1>2, <1>8, <2>4, <3>5 DEF Effect
  <2> QED
    BY <1>8, <2>2, <2>3, <2>4 DEF Does, Branch
<1> QED
  BY <1>3, <1>4, <1>5, <1>6, <1>7, <1>8 DEF Does
-------------------------------------------------------------------------------
(* Conditions that are being read.                                         *)

\* Only a program without trace is ever within a condition, at its "if".
Reading(p, m, s) ==
  \A t \in Threads : DOMAIN s.seen[t] # {} =>
    /\ m.noTrace /\ s.at[t] \in 1..Len(p[t]) /\ p[t][s.at[t]].op = "if"
    /\ DOMAIN s.seen[t] \subseteq DOMAIN p[t][s.at[t]].condition

\* What a thread has read are values of variables.
LEMMA SeenFacts ==
  ASSUME NEW s \in State, NEW t \in Threads
  PROVE  s.seen[t] \in [DOMAIN s.seen[t] -> Values]
<1>1. s.seen \in [Threads -> UNION {[V -> Values] : V \in SUBSET Variables}]
  BY DEF State
<1>2. s.seen[t] \in UNION {[V -> Values] : V \in SUBSET Variables}
  BY <1>1
<1>3. PICK V \in SUBSET Variables : s.seen[t] \in [V -> Values]
  <2> HIDE DEF Values
  <2> QED
    BY <1>2
<1> HIDE DEF Values
<1> QED
  BY <1>1, <1>3

\* Where a thread is after a move.
LEMMA MovesFacts ==
  ASSUME NEW s \in State, NEW t \in Threads, NEW u, NEW n, Moves(s, t, u, n)
  PROVE  u.at[t] = s.at[t] + n /\ \A r \in Threads : r # t => u.at[r] = s.at[r]
BY DEF State, Moves

LEMMA ReadingKept ==
  ASSUME NEW p \in Texts, NEW m \in Modes, NEW s \in State, NEW t \in Threads, NEW u,
         s.at[t] \in 1..Len(p[t]), Effect(p[t][s.at[t]], m, s, t, u), Reading(p, m, s)
  PROVE  Reading(p, m, u)
<1> DEFINE stmt == p[t][s.at[t]]
           unread == DOMAIN stmt.condition \ DOMAIN s.seen[t]
<1>0. DOMAIN s.seen = Threads
  BY DEF State
<1>1. ASSUME \E n : Moves(s, t, u, n), \A r \in Threads : r # t => u.seen[r] = s.seen[r],
             DOMAIN u.seen[t] = {}
      PROVE  Reading(p, m, u)
  <2>1. \A r \in Threads : r # t => u.at[r] = s.at[r]
    BY <1>1, MovesFacts
  <2> QED
    BY <1>1, <2>1 DEF Reading
<1>2. ASSUME \E n : Moves(s, t, u, n), u.seen = s.seen, stmt.op # "if" \/ ~m.noTrace
      PROVE  Reading(p, m, u)
  <2>1. DOMAIN s.seen[t] = {}
    BY <1>2 DEF Reading
  <2> QED
    BY <1>1, <1>2, <2>1
<1>3. CASE stmt.op = "write" /\ Writes(stmt, s, t, u)
  <2>1. Moves(s, t, u, 1) /\ u.seen = s.seen
    BY <1>3 DEF Writes
  <2> QED
    BY <1>2, <1>3, <2>1
<1>4. CASE stmt.op = "assert" /\ Asserts(stmt, m, s, t, u)
  <2>1. Moves(s, t, u, 1) /\ u.seen = s.seen
    BY <1>4 DEF Asserts
  <2> QED
    BY <1>2, <1>4, <2>1
<1>5. CASE (stmt.op # "if" \/ ~m.noTrace) /\ \E n, holder : Passes(s, t, u, n, holder)
  <2>1. PICK n, holder : Passes(s, t, u, n, holder)
    BY <1>5
  <2>2. Moves(s, t, u, n) /\ u.seen = s.seen
    BY <2>1 DEF Passes
  <2> QED
    BY <1>2, <1>5, <2>2
<1>6. CASE stmt.op = "if" /\ m.noTrace /\ \E v \in unread : ReadsOne(s, t, u, v)
  <2>1. PICK v \in unread : ReadsOne(s, t, u, v)
    BY <1>6
  <2>2. u.at = s.at /\ u.seen = [s.seen EXCEPT ![t] = Known(s, t, v)]
    BY <2>1 DEF ReadsOne
  <2>3. u.seen[t] = Known(s, t, v) /\ \A r \in Threads : r # t => u.seen[r] = s.seen[r]
    BY <1>0, <2>2
  <2>4. DOMAIN u.seen[t] = DOMAIN s.seen[t] \cup {v}
    BY <2>3 DEF Known
  <2>5. DOMAIN u.seen[t] \subseteq DOMAIN stmt.condition
    BY <2>4 DEF Reading
  <2> HIDE DEF unread
  <2> QED
    BY <1>6, <2>2, <2>3, <2>5 DEF Reading
<1>7. CASE stmt.op = "if" /\ m.noTrace /\ Branches(stmt, s, t, u)
  <2>1. Moves(s, t, u, Branch(stmt, s.seen[t] = stmt.condition))
        /\ u.seen = [s.seen EXCEPT ![t] = <<>>]
    BY <1>7 DEF Branches
  <2>2. u.seen[t] = <<>> /\ \A r \in Threads : r # t => u.seen[r] = s.seen[r]
    BY <1>0, <2>1
  <2> HIDE DEF stmt
  <2> QED
    BY <1>1, <2>1, <2>2
<1> QED
  BY <1>3, <1>4, <1>5, <1>6, <1>7 DEF Effect

\* With trace nothing is within a condition.
LEMMA NothingSeen ==
  ASSUME NEW p, NEW m, ~m.noTrace, NEW s \in State, Reading(p, m, s)
  PROVE  s.seen = [t \in Threads |-> <<>>]
<1>1. \A t \in Threads : s.seen[t] = <<>>
  <2> SUFFICES ASSUME NEW t \in Threads PROVE s.seen[t] = <<>>
    OBVIOUS
  <2>1. DOMAIN s.seen[t] = {}
    BY DEF Reading
  <2>2. s.seen[t] \in [{} -> Values]
    BY <2>1, SeenFacts
  <2>3. \A f, g \in [{} -> Values] : f = g
    OBVIOUS
  <2>4. <<>> \in [{} -> Values]
    OBVIOUS
  <2> QED
    BY <2>2, <2>3, <2>4
<1>2. s.seen = [t \in Threads |-> s.seen[t]]
  BY DEF State
<1> QED
  BY <1>1, <1>2
-------------------------------------------------------------------------------
(* Atomic sections.                                                        *)

\* Which statements are in a section, from one to the next.
LEMMA SectionNext ==
  ASSUME NEW body, Len(body) \in Nat, NEW n \in 1..Len(body)
  PROVE  /\ body[n].op = "begin" => InSection(body, n + 1)
         /\ body[n].op = "end" => ~InSection(body, n + 1)
         /\ body[n].op \notin {"begin", "end"} => (InSection(body, n + 1) <=> InSection(body, n))
<1>1. CASE body[n].op = "begin"
  BY <1>1 DEF InSection
<1>2. CASE body[n].op = "end"
  <2> SUFFICES ASSUME NEW b \in 1..Len(body), b < n + 1, body[b].op = "begin",
                      \A e \in 1..Len(body) : b < e /\ e < n + 1 => body[e].op # "end"
               PROVE FALSE
    BY <1>2 DEF InSection
  <2>1. b # n
    BY <1>2
  <2> QED
    BY <1>2, <2>1
<1>3. CASE body[n].op \notin {"begin", "end"}
  <2>1. ASSUME InSection(body, n) PROVE InSection(body, n + 1)
    <3>1. PICK b \in 1..Len(body) :
            /\ b < n /\ body[b].op = "begin"
            /\ \A e \in 1..Len(body) : b < e /\ e < n => body[e].op # "end"
      BY <2>1 DEF InSection
    <3>2. \A e \in 1..Len(body) : b < e /\ e < n + 1 => body[e].op # "end"
      <4> SUFFICES ASSUME NEW e \in 1..Len(body), b < e, e < n + 1 PROVE body[e].op # "end"
        OBVIOUS
      <4>1. e < n \/ e = n
        OBVIOUS
      <4> QED
        BY <1>3, <3>1, <4>1
    <3> QED
      BY <3>1, <3>2 DEF InSection
  <2>2. ASSUME InSection(body, n + 1) PROVE InSection(body, n)
    <3>1. PICK b \in 1..Len(body) :
            /\ b < n + 1 /\ body[b].op = "begin"
            /\ \A e \in 1..Len(body) : b < e /\ e < n + 1 => body[e].op # "end"
      BY <2>2 DEF InSection
    <3>2. b < n
      <4>1. b # n
        BY <1>3, <3>1
      <4> QED
        BY <3>1, <4>1
    <3>3. \A e \in 1..Len(body) : b < e /\ e < n => body[e].op # "end"
      BY <3>1
    <3> QED
      BY <3>1, <3>2, <3>3 DEF InSection
  <2> QED
    BY <1>3, <2>1, <2>2
<1> QED
  BY <1>1, <1>2, <1>3

\* A condition leads nowhere but where its section goes on.
LEMMA StructuredIf ==
  ASSUME NEW body, Structured(body), NEW n \in 1..Len(body), body[n].op = "if"
  PROVE  /\ InSection(body, n + 1 + body[n].skip) <=> InSection(body, n)
         /\ InSection(body, n) \/ \A v, w \in DOMAIN body[n].condition : v = w
<1> QED
  BY DEF Structured

\* No section outlives its thread.
LEMMA SectionOver ==
  ASSUME NEW body, Len(body) \in Nat, Structured(body), NEW n \in Nat, n > Len(body)
  PROVE  ~InSection(body, n)
<1> SUFFICES ASSUME NEW b \in 1..Len(body), body[b].op = "begin",
                    \A e \in 1..Len(body) : b < e /\ e < n => body[e].op # "end"
             PROVE FALSE
  BY DEF InSection
<1>1. \A e \in 1..Len(body) : b < e /\ e < Len(body) + 1 => body[e].op # "end"
  OBVIOUS
<1>2. InSection(body, Len(body) + 1)
  BY <1>1 DEF InSection
<1> QED
  BY <1>2 DEF Structured

\* Who is in an atomic section holds it, and nobody else does.
Holding(p, s) == \A t \in Threads : s.holder = t <=> InSection(p[t], s.at[t])

\* One thread moves, and gets or leaves the section or does neither.
LEMMA HoldingMoves ==
  ASSUME NEW p, NEW s \in State, Holding(p, s), NEW t \in Threads, s.holder \in {None, t},
         NEW u, NEW n, Moves(s, t, u, n), u.holder \in {None, t},
         u.holder = t <=> InSection(p[t], s.at[t] + n)
  PROVE  Holding(p, u)
<1>1. u.at[t] = s.at[t] + n /\ \A r \in Threads : r # t => u.at[r] = s.at[r]
  BY MovesFacts
<1>2. ASSUME NEW r \in Threads, r # t PROVE u.holder # r /\ s.holder # r
  BY <1>2, ProgramsAssumption
<1> QED
  BY <1>1, <1>2 DEF Holding

LEMMA HoldingKept ==
  ASSUME NEW p \in Texts, NEW m \in Modes, NEW s \in State, NEW t \in Threads, NEW u,
         s.at[t] \in 1..Len(p[t]), s.holder \in {None, t},
         Effect(p[t][s.at[t]], m, s, t, u), Structured(p[t]), Holding(p, s)
  PROVE  Holding(p, u)
<1> DEFINE n == s.at[t]
           stmt == p[t][n]
           unread == DOMAIN stmt.condition \ DOMAIN s.seen[t]
<1>1. Len(p[t]) \in Nat /\ n \in 1..Len(p[t])
  BY DEF Texts
<1>2. s.holder = t <=> InSection(p[t], n)
  BY DEF Holding
<1>3. ASSUME stmt.op \notin {"begin", "end"}, Moves(s, t, u, 1), u.holder = s.holder
      PROVE  Holding(p, u)
  <2>1. InSection(p[t], n + 1) <=> InSection(p[t], n)
    BY <1>1, <1>3, SectionNext
  <2> QED
    BY <1>2, <1>3, <2>1, HoldingMoves
<1>4. ASSUME NEW holds, stmt.op = "if", Moves(s, t, u, Branch(stmt, holds)),
             u.holder = s.holder
      PROVE  Holding(p, u)
  <2>1. CASE holds
    BY <1>3, <1>4, <2>1 DEF Branch
  <2>2. CASE ~holds
    <3>1. InSection(p[t], n + 1 + stmt.skip) <=> InSection(p[t], n)
      BY <1>1, <1>4, StructuredIf
    <3>2. stmt.skip \in Nat
      BY <1>1, <1>4, StatementFacts
    <3>3. n + 1 + stmt.skip = n + (1 + stmt.skip)
      <4>1. n \in Int /\ stmt.skip \in Int
        BY <1>1, <3>2
      <4> HIDE DEF n, stmt
      <4> QED
        BY <4>1
    <3>4. InSection(p[t], n + (1 + stmt.skip)) <=> s.holder = t
      BY <1>2, <3>1, <3>3
    <3>5. Moves(s, t, u, 1 + stmt.skip)
      BY <1>4, <2>2 DEF Branch
    <3> HIDE DEF stmt
    <3> QED
      BY <1>4, <3>4, <3>5, HoldingMoves
  <2> QED
    BY <2>1, <2>2
<1>5. CASE stmt.op = "write" /\ Writes(stmt, s, t, u)
  BY <1>3, <1>5 DEF Writes
<1>6. CASE stmt.op = "assert" /\ Asserts(stmt, m, s, t, u)
  BY <1>3, <1>6 DEF Asserts
<1>7. CASE stmt.op = "assume" /\ Passes(s, t, u, 1, s.holder)
  BY <1>3, <1>7 DEF Passes
<1>8. CASE stmt.op = "if" /\ Passes(s, t, u, Branch(stmt, Holds(stmt.condition, s)), s.holder)
  BY <1>4, <1>8 DEF Passes
<1>9. CASE stmt.op = "if" /\ \E v \in unread : ReadsOne(s, t, u, v)
  <2>1. u.at = s.at /\ u.holder = s.holder
    BY <1>9 DEF ReadsOne
  <2> QED
    BY <2>1 DEF Holding
<1>10. CASE stmt.op = "if" /\ Branches(stmt, s, t, u)
  BY <1>4, <1>10 DEF Branches
<1>11. CASE stmt.op = "begin" /\ Passes(s, t, u, 1, t)
  <2>1. InSection(p[t], n + 1)
    BY <1>1, <1>11, SectionNext
  <2>2. Moves(s, t, u, 1) /\ u.holder = t
    BY <1>11 DEF Passes
  <2> QED
    BY <2>1, <2>2, HoldingMoves
<1>12. CASE stmt.op = "end" /\ Passes(s, t, u, 1, None)
  <2>1. ~InSection(p[t], n + 1)
    BY <1>1, <1>12, SectionNext
  <2>2. Moves(s, t, u, 1) /\ u.holder = None
    BY <1>12 DEF Passes
  <2> QED
    BY <2>1, <2>2, HoldingMoves, ProgramsAssumption
<1> QED
  BY <1>5, <1>6, <1>7, <1>8, <1>9, <1>10, <1>11, <1>12 DEF Effect

\* What a thread in a section has read of a condition is still so.
UpToDate(s) ==
  \A t \in Threads : s.holder = t => \A v \in DOMAIN s.seen[t] : s.seen[t][v] = s.store[v]

LEMMA UpToDateKept ==
  ASSUME NEW p \in Texts, NEW m \in Modes, NEW s \in State, NEW t \in Threads, NEW u,
         s.at[t] \in 1..Len(p[t]), s.holder \in {None, t},
         Effect(p[t][s.at[t]], m, s, t, u), Reading(p, m, s), UpToDate(s)
  PROVE  UpToDate(u)
<1> DEFINE stmt == p[t][s.at[t]]
           unread == DOMAIN stmt.condition \ DOMAIN s.seen[t]
<1>1. DOMAIN s.seen = Threads
  BY DEF State
<1>2. stmt.op # "if" => DOMAIN s.seen[t] = {}
  BY DEF Reading
<1>3. ASSUME u.holder \in {None, t},
             u.holder = t => \A v \in DOMAIN u.seen[t] : u.seen[t][v] = u.store[v]
      PROVE  UpToDate(u)
  BY <1>3, ProgramsAssumption DEF UpToDate
<1>4. CASE stmt.op = "write" /\ Writes(stmt, s, t, u)
  BY <1>2, <1>3, <1>4 DEF Writes
<1>5. CASE stmt.op = "assert" /\ Asserts(stmt, m, s, t, u)
  BY <1>2, <1>3, <1>5 DEF Asserts
<1>6. CASE stmt.op # "if" /\ \E holder \in {None, t} : Passes(s, t, u, 1, holder)
  BY <1>2, <1>3, <1>6 DEF Passes
<1>7. CASE \E n : Passes(s, t, u, n, s.holder)
  BY <1>7 DEF Passes, UpToDate
<1>8. CASE \E v \in unread : ReadsOne(s, t, u, v)
  <2>1. PICK v \in unread : ReadsOne(s, t, u, v)
    BY <1>8
  <2>2. /\ u.seen = [s.seen EXCEPT ![t] = Known(s, t, v)]
        /\ u.holder = s.holder /\ u.store = s.store
    BY <2>1 DEF ReadsOne
  <2>3. u.seen[t] = Known(s, t, v)
    BY <1>1, <2>2
  <2>4. s.holder = t => \A w \in DOMAIN s.seen[t] \cup {v} : Known(s, t, v)[w] = s.store[w]
    BY DEF UpToDate, Known
  <2>5. DOMAIN Known(s, t, v) = DOMAIN s.seen[t] \cup {v}
    BY DEF Known
  <2> QED
    BY <1>3, <2>2, <2>3, <2>4, <2>5
<1>9. CASE Branches(stmt, s, t, u)
  <2>1. u.seen[t] = <<>> /\ u.holder = s.holder
    BY <1>1, <1>9 DEF Branches
  <2>2. DOMAIN u.seen[t] = {}
    BY <2>1
  <2> QED
    BY <1>3, <2>1, <2>2
<1> QED
  BY <1>4, <1>5, <1>6, <1>7, <1>8, <1>9 DEF Effect
-------------------------------------------------------------------------------
(* A failure with trace is one without.                                    *)

Plain == [noTrace |-> TRUE, preventDeadlock |-> FALSE]

LEMMA SameState ==
  ASSUME NEW s \in State, NEW u \in State, s.at = u.at, s.seen = u.seen,
         s.holder = u.holder, s.store = u.store, KeepsFlags(s, u)
  PROVE  s = u
BY DEF State, KeepsFlags

\* The state in which thread t has read, one after the other, the variables D.
Current(s, D) == [v \in D |-> s.store[v]]
HasRead(s, t, D) == [s EXCEPT !.seen[t] = Current(s, D)]

LEMMA HasReadFacts ==
  ASSUME NEW s \in State, NEW t \in Threads, NEW D \in SUBSET Variables
  PROVE  LET u == HasRead(s, t, D)
         IN  /\ u \in State /\ u.at = s.at /\ u.seen[t] = Current(s, D)
             /\ u.seen = [s.seen EXCEPT ![t] = Current(s, D)]
             /\ u.holder = s.holder /\ u.store = s.store /\ KeepsFlags(s, u)
<1> DEFINE k == Current(s, D)
<1>1. k \in [D -> Values]
  <2>1. \A v \in D : s.store[v] \in Values
    BY DEF State
  <2> QED
    BY <2>1 DEF Current
<1>2. k \in UNION {[V -> Values] : V \in SUBSET Variables}
  BY <1>1
<1>3. HasRead(s, t, D) = [s EXCEPT !.seen[t] = k]
  BY DEF HasRead
<1> HIDE DEF k, Values
<1> DEFINE u == [s EXCEPT !.seen[t] = k]
<1>4. u \in State
  BY <1>2 DEF State
<1>5. /\ u.at = s.at /\ u.seen = [s.seen EXCEPT ![t] = k]
      /\ u.holder = s.holder /\ u.store = s.store /\ KeepsFlags(s, u)
  BY DEF State, KeepsFlags
<1> HIDE DEF u
<1>6. u.seen[t] = k
  <2>1. DOMAIN s.seen = Threads
    BY DEF State
  <2> QED
    BY <1>5, <2>1
<1> QED
  BY <1>3, <1>4, <1>5, <1>6 DEF k, u

\* One more variable.
LEMMA HasReadMore ==
  ASSUME NEW s \in State, NEW t \in Threads, NEW D \in SUBSET Variables, NEW v \in Variables
  PROVE  Read(HasRead(s, t, D), t, v) = HasRead(s, t, D \cup {v})
<1> DEFINE r == HasRead(s, t, D)
           u == Read(r, t, v)
           more == D \cup {v}
           w == HasRead(s, t, more)
<1>1. more \in SUBSET Variables
  OBVIOUS
<1>2. /\ r \in State /\ r.at = s.at /\ r.seen[t] = Current(s, D)
      /\ r.seen = [s.seen EXCEPT ![t] = Current(s, D)]
      /\ r.holder = s.holder /\ r.store = s.store /\ KeepsFlags(s, r)
  BY HasReadFacts
<1>3. /\ w \in State /\ w.at = s.at
      /\ w.seen = [s.seen EXCEPT ![t] = Current(s, more)]
      /\ w.holder = s.holder /\ w.store = s.store /\ KeepsFlags(s, w)
  <2> HIDE DEF more
  <2> QED
    BY <1>1, HasReadFacts
<1> HIDE DEF r, w
<1>4. /\ u \in State /\ u.at = r.at /\ u.seen = [r.seen EXCEPT ![t] = Known(r, t, v)]
      /\ u.holder = r.holder /\ u.store = r.store /\ KeepsFlags(r, u)
  BY <1>2, ReadFacts DEF KeepsFlags
<1> HIDE DEF u
<1>5. Known(r, t, v) = Current(s, D \cup {v})
  BY <1>2 DEF Known, Current
<1>6. u.seen = w.seen
  BY <1>2, <1>3, <1>4, <1>5
<1>7. u = w
  BY <1>2, <1>3, <1>4, <1>6, SameState DEF KeepsFlags
<1> QED
  BY <1>7 DEF u, w, r

\* Without trace, and while nobody else moves, all of a condition can be read.
LEMMA ReadsAll ==
  ASSUME NEW p \in Texts, Fits(p), NEW s \in Reachable(p, Plain), NEW t \in Threads,
         s.at[t] \in 1..Len(p[t]), p[t][s.at[t]].op = "if", s.holder \in {None, t},
         s.seen[t] = <<>>
  PROVE  HasRead(s, t, DOMAIN p[t][s.at[t]].condition) \in Reachable(p, Plain)
<1> DEFINE condition == p[t][s.at[t]].condition
           seen == {D \in SUBSET DOMAIN condition : HasRead(s, t, D) \in Reachable(p, Plain)}
           ranks == {Rank(p, HasRead(s, t, D)) : D \in seen}
<1>1. Plain \in Modes /\ Plain.noTrace
  BY DEF Plain, Modes
<1>2. /\ s \in State /\ Reachable(p, Plain) \subseteq State
      /\ \A r \in Reachable(p, Plain) : After(p, Plain, r) \subseteq Reachable(p, Plain)
  BY <1>1, ReachableFacts
<1>3. DOMAIN condition \subseteq Variables
  BY StatementFacts, ConditionFacts
<1>4. {} \in seen
  <2> DEFINE u == HasRead(s, t, {})
  <2>1. s.seen[t] = Current(s, {})
    BY DEF Current
  <2>2. /\ u \in State /\ u.at = s.at /\ u.seen = [s.seen EXCEPT ![t] = Current(s, {})]
        /\ u.holder = s.holder /\ u.store = s.store /\ KeepsFlags(s, u)
    <3> DEFINE none == {}
    <3>1. none \in SUBSET Variables /\ s \in State
      BY <1>2
    <3> HIDE DEF condition, seen, ranks, none
    <3> QED
      BY <3>1, HasReadFacts DEF none
  <2> HIDE DEF u
  <2>3. u.seen = s.seen
    BY <1>2, <2>1, <2>2 DEF State
  <2>4. u = s
    BY <1>2, <2>2, <2>3, SameState DEF KeepsFlags
  <2> QED
    BY <2>4 DEF u
<1>5. ranks \subseteq Nat /\ ranks # {}
  BY <1>2, <1>4, RankFacts
<1>6. PICK D \in seen : \A C \in seen : Rank(p, HasRead(s, t, D)) <= Rank(p, HasRead(s, t, C))
  <2>1. PICK least \in ranks : \A n \in ranks : least <= n
    <3> HIDE DEF ranks
    <3> QED
      BY <1>5, LeastOf
  <2> QED
    BY <2>1
<1>7. D = DOMAIN condition
  <2> SUFFICES ASSUME NEW v \in DOMAIN condition, v \notin D PROVE FALSE
    OBVIOUS
  <2> DEFINE r == HasRead(s, t, D)
             u == Read(r, t, v)
  <2>1. D \in SUBSET Variables /\ v \in Variables
    BY <1>3
  <2>2. /\ r \in State /\ r.at = s.at /\ r.seen[t] = Current(s, D)
        /\ r.holder = s.holder
    <3>1. D \in SUBSET Variables /\ s \in State
      BY <1>2, <2>1
    <3> HIDE DEF condition, seen, ranks
    <3> QED
      BY <3>1, HasReadFacts
  <2>3. DOMAIN r.seen[t] = D
    BY <2>2 DEF Current
  <2>4. Does(p, Plain, r, t, u)
    BY <1>1, <2>2, <2>3 DEF Does
  <2>5. u \in ThreadSteps(p, Plain, r, t)
    <3> HIDE DEF r, u
    <3> QED
      BY <1>1, <2>2, <2>4, ThreadStepsAre
  <2>6. u \in After(p, Plain, r)
    BY <2>5 DEF After
  <2>7. u \in Reachable(p, Plain)
    BY <1>2, <1>6, <2>6
  <2>8. u = HasRead(s, t, D \cup {v})
    BY <1>2, <2>1, HasReadMore
  <2>9. D \cup {v} \in seen
    BY <2>7, <2>8
  <2>10. Rank(p, u) < Rank(p, r)
    <3> HIDE DEF r, u
    <3> QED
      BY <1>1, <2>2, <2>6, RankDecreases
  <2>11. Rank(p, r) <= Rank(p, u)
    BY <1>6, <2>8, <2>9
  <2>12. Rank(p, u) \in Nat /\ Rank(p, r) \in Nat
    <3> HIDE DEF r, u
    <3> QED
      BY <1>2, <2>2, <2>7, RankFacts
  <2> QED
    BY <2>10, <2>11, <2>12
<1> QED
  BY <1>6, <1>7

\* What the checker sees without trace includes what follows by a step.
LEMMA PlainSteps ==
  ASSUME NEW p \in Texts, Fits(p), NEW s \in Reachable(p, Plain), NEW t \in Threads, NEW u,
         s.at[t] \in 1..Len(p[t]), s.holder \in {None, t}, Does(p, Plain, s, t, u)
  PROVE  s \in State /\ u \in Reachable(p, Plain) /\ Effect(p[t][s.at[t]], Plain, s, t, u)
<1>1. Plain \in Modes
  BY DEF Plain, Modes
<1>2. /\ s \in State
      /\ \A r \in Reachable(p, Plain) : After(p, Plain, r) \subseteq Reachable(p, Plain)
  BY <1>1, ReachableFacts
<1>3. u \in ThreadSteps(p, Plain, s, t)
  BY <1>1, <1>2, ThreadStepsAre
<1>4. u \in After(p, Plain, s)
  BY <1>3 DEF After
<1> QED
  BY <1>1, <1>2, <1>4, Effects

\* Without trace a thread can decide as if it read the condition at once.
LEMMA DecidesAtOnce ==
  ASSUME NEW p \in Texts, Fits(p), NEW s \in Reachable(p, Plain), NEW t \in Threads,
         s.at[t] \in 1..Len(p[t]), p[t][s.at[t]].op = "if", s.holder \in {None, t},
         s.seen[t] = <<>>, NEW u \in State,
         LET stmt == p[t][s.at[t]]
         IN  Passes(s, t, u, Branch(stmt, Holds(stmt.condition, s)), s.holder)
  PROVE  u \in Reachable(p, Plain)
<1> DEFINE stmt == p[t][s.at[t]]
           all == DOMAIN stmt.condition
           r == HasRead(s, t, all)
           w == [Goto(r, t, Branch(stmt, r.seen[t] = stmt.condition)) EXCEPT !.seen[t] = <<>>]
<1>1. Plain \in Modes /\ Plain.noTrace
  BY DEF Plain, Modes
<1>2. s \in State /\ r \in Reachable(p, Plain)
  BY <1>1, ReachableFacts, ReadsAll
<1>3. all \subseteq Variables /\ stmt.condition \in [all -> Values]
  BY StatementFacts, ConditionFacts
<1>4. /\ r \in State /\ r.at = s.at /\ r.seen[t] = Current(s, all)
      /\ r.seen = [s.seen EXCEPT ![t] = Current(s, all)]
      /\ r.holder = s.holder /\ r.store = s.store /\ KeepsFlags(s, r)
  BY <1>2, <1>3, HasReadFacts
<1>5. Current(s, all) = stmt.condition <=> Holds(stmt.condition, s)
  <2> HIDE DEF stmt
  <2>1. ASSUME Holds(stmt.condition, s) PROVE Current(s, all) = stmt.condition
    BY <1>3, <2>1 DEF Current, Holds
  <2>2. ASSUME Current(s, all) = stmt.condition PROVE Holds(stmt.condition, s)
    <3>1. \A v \in all : Current(s, all)[v] = s.store[v]
      BY DEF Current
    <3> QED
      BY <2>2, <3>1 DEF Holds
  <2> QED
    BY <2>1, <2>2
<1>6. DOMAIN r.seen[t] = all
  BY <1>4 DEF Current
<1>7. Does(p, Plain, r, t, w)
  BY <1>1, <1>4, <1>6 DEF Does, Branch
<1> HIDE DEF r, w
<1>8. w \in Reachable(p, Plain) /\ Effect(stmt, Plain, r, t, w)
  BY <1>2, <1>4, <1>7, PlainSteps
<1>9. Branches(stmt, r, t, w)
  BY <1>1, <1>6, <1>8 DEF Effect
<1>10. w \in State
  BY <1>1, <1>8, ReachableFacts
<1>11. w.seen = s.seen
  <2>1. w.seen = [r.seen EXCEPT ![t] = <<>>]
    BY <1>9 DEF Branches
  <2>2. DOMAIN s.seen = Threads
    BY <1>2 DEF State
  <2> HIDE DEF stmt, all
  <2>3. w.seen = [[s.seen EXCEPT ![t] = Current(s, all)] EXCEPT ![t] = s.seen[t]]
    BY <1>4, <2>1
  <2>4. w.seen = [s.seen EXCEPT ![t] = s.seen[t]]
    BY <2>2, <2>3
  <2>5. s.seen = [q \in Threads |-> s.seen[q]]
    BY <1>2 DEF State
  <2> QED
    BY <2>2, <2>4, <2>5
<1>12. /\ w.at = u.at /\ u.seen = s.seen /\ w.holder = u.holder /\ w.store = u.store
       /\ KeepsFlags(w, u)
  <2> DEFINE n == Branch(stmt, Holds(stmt.condition, s))
  <2>1. Branch(stmt, r.seen[t] = stmt.condition) = n
    BY <1>4, <1>5 DEF Branch
  <2>2. Passes(s, t, u, n, s.holder)
    OBVIOUS
  <2>3. /\ Moves(r, t, w, n) /\ w.holder = r.holder /\ w.store = r.store /\ KeepsFlags(r, w)
    BY <1>9, <2>1 DEF Branches
  <2> HIDE DEF n, stmt, all
  <2> QED
    BY <1>4, <2>2, <2>3 DEF Passes, Moves, KeepsFlags
<1>13. w = u
  BY <1>10, <1>11, <1>12, SameState
<1> QED
  BY <1>8, <1>13

\* A step with trace, while no assertion has failed, is one without, or several;
\* and where the assertion fails, it does so without trace.
LEMMA PlainFollows ==
  ASSUME NEW p \in Texts, Fits(p), NEW m \in Modes, ~m.noTrace,
         NEW s \in Reachable(p, Plain), ~s.failed, Reading(p, m, s), NEW t \in Threads,
         s.at[t] \in 1..Len(p[t]), s.holder \in {None, t}, NEW u, Does(p, m, s, t, u)
  PROVE  IF u.failed THEN Fails(p, Plain) ELSE u \in Reachable(p, Plain)
<1> DEFINE stmt == p[t][s.at[t]]
           c == stmt.condition
<1>1. Plain \in Modes /\ Plain.noTrace
  BY DEF Plain, Modes
<1>2. s \in State
  BY <1>1, ReachableFacts
<1>3. u \in State /\ Effect(stmt, m, s, t, u)
  BY <1>2, Effects
<1>4. ASSUME Does(p, Plain, s, t, u), ~u.failed
      PROVE  IF u.failed THEN Fails(p, Plain) ELSE u \in Reachable(p, Plain)
  BY <1>4, PlainSteps
<1>5. CASE stmt.op = "write"
  <2>1. Does(p, Plain, s, t, u)
    BY <1>5 DEF Does
  <2>2. ~u.failed
    BY <1>3, <1>5 DEF Effect, Writes, KeepsFlags
  <2> QED
    BY <1>4, <2>1, <2>2
<1>6. CASE stmt.op \in {"begin", "end"}
  <2>1. Does(p, Plain, s, t, u)
    BY <1>6 DEF Does
  <2>2. ~u.failed
    BY <1>3, <1>6 DEF Effect, Passes, KeepsFlags
  <2> QED
    BY <1>4, <2>1, <2>2
<1>7. CASE stmt.op = "assume"
  <2>1. LetsPass(c, Plain, s) /\ u = Goto(s, t, 1)
    BY <1>7 DEF Does, LetsPass
  <2>2. Does(p, Plain, s, t, u)
    BY <1>7, <2>1 DEF Does
  <2>3. ~u.failed
    BY <1>3, <1>7 DEF Effect, Passes, KeepsFlags
  <2> QED
    BY <1>4, <2>2, <2>3
<1>8. CASE stmt.op = "if"
  <2>1. Passes(s, t, u, Branch(stmt, Holds(c, s)), s.holder)
    BY <1>3, <1>8 DEF Effect
  <2>2. s.seen[t] = <<>>
    BY <1>2, NothingSeen
  <2>3. u \in Reachable(p, Plain)
    BY <1>3, <1>8, <2>1, <2>2, DecidesAtOnce
  <2>4. ~u.failed
    BY <2>1 DEF Passes, KeepsFlags
  <2> QED
    BY <2>3, <2>4
<1>9. CASE stmt.op = "assert"
  <2> DEFINE w == Goto(CheckAssertion(c, Plain, s), t, 1)
  <2>1. Does(p, Plain, s, t, w)
    BY <1>9 DEF Does
  <2> HIDE DEF w
  <2>2. w \in Reachable(p, Plain) /\ Effect(stmt, Plain, s, t, w)
    BY <2>1, PlainSteps
  <2>3. Asserts(stmt, Plain, s, t, w) /\ Asserts(stmt, m, s, t, u)
    BY <1>3, <1>9, <2>2 DEF Effect
  <2>4. CASE Holds(c, s)
    <3>1. KeepsFlags(u, w)
      <4>1. /\ s.reported \in BOOLEAN /\ s.failed \in BOOLEAN
            /\ u.failed \in BOOLEAN /\ u.reported \in BOOLEAN
        BY <1>2, <1>3 DEF State
      <4>2. w \in State
        BY <1>1, <2>2, ReachableFacts
      <4>3. w.failed \in BOOLEAN /\ w.reported \in BOOLEAN
        BY <4>2 DEF State
      <4> QED
        BY <2>3, <2>4, <4>1, <4>3 DEF Asserts, KeepsFlags
    <3>2. u.at = w.at /\ u.seen = w.seen /\ u.holder = w.holder /\ u.store = w.store
      BY <2>3 DEF Asserts, Moves
    <3>3. w \in State
      BY <1>1, <2>2, ReachableFacts
    <3>4. u = w
      BY <1>3, <3>1, <3>2, <3>3, SameState
    <3>5. ~u.failed
      BY <2>3, <2>4 DEF Asserts
    <3> QED
      BY <2>2, <3>4, <3>5
  <2>5. CASE ~Holds(c, s)
    <3>1. w.reported
      BY <1>1, <2>3, <2>5 DEF Asserts
    <3>2. u.failed
      BY <2>3, <2>5 DEF Asserts
    <3> QED
      BY <2>2, <3>1, <3>2 DEF Fails
  <2> QED
    BY <2>4, <2>5
<1> QED
  BY <1>5, <1>6, <1>7, <1>8, <1>9 DEF Does
-------------------------------------------------------------------------------
(* After a failure nothing keeps a program without deadlocks from its end.  *)

Forced == [noTrace |-> FALSE, preventDeadlock |-> TRUE]

\* Main checks its assertion when the threads are done.
Over(p, s) == s.ended => (\A t \in Threads : Finished(p, s, t)) /\ (s.failed => s.reported)

\* A state in which threads, sections, conditions and main agree.
Sane(p, m, s) ==
  /\ s \in State /\ Reading(p, m, s) /\ Holding(p, s) /\ UpToDate(s)
  /\ ~m.noTrace => Over(p, s)

StructuredText(p) == \A t \in Threads : Structured(p[t])

LEMMA SaneStart ==
  ASSUME NEW p \in Texts, NEW m \in Modes
  PROVE  Sane(p, m, Start)
<1>1. /\ Start.at = [t \in Threads |-> 1] /\ Start.seen = [t \in Threads |-> <<>>]
      /\ Start.holder = None /\ ~Start.ended
  BY DEF Start
<1>2. \A t \in Threads : DOMAIN Start.seen[t] = {}
  BY <1>1
<1>3. \A t \in Threads : ~InSection(p[t], Start.at[t])
  BY <1>1 DEF InSection, Texts
<1> QED
  BY <1>1, <1>2, <1>3, StartFacts, ProgramsAssumption
     DEF Sane, Reading, Holding, UpToDate, Over

LEMMA SaneThread ==
  ASSUME NEW p \in Texts, StructuredText(p), NEW m \in Modes, NEW s, Sane(p, m, s),
         NEW t \in Threads, NEW u, s.at[t] \in 1..Len(p[t]), s.holder \in {None, t},
         Does(p, m, s, t, u)
  PROVE  Sane(p, m, u)
<1>1. s \in State /\ Reading(p, m, s) /\ Holding(p, s) /\ UpToDate(s) /\ Structured(p[t])
  BY DEF Sane, StructuredText
<1>2. u \in State /\ Effect(p[t][s.at[t]], m, s, t, u) /\ Progress(p, s, t, u)
  BY <1>1, Effects, DoesProgress
<1>3. Reading(p, m, u) /\ Holding(p, u) /\ UpToDate(u)
  BY <1>1, <1>2, ReadingKept, HoldingKept, UpToDateKept
<1>4. ~m.noTrace => ~u.ended
  <2>1. ~Finished(p, s, t)
    BY DEF Finished, Texts
  <2> QED
    BY <1>2, <2>1 DEF Sane, Over, Progress
<1> QED
  BY <1>2, <1>3, <1>4 DEF Sane, Over

LEMMA SaneMain ==
  ASSUME NEW p \in Texts, NEW m \in Modes, NEW s, Sane(p, m, s), NEW u \in MainSteps(p, m, s)
  PROVE  Sane(p, m, u) /\ u.failed = s.failed
         /\ (m.noTrace => m.preventDeadlock) /\ (~m.noTrace /\ u.reported => s.reported \/ s.failed)
<1>1. /\ ~s.ended /\ \A t \in Threads : Finished(p, s, t)
      /\ m.noTrace => m.preventDeadlock
      /\ u = [s EXCEPT !.ended = TRUE, !.reported = @ \/ m.noTrace \/ s.failed]
  BY DEF MainSteps
<1>2. s \in State
  BY DEF Sane
<1>3. (s.reported \/ m.noTrace \/ s.failed) \in BOOLEAN
  BY <1>2 DEF State, Modes
<1>4. /\ u \in State /\ u.at = s.at /\ u.seen = s.seen /\ u.holder = s.holder /\ u.store = s.store
      /\ u.failed = s.failed /\ u.ended
      /\ u.reported = (s.reported \/ m.noTrace \/ s.failed)
  BY <1>1, <1>2, <1>3 DEF State
<1>5. Reading(p, m, u) /\ Holding(p, u) /\ UpToDate(u)
  BY <1>4 DEF Sane, Reading, Holding, UpToDate
<1>6. Over(p, u)
  BY <1>1, <1>4 DEF Over, Finished
<1> QED
  BY <1>1, <1>4, <1>5, <1>6 DEF Sane

\* All steps lead from sane states to sane states.
LEMMA SaneAfter ==
  ASSUME NEW p \in Texts, StructuredText(p), NEW m \in Modes, NEW s, Sane(p, m, s),
         NEW u \in After(p, m, s)
  PROVE  Sane(p, m, u)
<1>1. s \in State
  BY DEF Sane
<1>2. CASE \E t \in Threads : u \in ThreadSteps(p, m, s, t)
  <2>1. PICK t \in Threads : u \in ThreadSteps(p, m, s, t)
    BY <1>2
  <2> QED
    BY <1>1, <2>1, ThreadStepsAre, SaneThread
<1>3. CASE u \in MainSteps(p, m, s)
  BY <1>3, SaneMain
<1> QED
  BY <1>2, <1>3 DEF After

LEMMA SaneReachable ==
  ASSUME NEW p \in Texts, StructuredText(p), NEW m \in Modes, NEW s \in Reachable(p, m)
  PROVE  Sane(p, m, s)
<1> DEFINE G == {r \in State : Sane(p, m, r)}
<1>1. Start \in G
  BY SaneStart, StartFacts
<1>2. \A r \in G \cap State : After(p, m, r) \subseteq G
  <2> SUFFICES ASSUME NEW r \in G, NEW u \in After(p, m, r) PROVE u \in G
    OBVIOUS
  <2>1. Sane(p, m, u)
    BY SaneAfter
  <2> QED
    BY <2>1 DEF Sane
<1> HIDE DEF G
<1>3. Reachable(p, m) \subseteq G
  BY <1>1, <1>2, ReachableInduction
<1> QED
  BY <1>3 DEF G

\* Only assertions change what is reported and what has failed.
LEMMA FlagsChange ==
  ASSUME NEW stmt, NEW m, NEW s, NEW t, NEW u, Effect(stmt, m, s, t, u)
  PROVE  /\ stmt.op = "assert" => Asserts(stmt, m, s, t, u)
         /\ stmt.op # "assert" => KeepsFlags(s, u)
<1>1. stmt.op = "assert" => Asserts(stmt, m, s, t, u)
  BY DEF Effect
<1>2. Writes(stmt, s, t, u) => KeepsFlags(s, u)
  BY DEF Writes
<1>3. \A n, holder : Passes(s, t, u, n, holder) => KeepsFlags(s, u)
  BY DEF Passes
<1>4. \A v : ReadsOne(s, t, u, v) => KeepsFlags(s, u)
  BY DEF ReadsOne
<1>5. Branches(stmt, s, t, u) => KeepsFlags(s, u)
  BY DEF Branches
<1> QED
  BY <1>1, <1>2, <1>3, <1>4, <1>5 DEF Effect

\* After a failure some thread can go on, or main can report.
LEMMA GoesOn ==
  ASSUME NEW p \in Texts, StructuredText(p), NEW s, Sane(p, Forced, s), s.failed, ~s.reported
  PROVE  \E u \in After(p, Forced, s) : u.failed
<1>1. s \in State /\ Forced \in Modes /\ ~Forced.noTrace /\ Forced.preventDeadlock
  BY DEF Sane, Forced, Modes
<1>2. ~s.ended
  BY <1>1 DEF Sane, Over
<1>3. CASE \A t \in Threads : Finished(p, s, t)
  <2> DEFINE u == [s EXCEPT !.ended = TRUE,
                            !.reported = s.reported \/ Forced.noTrace \/ s.failed]
  <2>1. u \in MainSteps(p, Forced, s)
    BY <1>1, <1>2, <1>3 DEF MainSteps
  <2>2. u.failed
    BY <1>1 DEF State
  <2> QED
    BY <2>1, <2>2 DEF After
<1>4. ASSUME NEW q \in Threads, ~Finished(p, s, q)
      PROVE  \E u \in After(p, Forced, s) : u.failed
  <2>1. PICK t \in Threads : ~Finished(p, s, t) /\ s.holder \in {None, t}
    <3>1. CASE s.holder = None
      BY <1>4, <3>1
    <3>2. CASE s.holder # None
      <4> DEFINE t == s.holder
      <4>1. t \in Threads
        BY <1>1, <3>2 DEF State
      <4>2. InSection(p[t], s.at[t])
        BY <4>1 DEF Sane, Holding
      <4>3. Len(p[t]) \in Nat /\ s.at[t] \in Nat /\ Structured(p[t])
        BY <1>1, <4>1 DEF Texts, State, StructuredText
      <4>4. ~(s.at[t] > Len(p[t]))
        BY <4>2, <4>3, SectionOver
      <4> QED
        BY <4>1, <4>4 DEF Finished
    <3> QED
      BY <3>1, <3>2
  <2>2. s.at[t] \in 1..Len(p[t])
    BY <1>1, <2>1 DEF Finished, State, Texts
  <2> DEFINE stmt == p[t][s.at[t]]
  <2>3. \E u : Does(p, Forced, s, t, u)
    <3>1. stmt.op \in {"write", "assert", "assume", "if", "begin", "end"}
      BY <2>2, StatementFacts
    <3>2. stmt.op = "assume" => LetsPass(stmt.condition, Forced, s)
      BY <1>1 DEF LetsPass
    <3> QED
      BY <1>1, <3>1, <3>2 DEF Does
  <2>4. PICK u : Does(p, Forced, s, t, u)
    BY <2>3
  <2>5. u \in After(p, Forced, s)
    BY <1>1, <2>1, <2>2, <2>4, ThreadStepsAre DEF After
  <2>6. u.failed
    <3>1. Effect(stmt, Forced, s, t, u)
      BY <1>1, <2>2, <2>4, Effects
    <3> HIDE DEF stmt
    <3> QED
      BY <3>1, FlagsChange DEF Asserts, KeepsFlags
  <2> QED
    BY <2>5, <2>6
<1> QED
  BY <1>3, <1>4

\* So a failure is reported.
LEMMA Completes ==
  ASSUME NEW p \in Texts, StructuredText(p), Fits(p), NEW s \in Reachable(p, Forced), s.failed
  PROVE  Fails(p, Forced)
<1> DEFINE failed == {r \in Reachable(p, Forced) : r.failed}
           ranks == {Rank(p, r) : r \in failed}
<1>1. Forced \in Modes
  BY DEF Forced, Modes
<1>2. /\ Reachable(p, Forced) \subseteq State
      /\ \A r \in Reachable(p, Forced) : After(p, Forced, r) \subseteq Reachable(p, Forced)
  BY <1>1, ReachableFacts
<1>3. \A r \in failed : Rank(p, r) \in Nat
  BY <1>2, RankFacts
<1>4. ranks \subseteq Nat /\ ranks # {}
  BY <1>3
<1>5. PICK r \in failed : \A q \in failed : Rank(p, r) <= Rank(p, q)
  <2>1. PICK least \in ranks : \A n \in ranks : least <= n
    <3> HIDE DEF ranks
    <3> QED
      BY <1>4, LeastOf
  <2> QED
    BY <2>1
<1>6. r.reported
  <2> SUFFICES ASSUME ~r.reported PROVE FALSE
    OBVIOUS
  <2>1. Sane(p, Forced, r)
    BY <1>1, SaneReachable
  <2>2. PICK u \in After(p, Forced, r) : u.failed
    BY <2>1, GoesOn
  <2>3. u \in failed
    BY <1>2, <2>2
  <2>4. Rank(p, u) < Rank(p, r)
    BY <1>1, <1>2, RankDecreases
  <2>5. Rank(p, r) <= Rank(p, u) /\ Rank(p, r) \in Nat /\ Rank(p, u) \in Nat
    BY <1>3, <1>5, <2>3
  <2> QED
    BY <2>4, <2>5
<1> QED
  BY <1>6 DEF Fails
-------------------------------------------------------------------------------
(* A failure without trace is one with trace, if deadlock is prevented.    *)

\* A program with trace decides at once: where a thread that is not in a section
\* has read its variable, it has already gone on.
AheadAt(p, s, t) ==
  LET stmt == p[t][s.at[t]]
  IN  IF DOMAIN s.seen[t] # {} /\ s.holder # t
      THEN s.at[t] + Branch(stmt, s.seen[t] = stmt.condition) ELSE s.at[t]

Ahead(p, s) == [s EXCEPT !.at = [t \in Threads |-> AheadAt(p, s, t)],
                         !.seen = [t \in Threads |-> <<>>]]

LEMMA AheadFacts ==
  ASSUME NEW p \in Texts, NEW m \in Modes, NEW s \in State, Reading(p, m, s)
  PROVE  LET a == Ahead(p, s)
         IN  /\ a \in State /\ a.at = [t \in Threads |-> AheadAt(p, s, t)]
             /\ a.seen = [t \in Threads |-> <<>>] /\ a.holder = s.holder
             /\ a.store = s.store /\ KeepsFlags(s, a)
<1>1. ASSUME NEW t \in Threads PROVE AheadAt(p, s, t) \in Nat \ {0}
  <2> DEFINE n == s.at[t]
             k == Branch(p[t][n], s.seen[t] = p[t][n].condition)
  <2>1. n \in Nat \ {0}
    BY DEF State
  <2>2. CASE DOMAIN s.seen[t] # {}
    <3>1. n \in 1..Len(p[t]) /\ p[t][n].op = "if"
      BY <2>2 DEF Reading
    <3>2. p[t][n].skip \in Nat
      BY <3>1, StatementFacts
    <3>3. k \in Nat \ {0}
      BY <3>2 DEF Branch
    <3>4. AheadAt(p, s, t) \in {n, n + k}
      BY DEF AheadAt
    <3> HIDE DEF n, k
    <3> QED
      BY <2>1, <3>3, <3>4
  <2>3. CASE DOMAIN s.seen[t] = {}
    BY <2>1, <2>3 DEF AheadAt
  <2> QED
    BY <2>2, <2>3
<1> DEFINE at == [t \in Threads |-> AheadAt(p, s, t)]
           seen == [t \in Threads |-> <<>>]
<1>2. at \in [Threads -> Nat \ {0}]
  BY <1>1
<1>3. seen \in [Threads -> UNION {[V -> Values] : V \in SUBSET Variables}]
  <2>1. Start.seen = seen
    BY DEF Start
  <2> QED
    BY <2>1, StartFacts DEF State
<1>4. Ahead(p, s) = [s EXCEPT !.at = at, !.seen = seen]
  BY DEF Ahead
<1> HIDE DEF at, seen, Values
<1>5. LET a == [s EXCEPT !.at = at, !.seen = seen]
      IN  /\ a \in State /\ a.at = at /\ a.seen = seen /\ a.holder = s.holder
          /\ a.store = s.store /\ KeepsFlags(s, a)
  BY <1>2, <1>3 DEF State, KeepsFlags
<1> QED
  BY <1>4, <1>5 DEF at, seen

\* Where the threads are ahead, after one of them has moved.
LEMMA AheadMoves ==
  ASSUME NEW p \in Texts, NEW m \in Modes, NEW s \in State, Reading(p, m, s),
         NEW u \in State, Reading(p, m, u), NEW t \in Threads,
         s.holder \in {None, t}, u.holder \in {None, t},
         \A r \in Threads : r # t => u.at[r] = s.at[r] /\ u.seen[r] = s.seen[r]
  PROVE  Ahead(p, u).at = [Ahead(p, s).at EXCEPT ![t] = AheadAt(p, u, t)]
<1>1. \A r \in Threads : r # t => AheadAt(p, u, r) = AheadAt(p, s, r)
  <2> SUFFICES ASSUME NEW r \in Threads, r # t PROVE AheadAt(p, u, r) = AheadAt(p, s, r)
    OBVIOUS
  <2>1. u.holder # r /\ s.holder # r
    BY ProgramsAssumption
  <2>2. u.at[r] = s.at[r] /\ u.seen[r] = s.seen[r]
    OBVIOUS
  <2> QED
    BY <2>1, <2>2 DEF AheadAt
<1>2. /\ Ahead(p, s).at = [r \in Threads |-> AheadAt(p, s, r)]
      /\ Ahead(p, u).at = [r \in Threads |-> AheadAt(p, u, r)]
  BY AheadFacts
<1> QED
  BY <1>1, <1>2

\* The states ahead are equal if what one of them has gained is nothing.
LEMMA AheadStays ==
  ASSUME NEW p \in Texts, NEW m \in Modes, NEW s \in State, Reading(p, m, s),
         NEW u \in State, Reading(p, m, u), NEW t \in Threads,
         s.holder \in {None, t}, u.holder = s.holder, u.store = s.store, KeepsFlags(s, u),
         \A r \in Threads : r # t => u.at[r] = s.at[r] /\ u.seen[r] = s.seen[r],
         AheadAt(p, u, t) = AheadAt(p, s, t)
  PROVE  Ahead(p, u) = Ahead(p, s)
<1> DEFINE a == Ahead(p, s)
           b == Ahead(p, u)
<1>1. /\ a \in State /\ a.at = [r \in Threads |-> AheadAt(p, s, r)]
      /\ a.seen = [r \in Threads |-> <<>>] /\ a.holder = s.holder
      /\ a.store = s.store /\ KeepsFlags(s, a)
  BY AheadFacts
<1>2. /\ b \in State /\ b.at = [r \in Threads |-> AheadAt(p, u, r)]
      /\ b.seen = [r \in Threads |-> <<>>] /\ b.holder = u.holder
      /\ b.store = u.store /\ KeepsFlags(u, b)
  BY AheadFacts
<1>3. b.at = [a.at EXCEPT ![t] = AheadAt(p, u, t)]
  BY AheadMoves
<1>4. b.at = a.at
  BY <1>1, <1>3
<1> HIDE DEF a, b
<1>5. b = a
  BY <1>1, <1>2, <1>4, SameState DEF KeepsFlags
<1> QED
  BY <1>5 DEF a, b

\* A step with trace from one state ahead to the other.
LEMMA AheadSteps ==
  ASSUME NEW p \in Texts, Fits(p), NEW m \in Modes, NEW s \in State, Reading(p, m, s),
         NEW u \in State, Reading(p, m, u), NEW t \in Threads,
         s.holder \in {None, t}, u.holder \in {None, t},
         \A r \in Threads : r # t => u.at[r] = s.at[r] /\ u.seen[r] = s.seen[r],
         Ahead(p, s) \in Reachable(p, Forced), s.at[t] \in 1..Len(p[t]),
         AheadAt(p, s, t) = s.at[t],
         NEW n, AheadAt(p, u, t) = s.at[t] + n,
         NEW w, Does(p, Forced, Ahead(p, s), t, w), Moves(Ahead(p, s), t, w, n),
         w.seen = Ahead(p, s).seen, w.holder = u.holder, w.store = u.store, KeepsFlags(u, w)
  PROVE  Ahead(p, u) \in Reachable(p, Forced)
<1> DEFINE a == Ahead(p, s)
           b == Ahead(p, u)
<1>1. Forced \in Modes
  BY DEF Forced, Modes
<1>2. /\ a \in State /\ a.at = [r \in Threads |-> AheadAt(p, s, r)]
      /\ a.seen = [r \in Threads |-> <<>>] /\ a.holder = s.holder
      /\ a.store = s.store /\ KeepsFlags(s, a)
  BY AheadFacts
<1>3. /\ b \in State /\ b.at = [r \in Threads |-> AheadAt(p, u, r)]
      /\ b.seen = [r \in Threads |-> <<>>] /\ b.holder = u.holder
      /\ b.store = u.store /\ KeepsFlags(u, b)
  BY AheadFacts
<1>4. b.at = [a.at EXCEPT ![t] = AheadAt(p, u, t)]
  BY AheadMoves
<1>5. a.at[t] = s.at[t]
  BY <1>2
<1>6. b.at = w.at
  BY <1>4, <1>5 DEF Moves
<1>7. w \in ThreadSteps(p, Forced, a, t)
  <2>1. a.at[t] \in 1..Len(p[t]) /\ a.holder \in {None, t} /\ Does(p, Forced, a, t, w)
    BY <1>2, <1>5
  <2> HIDE DEF a
  <2> QED
    BY <1>1, <1>2, <2>1, ThreadStepsAre
<1>8. w \in After(p, Forced, a)
  BY <1>7 DEF After
<1>9. w \in Reachable(p, Forced) /\ w \in State
  BY <1>1, <1>8, ReachableFacts
<1>10. w.seen = b.seen
  BY <1>2, <1>3
<1> HIDE DEF a, b
<1>11. b = w
  BY <1>3, <1>6, <1>9, <1>10, SameState DEF KeepsFlags
<1> QED
  BY <1>9, <1>11 DEF b

\* The effect that statement stmt has with trace, a deadlock being prevented.
LEMMA ForcedStep ==
  ASSUME NEW p \in Texts, NEW a \in State, NEW t \in Threads, a.at[t] \in 1..Len(p[t]),
         ~LET c == p[t][a.at[t]].condition
          IN  p[t][a.at[t]].op = "assume" /\ ~LetsPass(c, Forced, a)
  PROVE  \E w : Does(p, Forced, a, t, w) /\ Effect(p[t][a.at[t]], Forced, a, t, w)
<1> DEFINE stmt == p[t][a.at[t]]
<1>1. stmt.op \in {"write", "assert", "assume", "if", "begin", "end"}
  BY StatementFacts
<1>2. Forced \in Modes /\ ~Forced.noTrace
  BY DEF Forced, Modes
<1>3. \E w : Does(p, Forced, a, t, w)
  BY <1>1, <1>2 DEF Does
<1> QED
  BY <1>2, <1>3, Effects

\* Without trace a step of a thread keeps the state ahead one that is reached
\* with trace; and where the assertion fails, its failure is reported with trace.
LEMMA AheadFollows ==
  ASSUME NEW p \in Texts, StructuredText(p), Fits(p), NEW s, Sane(p, Plain, s), ~s.reported,
         Ahead(p, s) \in Reachable(p, Forced), NEW t \in Threads,
         s.at[t] \in 1..Len(p[t]), s.holder \in {None, t}, NEW u, Does(p, Plain, s, t, u)
  PROVE  IF u.reported THEN Fails(p, Forced) ELSE Ahead(p, u) \in Reachable(p, Forced)
<1> DEFINE n == s.at[t]
           stmt == p[t][n]
           c == stmt.condition
           unread == DOMAIN c \ DOMAIN s.seen[t]
           a == Ahead(p, s)
<1>1. Plain \in Modes /\ Plain.noTrace /\ Forced \in Modes /\ ~Forced.noTrace
  BY DEF Plain, Forced, Modes
<1>2. s \in State /\ Reading(p, Plain, s) /\ Holding(p, s) /\ UpToDate(s)
  BY DEF Sane
<1>3. u \in State /\ Effect(stmt, Plain, s, t, u) /\ Progress(p, s, t, u)
  BY <1>1, <1>2, Effects, DoesProgress
<1>4. Reading(p, Plain, u)
  BY <1>1, <1>2, <1>3, ReadingKept
<1>5. \A r \in Threads : r # t => u.at[r] = s.at[r] /\ u.seen[r] = s.seen[r]
  BY <1>3 DEF Progress
<1>6. /\ a \in State /\ a.at = [r \in Threads |-> AheadAt(p, s, r)]
      /\ a.seen = [r \in Threads |-> <<>>] /\ a.holder = s.holder
      /\ a.store = s.store /\ KeepsFlags(s, a)
  BY <1>1, <1>2, AheadFacts
<1>7. Holds(c, a) <=> Holds(c, s)
  BY <1>6 DEF Holds
<1>8. a.at[t] = AheadAt(p, s, t)
  BY <1>6
<1>9. stmt.op # "if" => AheadAt(p, s, t) = n /\ DOMAIN s.seen[t] = {}
  BY <1>2 DEF AheadAt, Reading
<1> HIDE DEF a
<1>10. ASSUME AheadAt(p, s, t) = n, u.holder \in {None, t}, NEW k, AheadAt(p, u, t) = n + k,
              NEW w, Does(p, Forced, a, t, w), Moves(a, t, w, k), w.seen = a.seen,
              w.holder = u.holder, w.store = u.store, KeepsFlags(u, w)
       PROVE  Ahead(p, u) \in Reachable(p, Forced)
  BY <1>1, <1>2, <1>3, <1>4, <1>5, <1>10, AheadSteps DEF a
<1>11. ASSUME stmt.op # "if", Moves(s, t, u, 1), u.seen = s.seen
       PROVE  AheadAt(p, u, t) = n + 1
  <2>1. u.at[t] = n + 1
    BY <1>2, <1>11, MovesFacts
  <2>2. DOMAIN u.seen[t] = {}
    BY <1>9, <1>11
  <2> QED
    BY <2>1, <2>2 DEF AheadAt
<1>12. CASE stmt.op \in {"write", "begin", "end", "assume"}
  <2>1. stmt.op = "assume" => LetsPass(c, Forced, a)
    <3>1. stmt.op = "assume" => Holds(c, s)
      BY <1>1, <1>3 DEF Effect, LetsPass
    <3> QED
      BY <1>7, <3>1 DEF LetsPass
  <2>2. AheadAt(p, s, t) = n /\ a.at[t] = n
    BY <1>8, <1>9, <1>12
  <2>3. PICK w : Does(p, Forced, a, t, w) /\ Effect(stmt, Forced, a, t, w)
    BY <1>6, <2>1, <2>2, ForcedStep
  <2> HIDE DEF stmt, n
  <2>4. /\ Moves(s, t, u, 1) /\ Moves(a, t, w, 1) /\ u.seen = s.seen /\ w.seen = a.seen
        /\ w.holder = u.holder /\ u.holder \in {None, t} /\ w.store = u.store
    <3>1. CASE stmt.op = "write"
      BY <1>3, <1>6, <2>3, <3>1 DEF Effect, Writes
    <3>2. CASE stmt.op = "begin"
      BY <1>3, <1>6, <2>3, <3>2 DEF Effect, Passes
    <3>3. CASE stmt.op = "end"
      BY <1>3, <1>6, <2>3, <3>3 DEF Effect, Passes
    <3>4. CASE stmt.op = "assume"
      BY <1>3, <1>6, <2>3, <3>4 DEF Effect, Passes
    <3> QED
      BY <1>12, <3>1, <3>2, <3>3, <3>4
  <2>5. KeepsFlags(s, u) /\ KeepsFlags(a, w)
    BY <1>3, <1>12, <2>3, FlagsChange
  <2>6. KeepsFlags(u, w) /\ ~u.reported
    BY <1>6, <2>5 DEF KeepsFlags
  <2>7. AheadAt(p, u, t) = n + 1
    BY <1>11, <1>12, <2>4
  <2> QED
    BY <1>10, <2>2, <2>3, <2>4, <2>6, <2>7
<1>13. CASE stmt.op = "assert"
  <2>1. AheadAt(p, s, t) = n /\ a.at[t] = n
    BY <1>8, <1>9, <1>13
  <2>2. PICK w : Does(p, Forced, a, t, w) /\ Effect(stmt, Forced, a, t, w)
    BY <1>6, <1>13, <2>1, ForcedStep
  <2>3. Asserts(stmt, Plain, s, t, u) /\ Asserts(stmt, Forced, a, t, w)
    BY <1>3, <1>13, <2>2, FlagsChange
  <2>4. w \in State
    <3> HIDE DEF stmt, n
    <3> QED
      BY <1>1, <1>6, <2>1, <2>2, Effects DEF stmt, n
  <2>5. CASE Holds(c, s)
    <3>1. KeepsFlags(u, w) /\ ~u.reported
      <4>1. /\ s.reported \in BOOLEAN /\ s.failed \in BOOLEAN
            /\ u.failed \in BOOLEAN /\ u.reported \in BOOLEAN
            /\ w.failed \in BOOLEAN /\ w.reported \in BOOLEAN
        BY <1>2, <1>3, <2>4 DEF State
      <4> QED
        BY <1>6, <1>7, <2>3, <2>5, <4>1 DEF Asserts, KeepsFlags
    <3>2. /\ Moves(a, t, w, 1) /\ Moves(s, t, u, 1) /\ u.seen = s.seen
          /\ w.seen = a.seen /\ w.holder = u.holder /\ w.store = u.store
          /\ u.holder \in {None, t}
      BY <1>6, <2>3 DEF Asserts
    <3>3. AheadAt(p, u, t) = n + 1
      BY <1>11, <1>13, <3>2
    <3> HIDE DEF stmt, n
    <3> QED
      BY <1>10, <2>1, <2>2, <3>1, <3>2, <3>3
  <2>6. CASE ~Holds(c, s)
    <3>1. u.reported
      BY <1>1, <2>3, <2>6 DEF Asserts
    <3>2. w.failed
      BY <1>1, <1>7, <2>3, <2>6 DEF Asserts
    <3>3. w \in ThreadSteps(p, Forced, a, t)
      BY <1>1, <1>6, <2>1, <2>2, ThreadStepsAre
    <3>4. w \in Reachable(p, Forced)
      <4>1. w \in After(p, Forced, a)
        BY <3>3 DEF After
      <4> QED
        BY <1>1, <4>1, ReachableFacts DEF a
    <3> QED
      BY <3>1, <3>2, <3>4, Completes
  <2> QED
    BY <2>5, <2>6
<1>14. CASE stmt.op = "if"
  <2>0. c \in Condition /\ stmt.skip \in Nat
    BY <1>14, StatementFacts
  <2>1. DOMAIN c # {} /\ c \in [DOMAIN c -> Values]
    BY <2>0 DEF Condition
  <2>2. s.holder = t \/ \A v, x \in DOMAIN c : v = x
    <3>1. s.holder = t <=> InSection(p[t], n)
      BY <1>2 DEF Holding
    <3> QED
      BY <1>14, <3>1, StructuredIf DEF StructuredText
  <2>3. ~u.reported /\ KeepsFlags(s, u)
    BY <1>3, <1>14, FlagsChange DEF KeepsFlags
  <2>4. u.holder = s.holder /\ u.store = s.store
    BY <1>1, <1>3, <1>14 DEF Effect, ReadsOne, Branches
  <2>5. ASSUME AheadAt(p, s, t) = n, AheadAt(p, u, t) = n + Branch(stmt, Holds(c, s))
        PROVE  Ahead(p, u) \in Reachable(p, Forced)
    <3>1. PICK w : Does(p, Forced, a, t, w) /\ Effect(stmt, Forced, a, t, w)
      BY <1>6, <1>8, <1>14, <2>5, ForcedStep
    <3>2. Passes(a, t, w, Branch(stmt, Holds(c, a)), a.holder)
      BY <1>1, <1>14, <3>1 DEF Effect
    <3> DEFINE k == Branch(stmt, Holds(c, s))
    <3>3. Branch(stmt, Holds(c, a)) = k
      BY <1>7 DEF Branch
    <3>4. AheadAt(p, u, t) = n + k
      BY <2>5
    <3>5. Passes(a, t, w, k, a.holder)
      BY <3>2, <3>3
    <3> HIDE DEF k, stmt, n
    <3>6. /\ Moves(a, t, w, k) /\ w.seen = a.seen /\ w.holder = u.holder
          /\ w.store = u.store /\ KeepsFlags(u, w) /\ u.holder \in {None, t}
      BY <1>6, <2>3, <2>4, <3>5 DEF Passes, KeepsFlags
    <3> QED
      BY <1>10, <2>5, <3>1, <3>4, <3>6
  <2>6. ASSUME AheadAt(p, u, t) = AheadAt(p, s, t)
        PROVE  Ahead(p, u) \in Reachable(p, Forced)
    <3>1. Ahead(p, u) = Ahead(p, s)
      BY <1>1, <1>2, <1>3, <1>4, <1>5, <2>3, <2>4, <2>6, AheadStays
    <3> QED
      BY <3>1
  <2>7. ASSUME \E v \in unread : ReadsOne(s, t, u, v)
        PROVE  Ahead(p, u) \in Reachable(p, Forced)
    <3>1. PICK v \in unread : ReadsOne(s, t, u, v)
      BY <2>7
    <3>2. u.at = s.at /\ u.seen = [s.seen EXCEPT ![t] = Known(s, t, v)]
      BY <3>1 DEF ReadsOne
    <3>3. CASE s.holder = t
      BY <2>4, <2>6, <3>2, <3>3 DEF AheadAt
    <3>4. CASE s.holder # t
      <4>1. DOMAIN s.seen[t] = {}
        BY <1>2, <2>2, <3>4 DEF Reading
      <4>2. AheadAt(p, s, t) = n
        BY <4>1 DEF AheadAt
      <4>3. u.seen[t] = Known(s, t, v)
        <5>1. DOMAIN s.seen = Threads
          BY <1>2 DEF State
        <5> QED
          BY <3>2, <5>1
      <4>4. DOMAIN u.seen[t] = {v} /\ u.seen[t][v] = s.store[v] /\ DOMAIN c = {v}
            /\ u.seen[t] = [x \in {v} |-> s.store[v]]
        <5>1. DOMAIN c = {v}
          BY <2>2, <3>4
        <5>2. Known(s, t, v) = [x \in {v} |-> s.store[v]]
          BY <4>1 DEF Known
        <5> QED
          BY <4>3, <5>1, <5>2
      <4>5. u.seen[t] = c <=> Holds(c, s)
        <5> HIDE DEF c
        <5>1. ASSUME Holds(c, s) PROVE u.seen[t] = c
          <6>1. c[v] = s.store[v]
            BY <4>4, <5>1 DEF Holds
          <6>2. c = [x \in {v} |-> c[x]]
            BY <2>1, <4>4
          <6> QED
            BY <4>4, <6>1, <6>2
        <5>2. ASSUME u.seen[t] = c PROVE Holds(c, s)
          BY <4>4, <5>2 DEF Holds
        <5> QED
          BY <5>1, <5>2
      <4>6. AheadAt(p, u, t) = n + Branch(stmt, Holds(c, s))
        <5>1. AheadAt(p, u, t) = n + Branch(stmt, u.seen[t] = c)
          BY <2>4, <3>2, <3>4, <4>4 DEF AheadAt
        <5> QED
          BY <4>5, <5>1 DEF Branch
      <4> QED
        BY <2>5, <4>2, <4>6
    <3> QED
      BY <3>3, <3>4
  <2>8. ASSUME unread = {}, Branches(stmt, s, t, u)
        PROVE  Ahead(p, u) \in Reachable(p, Forced)
    <3>1. Moves(s, t, u, Branch(stmt, s.seen[t] = c)) /\ u.seen = [s.seen EXCEPT ![t] = <<>>]
      BY <2>8 DEF Branches
    <3>2. DOMAIN s.seen[t] = DOMAIN c
      BY <1>2, <2>1, <2>8 DEF Reading
    <3>3. u.at[t] = n + Branch(stmt, s.seen[t] = c)
      BY <1>2, <3>1, MovesFacts
    <3>4. AheadAt(p, u, t) = u.at[t]
      <4>1. DOMAIN s.seen = Threads
        BY <1>2 DEF State
      <4>2. u.seen[t] = <<>>
        BY <3>1, <4>1
      <4>3. DOMAIN u.seen[t] = {}
        BY <4>2
      <4> QED
        BY <4>3 DEF AheadAt
    <3>5. CASE s.holder # t
      <4>1. AheadAt(p, s, t) = n + Branch(stmt, s.seen[t] = c)
        BY <2>1, <3>2, <3>5 DEF AheadAt
      <4> QED
        BY <2>6, <3>3, <3>4, <4>1
    <3>6. CASE s.holder = t
      <4>1. AheadAt(p, s, t) = n
        BY <3>6 DEF AheadAt
      <4>2. s.seen[t] = c <=> Holds(c, s)
        <5>1. \A v \in DOMAIN s.seen[t] : s.seen[t][v] = s.store[v]
          BY <1>2, <3>6 DEF UpToDate
        <5>2. s.seen[t] \in [DOMAIN c -> Values]
          BY <1>2, <3>2, SeenFacts
        <5> HIDE DEF c, Values
        <5>3. ASSUME Holds(c, s) PROVE s.seen[t] = c
          <6>1. \A v \in DOMAIN c : c[v] = s.seen[t][v]
            BY <3>2, <5>1, <5>3 DEF Holds
          <6> QED
            BY <2>1, <5>2, <6>1
        <5>4. ASSUME s.seen[t] = c PROVE Holds(c, s)
          BY <5>1, <5>4 DEF Holds
        <5> QED
          BY <5>3, <5>4
      <4>3. AheadAt(p, u, t) = n + Branch(stmt, Holds(c, s))
        BY <3>3, <3>4, <4>2 DEF Branch
      <4> QED
        BY <2>5, <4>1, <4>3
    <3> QED
      BY <3>5, <3>6
  <2>9. Ahead(p, u) \in Reachable(p, Forced)
    BY <1>1, <1>3, <1>14, <2>7, <2>8 DEF Effect
  <2> QED
    BY <2>3, <2>9
<1>15. stmt.op \in {"write", "assert", "assume", "if", "begin", "end"}
  BY StatementFacts
<1> QED
  BY <1>12, <1>13, <1>14, <1>15
-------------------------------------------------------------------------------
(* The specification.                                                      *)

\* Every execution with trace, until an assertion fails, is one without; every
\* execution without, until an assertion fails, is behind one with trace.
Inv ==
  /\ program \in Programs /\ mode \in Modes /\ Sane(program, mode, exec)
  /\ ~mode.noTrace =>
       /\ exec.reported => exec.failed
       /\ exec.failed => Fails(program, Plain)
       /\ ~exec.failed => exec.ended \/ exec \in Reachable(program, Plain)
  /\ mode = Plain =>
       IF exec.reported THEN Fails(program, Forced)
                        ELSE Ahead(program, exec) \in Reachable(program, Forced)

LEMMA InvInit ==
  ASSUME \A p \in Programs : SoundProgram(p), Init
  PROVE  Inv
<1>1. /\ program \in Programs /\ mode \in Modes /\ exec = Start
      /\ program \in Texts /\ Fits(program)
  BY ProgramsAssumption DEF Init, SoundProgram, Texts
<1>2. Plain \in Modes /\ Forced \in Modes
  BY DEF Plain, Forced, Modes
<1>3. Sane(program, mode, exec)
  BY <1>1, SaneStart
<1>4. ~Start.reported /\ ~Start.failed /\ Start \in Reachable(program, Plain)
      /\ Start \in Reachable(program, Forced)
  BY <1>1, <1>2, ReachableFacts DEF Start
<1>5. Ahead(program, Start) = Start
  <2>1. /\ Start.at = [t \in Threads |-> 1] /\ Start.seen = [t \in Threads |-> <<>>]
    BY DEF Start
  <2>2. \A t \in Threads : AheadAt(program, Start, t) = Start.at[t]
    <3>1. \A t \in Threads : DOMAIN Start.seen[t] = {}
      BY <2>1
    <3> QED
      BY <3>1 DEF AheadAt
  <2> DEFINE a == Ahead(program, Start)
  <2>3. Reading(program, mode, Start) /\ Start \in State
    BY <1>1, <1>3 DEF Sane
  <2>4. /\ a \in State /\ a.at = [t \in Threads |-> AheadAt(program, Start, t)]
        /\ a.seen = [t \in Threads |-> <<>>] /\ a.holder = Start.holder
        /\ a.store = Start.store /\ KeepsFlags(Start, a)
    BY <1>1, <2>3, AheadFacts
  <2>5. a.at = Start.at
    <3>1. a.at = [t \in Threads |-> Start.at[t]]
      BY <2>2, <2>4
    <3> QED
      BY <2>1, <3>1
  <2> HIDE DEF a
  <2>6. a = Start
    BY <2>1, <2>3, <2>4, <2>5, SameState DEF KeepsFlags
  <2> QED
    BY <2>6 DEF a
<1> QED
  BY <1>1, <1>3, <1>4, <1>5 DEF Inv

LEMMA InvThread ==
  ASSUME \A p \in Programs : SoundProgram(p), Inv, NEW t \in Threads, ThreadStep(t)
  PROVE  Inv'
<1> DEFINE u == exec'
<1>1. /\ program \in Texts /\ Fits(program) /\ StructuredText(program)
      /\ program' = program /\ mode' = mode /\ mode \in Modes /\ program \in Programs
      /\ u \in ThreadSteps(program, mode, exec, t)
  BY ProgramsAssumption DEF Inv, ThreadStep, SoundProgram, StructuredText, Texts
<1>2. Sane(program, mode, exec) /\ exec \in State /\ Reading(program, mode, exec)
  BY DEF Inv, Sane
<1>3. exec.at[t] \in 1..Len(program[t]) /\ exec.holder \in {None, t}
      /\ Does(program, mode, exec, t, u)
  BY <1>1, <1>2, ThreadStepsAre
<1>4. Sane(program, mode, u)
  BY <1>1, <1>2, <1>3, SaneThread
<1>5. u \in State /\ Effect(program[t][exec.at[t]], mode, exec, t, u)
  BY <1>1, <1>2, <1>3, Effects
<1> HIDE DEF u
<1>6. ASSUME ~mode.noTrace
      PROVE  /\ u.reported => u.failed
             /\ u.failed => Fails(program, Plain)
             /\ ~u.failed => u.ended \/ u \in Reachable(program, Plain)
  <2>1. u.reported = exec.reported /\ (exec.failed => u.failed)
    <3> DEFINE stmt == program[t][exec.at[t]]
    <3>1. u.reported \in BOOLEAN /\ exec.reported \in BOOLEAN
      BY <1>2, <1>5 DEF State
    <3>2. IF stmt.op = "assert" THEN Asserts(stmt, mode, exec, t, u) ELSE KeepsFlags(exec, u)
      BY <1>5, FlagsChange
    <3> HIDE DEF stmt
    <3>3. CASE stmt.op = "assert"
      BY <1>6, <3>1, <3>2, <3>3 DEF Asserts
    <3> QED
      BY <3>2, <3>3 DEF KeepsFlags
  <2>2. u.reported => u.failed
    BY <1>6, <2>1 DEF Inv
  <2>3. CASE exec.failed
    BY <1>6, <2>1, <2>2, <2>3 DEF Inv
  <2>4. CASE ~exec.failed
    <3>1. ~exec.ended
      <4>1. ~Finished(program, exec, t)
        BY <1>1, <1>3 DEF Finished, Texts
      <4> QED
        BY <1>2, <1>6, <4>1 DEF Sane, Over
    <3>2. exec \in Reachable(program, Plain)
      BY <1>6, <2>4, <3>1 DEF Inv
    <3>3. IF u.failed THEN Fails(program, Plain) ELSE u \in Reachable(program, Plain)
      BY <1>1, <1>2, <1>3, <1>6, <2>4, <3>2, PlainFollows
    <3> QED
      BY <2>2, <3>3
  <2> QED
    BY <2>3, <2>4
<1>7. ASSUME mode = Plain
      PROVE  IF u.reported THEN Fails(program, Forced)
                           ELSE Ahead(program, u) \in Reachable(program, Forced)
  <2>1. CASE exec.reported
    <3>1. u.reported
      BY <1>5, <2>1, FlagsChange DEF Asserts, KeepsFlags
    <3> QED
      BY <1>7, <2>1, <3>1 DEF Inv
  <2>2. CASE ~exec.reported
    <3>1. Ahead(program, exec) \in Reachable(program, Forced)
      BY <1>7, <2>2 DEF Inv
    <3>2. Sane(program, Plain, exec) /\ Does(program, Plain, exec, t, u)
      BY <1>2, <1>3, <1>7
    <3> QED
      BY <1>1, <1>3, <2>2, <3>1, <3>2, AheadFollows
  <2> QED
    BY <2>1, <2>2
<1> QED
  BY <1>1, <1>4, <1>6, <1>7 DEF Inv, u

LEMMA InvMain ==
  ASSUME \A p \in Programs : SoundProgram(p), Inv, MainStep
  PROVE  Inv'
<1> DEFINE u == exec'
<1>1. /\ program \in Texts /\ program' = program /\ mode' = mode /\ mode \in Modes
      /\ program \in Programs /\ u \in MainSteps(program, mode, exec)
      /\ Sane(program, mode, exec)
  BY ProgramsAssumption DEF Inv, MainStep, Texts
<1>2. /\ Sane(program, mode, u) /\ u.failed = exec.failed
      /\ mode.noTrace => mode.preventDeadlock
      /\ ~mode.noTrace /\ u.reported => exec.reported \/ exec.failed
  BY <1>1, SaneMain
<1>3. exec \in State
  BY <1>1 DEF Sane
<1>4. u.ended
  BY <1>1, <1>3 DEF MainSteps, State
<1>5. mode # Plain
  BY <1>2 DEF Plain
<1> HIDE DEF u
<1> QED
  BY <1>1, <1>2, <1>4, <1>5 DEF Inv, u

\* The invariant of the specification.
THEOREM InvHolds ==
  ASSUME \A p \in Programs : SoundProgram(p)
  PROVE  Spec => []Inv
<1>1. Init => Inv
  BY InvInit
<1>2. Inv /\ [Next]_vars => Inv'
  <2> SUFFICES ASSUME Inv, [Next]_vars PROVE Inv'
    OBVIOUS
  <2>1. CASE MainStep
    BY <2>1, InvMain
  <2>2. CASE \E t \in Threads : ThreadStep(t)
    BY <2>2, InvThread
  <2>3. CASE UNCHANGED vars
    BY <2>3 DEF vars, Inv
  <2> QED
    BY <2>1, <2>2, <2>3 DEF Next
<1> QED
  BY <1>1, <1>2, PTL DEF Spec

\* A program that fails verification has a trace if deadlock is prevented, and a
\* trace, in either mode, is of a program that fails verification: no verdict of
\* the checker contradicts another, whatever the program and its schedules are
\* (VerPrinter.scala:157-178, 296-327; Main.scala:505).  This is of programs whose
\* sections are closed, whose conditions outside of them read one variable, and
\* whose executions the checker sees whole.
THEOREM VerdictsMatch ==
  ASSUME \A p \in Programs : SoundProgram(p)
  PROVE  Spec => []VerdictsAgree
<1>1. Inv => VerdictsAgree
  <2> SUFFICES ASSUME Inv PROVE VerdictsAgree
    OBVIOUS
  <2>1. mode \in Modes
    BY DEF Inv
  <2>2. mode.noTrace /\ ~mode.preventDeadlock => mode = Plain
    BY <2>1 DEF Modes, Plain
  <2> QED
    BY <2>2 DEF Inv, VerdictsAgree, Plain, Forced
<1> QED
  BY <1>1, InvHolds, PTL

\* After a failure there is always something that can go on until main reports
\* it: no assumption, lock or condition stops a program in which deadlock is
\* prevented (src/README.md, Non-deadlock mode; VerPrinter.scala:157-178).
THEOREM FailureNeverStuck ==
  ASSUME \A p \in Programs : SoundProgram(p)
  PROVE  Spec => [](~mode.noTrace /\ mode.preventDeadlock /\ exec.failed /\ ~exec.reported
                      => After(program, mode, exec) # {})
<1>1. Inv => (~mode.noTrace /\ mode.preventDeadlock /\ exec.failed /\ ~exec.reported
                => After(program, mode, exec) # {})
  <2> SUFFICES ASSUME Inv, ~mode.noTrace, mode.preventDeadlock, exec.failed, ~exec.reported
               PROVE  After(program, mode, exec) # {}
    OBVIOUS
  <2>1. mode = Forced /\ program \in Texts /\ StructuredText(program)
    BY ProgramsAssumption DEF Inv, Modes, Forced, SoundProgram, StructuredText, Texts
  <2>2. Sane(program, Forced, exec)
    BY <2>1 DEF Inv
  <2> QED
    BY <2>1, <2>2, GoesOn
<1> QED
  BY <1>1, InvHolds, PTL

\* Every step leaves less to do, so that an execution ends, after no more steps
\* than the checker looks at: what "Fits" says of the start.
THEOREM ExecutionsEnd ==
  ASSUME \A p \in Programs : SoundProgram(p)
  PROVE  Spec => [][Rank(program, exec') < Rank(program, exec)
                      /\ Rank(program, exec) <= MaxExecution]_vars
<1>1. ASSUME Inv, Next
      PROVE  Rank(program, exec') < Rank(program, exec) /\ Rank(program, exec) <= MaxExecution
  <2>1. program \in Texts /\ Fits(program) /\ mode \in Modes /\ exec \in State
    BY <1>1, ProgramsAssumption DEF Inv, Sane, SoundProgram, Texts
  <2>2. exec' \in After(program, mode, exec)
    BY <1>1 DEF Next, MainStep, ThreadStep, After
  <2>3. Rank(program, exec') < Rank(program, exec)
    BY <2>1, <2>2, RankDecreases
  <2>4. /\ Rank(program, exec) \in Nat /\ Rank(program, Start) \in Nat
        /\ Rank(program, exec) <= Rank(program, Start) /\ Rank(program, Start) <= MaxExecution
    BY <2>1, RankFacts
  <2> QED
    BY <2>3, <2>4, ProgramsAssumption
<1>2. Inv /\ [Next]_vars => [Rank(program, exec') < Rank(program, exec)
                               /\ Rank(program, exec) <= MaxExecution]_vars
  BY <1>1
<1> QED
  BY <1>2, InvHolds, PTL DEF Spec
================================================================================
