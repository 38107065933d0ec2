--------------------------- MODULE Generalisation ---------------------------
(***************************************************************************)
(* The class Generalisation: which changes forbid a bad trace.  It keeps   *)
(* of the trace only the order that matters, black edges from a statement  *)
(* to a later one of another thread that interferes with it, next to the   *)
(* white ones of each thread, and looks for cycles that one red edge, from *)
(* a statement to an earlier one of its thread, would close: where the     *)
(* later statement runs first, the trace cannot happen.                    *)
(*                                                                         *)
(* A statement of the trace is known by its position.                      *)
(***************************************************************************)
EXTENDS Integers, Sequences, FiniteSets

CONSTANTS Threads,    \* all threads but main, which is filtered out
          Globals,    \* the global variables
          Traces      \* the bad traces: primitive statements, main left out

NoThread == 0         \* "no other thread yet": the number of main

Event == [thread: Threads, uses: SUBSET Globals, changes: SUBSET Globals]

ASSUME GeneralisationAssumption ==
  /\ Threads \subseteq Nat \ {NoThread}
  /\ Traces \subseteq Seq(Event) \ {<<>>}

VARIABLES
  trace, deadlock,     \* the trace; is its failing assertion in a deadlock thread
  phase,               \* where the constructor is
  head,                \* head1, the statement getSolutions looks at
  threadsReached,
  edges,               \* from the end of a block to where it is continued
  before, after,       \* the lists of generalise
  edgesGen,            \* the generalised edges
  black,               \* those left in the graph
  calls,               \* the calls of findCycles that are to be made
  cycles               \* what they have returned

scan == <<head, threadsReached, edges>>
lists == <<before, after>>
search == <<calls, cycles>>
genVars == <<trace, deadlock, phase, scan, lists, edgesGen, black, search>>

Positions == 1..Len(trace)
Thread(i) == trace[i].thread
Others(i) == {j \in Positions : Thread(j) # Thread(i)}

\* interfere, for two statements; a list interferes when one of it does
Interfere(i, j) ==
  \/ trace[i].changes \cap (trace[j].changes \cup trace[j].uses) # {}
  \/ trace[i].uses \cap trace[j].changes # {}

GenInit ==
  /\ trace \in Traces /\ deadlock \in BOOLEAN
  /\ phase = "scan"
  /\ head = 1 /\ threadsReached = {} /\ edges = <<>>
  /\ before = {} /\ after = {} /\ edgesGen = {}
  /\ black = {}
  /\ calls = {} /\ cycles = {}
-------------------------------------------------------------------------------
(* getSolutions: where is a thread interrupted, and where are the others   *)
(* continued?                                                              *)

StayInBlock ==
  /\ phase = "scan" /\ head < Len(trace) /\ Thread(head + 1) = Thread(head)
  /\ head' = head + 1
  /\ UNCHANGED <<trace, deadlock, phase, threadsReached, edges, lists, edgesGen, black, search>>

EndOfBlock ==
  /\ phase = "scan" /\ head < Len(trace) /\ Thread(head + 1) # Thread(head)
  /\ edges' = Append(edges, <<head, head + 1>>)
  /\ threadsReached' = {Thread(head), Thread(head + 1)}
  /\ phase' = "reach"
  /\ UNCHANGED <<trace, deadlock, head, lists, edgesGen, black, search>>

\* The first statement of a thread not reached yet, which is where the thread of
\* the trace changes.
ReachThread ==
  /\ phase = "reach"
  /\ \E i \in (head + 1)..Len(trace) :
       /\ Thread(i) \notin threadsReached
       /\ \A j \in (head + 1)..(i - 1) : Thread(j) \in threadsReached
       /\ edges' = Append(edges, <<head, i>>)
       /\ threadsReached' = threadsReached \cup {Thread(i)}
  /\ UNCHANGED <<trace, deadlock, phase, head, lists, edgesGen, black, search>>

AllReached ==
  /\ phase = "reach"
  /\ \A i \in (head + 1)..Len(trace) : Thread(i) \in threadsReached
  /\ head' = head + 1
  /\ phase' = "scan"
  /\ UNCHANGED <<trace, deadlock, threadsReached, edges, lists, edgesGen, black, search>>

EndOfTrace ==
  /\ phase = "scan" /\ head = Len(trace)
  /\ phase' = "edges"
  /\ UNCHANGED <<trace, deadlock, scan, lists, edgesGen, black, search>>
-------------------------------------------------------------------------------
(* generalise                                                              *)

\* What the first two loops leave of the lists: after begins with the first
\* statement that interferes with before, before with the last that interferes
\* with what is left of after.
Suffix(bs, as) ==
  {i \in as : \E j \in as : j <= i /\ \E b \in bs : Interfere(b, j)}
Prefix(bs, as) ==
  {i \in bs : \E j \in bs : i <= j /\ \E a \in as : Interfere(a, j)}

GeneraliseEdge ==
  /\ phase = "edges" /\ edges # <<>>
  /\ LET e1 == Head(edges)[1]
         e2 == Head(edges)[2]
         bs == {i \in Positions : Thread(i) = Thread(e1) /\ i <= e1}
         as == {i \in Positions : Thread(i) = Thread(e2) /\ i >= e2}
     IN  /\ after' = Suffix(bs, as)
         /\ before' = Prefix(bs, Suffix(bs, as))
  /\ edges' = Tail(edges)
  /\ phase' = "generalise"
  /\ UNCHANGED <<trace, deadlock, head, threadsReached, edgesGen, black, search>>

\* (Definitions named ..._Bug are variants with a bug the properties must catch;
\* nothing uses them here.)
\* the earlier statements go on, not the later ones
Nearer_Bug(m) == {i \in before : i < m}

\* the statements of before in front of the one that interferes (it begins with
\* the last of the trace)
Nearer(m) == {i \in before : i > m}

\* The first of after is compared with before, from its last statement on; those
\* behind the one that interferes are not looked at again.
CompareWithBefore ==
  /\ phase = "generalise"
  /\ \E i \in after :
       /\ \A j \in after : i <= j
       /\ \/ \E m \in before : /\ Interfere(i, m)
                               /\ \A j \in Nearer(m) : ~Interfere(i, j)
                               /\ edgesGen' = edgesGen \cup {<<m, i>>}
                               /\ before' = Nearer(m)
          \/ /\ \A m \in before : ~Interfere(i, m)
             /\ UNCHANGED <<edgesGen, before>>
       /\ after' = after \ {i}
  /\ UNCHANGED <<trace, deadlock, phase, scan, black, search>>

EdgeGeneralised ==
  /\ phase = "generalise" /\ after = {}
  /\ phase' = "edges"
  /\ UNCHANGED <<trace, deadlock, scan, lists, edgesGen, black, search>>
-------------------------------------------------------------------------------
(* The graph                                                               *)

White == {e \in Positions \X Positions :
            /\ e[1] < e[2] /\ Thread(e[1]) = Thread(e[2])
            /\ \A i \in (e[1] + 1)..(e[2] - 1) : Thread(i) # Thread(e[1])}

GenEndpoints == {e[1] : e \in edgesGen} \cup {e[2] : e \in edgesGen}

RedDotted == {e \in GenEndpoints \X GenEndpoints :
                e[2] < e[1] /\ Thread(e[1]) = Thread(e[2])}

\* hasSuccessor: the ways of at least one edge, through more and more nodes
Ways(rel) ==
  LET through[k \in 0..Len(trace)] ==
        IF k = 0 THEN rel
        ELSE through[k-1] \cup
               {e \in Positions \X Positions :
                  <<e[1], k>> \in through[k-1] /\ <<k, e[2]>> \in through[k-1]}
  IN  through[Len(trace)]

\* removeTransitive: an edge goes when there is another way.
Reduced(es) == {e \in es : e \notin Ways((es \cup White) \ {e})}

\* The first statement of every thread is searched from, all of them in parallel.
Starts == {i \in Positions : \A j \in 1..(i - 1) : Thread(j) # Thread(i)}

Call(path, node, redUsed, this, other) ==
  [path |-> path, node |-> node, redUsed |-> redUsed, this |-> this, other |-> other]

BuildGraph ==
  /\ phase = "edges" /\ edges = <<>>
  /\ black' = Reduced(edgesGen)
  /\ calls' = {Call(<<>>, s, FALSE, Thread(s), NoThread) : s \in Starts}
  /\ phase' = "cycles"
  /\ UNCHANGED <<trace, deadlock, scan, lists, edgesGen, cycles>>
-------------------------------------------------------------------------------
(* findCycles                                                              *)

\* the thread searched from is taken for another one
NewOther_Bug(c) ==
  IF ~deadlock /\ c.other = NoThread THEN Thread(c.node) ELSE c.other

NewOther(c) ==
  IF ~deadlock /\ Thread(c.node) \notin {c.this, c.other} /\ c.other = NoThread
  THEN Thread(c.node) ELSE c.other

\* A third thread is not entered, unless the trace shows a deadlock.
ThirdThread(c) ==
  ~deadlock /\ Thread(c.node) \notin {c.this, c.other} /\ c.other # NoThread

OnPath(c) == \E i \in DOMAIN c.path : c.path[i] = c.node

CycleOf(c) ==
  LET first == CHOOSE i \in DOMAIN c.path : c.path[i] = c.node
  IN  Append(SubSeq(c.path, first, Len(c.path)), c.node)

GoodCycle(cycle) == \E i \in DOMAIN cycle : Thread(cycle[i]) # Thread(cycle[1])

\* whether a red edge was used is not looked at
Further_Bug(c) ==
  {Call(Append(c.path, c.node), e[2], e \in RedDotted, c.this, NewOther(c)) :
     e \in {e \in black \cup White \cup RedDotted : e[1] = c.node}}

\* A way uses one red edge at most.
Further(c) ==
  {Call(Append(c.path, c.node), e[2], c.redUsed \/ e \in RedDotted, c.this, NewOther(c)) :
     e \in {e \in black \cup White \cup RedDotted :
              e[1] = c.node /\ ~(c.redUsed /\ e \in RedDotted)}}

\* All calls that are to be made are made at once: their results are only united.
FindCycles ==
  /\ phase = "cycles" /\ calls # {}
  /\ LET entered == {c \in calls : ~ThirdThread(c)}
         closed == {c \in entered : OnPath(c)}
     IN  /\ cycles' = cycles \cup {k \in {CycleOf(c) : c \in closed} : GoodCycle(k)}
         /\ calls' = UNION {Further(c) : c \in entered \ closed}
  /\ UNCHANGED <<trace, deadlock, phase, scan, lists, edgesGen, black>>

GenNext ==
  \/ StayInBlock \/ EndOfBlock \/ ReachThread \/ AllReached \/ EndOfTrace
  \/ GeneraliseEdge \/ CompareWithBefore \/ EdgeGeneralised
  \/ BuildGraph \/ FindCycles

GenSpec == GenInit /\ [][GenNext]_genVars
-------------------------------------------------------------------------------
EdgesOf(cycle) == {<<cycle[i], cycle[i+1]>> : i \in 1..(Len(cycle) - 1)}

\* the red edges of the solutions
Swaps == UNION {EdgesOf(c) \cap RedDotted : c \in cycles}

Solved == phase = "cycles" /\ calls = {}

\* The variables have their types.
GenTypeOK ==
  /\ trace \in Traces /\ deadlock \in BOOLEAN
  /\ phase \in {"scan", "reach", "edges", "generalise", "cycles"}
  /\ head \in Positions /\ (phase = "reach" => head + 1 \in Positions)
  /\ threadsReached \subseteq Threads
  /\ edges \in Seq(Positions \X Positions)
  /\ before \subseteq Positions /\ after \subseteq Positions
  /\ edgesGen \subseteq Positions \X Positions /\ black \subseteq edgesGen
  /\ calls \subseteq [path: Seq(Positions), node: Positions, redUsed: BOOLEAN,
                      this: Threads, other: Threads \cup {NoThread}]
  /\ cycles \subseteq Seq(Positions)

\* an edge e between i and j, in the orders of their threads
Between(e, i, j) ==
  /\ i <= e[1] /\ Thread(i) = Thread(e[1])
  /\ e[2] <= j /\ Thread(j) = Thread(e[2])

\* Two statements of different threads that interfere are kept in the order of
\* the trace: between the two, in the orders of their threads, lies an edge.  And
\* nothing else is ordered.
ConflictsCovered ==
  phase \in {"edges", "cycles"} /\ edges = <<>> =>
    /\ \A i, j \in Positions :
         i < j /\ Thread(i) # Thread(j) /\ Interfere(i, j) =>
           \E e \in edgesGen : Between(e, i, j)
    /\ \A e \in edgesGen : e[1] < e[2] /\ Interfere(e[1], e[2])

\* Every solution swaps two statements of one thread (Solution.metric and
\* StatementOrder.integrate take the first red edge for the only one), because
\* they lie around one of another thread; no solution but of a deadlock needs a
\* third.
CyclesAreSwaps ==
  \A c \in cycles :
    /\ Cardinality(EdgesOf(c) \cap RedDotted) = 1
    /\ c[1] = c[Len(c)]
    /\ LET threads == {Thread(c[i]) : i \in DOMAIN c}
       IN  IF deadlock THEN Cardinality(threads) >= 2 ELSE Cardinality(threads) = 2

\* The order of the trace that interference and the threads give.
Dependences(threads) ==
  {e \in Positions \X Positions :
     /\ e[1] < e[2] /\ {Thread(e[1]), Thread(e[2])} \subseteq threads
     /\ Thread(e[1]) = Thread(e[2]) \/ Interfere(e[1], e[2])}

\* Swapping two statements forbids the trace when one of another thread has to
\* lie between them.
Forbids(i, j) ==
  /\ i < j /\ Thread(i) = Thread(j)
  /\ \E k \in Others(i) :
       LET before_ == Ways(Dependences(IF deadlock THEN Threads ELSE {Thread(i), Thread(k)}))
       IN  <<i, k>> \in before_ /\ <<k, j>> \in before_

Offered(i, j) ==
  \E r \in Swaps : i <= r[2] /\ r[1] <= j /\ Thread(r[1]) = Thread(i)

\* Every such swap is offered, or a narrower one: for two threads and deadlocks.
SwapsFound ==
  Solved /\ (deadlock \/ Cardinality({Thread(i) : i \in Positions}) <= 2) =>
    \A i, j \in Positions : Forbids(i, j) => Offered(i, j)

===============================================================================
