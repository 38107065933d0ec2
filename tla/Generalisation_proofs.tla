------------------------ MODULE Generalisation_proofs ------------------------
(***************************************************************************)
(* Theorems about Generalisation: for every trace, the edges it computes   *)
(* from the interruptions of the threads order all that interferes, and    *)
(* nothing else; and every cycle it keeps swaps two statements of a thread *)
(* around one of another.                                                  *)
(***************************************************************************)
EXTENDS Generalisation, FiniteSetTheorems, SequenceTheorems, WellFoundedInduction, TLAPS

EdgeSet(es) == {es[k] : k \in 1..Len(es)}

\* An edge appended to the list of edges is added to its elements.
LEMMA AppendedEdge ==
  ASSUME NEW S, NEW es \in Seq(S), NEW e \in S
  PROVE  EdgeSet(Append(es, e)) = EdgeSet(es) \cup {e}
<1> DEFINE new == Append(es, e)
<1>1. /\ Len(new) = Len(es) + 1 /\ new[Len(es) + 1] = e
      /\ \A k \in 1..Len(es) : new[k] = es[k]
  OBVIOUS
<1>2. Len(es) \in Nat
  OBVIOUS
<1> HIDE DEF new
<1> QED
  BY <1>1, <1>2 DEF EdgeSet

\* What is not the head of a list of edges is in its tail.
LEMMA HeadAndTail ==
  ASSUME NEW S, NEW es \in Seq(S), es # <<>>
  PROVE  /\ Head(es) \in EdgeSet(es) /\ Head(es) \in S
         /\ EdgeSet(es) = {Head(es)} \cup EdgeSet(Tail(es))
<1> DEFINE rest == Tail(es)
<1>1. Len(es) \in Nat \ {0} /\ es[1] = Head(es) /\ es[1] \in S
  OBVIOUS
<1>2. Len(rest) = Len(es) - 1 /\ \A k \in 1..Len(rest) : rest[k] = es[k + 1]
  OBVIOUS
<1>3. \A k \in 2..Len(es) : k - 1 \in 1..Len(rest) /\ rest[k - 1] = es[k]
  BY <1>1, <1>2
<1> HIDE DEF rest
<1>4. EdgeSet(es) \subseteq {Head(es)} \cup EdgeSet(rest)
  BY <1>1, <1>3 DEF EdgeSet
<1>5. {Head(es)} \cup EdgeSet(rest) \subseteq EdgeSet(es)
  BY <1>1, <1>2 DEF EdgeSet
<1> QED
  BY <1>1, <1>4, <1>5 DEF rest

\* To interfere is symmetric.
LEMMA InterfereSymmetric ==
  ASSUME NEW i, NEW j, Interfere(i, j)
  PROVE  Interfere(j, i)
BY DEF Interfere

\* The statements of a trace belong to threads; a trace has a first one.
LEMMA TraceType ==
  ASSUME trace \in Traces
  PROVE  /\ trace \in Seq(Event) /\ Len(trace) \in Nat /\ 1 \in Positions
         /\ Positions \subseteq Nat
         /\ \A i \in Positions : Thread(i) \in Threads
<1>1. trace \in Seq(Event) /\ trace # <<>>
  BY GeneralisationAssumption
<1>2. Len(trace) \in Nat /\ Len(trace) >= 1
  BY <1>1
<1>3. ASSUME NEW i \in Positions PROVE Thread(i) \in Threads
  <2>1. trace[i] \in Event
    BY <1>1, <1>3 DEF Positions
  <2> QED
    BY <2>1 DEF Thread, Event
<1> QED
  BY <1>1, <1>2, <1>3 DEF Positions
-------------------------------------------------------------------------------
(* Types.                                                                  *)

CallTypes == [path: Seq(Positions), node: Positions, redUsed: BOOLEAN,
              this: Threads, other: Threads \cup {NoThread}]

\* A call of findCycles with parameters of the right types.
LEMMA CallType ==
  ASSUME NEW p \in Seq(Positions), NEW n \in Positions, NEW r \in BOOLEAN,
         NEW t \in Threads, NEW o \in Threads \cup {NoThread}
  PROVE  Call(p, n, r, t, o) \in CallTypes
BY DEF Call, CallTypes

\* The calls that findCycles makes have the types of its parameters.
LEMMA FurtherType ==
  ASSUME GenTypeOK, NEW c \in calls
  PROVE  Further(c) \subseteq CallTypes
<1>1. /\ c.path \in Seq(Positions) /\ c.node \in Positions /\ c.redUsed \in BOOLEAN
      /\ c.this \in Threads /\ c.other \in Threads \cup {NoThread}
  BY DEF GenTypeOK
<1>2. Append(c.path, c.node) \in Seq(Positions)
  BY <1>1
<1>3. NewOther(c) \in Threads \cup {NoThread}
  <2>1. Thread(c.node) \in Threads
    BY <1>1, TraceType DEF GenTypeOK
  <2> QED
    BY <1>1, <2>1 DEF NewOther
<1>4. ASSUME NEW e \in black \cup White \cup RedDotted
      PROVE  e[2] \in Positions
  BY DEF GenTypeOK, White, RedDotted, GenEndpoints
<1> QED
  <2>1. ASSUME NEW d \in Further(c) PROVE d \in CallTypes
    <3>1. PICK e \in black \cup White \cup RedDotted :
            d = Call(Append(c.path, c.node), e[2], c.redUsed \/ e \in RedDotted, c.this, NewOther(c))
      BY DEF Further
    <3>2. (c.redUsed \/ e \in RedDotted) \in BOOLEAN
      OBVIOUS
    <3> QED
      BY <1>1, <1>2, <1>3, <1>4, <3>1, <3>2, CallType
  <2> QED
    BY <2>1

\* A cycle is a sequence of statements of the trace.
LEMMA CycleType ==
  ASSUME GenTypeOK, NEW c \in calls, OnPath(c)
  PROVE  CycleOf(c) \in Seq(Positions)
<1> DEFINE first == CHOOSE i \in DOMAIN c.path : c.path[i] = c.node
<1>1. c.path \in Seq(Positions) /\ c.node \in Positions
  BY DEF GenTypeOK
<1>2. first \in DOMAIN c.path
  BY DEF OnPath
<1>3. first \in 1..Len(c.path)
  BY <1>1, <1>2
<1> HIDE DEF first
<1>4. SubSeq(c.path, first, Len(c.path)) \in Seq(Positions)
  BY <1>1, <1>3
<1> QED
  BY <1>1, <1>4 DEF CycleOf, first

\* Generalisation keeps its types, for every set of traces.
THEOREM GenTypeCorrect == GenSpec => []GenTypeOK
<1>1. GenInit => GenTypeOK
  <2> SUFFICES ASSUME GenInit PROVE GenTypeOK
    OBVIOUS
  <2>1. 1 \in Positions
    BY TraceType DEF GenInit
  <2> QED
    BY <2>1 DEF GenInit, GenTypeOK
<1>2. GenTypeOK /\ [GenNext]_genVars => GenTypeOK'
  <2> SUFFICES ASSUME GenTypeOK, [GenNext]_genVars PROVE GenTypeOK'
    OBVIOUS
  <2>0. trace' = trace /\ Positions' = Positions
    BY DEF GenNext, genVars, Positions, StayInBlock, EndOfBlock, ReachThread, AllReached,
           EndOfTrace, GeneraliseEdge, CompareWithBefore, EdgeGeneralised, BuildGraph, FindCycles
  <2>a. /\ Len(trace) \in Nat /\ 1 \in Positions /\ Positions = 1..Len(trace)
        /\ \A i \in Positions : Thread(i) \in Threads
    BY TraceType DEF GenTypeOK, Positions
  <2>1. CASE StayInBlock
    BY <2>0, <2>a, <2>1 DEF GenTypeOK, StayInBlock, lists, search
  <2>2. CASE EndOfBlock
    <3>1. head + 1 \in Positions /\ <<head, head + 1>> \in Positions \X Positions
      BY <2>a, <2>2 DEF GenTypeOK, EndOfBlock
    <3> QED
      BY <2>0, <2>a, <2>2, <3>1 DEF GenTypeOK, EndOfBlock, lists, search
  <2>3. CASE ReachThread
    <3>1. PICK i \in (head + 1)..Len(trace) :
            /\ edges' = Append(edges, <<head, i>>)
            /\ threadsReached' = threadsReached \cup {Thread(i)}
      BY <2>3 DEF ReachThread
    <3>2. i \in Positions
      BY <2>a DEF GenTypeOK
    <3> QED
      BY <2>0, <2>a, <2>3, <3>1, <3>2 DEF GenTypeOK, ReachThread, lists, search
  <2>4. CASE AllReached
    <3>1. head + 1 \in Positions
      BY <2>4 DEF GenTypeOK, AllReached
    <3> QED
      BY <2>0, <2>4, <3>1 DEF GenTypeOK, AllReached, lists, search
  <2>5. CASE EndOfTrace
    BY <2>0, <2>5 DEF GenTypeOK, EndOfTrace, scan, lists, search
  <2>6. CASE GeneraliseEdge
    <3>1. /\ Tail(edges) \in Seq(Positions \X Positions)
          /\ before' \subseteq Positions /\ after' \subseteq Positions
      BY <2>6 DEF GenTypeOK, GeneraliseEdge, Suffix, Prefix
    <3> QED
      BY <2>0, <2>6, <3>1 DEF GenTypeOK, GeneraliseEdge, search
  <2>7. CASE CompareWithBefore
    <3>1. /\ edgesGen \subseteq edgesGen' /\ edgesGen' \subseteq Positions \X Positions
          /\ before' \subseteq Positions /\ after' \subseteq Positions
      BY <2>7 DEF GenTypeOK, CompareWithBefore, Nearer
    <3> QED
      BY <2>0, <2>7, <3>1 DEF GenTypeOK, CompareWithBefore, scan, search
  <2>8. CASE EdgeGeneralised
    BY <2>0, <2>8 DEF GenTypeOK, EdgeGeneralised, scan, lists, search
  <2>9. CASE BuildGraph
    <3>1. black' \subseteq edgesGen
      BY <2>9 DEF BuildGraph, Reduced
    <3>2. calls' \subseteq CallTypes
      <4>1. Starts \subseteq Positions /\ <<>> \in Seq(Positions)
        BY DEF Starts
      <4> QED
        <5>1. ASSUME NEW i \in Starts PROVE Call(<<>>, i, FALSE, Thread(i), NoThread) \in CallTypes
          BY <2>a, <4>1, CallType
        <5> QED
          BY <2>9, <5>1 DEF BuildGraph
    <3> QED
      BY <2>0, <2>9, <3>1, <3>2 DEF GenTypeOK, CallTypes, BuildGraph, scan, lists
  <2>10. CASE FindCycles
    <3>1. calls' \subseteq UNION {Further(c) : c \in calls}
      BY <2>10 DEF FindCycles
    <3>2. cycles' \subseteq cycles \cup {CycleOf(c) : c \in {d \in calls : OnPath(d)}}
      BY <2>10 DEF FindCycles
    <3>3. cycles' \subseteq Seq(Positions)
      BY <3>2, CycleType DEF GenTypeOK
    <3>4. calls' \subseteq CallTypes
      BY <3>1, FurtherType
    <3> QED
      BY <2>0, <2>10, <3>3, <3>4 DEF GenTypeOK, CallTypes, FindCycles, scan, lists
  <2>11. CASE UNCHANGED genVars
    BY <2>0, <2>11 DEF GenTypeOK, genVars, scan, lists, search
  <2> QED
    BY <2>1, <2>2, <2>3, <2>4, <2>5, <2>6, <2>7, <2>8, <2>9, <2>10, <2>11 DEF GenNext
<1> QED
  BY <1>1, <1>2, PTL DEF GenSpec
-------------------------------------------------------------------------------
(* The inductive invariant                                                 *)

Apart(i, j) == i < j /\ Thread(i) # Thread(j)

\* a pair of statements one of the edges still to be generalised is between
Joined(i, j) == \E e \in EdgeSet(edges) : Between(e, i, j)

\* a pair of statements a generalised edge is between
Covered(i, j) == \E e \in edgesGen : Between(e, i, j)

\* nothing interrupts the thread from i on
SameBlock(i) == \A k \in i..head : Thread(k) = Thread(head)

\* Behind a block that is finished, every later statement of another thread is
\* joined with it.
ScanInv ==
  phase \in {"scan", "reach"} =>
    \A i, j \in Positions : Apart(i, j) /\ i <= head => SameBlock(i) \/ Joined(i, j)

\* The threads reached have an edge from the end of the block to their next
\* statement.
ReachInv ==
  phase = "reach" =>
    /\ Thread(head + 1) # Thread(head) /\ Thread(head) \in threadsReached
    /\ \A j \in Positions :
         j > head /\ Thread(j) \in threadsReached \ {Thread(head)} =>
           \E e \in EdgeSet(edges) : e[1] = head /\ e[2] <= j /\ Thread(e[2]) = Thread(j)

EdgesForward == \A e \in EdgeSet(edges) : e[1] < e[2]

\* before lies before after; each is of one thread
ListsInv ==
  phase = "generalise" =>
    /\ \A b \in before : \A a \in after : b < a
    /\ \A b, c \in before : Thread(b) = Thread(c)
    /\ \A a, c \in after : Thread(a) = Thread(c)

\* Two statements that interfere are covered, or will be: by an edge that still
\* has to be generalised, or by what is left of the lists.
CoverInv ==
  phase \in {"edges", "generalise", "cycles"} =>
    \A i, j \in Positions :
      Apart(i, j) /\ Interfere(i, j) =>
        \/ Covered(i, j) \/ Joined(i, j)
        \/ phase = "generalise" /\ i \in before /\ j \in after

OnlyConflicts == \A e \in edgesGen : e[1] < e[2] /\ Interfere(e[1], e[2])

GenInv ==
  /\ GenTypeOK /\ ScanInv /\ ReachInv /\ EdgesForward /\ ListsInv /\ CoverInv
  /\ OnlyConflicts

\* The trace is fixed.
LEMMA TraceFixed ==
  ASSUME [GenNext]_genVars PROVE trace' = trace
BY DEF GenNext, genVars, StayInBlock, EndOfBlock, ReachThread, AllReached, EndOfTrace,
       GeneraliseEdge, CompareWithBefore, EdgeGeneralised, BuildGraph, FindCycles

\* What a step that looks for the ends of blocks keeps.
LEMMA ScanStep ==
  ASSUME GenInv, StayInBlock \/ EndOfBlock \/ ReachThread \/ AllReached
  PROVE  (ScanInv /\ ReachInv /\ EdgesForward)'
<1>0. /\ trace' = trace /\ Positions = 1..Len(trace) /\ Len(trace) \in Nat
      /\ head \in Positions /\ edges \in Seq(Positions \X Positions)
      /\ phase \in {"scan", "reach"}
  BY TraceType DEF GenInv, GenTypeOK, Positions, StayInBlock, EndOfBlock, ReachThread, AllReached
<1>1. CASE StayInBlock
  <2>1. ASSUME NEW i \in Positions, SameBlock(i), i <= head PROVE SameBlock(i)'
    BY <1>0, <1>1, <2>1 DEF SameBlock, StayInBlock, Thread
  <2>2. ASSUME NEW i \in Positions, i = head + 1 PROVE SameBlock(i)'
    BY <1>0, <1>1, <2>2 DEF SameBlock, StayInBlock, Thread
  <2>3. \A i, j \in Positions : Joined(i, j)' = Joined(i, j)
    BY <1>0, <1>1 DEF Joined, StayInBlock, Between, Thread
  <2>4. ScanInv'
    <3> SUFFICES ASSUME NEW i \in Positions, NEW j \in Positions, Apart(i, j), i <= head + 1
                 PROVE  SameBlock(i)' \/ Joined(i, j)'
      BY <1>0, <1>1 DEF ScanInv, StayInBlock, Apart, Thread, Positions
    <3>1. CASE i = head + 1
      BY <2>2, <3>1
    <3>2. CASE i <= head
      BY <1>0, <2>1, <2>3, <3>2 DEF GenInv, ScanInv
    <3> QED
      BY <1>0, <3>1, <3>2
  <2> QED
    BY <1>0, <1>1, <2>4 DEF GenInv, ReachInv, EdgesForward, StayInBlock
<1>2. CASE EndOfBlock
  <2>1. head + 1 \in Positions /\ EdgeSet(edges') = EdgeSet(edges) \cup {<<head, head + 1>>}
    <3>1. head + 1 \in Positions
      BY <1>0, <1>2 DEF EndOfBlock
    <3>2. edges' = Append(edges, <<head, head + 1>>) /\ <<head, head + 1>> \in Positions \X Positions
      BY <1>0, <1>2, <3>1 DEF EndOfBlock
    <3> QED
      BY <1>0, <3>1, <3>2, AppendedEdge
  <2>2. ScanInv'
    <3>1. \A i, j \in Positions : Joined(i, j) => Joined(i, j)'
      BY <1>0, <2>1 DEF Joined, Between, Thread
    <3>2. \A i \in Positions : SameBlock(i) = SameBlock(i)'
      BY <1>0, <1>2 DEF SameBlock, EndOfBlock, Thread
    <3> QED
      BY <1>0, <1>2, <3>1, <3>2 DEF GenInv, ScanInv, EndOfBlock, Apart, Thread, Positions
  <2>3. ReachInv'
    <3>1. /\ Thread(head + 1) # Thread(head) /\ head' = head
          /\ threadsReached' = {Thread(head), Thread(head + 1)}
      BY <1>2 DEF EndOfBlock
    <3>2. ASSUME NEW j \in Positions, j > head, Thread(j) \in threadsReached' \ {Thread(head)}
          PROVE  \E e \in EdgeSet(edges') : e[1] = head /\ e[2] <= j /\ Thread(e[2]) = Thread(j)
      <4>1. Thread(head + 1) = Thread(j) /\ head + 1 <= j
        BY <1>0, <3>1, <3>2
      <4>2. <<head, head + 1>> \in EdgeSet(edges')
        BY <2>1
      <4> QED
        BY <4>1, <4>2
    <3> QED
      BY <1>0, <3>1, <3>2 DEF ReachInv, Thread, Positions
  <2>4. EdgesForward'
    BY <1>0, <2>1 DEF GenInv, EdgesForward
  <2> QED
    BY <2>2, <2>3, <2>4
<1>3. CASE ReachThread
  <2>0. PICK n \in (head + 1)..Len(trace) :
          /\ Thread(n) \notin threadsReached
          /\ \A j \in (head + 1)..(n - 1) : Thread(j) \in threadsReached
          /\ edges' = Append(edges, <<head, n>>)
          /\ threadsReached' = threadsReached \cup {Thread(n)}
    BY <1>3 DEF ReachThread
  <2>1. n \in Positions /\ EdgeSet(edges') = EdgeSet(edges) \cup {<<head, n>>}
    <3>1. n \in Positions
      BY <1>0
    <3>2. head \in Positions /\ <<head, n>> \in Positions \X Positions
      BY <1>0, <3>1
    <3>3. \A e \in Positions \X Positions : EdgeSet(Append(edges, e)) = EdgeSet(edges) \cup {e}
      <4>1. edges \in Seq(Positions \X Positions)
        BY <1>0
      <4> QED
        BY <4>1, AppendedEdge
    <3>4. EdgeSet(Append(edges, <<head, n>>)) = EdgeSet(edges) \cup {<<head, n>>}
      BY <3>2, <3>3, Zenon
    <3> QED
      BY <2>0, <3>1, <3>4
  <2>2. ScanInv'
    <3>1. \A i, j \in Positions : Joined(i, j) => Joined(i, j)'
      BY <1>0, <2>1 DEF Joined, Between, Thread
    <3>2. \A i \in Positions : SameBlock(i) = SameBlock(i)'
      BY <1>0, <1>3 DEF SameBlock, ReachThread, Thread
    <3> QED
      BY <1>0, <1>3, <3>1, <3>2 DEF GenInv, ScanInv, ReachThread, Apart, Thread, Positions
  <2>3. ReachInv'
    <3>1. ASSUME NEW j \in Positions, j > head, Thread(j) \in threadsReached' \ {Thread(head)}
          PROVE  \E e \in EdgeSet(edges') : e[1] = head /\ e[2] <= j /\ Thread(e[2]) = Thread(j)
      <4>1. CASE Thread(j) \in threadsReached
        BY <1>3, <2>1, <3>1, <4>1 DEF GenInv, ReachInv, ReachThread
      <4>2. CASE Thread(j) = Thread(n)
        <5>1. n <= j
          BY <1>0, <2>0, <3>1, <4>2
        <5>2. <<head, n>> \in EdgeSet(edges')
          BY <2>1
        <5> QED
          BY <4>2, <5>1, <5>2
      <4> QED
        BY <2>0, <3>1, <4>1, <4>2
    <3> QED
      <4>1. /\ Thread(head + 1) # Thread(head) /\ Thread(head) \in threadsReached'
            /\ head' = head
        BY <1>3, <2>0 DEF GenInv, ReachInv, ReachThread
      <4> QED
        BY <1>0, <3>1, <4>1 DEF ReachInv, Thread, Positions
  <2>4. EdgesForward'
    BY <1>0, <2>1 DEF GenInv, EdgesForward
  <2> QED
    BY <2>2, <2>3, <2>4
<1>4. CASE AllReached
  <2>1. head' = head + 1 /\ head + 1 \in Positions /\ edges' = edges /\ phase' = "scan"
        /\ phase = "reach"
    BY <1>4 DEF AllReached, GenInv, GenTypeOK
  <2>2. \A i, j \in Positions : Joined(i, j)' = Joined(i, j)
    BY <1>0, <2>1 DEF Joined, Between, Thread
  <2>3. ScanInv'
    <3> SUFFICES ASSUME NEW i \in Positions, NEW j \in Positions, Apart(i, j), i <= head + 1
                 PROVE  SameBlock(i)' \/ Joined(i, j)'
      BY <1>0, <2>1 DEF ScanInv, Apart, Thread, Positions
    <3>1. CASE i = head + 1
      BY <1>0, <2>1, <3>1 DEF SameBlock, Thread
    <3>2. CASE i <= head /\ SameBlock(i)
      <4>1. Thread(i) = Thread(head)
        BY <1>0, <3>2 DEF SameBlock
      <4>2. j > head /\ Thread(j) # Thread(head)
        BY <1>0, <3>2, <4>1 DEF SameBlock, Apart
      <4>3. Thread(j) \in threadsReached
        BY <1>0, <1>4, <4>2 DEF AllReached
      <4>4. PICK e \in EdgeSet(edges) : e[1] = head /\ e[2] <= j /\ Thread(e[2]) = Thread(j)
        BY <2>1, <4>2, <4>3 DEF GenInv, ReachInv
      <4>5. Between(e, i, j)
        BY <3>2, <4>1, <4>4 DEF Between
      <4> QED
        BY <2>2, <4>5 DEF Joined
    <3>3. CASE i <= head /\ Joined(i, j)
      BY <2>2, <3>3
    <3> QED
      BY <1>0, <3>1, <3>2, <3>3 DEF GenInv, ScanInv
  <2> QED
    BY <2>1, <2>3 DEF GenInv, ReachInv, EdgesForward
<1> QED
  BY <1>1, <1>2, <1>3, <1>4

\* At the end of the trace everything that is apart is joined.
LEMMA EndStep ==
  ASSUME GenInv, EndOfTrace
  PROVE  CoverInv'
<1>0. /\ trace' = trace /\ Positions = 1..Len(trace) /\ Len(trace) \in Nat
      /\ head = Len(trace) /\ edges' = edges /\ edgesGen' = edgesGen /\ phase = "scan"
  BY TraceType DEF GenInv, GenTypeOK, Positions, EndOfTrace, scan
<1>1. ASSUME NEW i \in Positions, NEW j \in Positions, Apart(i, j) PROVE Joined(i, j)
  <2>1. ~SameBlock(i)
    BY <1>0, <1>1 DEF SameBlock, Apart
  <2> QED
    BY <1>0, <1>1, <2>1 DEF GenInv, ScanInv
<1>2. \A i, j \in Positions : Joined(i, j)' = Joined(i, j)
  BY <1>0 DEF Joined, Between, Thread
<1> QED
  BY <1>0, <1>1, <1>2 DEF CoverInv, Apart, Thread, Positions, Interfere

\* What was joined by the edge that is taken up is in the lists.
LEMMA GeneraliseStep ==
  ASSUME GenInv, GeneraliseEdge
  PROVE  (EdgesForward /\ ListsInv /\ CoverInv)'
<1> DEFINE e1 == Head(edges)[1]
           e2 == Head(edges)[2]
           bs == {i \in Positions : Thread(i) = Thread(e1) /\ i <= e1}
           as == {i \in Positions : Thread(i) = Thread(e2) /\ i >= e2}
<1>0. /\ trace' = trace /\ Positions \subseteq Nat
      /\ edges \in Seq(Positions \X Positions) /\ edges # <<>>
      /\ edges' = Tail(edges) /\ edgesGen' = edgesGen
      /\ phase = "edges" /\ phase' = "generalise"
      /\ after' = Suffix(bs, as) /\ before' = Prefix(bs, Suffix(bs, as))
  BY TraceType DEF GenInv, GenTypeOK, GeneraliseEdge
<1>1. /\ Head(edges) \in EdgeSet(edges) /\ Head(edges) \in Positions \X Positions
      /\ EdgeSet(edges) = {Head(edges)} \cup EdgeSet(edges')
  BY <1>0, HeadAndTail
<1>2. e1 < e2 /\ e1 \in Positions /\ e2 \in Positions
  BY <1>1 DEF GenInv, EdgesForward
<1>3. before' \subseteq bs /\ after' \subseteq as
  BY <1>0 DEF Suffix, Prefix
<1>4. \A i \in bs, j \in as : Interfere(i, j) => i \in before' /\ j \in after'
  <2> SUFFICES ASSUME NEW i \in bs, NEW j \in as, Interfere(i, j)
               PROVE  i \in before' /\ j \in after'
    OBVIOUS
  <2>1. j \in Suffix(bs, as)
    BY <1>0 DEF Suffix
  <2>2. Interfere(j, i)
    BY InterfereSymmetric
  <2>3. i \in bs /\ i <= i
    BY <1>0
  <2>4. i \in Prefix(bs, Suffix(bs, as))
    <3> HIDE DEF bs, as
    <3> QED
      BY <2>1, <2>2, <2>3 DEF Prefix
  <2> QED
    BY <1>0, <2>1, <2>4
<1>5. \A i \in bs, j \in as : i < j
  <2> SUFFICES ASSUME NEW i \in bs, NEW j \in as PROVE i < j
    OBVIOUS
  <2>1. i \in Nat /\ j \in Nat /\ e1 \in Nat /\ e2 \in Nat
    BY <1>0, <1>2
  <2>2. i <= e1 /\ e2 <= j
    OBVIOUS
  <2> HIDE DEF e1, e2
  <2> QED
    BY <1>2, <2>1, <2>2
<1>6. ASSUME NEW i \in Positions, NEW j \in Positions, Apart(i, j), Interfere(i, j)
      PROVE  Covered(i, j)' \/ Joined(i, j)' \/ (i \in before' /\ j \in after')
  <2>1. CASE Covered(i, j)
    BY <1>0, <2>1 DEF Covered, Between, Thread
  <2>2. ASSUME NEW e \in EdgeSet(edges), Between(e, i, j)
        PROVE  Joined(i, j)' \/ (i \in before' /\ j \in after')
    <3>1. CASE e \in EdgeSet(edges')
      BY <1>0, <2>2, <3>1 DEF Joined, Between, Thread
    <3>2. CASE e = Head(edges)
      <4>1. i \in bs /\ j \in as
        BY <2>2, <3>2 DEF Between
      <4> QED
        BY <1>4, <1>6, <4>1
    <3> QED
      BY <1>1, <2>2, <3>1, <3>2
  <2> QED
    BY <1>0, <1>6, <2>1, <2>2 DEF GenInv, CoverInv, Joined
<1>7. CoverInv'
  BY <1>0, <1>6 DEF CoverInv, Apart, Thread, Positions, Interfere
<1>8. ListsInv'
  BY <1>0, <1>3, <1>5 DEF ListsInv, Thread
<1>9. EdgesForward'
  BY <1>1 DEF GenInv, EdgesForward
<1> QED
  BY <1>7, <1>8, <1>9

\* The comparison covers what it takes off the lists.
LEMMA CompareStep ==
  ASSUME GenInv, CompareWithBefore
  PROVE  (ListsInv /\ CoverInv /\ OnlyConflicts)'
<1>0. /\ trace' = trace /\ Positions \subseteq Nat /\ edges' = edges
      /\ phase = "generalise" /\ phase' = "generalise"
      /\ before \subseteq Positions /\ after \subseteq Positions
  BY TraceType DEF GenInv, GenTypeOK, CompareWithBefore, scan
<1>1. PICK n \in after :
        /\ \A j \in after : n <= j
        /\ \/ \E m \in before : /\ Interfere(n, m)
                                /\ \A j \in Nearer(m) : ~Interfere(n, j)
                                /\ edgesGen' = edgesGen \cup {<<m, n>>}
                                /\ before' = Nearer(m)
           \/ /\ \A m \in before : ~Interfere(n, m)
              /\ UNCHANGED <<edgesGen, before>>
        /\ after' = after \ {n}
  BY DEF CompareWithBefore
<1>2. \A i, j \in Positions : Joined(i, j)' = Joined(i, j)
  BY <1>0 DEF Joined, Between, Thread
<1>3. /\ \A b \in before : \A a \in after : b < a
      /\ \A b, c \in before : Thread(b) = Thread(c)
      /\ \A a, c \in after : Thread(a) = Thread(c)
  BY <1>0 DEF GenInv, ListsInv
<1>4. before' \subseteq before /\ after' \subseteq after /\ edgesGen \subseteq edgesGen'
  BY <1>1 DEF Nearer
<1>5. ListsInv'
  BY <1>0, <1>3, <1>4 DEF ListsInv, Thread
<1>6. OnlyConflicts'
  <2>1. CASE UNCHANGED edgesGen
    BY <1>0, <2>1 DEF GenInv, OnlyConflicts, Interfere
  <2>2. ASSUME NEW m \in before, Interfere(n, m), edgesGen' = edgesGen \cup {<<m, n>>}
        PROVE  OnlyConflicts'
    <3>1. m < n /\ Interfere(m, n)
      BY <1>1, <1>3, <2>2, InterfereSymmetric
    <3> QED
      BY <1>0, <2>2, <3>1 DEF GenInv, OnlyConflicts, Interfere
  <2> QED
    BY <1>1, <2>1, <2>2
<1>7. ASSUME NEW i \in before, NEW j \in after, Interfere(i, j)
      PROVE  Covered(i, j)' \/ (i \in before' /\ j \in after')
  <2>1. Interfere(j, i)
    BY <1>7, InterfereSymmetric
  <2>2. CASE UNCHANGED before /\ \A m \in before : ~Interfere(n, m)
    BY <1>1, <1>7, <2>1, <2>2
  <2>3. ASSUME NEW m \in before, \A k \in Nearer(m) : ~Interfere(n, k),
               edgesGen' = edgesGen \cup {<<m, n>>}, before' = Nearer(m)
        PROVE  Covered(i, j)' \/ (i \in before' /\ j \in after')
    <3>1. i \in Nat /\ m \in Nat
      BY <1>0
    <3>2. CASE i > m
      <4>1. i \in Nearer(m)
        BY <3>2 DEF Nearer
      <4> QED
        BY <1>1, <2>1, <2>3, <4>1
    <3>3. CASE i <= m
      <4>1. Between(<<m, n>>, i, j)
        BY <1>1, <1>3, <3>3 DEF Between
      <4> QED
        BY <1>0, <2>3, <4>1 DEF Covered, Between, Thread
    <3> QED
      BY <3>1, <3>2, <3>3
  <2> QED
    BY <1>1, <2>2, <2>3
<1>8. \A i, j \in Positions : Covered(i, j) => Covered(i, j)'
  BY <1>0, <1>4 DEF Covered, Between, Thread
<1>9. CoverInv'
  <2> SUFFICES ASSUME NEW i \in Positions, NEW j \in Positions, Apart(i, j), Interfere(i, j)
               PROVE  Covered(i, j)' \/ Joined(i, j)' \/ (i \in before' /\ j \in after')
    BY <1>0 DEF CoverInv, Apart, Thread, Positions, Interfere
  <2> QED
    BY <1>0, <1>2, <1>7, <1>8 DEF GenInv, CoverInv
<1> QED
  BY <1>5, <1>6, <1>9

\* GenInv is inductive.
THEOREM GenInvariance == GenSpec => []GenInv
<1>1. GenInit => GenInv
  <2> SUFFICES ASSUME GenInit PROVE GenInv
    OBVIOUS
  <2>1. 1 \in Positions
    BY TraceType DEF GenInit
  <2>2. GenTypeOK
    BY <2>1 DEF GenInit, GenTypeOK
  <2>3. EdgeSet(edges) = {}
    BY DEF GenInit, EdgeSet
  <2>4. ScanInv
    <3> SUFFICES ASSUME NEW i \in Positions, i <= head PROVE SameBlock(i)
      BY DEF ScanInv
    <3>1. head = 1 /\ i = 1
      BY TraceType DEF GenInit, Positions
    <3> QED
      BY <3>1 DEF SameBlock
  <2> QED
    BY <2>2, <2>3, <2>4 DEF GenInit, GenInv, ReachInv, EdgesForward, ListsInv, CoverInv, OnlyConflicts
<1>2. GenTypeOK' /\ GenInv /\ [GenNext]_genVars => GenInv'
  <2> SUFFICES ASSUME GenTypeOK', GenInv, [GenNext]_genVars PROVE GenInv'
    OBVIOUS
  <2>0. trace' = trace
    BY TraceFixed
  <2>a. /\ OnlyConflicts /\ edgesGen' = edgesGen => OnlyConflicts'
        /\ EdgesForward /\ edges' = edges => EdgesForward'
    BY <2>0 DEF OnlyConflicts, EdgesForward, Interfere
  <2>b. ASSUME edges' = edges, edgesGen' = edgesGen, after = {} \/ phase # "generalise",
               phase \in {"edges", "generalise", "cycles"}
        PROVE  CoverInv'
    <3>1. \A i, j \in Positions : (Covered(i, j) => Covered(i, j)') /\ (Joined(i, j) => Joined(i, j)')
      BY <2>0, <2>b DEF Covered, Joined, Between, Thread
    <3> QED
      BY <2>0, <2>b, <3>1 DEF GenInv, CoverInv, Apart, Thread, Positions, Interfere
  <2>1. CASE StayInBlock \/ EndOfBlock \/ ReachThread \/ AllReached
    <3>1. phase' \in {"scan", "reach"} /\ edgesGen' = edgesGen
      BY <2>1 DEF StayInBlock, EndOfBlock, ReachThread, AllReached
    <3> QED
      BY <2>1, <2>a, <3>1, ScanStep DEF GenInv, ListsInv, CoverInv
  <2>2. CASE EndOfTrace
    <3>1. phase' = "edges" /\ edgesGen' = edgesGen /\ edges' = edges
      BY <2>2 DEF EndOfTrace, scan
    <3> QED
      BY <2>2, <2>a, <3>1, EndStep DEF GenInv, ScanInv, ReachInv, ListsInv
  <2>3. CASE GeneraliseEdge
    <3>1. phase' = "generalise" /\ edgesGen' = edgesGen
      BY <2>3 DEF GeneraliseEdge
    <3> QED
      BY <2>3, <2>a, <3>1, GeneraliseStep DEF GenInv, ScanInv, ReachInv
  <2>4. CASE CompareWithBefore
    <3>1. phase' = "generalise" /\ edges' = edges
      BY <2>4 DEF CompareWithBefore, scan
    <3> QED
      BY <2>4, <2>a, <3>1, CompareStep DEF GenInv, ScanInv, ReachInv
  <2>5. CASE EdgeGeneralised \/ BuildGraph \/ FindCycles
    <3>1. /\ phase' \in {"edges", "cycles"} /\ edgesGen' = edgesGen /\ edges' = edges
          /\ after = {} \/ phase # "generalise"
          /\ phase \in {"edges", "generalise", "cycles"}
      BY <2>5 DEF EdgeGeneralised, BuildGraph, FindCycles, scan
    <3> QED
      BY <2>a, <2>b, <3>1 DEF GenInv, ScanInv, ReachInv, ListsInv
  <2>6. CASE UNCHANGED genVars
    <3>0. /\ phase' = phase /\ head' = head /\ threadsReached' = threadsReached /\ edges' = edges
          /\ before' = before /\ after' = after /\ edgesGen' = edgesGen
      BY <2>6 DEF genVars, scan, lists
    <3>1. ScanInv' /\ ReachInv'
      BY <2>0, <3>0 DEF GenInv, ScanInv, ReachInv, SameBlock, Joined, Between, Apart, Thread, Positions
    <3>2. ListsInv'
      BY <2>0, <3>0 DEF GenInv, ListsInv, Thread
    <3>3. CoverInv'
      BY <2>0, <3>0 DEF GenInv, CoverInv, Joined, Covered, Between, Apart, Thread, Interfere, Positions
    <3> QED
      BY <2>a, <3>0, <3>1, <3>2, <3>3 DEF GenInv
  <2> QED
    BY <2>1, <2>2, <2>3, <2>4, <2>5, <2>6 DEF GenNext
<1> QED
  BY <1>1, <1>2, GenTypeCorrect, PTL DEF GenSpec

\* The generalised edges order exactly what interferes, for every trace.
THEOREM GeneralisationCovers == GenSpec => []ConflictsCovered
<1>1. GenInv => ConflictsCovered
  <2> SUFFICES ASSUME GenInv, phase \in {"edges", "cycles"}, edges = <<>> PROVE ConflictsCovered
    BY DEF ConflictsCovered
  <2>1. EdgeSet(edges) = {}
    BY DEF EdgeSet
  <2> QED
    BY <2>1 DEF GenInv, CoverInv, OnlyConflicts, ConflictsCovered, Apart, Covered, Joined
<1> QED
  BY <1>1, GenInvariance, PTL
-------------------------------------------------------------------------------
(* findCycles                                                              *)

GraphEdges == black \cup White \cup RedDotted

\* the way a call has come, with the node it comes to
Walk(c) == Append(c.path, c.node)

\* where a way turns back in the trace
Backward(walk) == {i \in 1..(Len(walk) - 1) : walk[i + 1] < walk[i]}

\* A way follows the edges; it turns back once, and only when a red edge was used;
\* it stays in the two threads.
WalkOK(c) ==
  /\ \A i \in 1..(Len(Walk(c)) - 1) : <<Walk(c)[i], Walk(c)[i + 1]>> \in GraphEdges
  /\ \A i, j \in Backward(Walk(c)) : i = j
  /\ ~c.redUsed => Backward(Walk(c)) = {}
  /\ ~deadlock => \A i \in 1..Len(c.path) : Thread(c.path[i]) \in {c.this, c.other}

WalksOK == \A c \in calls : WalkOK(c)

NothingFound == phase # "cycles" => calls = {} /\ cycles = {}

\* One cycle of CyclesAreSwaps.
SwapCycle(c) ==
  /\ Cardinality(EdgesOf(c) \cap RedDotted) = 1
  /\ c[1] = c[Len(c)]
  /\ LET threads == {Thread(c[i]) : i \in DOMAIN c}
     IN  IF deadlock THEN Cardinality(threads) >= 2 ELSE Cardinality(threads) = 2

SwapInv == NothingFound /\ WalksOK /\ CyclesAreSwaps

\* Only red edges lead back.
LEMMA GraphDirections ==
  ASSUME GenInv, NEW e \in GraphEdges
  PROVE  /\ e[1] \in Positions /\ e[2] \in Positions /\ e = <<e[1], e[2]>>
         /\ e[1] \in Nat /\ e[2] \in Nat /\ e[1] # e[2]
         /\ e \in RedDotted <=> e[2] < e[1]
<1>1. Positions \subseteq Nat
  BY TraceType DEF GenInv, GenTypeOK
<1>2. e \in Positions \X Positions
  BY DEF GenInv, GenTypeOK, GraphEdges, White, RedDotted, GenEndpoints
<1>3. e \in black => e[1] < e[2]
  BY DEF GenInv, GenTypeOK, OnlyConflicts
<1>4. e \in White => e[1] < e[2]
  BY DEF White
<1>5. e \in RedDotted => e[2] < e[1]
  BY DEF RedDotted
<1>6. e = <<e[1], e[2]>> /\ e[1] \in Positions /\ e[2] \in Positions
  BY <1>2
<1>7. e[1] \in Nat /\ e[2] \in Nat
  BY <1>1, <1>6
<1> QED
  BY <1>3, <1>4, <1>5, <1>6, <1>7 DEF GraphEdges

\* A call as the code makes it.
LEMMA WalkFacts ==
  ASSUME GenInv, NEW c \in calls
  PROVE  /\ c.path \in Seq(Positions) /\ c.node \in Positions /\ c.redUsed \in BOOLEAN
         /\ c.this \in Threads /\ c.other \in Threads \cup {NoThread}
         /\ Walk(c) \in Seq(Positions) /\ Len(Walk(c)) = Len(c.path) + 1
         /\ Len(c.path) \in Nat /\ DOMAIN c.path = 1..Len(c.path)
         /\ \A i \in 1..Len(c.path) : Walk(c)[i] = c.path[i]
         /\ Walk(c)[Len(c.path) + 1] = c.node
BY DEF GenInv, GenTypeOK, Walk

\* Only one edge is added to a way.
LEMMA FurtherWalks ==
  ASSUME GenInv, NEW c \in calls, WalkOK(c), ~ThirdThread(c), NEW d \in Further(c)
  PROVE  WalkOK(d)
<1>1. PICK e \in GraphEdges :
        /\ e[1] = c.node /\ ~(c.redUsed /\ e \in RedDotted)
        /\ d = Call(Append(c.path, c.node), e[2], c.redUsed \/ e \in RedDotted, c.this, NewOther(c))
  BY DEF Further, GraphEdges
<1>2. /\ d.path = Walk(c) /\ d.node = e[2] /\ d.redUsed = (c.redUsed \/ e \in RedDotted)
      /\ d.this = c.this /\ d.other = NewOther(c)
  BY <1>1 DEF Call, Walk
<1>3. /\ e[1] \in Positions /\ e[2] \in Positions /\ e = <<e[1], e[2]>>
      /\ e \in RedDotted <=> e[2] < e[1]
  BY GraphDirections
<1> DEFINE old == Walk(c)
           new == Walk(d)
<1>4. /\ old \in Seq(Positions) /\ Len(old) = Len(c.path) + 1 /\ Len(c.path) \in Nat
      /\ \A i \in 1..Len(c.path) : old[i] = c.path[i]
      /\ old[Len(c.path) + 1] = c.node /\ c.redUsed \in BOOLEAN
      /\ c.this \in Threads /\ c.other \in Threads \cup {NoThread} /\ c.node \in Positions
  BY WalkFacts
<1>5. /\ new \in Seq(Positions) /\ Len(new) = Len(old) + 1
      /\ \A i \in 1..Len(old) : new[i] = old[i]
      /\ new[Len(old) + 1] = e[2]
  BY <1>2, <1>3, <1>4 DEF Walk
<1>6. /\ \A i \in 1..(Len(old) - 1) : <<old[i], old[i + 1]>> \in GraphEdges
      /\ \A i, j \in Backward(old) : i = j
      /\ ~c.redUsed => Backward(old) = {}
      /\ ~deadlock => \A i \in 1..Len(c.path) : Thread(c.path[i]) \in {c.this, c.other}
  BY DEF WalkOK
<1>7. d.path = old
  BY <1>2
<1> HIDE DEF old, new
<1>8. \A i \in 1..(Len(new) - 1) : <<new[i], new[i + 1]>> \in GraphEdges
  <2> SUFFICES ASSUME NEW i \in 1..(Len(new) - 1)
               PROVE  <<new[i], new[i + 1]>> \in GraphEdges
    OBVIOUS
  <2>1. CASE i = Len(old)
    <3>1. i \in 1..Len(old) /\ old[i] = e[1] /\ new[i + 1] = e[2]
      BY <1>1, <1>4, <1>5, <2>1
    <3>2. new[i] = old[i]
      BY <1>5, <3>1
    <3> QED
      BY <1>3, <3>1, <3>2
  <2>2. CASE i # Len(old)
    <3>1. i \in 1..(Len(old) - 1) /\ i \in 1..Len(old) /\ i + 1 \in 1..Len(old)
      BY <1>4, <1>5, <2>2
    <3> QED
      BY <1>5, <1>6, <3>1
  <2> QED
    BY <2>1, <2>2
<1>9. Backward(new) = IF e \in RedDotted THEN Backward(old) \cup {Len(old)} ELSE Backward(old)
  <2>1. ASSUME NEW i \in 1..(Len(new) - 1)
        PROVE  new[i + 1] < new[i] <=> (i \in Backward(old) \/ (i = Len(old) /\ e \in RedDotted))
    <3>1. CASE i = Len(old)
      <4>1. new[i] = e[1] /\ new[i + 1] = e[2] /\ i \notin Backward(old)
        BY <1>1, <1>4, <1>5, <3>1 DEF Backward
      <4> QED
        BY <1>3, <3>1, <4>1
    <3>2. CASE i # Len(old)
      <4>1. i \in 1..(Len(old) - 1) /\ i \in 1..Len(old) /\ i + 1 \in 1..Len(old)
        BY <1>4, <1>5, <3>2
      <4> QED
        BY <1>5, <3>2, <4>1 DEF Backward
    <3> QED
      BY <3>1, <3>2
  <2>2. /\ Backward(old) \subseteq 1..(Len(new) - 1) /\ Len(old) \in 1..(Len(new) - 1)
    BY <1>4, <1>5 DEF Backward
  <2>3. Backward(new) = {i \in 1..(Len(new) - 1) : new[i + 1] < new[i]}
    BY DEF Backward
  <2> QED
    BY <2>1, <2>2, <2>3
<1>10. /\ \A i, j \in Backward(new) : i = j
       /\ ~d.redUsed => Backward(new) = {}
  BY <1>1, <1>2, <1>4, <1>6, <1>9
<1>11. ~deadlock => \A i \in 1..Len(d.path) : Thread(d.path[i]) \in {d.this, d.other}
  <2> SUFFICES ASSUME ~deadlock, NEW i \in 1..Len(old)
               PROVE  Thread(old[i]) \in {c.this, NewOther(c)}
    BY <1>2, <1>7
  <2>0. \A p \in Positions : Thread(p) \in Threads /\ Thread(p) # NoThread
    BY TraceType, GeneralisationAssumption DEF GenInv, GenTypeOK
  <2>1. CASE i = Len(c.path) + 1
    BY <1>4, <2>1 DEF NewOther, ThirdThread
  <2>2. CASE i # Len(c.path) + 1
    <3>1. i \in 1..Len(c.path) /\ old[i] = c.path[i]
      BY <1>4, <2>2
    <3>2. Thread(old[i]) \in {c.this, c.other} /\ old[i] \in Positions
      BY <1>4, <1>6, <3>1
    <3> QED
      BY <2>0, <3>2 DEF NewOther
  <2> QED
    BY <2>1, <2>2
<1> QED
  BY <1>8, <1>10, <1>11 DEF WalkOK, new

\* A call that comes back to its path: the cycle is the end of the way.
LEMMA ClosedFacts ==
  ASSUME GenInv, NEW c \in calls, WalkOK(c), OnPath(c)
  PROVE  LET cycle == CycleOf(c)
         IN  /\ cycle \in Seq(Positions) /\ Len(cycle) \in Nat /\ Len(cycle) >= 2
             /\ cycle[1] = c.node /\ cycle[Len(cycle)] = c.node
             /\ \A i \in 1..(Len(cycle) - 1) : <<cycle[i], cycle[i + 1]>> \in GraphEdges
             /\ \A i, j \in Backward(cycle) : i = j
             /\ \A i \in 1..Len(cycle) : \E j \in 1..Len(c.path) : cycle[i] = c.path[j]
<1> DEFINE first == CHOOSE i \in DOMAIN c.path : c.path[i] = c.node
           part == SubSeq(c.path, first, Len(c.path))
           cycle == CycleOf(c)
           walk == Walk(c)
           off == first - 1
<1>1. /\ c.path \in Seq(Positions) /\ c.node \in Positions
      /\ walk \in Seq(Positions) /\ Len(walk) = Len(c.path) + 1
      /\ Len(c.path) \in Nat /\ DOMAIN c.path = 1..Len(c.path)
      /\ \A i \in 1..Len(c.path) : walk[i] = c.path[i]
      /\ walk[Len(c.path) + 1] = c.node
  BY WalkFacts
<1>2. first \in 1..Len(c.path) /\ c.path[first] = c.node
  BY <1>1 DEF OnPath
<1>3. \A i \in first..Len(c.path) : c.path[i] \in Positions
  BY <1>1, <1>2
<1>4. cycle = Append(part, c.node)
  BY DEF CycleOf
<1>5. /\ \A i \in 1..(Len(walk) - 1) : <<walk[i], walk[i + 1]>> \in GraphEdges
      /\ \A i, j \in Backward(walk) : i = j
  BY DEF WalkOK
<1> HIDE DEF first, cycle, walk
<1>6. /\ part \in Seq(Positions) /\ Len(part) = Len(c.path) - first + 1
      /\ \A i \in 1..Len(part) : part[i] = c.path[first + i - 1]
  <2>1. first \in Int /\ Len(c.path) \in Int /\ first <= Len(c.path)
    BY <1>1, <1>2
  <2> QED
    BY <1>3, <2>1, SubSeqProperties
<1> HIDE DEF part
<1>7. /\ cycle \in Seq(Positions) /\ Len(cycle) = Len(part) + 1 /\ Len(part) \in Nat
      /\ \A i \in 1..Len(part) : cycle[i] = part[i]
      /\ cycle[Len(part) + 1] = c.node
  BY <1>1, <1>4, <1>6
<1>8. off \in Nat /\ Len(cycle) \in Nat /\ Len(cycle) + off = Len(walk) /\ Len(cycle) >= 2
  BY <1>1, <1>2, <1>6, <1>7
<1>9. \A i \in 1..Len(cycle) : cycle[i] = walk[i + off]
  <2> SUFFICES ASSUME NEW i \in 1..Len(cycle) PROVE cycle[i] = walk[i + off]
    OBVIOUS
  <2>1. CASE i = Len(part) + 1
    <3>1. i + off = Len(c.path) + 1
      BY <1>1, <1>2, <1>6, <2>1
    <3> QED
      BY <1>1, <1>7, <2>1, <3>1
  <2>2. CASE i # Len(part) + 1
    <3>1. i \in Nat /\ 1 <= i /\ i <= Len(part) /\ first \in Nat /\ 1 <= first
      BY <1>1, <1>2, <1>7, <2>2
    <3>2. i \in 1..Len(part)
      BY <1>7, <3>1
    <3>3. first + i - 1 = i + off /\ i + off \in 1..Len(c.path)
      BY <1>1, <1>6, <3>1
    <3> QED
      BY <1>1, <1>6, <1>7, <3>2, <3>3
  <2> QED
    BY <2>1, <2>2
<1>10. cycle[1] = c.node /\ cycle[Len(cycle)] = c.node
  <2>1. 1 \in 1..Len(cycle) /\ 1 + off = first
    BY <1>1, <1>2, <1>8
  <2> QED
    BY <1>1, <1>2, <1>7, <1>9, <2>1
<1>11. \A i \in 1..(Len(cycle) - 1) :
         /\ i + off \in 1..(Len(walk) - 1)
         /\ cycle[i] = walk[i + off] /\ cycle[i + 1] = walk[(i + off) + 1]
  <2> SUFFICES ASSUME NEW i \in 1..(Len(cycle) - 1)
               PROVE  /\ i + off \in 1..(Len(walk) - 1)
                      /\ cycle[i] = walk[i + off] /\ cycle[i + 1] = walk[(i + off) + 1]
    OBVIOUS
  <2>1. /\ i \in 1..Len(cycle) /\ i + 1 \in 1..Len(cycle) /\ (i + 1) + off = (i + off) + 1
        /\ i + off \in 1..(Len(walk) - 1)
    BY <1>1, <1>2, <1>8
  <2> QED
    BY <1>9, <2>1
<1>12. \A i \in Backward(cycle) : i \in Nat /\ i + off \in Backward(walk)
  <2> SUFFICES ASSUME NEW i \in Backward(cycle) PROVE i \in Nat /\ i + off \in Backward(walk)
    OBVIOUS
  <2>1. i \in 1..(Len(cycle) - 1) /\ cycle[i + 1] < cycle[i]
    BY DEF Backward
  <2>2. /\ i + off \in 1..(Len(walk) - 1)
        /\ walk[(i + off) + 1] < walk[i + off]
    BY <1>11, <2>1
  <2> QED
    BY <2>1, <2>2 DEF Backward
<1>13. \A i, j \in Backward(cycle) : i = j
  <2> SUFFICES ASSUME NEW i \in Backward(cycle), NEW j \in Backward(cycle) PROVE i = j
    OBVIOUS
  <2>1. i + off = j + off
    BY <1>5, <1>12
  <2> QED
    BY <1>8, <1>12, <2>1
<1>14. \A i \in 1..Len(cycle) : \E j \in 1..Len(c.path) : cycle[i] = c.path[j]
  <2> SUFFICES ASSUME NEW i \in 1..Len(cycle)
               PROVE  \E j \in 1..Len(c.path) : cycle[i] = c.path[j]
    OBVIOUS
  <2>1. CASE i = Len(cycle)
    BY <1>2, <1>10, <2>1
  <2>2. CASE i # Len(cycle)
    <3>1. i + off \in 1..Len(c.path)
      BY <1>1, <1>2, <1>8, <2>2
    <3> QED
      BY <1>1, <1>9, <3>1
  <2> QED
    BY <2>1, <2>2
<1> QED
  BY <1>5, <1>7, <1>8, <1>10, <1>11, <1>13, <1>14 DEF cycle

\* A way that never turns back only leads on.
LEMMA OnwardsOnly ==
  ASSUME NEW s, Len(s) \in Nat, \A i \in 1..Len(s) : s[i] \in Nat,
         \A i \in 1..(Len(s) - 1) : s[i] < s[i + 1]
  PROVE  \A i \in 2..Len(s) : s[1] < s[i]
<1> DEFINE bad == {i \in 2..Len(s) : ~(s[1] < s[i])}
           less == OpToRel(<, Nat)
<1>1. Len(s) \in Nat /\ \A i \in 1..Len(s) : s[i] \in Nat
  OBVIOUS
<1>2. IsWellFoundedOn(less, Nat) /\ \A i, j \in Nat : j < i => <<j, i>> \in less
  BY NatLessThanWellFounded DEF OpToRel
<1> HIDE DEF less
<1>3. SUFFICES ASSUME bad # {} PROVE FALSE
  OBVIOUS
<1>4. bad \subseteq Nat
  BY <1>1
<1>5. PICK i \in bad : \A j \in bad : ~(<<j, i>> \in less)
  <2> HIDE DEF bad
  <2> QED
    BY <1>2, <1>3, <1>4, WFMin
<1>6. i \in 2..Len(s) /\ ~(s[1] < s[i]) /\ i - 1 \in 1..(Len(s) - 1) /\ i - 1 < i
      /\ i - 1 \in Nat /\ i \in Nat
  BY <1>1
<1>7. s[i - 1] < s[(i - 1) + 1] /\ (i - 1) + 1 = i
  BY <1>6
<1>8. i - 1 # 1
  BY <1>6, <1>7
<1>9. i - 1 \in 2..Len(s) /\ s[1] < s[i - 1]
  <2>1. i - 1 \in 2..Len(s)
    BY <1>1, <1>6, <1>8
  <2>2. i - 1 \notin bad
    BY <1>2, <1>5, <1>6
  <2> QED
    BY <2>1, <2>2
<1>10. s[1] \in Nat /\ s[i - 1] \in Nat /\ s[i] \in Nat
  BY <1>1, <1>6, <1>9
<1> QED
  BY <1>6, <1>7, <1>9, <1>10

\* A cycle that is kept swaps two statements, around one of another thread.
LEMMA KeptCycle ==
  ASSUME GenInv, NEW c \in calls, WalkOK(c), OnPath(c), GoodCycle(CycleOf(c))
  PROVE  SwapCycle(CycleOf(c))
<1> DEFINE cycle == CycleOf(c)
           threads == {Thread(cycle[i]) : i \in DOMAIN cycle}
<1>1. /\ cycle \in Seq(Positions) /\ Len(cycle) \in Nat /\ Len(cycle) >= 2
      /\ cycle[1] = c.node /\ cycle[Len(cycle)] = c.node
      /\ \A i \in 1..(Len(cycle) - 1) : <<cycle[i], cycle[i + 1]>> \in GraphEdges
      /\ \A i, j \in Backward(cycle) : i = j
      /\ \A i \in 1..Len(cycle) : \E j \in 1..Len(c.path) : cycle[i] = c.path[j]
  BY ClosedFacts
<1>2. PICK other \in DOMAIN cycle : Thread(cycle[other]) # Thread(cycle[1])
  BY DEF GoodCycle
<1> HIDE DEF cycle
<1>3. DOMAIN cycle = 1..Len(cycle) /\ 1 \in DOMAIN cycle
  BY <1>1
<1>4. \A i \in 1..(Len(cycle) - 1) :
        /\ cycle[i] \in Nat /\ cycle[i + 1] \in Nat /\ cycle[i] # cycle[i + 1]
        /\ <<cycle[i], cycle[i + 1]>> \in RedDotted <=> i \in Backward(cycle)
  <2> SUFFICES ASSUME NEW i \in 1..(Len(cycle) - 1)
               PROVE  /\ cycle[i] \in Nat /\ cycle[i + 1] \in Nat /\ cycle[i] # cycle[i + 1]
                      /\ <<cycle[i], cycle[i + 1]>> \in RedDotted <=> i \in Backward(cycle)
    OBVIOUS
  <2> DEFINE e == <<cycle[i], cycle[i + 1]>>
  <2>1. e \in GraphEdges /\ e[1] = cycle[i] /\ e[2] = cycle[i + 1]
    BY <1>1
  <2> HIDE DEF e
  <2>2. /\ cycle[i] \in Nat /\ cycle[i + 1] \in Nat /\ cycle[i] # cycle[i + 1]
        /\ e \in RedDotted <=> cycle[i + 1] < cycle[i]
    BY <2>1, GraphDirections
  <2>3. i \in Backward(cycle) <=> cycle[i + 1] < cycle[i]
    BY DEF Backward
  <2> QED
    BY <2>2, <2>3 DEF e
<1>5. Backward(cycle) # {}
  <2> SUFFICES ASSUME Backward(cycle) = {} PROVE FALSE
    OBVIOUS
  <2>1. \A i \in 1..(Len(cycle) - 1) : cycle[i] < cycle[i + 1]
    <3> SUFFICES ASSUME NEW i \in 1..(Len(cycle) - 1) PROVE cycle[i] < cycle[i + 1]
      OBVIOUS
    <3>1. ~(cycle[i + 1] < cycle[i])
      BY DEF Backward
    <3>2. cycle[i] \in Nat /\ cycle[i + 1] \in Nat /\ cycle[i] # cycle[i + 1]
      BY <1>4
    <3> QED
      BY <3>1, <3>2
  <2>2. \A i \in 1..Len(cycle) : cycle[i] \in Nat
    <3>1. Positions \subseteq Nat
      BY TraceType DEF GenInv, GenTypeOK
    <3>2. cycle \in Seq(Positions)
      BY <1>1
    <3>3. \A i \in 1..Len(cycle) : cycle[i] \in Positions
      BY <3>2
    <3> QED
      BY <3>1, <3>3
  <2>3. \A i \in 2..Len(cycle) : cycle[1] < cycle[i]
    BY <1>1, <2>1, <2>2, OnwardsOnly
  <2>4. Len(cycle) \in 2..Len(cycle) /\ cycle[1] = cycle[Len(cycle)] /\ cycle[1] \in Nat
    BY <1>1, <2>2
  <2> QED
    BY <2>3, <2>4
<1>6. PICK turn \in Backward(cycle) : TRUE
  BY <1>5
<1>7. EdgesOf(cycle) \cap RedDotted = {<<cycle[turn], cycle[turn + 1]>>}
  <2>1. turn \in 1..(Len(cycle) - 1)
    BY DEF Backward
  <2>2. <<cycle[turn], cycle[turn + 1]>> \in EdgesOf(cycle) \cap RedDotted
    BY <1>4, <2>1 DEF EdgesOf
  <2>3. ASSUME NEW e \in EdgesOf(cycle) \cap RedDotted
        PROVE  e = <<cycle[turn], cycle[turn + 1]>>
    <3>1. PICK i \in 1..(Len(cycle) - 1) : e = <<cycle[i], cycle[i + 1]>>
      BY DEF EdgesOf
    <3>2. i \in Backward(cycle)
      BY <1>4, <3>1
    <3>3. i = turn
      BY <1>1, <3>2
    <3> QED
      BY <3>1, <3>3
  <2> QED
    BY <2>2, <2>3
<1>8. Cardinality(EdgesOf(cycle) \cap RedDotted) = 1
  BY <1>7, FS_Singleton
<1>9. Thread(cycle[1]) \in threads /\ Thread(cycle[other]) \in threads
  BY <1>3
<1> DEFINE pair == {Thread(cycle[1]), Thread(cycle[other])}
<1>10. IsFiniteSet(pair) /\ Cardinality(pair) = 2
  <2> DEFINE one == {Thread(cycle[1])}
  <2>1. IsFiniteSet(one) /\ Cardinality(one) = 1
    BY FS_Singleton
  <2>2. Thread(cycle[other]) \notin one /\ pair = one \cup {Thread(cycle[other])}
    BY <1>2
  <2> HIDE DEF one, pair
  <2> QED
    BY <2>1, <2>2, FS_AddElement
<1>11. CASE deadlock
  <2> DEFINE steps == 1..Len(cycle)
             thread == [i \in steps |-> Thread(cycle[i])]
  <2>1. IsFiniteSet(steps)
    <3>1. 1 \in Int /\ Len(cycle) \in Int
      BY <1>1
    <3> QED
      BY <3>1, FS_Interval
  <2>2. thread \in Surjection(steps, threads)
    <3>1. thread \in [steps -> threads]
      BY <1>3
    <3>2. ASSUME NEW t \in threads PROVE \E i \in steps : thread[i] = t
      BY <1>3
    <3> HIDE DEF steps, thread, threads
    <3> QED
      BY <3>1, <3>2 DEF Surjection
  <2>3. IsFiniteSet(threads)
    <3> HIDE DEF steps, thread, threads
    <3> QED
      BY <2>1, <2>2, FS_Surjection
  <2>4. pair \in SUBSET threads
    BY <1>9
  <2> HIDE DEF threads, pair
  <2>5. Cardinality(pair) <= Cardinality(threads)
    BY <2>3, <2>4, FS_Subset
  <2>6. Cardinality(threads) >= 2
    BY <1>10, <2>3, <2>5, FS_CardinalityType
  <2> QED
    BY <1>1, <1>8, <1>11, <2>6 DEF SwapCycle, cycle, threads
<1>12. CASE ~deadlock
  <2>1. \A i \in DOMAIN cycle : Thread(cycle[i]) \in {c.this, c.other}
    <3>1. \A j \in 1..Len(c.path) : Thread(c.path[j]) \in {c.this, c.other}
      BY <1>12 DEF WalkOK
    <3> QED
      BY <1>1, <1>3, <3>1
  <2>2. threads \subseteq {c.this, c.other}
    BY <2>1
  <2>3. threads = pair
    BY <1>2, <1>9, <2>2
  <2>4. Cardinality(threads) = 2
    <3> HIDE DEF threads, pair
    <3> QED
      BY <1>10, <2>3
  <2> QED
    BY <1>1, <1>8, <1>12, <2>4 DEF SwapCycle, cycle, threads
<1> QED
  BY <1>11, <1>12

\* SwapInv is inductive, together with the types and what the edges are.
LEMMA SwapStep ==
  ASSUME GenInv, SwapInv, [GenNext]_genVars
  PROVE  SwapInv'
<1>0. trace' = trace /\ Positions' = Positions
  BY TraceFixed DEF Positions
<1>1. CASE \/ StayInBlock \/ EndOfBlock \/ ReachThread \/ AllReached \/ EndOfTrace
           \/ GeneraliseEdge \/ CompareWithBefore \/ EdgeGeneralised
  <2>1. phase # "cycles" /\ calls' = calls /\ cycles' = cycles
    BY <1>1 DEF StayInBlock, EndOfBlock, ReachThread, AllReached, EndOfTrace,
                GeneraliseEdge, CompareWithBefore, EdgeGeneralised, search
  <2>2. calls = {} /\ cycles = {}
    BY <2>1 DEF SwapInv, NothingFound
  <2> QED
    BY <2>1, <2>2 DEF SwapInv, NothingFound, WalksOK, CyclesAreSwaps
<1>2. CASE BuildGraph
  <2>1. /\ phase # "cycles" /\ phase' = "cycles" /\ cycles' = cycles /\ deadlock' = deadlock
        /\ calls' = {Call(<<>>, s, FALSE, Thread(s), NoThread) : s \in Starts}
    BY <1>2 DEF BuildGraph
  <2>2. cycles = {}
    BY <2>1 DEF SwapInv, NothingFound
  <2>3. ASSUME NEW c \in calls' PROVE WalkOK(c)'
    <3>1. PICK s \in Starts : c = Call(<<>>, s, FALSE, Thread(s), NoThread)
      BY <2>1
    <3>2. c.path = <<>> /\ c.node = s /\ c.redUsed = FALSE
      BY <3>1 DEF Call
    <3>3. Walk(c) = <<s>> /\ Len(Walk(c)) = 1 /\ Len(c.path) = 0
      BY <3>2 DEF Walk
    <3>4. Walk(c)' = Walk(c) /\ Backward(Walk(c)) = {} /\ Backward(Walk(c))' = {}
      BY <3>3 DEF Walk, Backward
    <3> QED
      BY <3>3, <3>4 DEF WalkOK
  <2> QED
    BY <2>1, <2>2, <2>3 DEF SwapInv, NothingFound, WalksOK, CyclesAreSwaps
<1>3. ASSUME phase' = phase, deadlock' = deadlock, edgesGen' = edgesGen, black' = black
      PROVE  /\ GraphEdges' = GraphEdges /\ RedDotted' = RedDotted
             /\ \A c : WalkOK(c) => WalkOK(c)'
             /\ \A c : SwapCycle(c) => SwapCycle(c)'
  <2>1. GraphEdges' = GraphEdges /\ RedDotted' = RedDotted
    BY <1>0, <1>3 DEF GraphEdges, White, RedDotted, GenEndpoints, Thread
  <2>2. \A c : WalkOK(c) => WalkOK(c)'
    BY <1>0, <1>3, <2>1 DEF WalkOK, Walk, Backward, Thread
  <2>3. \A c : SwapCycle(c) => SwapCycle(c)'
    BY <1>0, <1>3, <2>1 DEF SwapCycle, EdgesOf, Thread
  <2> QED
    BY <2>1, <2>2, <2>3
<1>4. CASE FindCycles
  <2> DEFINE entered == {c \in calls : ~ThirdThread(c)}
             closed == {c \in entered : OnPath(c)}
  <2>1. /\ phase = "cycles" /\ phase' = phase /\ deadlock' = deadlock
        /\ edgesGen' = edgesGen /\ black' = black
        /\ cycles' = cycles \cup {k \in {CycleOf(c) : c \in closed} : GoodCycle(k)}
        /\ calls' = UNION {Further(c) : c \in entered \ closed}
    BY <1>4 DEF FindCycles
  <2>2. ASSUME NEW d \in calls' PROVE WalkOK(d)'
    <3>1. PICK c \in entered \ closed : d \in Further(c)
      BY <2>1
    <3>2. c \in calls /\ ~ThirdThread(c) /\ WalkOK(c)
      BY DEF SwapInv, WalksOK
    <3>3. WalkOK(d)
      BY <3>1, <3>2, FurtherWalks
    <3> QED
      BY <1>3, <2>1, <3>3
  <2>3. ASSUME NEW k \in cycles' PROVE SwapCycle(k)'
    <3>1. CASE k \in cycles
      <4>1. SwapCycle(k)
        BY <3>1 DEF SwapInv, CyclesAreSwaps, SwapCycle
      <4> QED
        BY <1>3, <2>1, <4>1
    <3>2. CASE k \notin cycles
      <4>1. PICK c \in closed : k = CycleOf(c) /\ GoodCycle(k)
        BY <2>1, <3>2
      <4>2. c \in calls /\ OnPath(c) /\ WalkOK(c)
        BY DEF SwapInv, WalksOK
      <4>3. SwapCycle(k)
        BY <4>1, <4>2, KeptCycle
      <4> QED
        BY <1>3, <2>1, <4>3
    <3> QED
      BY <3>1, <3>2
  <2>4. CyclesAreSwaps'
    BY <2>3 DEF CyclesAreSwaps, SwapCycle
  <2> QED
    BY <2>1, <2>2, <2>4 DEF SwapInv, NothingFound, WalksOK
<1>5. CASE UNCHANGED genVars
  <2>1. /\ phase' = phase /\ deadlock' = deadlock /\ edgesGen' = edgesGen /\ black' = black
        /\ calls' = calls /\ cycles' = cycles
    BY <1>5 DEF genVars, search
  <2>2. WalksOK'
    BY <1>3, <2>1 DEF SwapInv, WalksOK
  <2>3. \A k \in cycles : SwapCycle(k)
    BY DEF SwapInv, CyclesAreSwaps, SwapCycle
  <2>4. \A k \in cycles' : SwapCycle(k)'
    BY <1>3, <2>1, <2>3
  <2>5. CyclesAreSwaps'
    BY <2>4 DEF CyclesAreSwaps, SwapCycle
  <2> QED
    BY <2>1, <2>2, <2>5 DEF SwapInv, NothingFound
<1> QED
  BY <1>1, <1>2, <1>4, <1>5 DEF GenNext

\* Every solution of findCycles swaps exactly two statements of one thread, and
\* leaves no thread out: of every trace, whatever interferes in it.  This is what
\* Solution.metric and StatementOrder.integrate rely on.
THEOREM SolutionsSwap == GenSpec => []CyclesAreSwaps
<1>1. GenInit => SwapInv
  BY DEF GenInit, SwapInv, NothingFound, WalksOK, CyclesAreSwaps
<1>2. GenInv /\ SwapInv /\ [GenNext]_genVars => SwapInv'
  BY SwapStep
<1>3. SwapInv => CyclesAreSwaps
  BY DEF SwapInv
<1> QED
  BY <1>1, <1>2, <1>3, GenInvariance, PTL DEF GenSpec
-------------------------------------------------------------------------------
(* Ways of the graph.  The recursive function of Ways is the one that its  *)
(* equation describes, so what it returns is in every set of pairs that    *)
(* holds the edges and what two pairs in a row join.                       *)

\* The least number of a set of numbers.
LEMMA LeastOf ==
  ASSUME NEW S, S \subseteq Nat, S # {}
  PROVE  \E least \in S : \A n \in S : least <= n
<1> DEFINE less == OpToRel(<, Nat)
<1>1. IsWellFoundedOn(less, Nat) /\ \A i, j \in Nat : j < i => <<j, i>> \in less
  BY NatLessThanWellFounded DEF OpToRel
<1> HIDE DEF less
<1>2. PICK least \in S : \A y \in S : ~(<<y, least>> \in less)
  BY <1>1, WFMin
<1>3. ASSUME NEW n \in S PROVE least <= n
  <2>1. ~(n < least)
    BY <1>1, <1>2
  <2> QED
    BY <2>1
<1> QED
  BY <1>3

\* The round of Ways that lets ways go through k.
Through(pairs, k) ==
  pairs \cup {e \in Positions \X Positions : <<e[1], k>> \in pairs /\ <<k, e[2]>> \in pairs}

\* Functions that start with rel and go on by Through exist.
Rounds(f, rel, n) == f = [k \in 0..n |-> IF k = 0 THEN rel ELSE Through(f[k-1], k)]

LEMMA RoundsExist ==
  ASSUME NEW rel, NEW n \in Nat
  PROVE  \E f : Rounds(f, rel, n)
<1> DEFINE without == {m \in Nat : ~\E f : Rounds(f, rel, m)}
<1> SUFFICES ASSUME without # {} PROVE FALSE
  OBVIOUS
<1>1. without \subseteq Nat
  OBVIOUS
<1>2. PICK m \in without : \A l \in without : m <= l
  <2> HIDE DEF without
  <2> QED
    BY <1>1, LeastOf
<1>3. CASE m = 0
  <2> DEFINE f == [k \in 0..0 |-> rel]
  <2>1. \A k \in 0..0 : k = 0
    OBVIOUS
  <2>2. Rounds(f, rel, 0)
    BY <2>1 DEF Rounds
  <2> HIDE DEF f
  <2> QED
    BY <1>3, <2>2
<1>4. CASE m # 0
  <2>1. m \in Nat /\ m - 1 \in Nat /\ m - 1 \notin without
    BY <1>2, <1>4
  <2>2. PICK g : Rounds(g, rel, m - 1)
    BY <2>1
  <2> DEFINE f == [k \in 0..m |-> IF k = m THEN Through(g[m - 1], m) ELSE g[k]]
  <2>3. \A k \in 0..(m - 1) : g[k] = IF k = 0 THEN rel ELSE Through(g[k-1], k)
    BY <2>2 DEF Rounds
  <2>4. \A k \in 0..(m - 1) : f[k] = g[k]
    BY <2>1
  <2>5. f[m] = Through(g[m - 1], m)
    BY <2>1
  <2>6. DOMAIN f = 0..m /\ f = [k \in 0..m |-> f[k]]
    OBVIOUS
  <2> HIDE DEF f
  <2>7. ASSUME NEW k \in 0..m
        PROVE  f[k] = IF k = 0 THEN rel ELSE Through(f[k-1], k)
    <3>1. CASE k = m
      <4>1. m - 1 \in 0..(m - 1)
        BY <2>1
      <4> QED
        BY <1>4, <2>4, <2>5, <3>1, <4>1
    <3>2. CASE k # m
      <4>1. k \in 0..(m - 1) /\ (k # 0 => k - 1 \in 0..(m - 1))
        BY <2>1, <3>2
      <4> QED
        BY <2>3, <2>4, <4>1
    <3> QED
      BY <3>1, <3>2
  <2>8. Rounds(f, rel, m)
    BY <2>6, <2>7 DEF Rounds
  <2> QED
    BY <2>8
<1> QED
  BY <1>3, <1>4

\* What Ways returns is in every transitive set of pairs that holds the edges.
LEMMA WaysWithin ==
  ASSUME NEW rel, NEW T, rel \subseteq T, Len(trace) \in Nat,
         \A a, b, c : <<a, b>> \in T /\ <<b, c>> \in T => <<a, c>> \in T
  PROVE  Ways(rel) \subseteq T
<1> DEFINE n == Len(trace)
           rounds == CHOOSE f : Rounds(f, rel, n)
<1>1. Ways(rel) = rounds[n]
  BY DEF Ways, Through, Rounds
<1>2. \E f : Rounds(f, rel, n)
  BY RoundsExist
<1>3. Rounds(rounds, rel, n)
  BY <1>2
<1> HIDE DEF rounds
<1>4. \A k \in 0..n : rounds[k] = IF k = 0 THEN rel ELSE Through(rounds[k-1], k)
  BY <1>3 DEF Rounds
<1> DEFINE outside == {k \in 0..n : ~(rounds[k] \subseteq T)}
<1>5. outside = {}
  <2> SUFFICES ASSUME outside # {} PROVE FALSE
    OBVIOUS
  <2>1. outside \subseteq Nat
    OBVIOUS
  <2>2. PICK k \in outside : \A l \in outside : k <= l
    <3> HIDE DEF outside
    <3> QED
      BY <2>1, LeastOf
  <2>3. k \in 0..n /\ ~(rounds[k] \subseteq T) /\ k \in Nat
    OBVIOUS
  <2>4. k # 0
    BY <1>4, <2>3
  <2>5. k - 1 \in 0..n /\ k - 1 \notin outside
    BY <2>2, <2>3, <2>4
  <2>6. rounds[k - 1] \subseteq T
    BY <2>5
  <2>7. rounds[k] = Through(rounds[k - 1], k)
    BY <1>4, <2>3, <2>4
  <2>8. ASSUME NEW e \in Through(rounds[k - 1], k) PROVE e \in T
    <3>1. CASE e \in rounds[k - 1]
      BY <2>6, <3>1
    <3>2. CASE /\ e \in Positions \X Positions
               /\ <<e[1], k>> \in rounds[k - 1] /\ <<k, e[2]>> \in rounds[k - 1]
      <4>1. <<e[1], k>> \in T /\ <<k, e[2]>> \in T
        BY <2>6, <3>2
      <4>2. <<e[1], e[2]>> \in T
        BY <4>1
      <4> QED
        BY <3>2, <4>2
    <3> QED
      BY <3>1, <3>2 DEF Through
  <2> QED
    BY <2>3, <2>7, <2>8
<1>6. n \in 0..n
  OBVIOUS
<1> QED
  BY <1>1, <1>5, <1>6
-------------------------------------------------------------------------------
(* Chains: the ways of the graph, statement by statement.                  *)

Chain(q, rel) ==
  /\ q \in Seq(Positions) /\ Len(q) >= 1
  /\ \A i \in 1..(Len(q) - 1) : <<q[i], q[i + 1]>> \in rel

Linked(a, b, rel) == \E q : Chain(q, rel) /\ q[1] = a /\ q[Len(q)] = b

Joins(q, p, r, rel) ==
  /\ Chain(q, rel) /\ Len(q) = Len(p) + Len(r) - 1
  /\ \A i \in 1..Len(p) : q[i] = p[i]
  /\ \A i \in 1..Len(r) : q[Len(p) + i - 1] = r[i]

\* A chain and one from where it ends make one chain.
LEMMA ChainsJoin ==
  ASSUME NEW rel, NEW p, NEW r, Chain(p, rel), Chain(r, rel), p[Len(p)] = r[1]
  PROVE  \E q : Joins(q, p, r, rel)
<1> DEFINE m == Len(p)
           n == Len(r)
           q == [i \in 1..(m + n - 1) |-> IF i <= m THEN p[i] ELSE r[i - m + 1]]
<1>1. /\ m \in Nat /\ n \in Nat /\ m >= 1 /\ n >= 1 /\ p \in Seq(Positions) /\ r \in Seq(Positions)
  BY DEF Chain
<1>2. \A i \in 1..(m - 1) : <<p[i], p[i + 1]>> \in rel
  BY DEF Chain
<1>3. \A i \in 1..(n - 1) : <<r[i], r[i + 1]>> \in rel
  BY DEF Chain
<1>4. \A i \in 1..m : p[i] \in Positions
  BY <1>1
<1>5. \A i \in 1..n : r[i] \in Positions
  BY <1>1
<1>6. p[m] = r[1]
  OBVIOUS
<1> HIDE DEF m, n
<1>7. \A i \in 1..(m + n - 1) : q[i] = IF i <= m THEN p[i] ELSE r[i - m + 1]
  OBVIOUS
<1>8. \A i \in 1..(m + n - 1) : q[i] \in Positions
  <2> SUFFICES ASSUME NEW i \in 1..(m + n - 1) PROVE q[i] \in Positions
    OBVIOUS
  <2>1. CASE i <= m
    BY <1>1, <1>4, <1>7, <2>1
  <2>2. CASE ~(i <= m)
    <3>1. i - m + 1 \in 1..n
      BY <1>1, <2>2
    <3> QED
      BY <1>5, <1>7, <2>2, <3>1
  <2> QED
    BY <2>1, <2>2
<1>9. q \in Seq(Positions) /\ Len(q) = m + n - 1
  <2>1. m + n - 1 \in Nat /\ q = [i \in 1..(m + n - 1) |-> q[i]]
    BY <1>1
  <2> HIDE DEF q
  <2> QED
    BY <1>8, <2>1
<1> HIDE DEF q
<1>10. \A i \in 1..m : q[i] = p[i]
  BY <1>1, <1>7
<1>11. \A i \in 1..n : q[m + i - 1] = r[i]
  <2> SUFFICES ASSUME NEW i \in 1..n PROVE q[m + i - 1] = r[i]
    OBVIOUS
  <2>1. m + i - 1 \in 1..(m + n - 1)
    BY <1>1
  <2>2. CASE i = 1
    <3>1. m + i - 1 = m /\ m \in 1..m
      BY <1>1, <2>2
    <3> QED
      BY <1>6, <1>10, <2>2, <3>1
  <2>3. CASE i # 1
    <3>1. ~(m + i - 1 <= m) /\ (m + i - 1) - m + 1 = i
      BY <1>1, <2>3
    <3> QED
      BY <1>7, <2>1, <3>1
  <2> QED
    BY <2>2, <2>3
<1>12. \A i \in 1..(Len(q) - 1) : <<q[i], q[i + 1]>> \in rel
  <2> SUFFICES ASSUME NEW i \in 1..(m + n - 2) PROVE <<q[i], q[i + 1]>> \in rel
    BY <1>1, <1>9
  <2>1. CASE i < m
    <3>1. i \in 1..(m - 1) /\ i \in 1..m /\ i + 1 \in 1..m
      BY <1>1, <2>1
    <3> QED
      BY <1>2, <1>10, <3>1
  <2>2. CASE ~(i < m)
    <3> DEFINE k == i - m + 1
    <3>1. /\ k \in 1..(n - 1) /\ k \in 1..n /\ k + 1 \in 1..n
          /\ m + k - 1 = i /\ m + (k + 1) - 1 = i + 1
      BY <1>1, <2>2
    <3> HIDE DEF k
    <3>2. q[m + k - 1] = r[k] /\ q[m + (k + 1) - 1] = r[k + 1]
      BY <1>11, <3>1
    <3> QED
      BY <1>3, <3>1, <3>2
  <2> QED
    BY <2>1, <2>2
<1>13. Len(q) >= 1
  BY <1>1, <1>9
<1>14. Chain(q, rel)
  BY <1>9, <1>12, <1>13 DEF Chain
<1>15. Joins(q, p, r, rel)
  BY <1>9, <1>10, <1>11, <1>14 DEF m, n, Joins
<1> QED
  BY <1>15

LEMMA LinkedTransitive ==
  ASSUME NEW rel, NEW a, NEW b, NEW c, Linked(a, b, rel), Linked(b, c, rel)
  PROVE  Linked(a, c, rel)
<1>1. PICK p : Chain(p, rel) /\ p[1] = a /\ p[Len(p)] = b
  BY DEF Linked
<1>2. PICK r : Chain(r, rel) /\ r[1] = b /\ r[Len(r)] = c
  BY DEF Linked
<1>j. PICK q : Joins(q, p, r, rel)
  BY <1>1, <1>2, ChainsJoin
<1>3. /\ Chain(q, rel) /\ Len(q) = Len(p) + Len(r) - 1
      /\ \A i \in 1..Len(p) : q[i] = p[i]
      /\ \A i \in 1..Len(r) : q[Len(p) + i - 1] = r[i]
  BY <1>j DEF Joins
<1>4. Len(p) \in Nat /\ Len(p) >= 1 /\ Len(r) \in Nat /\ Len(r) >= 1
  BY <1>1, <1>2 DEF Chain
<1>5. q[1] = a
  BY <1>1, <1>3, <1>4
<1>6. q[Len(q)] = c
  BY <1>2, <1>3, <1>4
<1> QED
  BY <1>3, <1>5, <1>6 DEF Linked

LEMMA LinkedSelf ==
  ASSUME NEW rel, NEW a \in Positions
  PROVE  Linked(a, a, rel)
<1>1. Chain(<<a>>, rel) /\ <<a>>[1] = a /\ Len(<<a>>) = 1
  BY DEF Chain
<1> QED
  BY <1>1 DEF Linked

LEMMA LinkedByEdge ==
  ASSUME NEW rel, NEW a \in Positions, NEW b \in Positions, <<a, b>> \in rel
  PROVE  Linked(a, b, rel)
<1>1. Chain(<<a, b>>, rel) /\ <<a, b>>[1] = a /\ Len(<<a, b>>) = 2 /\ <<a, b>>[2] = b
  BY DEF Chain
<1> QED
  BY <1>1 DEF Linked

\* What is linked is what a transitive set of pairs may hold.
LinkedPairs(rel) == {e \in Positions \X Positions : Linked(e[1], e[2], rel)}

LEMMA WaysLinked ==
  ASSUME Len(trace) \in Nat, NEW rel, NEW ways,
         \A e \in ways : e \in Positions \X Positions /\ Linked(e[1], e[2], rel)
  PROVE  \A e \in Ways(ways) : e \in Positions \X Positions /\ Linked(e[1], e[2], rel)
<1>1. ways \subseteq LinkedPairs(rel)
  BY DEF LinkedPairs
<1>2. ASSUME NEW a, NEW b, NEW c, <<a, b>> \in LinkedPairs(rel), <<b, c>> \in LinkedPairs(rel)
      PROVE  <<a, c>> \in LinkedPairs(rel)
  <2>1. a \in Positions /\ c \in Positions /\ Linked(a, b, rel) /\ Linked(b, c, rel)
    BY <1>2 DEF LinkedPairs
  <2>2. Linked(a, c, rel)
    BY <2>1, LinkedTransitive
  <2> QED
    BY <2>1, <2>2 DEF LinkedPairs
<1>3. Ways(ways) \subseteq LinkedPairs(rel)
  BY <1>1, <1>2, WaysWithin
<1> QED
  BY <1>3 DEF LinkedPairs

\* A statement is linked with the later ones of its thread.
LEMMA ThreadLinked ==
  ASSUME GenTypeOK, NEW rel, White \subseteq rel,
         NEW i \in Positions, NEW j \in Positions, i <= j, Thread(i) = Thread(j)
  PROVE  Linked(i, j, rel)
<1> DEFINE apart == {n \in Nat : \E k \in Positions : /\ n = j - k /\ k <= j
                                   /\ Thread(k) = Thread(j) /\ ~Linked(k, j, rel)}
<1>1. Positions \subseteq Nat
  BY TraceType DEF GenTypeOK
<1> SUFFICES ASSUME ~Linked(i, j, rel) PROVE FALSE
  OBVIOUS
<1>2. j - i \in apart /\ apart \subseteq Nat
  BY <1>1
<1>3. PICK n \in apart : \A m \in apart : n <= m
  <2> HIDE DEF apart
  <2> QED
    BY <1>2, LeastOf
<1>4. PICK k \in Positions : n = j - k /\ k <= j /\ Thread(k) = Thread(j) /\ ~Linked(k, j, rel)
  OBVIOUS
<1>5. k # j
  BY <1>4, LinkedSelf
<1> DEFINE later == {l \in Positions : k < l /\ Thread(l) = Thread(j)}
<1>6. later \subseteq Nat /\ j \in later
  <2>1. k \in Nat /\ j \in Nat
    BY <1>1
  <2>2. k < j
    BY <1>4, <1>5, <2>1
  <2> QED
    BY <1>1, <2>2
<1>7. PICK next \in later : \A l \in later : next <= l
  <2> HIDE DEF later
  <2> QED
    BY <1>6, LeastOf
<1>8. /\ next \in Positions /\ next \in Nat /\ k \in Nat /\ j \in Nat
      /\ k < next /\ next <= j /\ Thread(next) = Thread(j)
  BY <1>1, <1>6, <1>7
<1>9. <<k, next>> \in White
  <2>1. ASSUME NEW l \in (k + 1)..(next - 1) PROVE Thread(l) # Thread(k)
    <3>1. l \in Positions /\ k < l /\ ~(next <= l)
      BY <1>8 DEF Positions
    <3> QED
      BY <1>4, <1>7, <3>1
  <2> QED
    BY <1>4, <1>8, <2>1 DEF White
<1>10. Linked(k, next, rel)
  BY <1>8, <1>9, LinkedByEdge
<1>11. Linked(next, j, rel)
  <2>1. j - next \in Nat /\ ~(n <= j - next)
    BY <1>4, <1>8
  <2>2. j - next \notin apart
    BY <1>3, <2>1
  <2> QED
    BY <1>8, <2>1, <2>2
<1> QED
  BY <1>4, <1>10, <1>11, LinkedTransitive

\* The edges that removeTransitive keeps link what all of them do: a way that
\* makes an edge superfluous has only shorter edges.
LEMMA ReducedLinked ==
  ASSUME GenInv, NEW e \in edgesGen
  PROVE  Linked(e[1], e[2], Reduced(edgesGen) \cup White)
<1> DEFINE rel == Reduced(edgesGen) \cup White
           long == {n \in Nat : \E f \in edgesGen : n = f[2] - f[1] /\ ~Linked(f[1], f[2], rel)}
<1>1. Positions \subseteq Nat /\ Len(trace) \in Nat
  BY TraceType DEF GenInv, GenTypeOK
<1>2. ASSUME NEW f \in edgesGen \cup White
      PROVE  /\ f = <<f[1], f[2]>> /\ f[1] \in Positions /\ f[2] \in Positions
             /\ f[1] \in Nat /\ f[2] \in Nat /\ f[1] < f[2]
  <2>1. f \in Positions \X Positions /\ f[1] < f[2]
    BY DEF GenInv, GenTypeOK, OnlyConflicts, White
  <2>2. f = <<f[1], f[2]>> /\ f[1] \in Positions /\ f[2] \in Positions
    BY <2>1
  <2>3. f[1] \in Nat /\ f[2] \in Nat
    BY <1>1, <2>2
  <2> QED
    BY <2>1, <2>2, <2>3
<1>3. ASSUME long # {} PROVE FALSE
  <2>1. long \subseteq Nat
    OBVIOUS
  <2>2. PICK n \in long : \A m \in long : n <= m
    <3> HIDE DEF long
    <3> QED
      BY <1>3, <2>1, LeastOf
  <2>3. PICK d \in edgesGen : n = d[2] - d[1] /\ ~Linked(d[1], d[2], rel)
    OBVIOUS
  <2>4. /\ d = <<d[1], d[2]>> /\ d[1] \in Positions /\ d[2] \in Positions
        /\ d[1] \in Nat /\ d[2] \in Nat /\ d[1] < d[2]
    BY <1>2
  <2>5. d \notin Reduced(edgesGen)
    <3>1. ASSUME d \in Reduced(edgesGen) PROVE FALSE
      <4>1. <<d[1], d[2]>> \in rel
        BY <2>4, <3>1
      <4> HIDE DEF rel
      <4> QED
        BY <2>3, <2>4, <4>1, LinkedByEdge
    <3> QED
      BY <3>1
  <2>6. d \in Ways((edgesGen \cup White) \ {d})
    BY <2>5 DEF Reduced
  <2> DEFINE T == {f \in Positions \X Positions :
                     f[1] < f[2] /\ (d[1] <= f[1] /\ f[2] <= d[2] => Linked(f[1], f[2], rel))}
  <2>7. ASSUME NEW f \in (edgesGen \cup White) \ {d} PROVE f \in T
    <3>1. /\ f = <<f[1], f[2]>> /\ f[1] \in Positions /\ f[2] \in Positions
          /\ f[1] \in Nat /\ f[2] \in Nat /\ f[1] < f[2]
      BY <1>2
    <3>2. ASSUME d[1] <= f[1], f[2] <= d[2] PROVE Linked(f[1], f[2], rel)
      <4>1. CASE f \in White
        <5>1. <<f[1], f[2]>> \in rel
          BY <3>1, <4>1
        <5> HIDE DEF rel
        <5> QED
          BY <3>1, <5>1, LinkedByEdge
      <4>2. CASE f \in edgesGen
        <5>1. f[1] # d[1] \/ f[2] # d[2]
          BY <2>4, <3>1
        <5>2. f[2] - f[1] \in Nat /\ ~(n <= f[2] - f[1])
          BY <2>3, <2>4, <3>1, <3>2, <5>1
        <5>3. f[2] - f[1] \notin long
          BY <2>2, <5>2
        <5> QED
          BY <4>2, <5>2, <5>3
      <4> QED
        BY <4>1, <4>2
    <3> HIDE DEF rel
    <3>3. f \in Positions \X Positions
      BY <3>1
    <3> QED
      BY <3>1, <3>2, <3>3
  <2>8. ASSUME NEW a, NEW b, NEW c, <<a, b>> \in T, <<b, c>> \in T
        PROVE  <<a, c>> \in T
    <3> HIDE DEF rel
    <3>1. /\ a \in Positions /\ b \in Positions /\ c \in Positions /\ a < b /\ b < c
          /\ d[1] <= a /\ b <= d[2] => Linked(a, b, rel)
          /\ d[1] <= b /\ c <= d[2] => Linked(b, c, rel)
      BY <2>8
    <3>2. a \in Nat /\ b \in Nat /\ c \in Nat
      BY <1>1, <3>1
    <3>3. a < c
      BY <3>1, <3>2
    <3>4. ASSUME d[1] <= a, c <= d[2] PROVE Linked(a, c, rel)
      <4>1. b <= d[2] /\ d[1] <= b
        BY <2>4, <3>1, <3>2, <3>4
      <4> QED
        BY <3>1, <3>4, <4>1, LinkedTransitive
    <3> QED
      BY <3>1, <3>3, <3>4
  <2>9. Ways((edgesGen \cup White) \ {d}) \subseteq T
    <3> DEFINE others == (edgesGen \cup White) \ {d}
    <3>1. others \subseteq T
      BY <2>7
    <3> HIDE DEF T, others
    <3> QED
      BY <1>1, <2>8, <3>1, WaysWithin DEF others
  <2>10. d \in T
    <3> HIDE DEF T
    <3> QED
      BY <2>6, <2>9
  <2>11. Linked(d[1], d[2], rel)
    <3> HIDE DEF rel
    <3>1. d[1] <= d[1] /\ d[2] <= d[2]
      BY <2>4
    <3> QED
      BY <2>10, <3>1
  <2> QED
    BY <2>3, <2>11
<1>4. /\ e[1] \in Nat /\ e[2] \in Nat /\ e[1] < e[2]
  BY <1>2
<1>5. e[2] - e[1] \in Nat
  BY <1>4
<1>6. ASSUME ~Linked(e[1], e[2], rel) PROVE FALSE
  <2>1. e[2] - e[1] \in long
    <3> HIDE DEF rel
    <3> QED
      BY <1>5, <1>6
  <2> QED
    BY <1>3, <2>1
<1> QED
  BY <1>6

\* In the graph, what interferes is linked.
LEMMA DependencesLinked ==
  ASSUME GenInv, ConflictsCovered, phase = "cycles", edges = <<>>, black = Reduced(edgesGen),
         NEW threads, NEW e \in Dependences(threads)
  PROVE  e \in Positions \X Positions /\ Linked(e[1], e[2], black \cup White)
<1> DEFINE rel == black \cup White
<1>1. Positions \subseteq Nat /\ GenTypeOK
  BY TraceType DEF GenInv, GenTypeOK
<1>2. /\ e \in Positions \X Positions /\ e[1] \in Positions /\ e[2] \in Positions
      /\ e[1] \in Nat /\ e[2] \in Nat /\ e[1] < e[2]
      /\ Thread(e[1]) = Thread(e[2]) \/ Interfere(e[1], e[2])
  <2>1. /\ e \in Positions \X Positions /\ e[1] < e[2]
        /\ Thread(e[1]) = Thread(e[2]) \/ Interfere(e[1], e[2])
    BY DEF Dependences
  <2> QED
    BY <1>1, <2>1
<1>3. White \subseteq rel
  OBVIOUS
<1>4. CASE Thread(e[1]) = Thread(e[2])
  <2>1. e[1] <= e[2]
    BY <1>2
  <2> HIDE DEF rel
  <2>2. Linked(e[1], e[2], rel)
    BY <1>1, <1>2, <1>3, <1>4, <2>1, ThreadLinked
  <2> QED
    BY <1>2, <2>2 DEF rel
<1>5. CASE Thread(e[1]) # Thread(e[2])
  <2>1. PICK d \in edgesGen : Between(d, e[1], e[2])
    BY <1>2, <1>5 DEF ConflictsCovered
  <2>2. d[1] \in Positions /\ d[2] \in Positions
    BY DEF GenInv, GenTypeOK
  <2>3. Linked(d[1], d[2], rel)
    BY ReducedLinked
  <2> HIDE DEF rel
  <2>4. Linked(e[1], d[1], rel)
    BY <1>1, <1>2, <1>3, <2>1, <2>2, ThreadLinked DEF Between
  <2>5. Linked(d[2], e[2], rel)
    BY <1>1, <1>2, <1>3, <2>1, <2>2, ThreadLinked DEF Between
  <2>6. Linked(e[1], e[2], rel)
    BY <2>3, <2>4, <2>5, LinkedTransitive
  <2> QED
    BY <1>2, <2>6 DEF rel
<1> QED
  BY <1>4, <1>5

\* Chains lead on in the trace.
LEMMA ChainsOnwards ==
  ASSUME GenInv, NEW q, Chain(q, black \cup White)
  PROVE  \A i, j \in 1..Len(q) : i < j => q[i] < q[j]
<1>1. /\ Positions \subseteq Nat /\ q \in Seq(Positions) /\ Len(q) \in Nat
      /\ \A i \in 1..Len(q) : q[i] \in Nat
  BY TraceType DEF GenInv, GenTypeOK, Chain
<1>2. ASSUME NEW i \in 1..(Len(q) - 1) PROVE q[i] < q[i + 1]
  <2> DEFINE e == <<q[i], q[i + 1]>>
  <2>1. e \in black \cup White
    BY DEF Chain
  <2>2. e \in edgesGen \cup White
    BY <2>1 DEF GenInv, GenTypeOK
  <2>3. \A f \in edgesGen \cup White : f[1] < f[2]
    BY DEF GenInv, OnlyConflicts, White
  <2>4. e[1] < e[2]
    BY <2>2, <2>3
  <2> QED
    BY <2>4
<1>3. SUFFICES ASSUME NEW i \in 1..Len(q) PROVE \A j \in 1..Len(q) : i < j => q[i] < q[j]
  OBVIOUS
<1> DEFINE back == {j \in 1..Len(q) : i < j /\ ~(q[i] < q[j])}
<1>4. ASSUME back # {} PROVE FALSE
  <2>1. back \subseteq Nat
    OBVIOUS
  <2>2. PICK j \in back : \A k \in back : j <= k
    <3> HIDE DEF back
    <3> QED
      BY <1>4, <2>1, LeastOf
  <2>3. j \in 1..Len(q) /\ i < j /\ ~(q[i] < q[j]) /\ i \in Nat /\ j \in Nat
    OBVIOUS
  <2>4. j - 1 \in 1..(Len(q) - 1) /\ (j - 1) + 1 = j /\ j - 1 \in 1..Len(q)
    BY <1>1, <2>3
  <2>5. q[j - 1] < q[j]
    BY <1>2, <2>4
  <2>6. i # j - 1
    BY <2>3, <2>5
  <2>7. i < j - 1 /\ ~(j <= j - 1)
    BY <2>3, <2>6
  <2>8. j - 1 \notin back
    BY <2>2, <2>7
  <2>9. q[i] < q[j - 1]
    BY <2>4, <2>7, <2>8
  <2> QED
    BY <1>1, <2>3, <2>4, <2>5, <2>9
<1> QED
  BY <1>4
-------------------------------------------------------------------------------
(* The search is complete: a way along the edges, closed by one red edge,  *)
(* has been found, or a call is under way on it.                           *)

TraceThreads == {Thread(i) : i \in Positions}
FewThreads == deadlock \/ Cardinality(TraceThreads) <= 2

Goal(q, a) ==
  /\ Chain(q, black \cup White) /\ q[1] \in Starts
  /\ a \in 1..(Len(q) - 1) /\ <<q[Len(q)], q[a]>> \in RedDotted
  /\ Thread(q[a + 1]) # Thread(q[a])

Found(q, a) == <<q[Len(q)], q[a]>> \in Swaps

\* a call that has come to statement m of the way
CameTo(c, q, m) ==
  /\ m \in 1..Len(q) /\ Len(c.path) = m - 1 /\ c.node = q[m] /\ c.redUsed = FALSE
  /\ \A i \in 1..(m - 1) : c.path[i] = q[i]

\* a call that has come to the end of it and turned back
CameBack(c, q, a) == c.path = q /\ c.node = q[a]

UnderWay(q, a) ==
  \/ \E c \in calls : \E m \in 1..Len(q) : CameTo(c, q, m)
  \/ \E c \in calls : CameBack(c, q, a)

CallThreads ==
  \A c \in calls : c.this \in TraceThreads /\ c.other \in TraceThreads \cup {NoThread}
                   /\ c.other # c.this

SearchInv ==
  phase = "cycles" =>
    /\ edges = <<>> /\ black = Reduced(edgesGen) /\ CallThreads
    /\ FewThreads => \A q, a : Goal(q, a) => Found(q, a) \/ UnderWay(q, a)

\* With few threads no call meets a third one.
LEMMA NoThird ==
  ASSUME GenInv, CallThreads, FewThreads, NEW c \in calls
  PROVE  ~ThirdThread(c)
<1> SUFFICES ASSUME ThirdThread(c) PROVE FALSE
  OBVIOUS
<1> DEFINE t == Thread(c.node)
<1>1. c.node \in Positions /\ t \in TraceThreads
  BY WalkFacts DEF TraceThreads
<1>2. /\ c.this \in TraceThreads /\ c.other \in TraceThreads /\ c.other # c.this
      /\ t # c.this /\ t # c.other /\ ~deadlock
  BY DEF CallThreads, ThirdThread
<1>3. Len(trace) \in Nat /\ Positions = 1..Len(trace)
  BY TraceType DEF GenInv, GenTypeOK, Positions
<1>4. IsFiniteSet(TraceThreads)
  <2> DEFINE thread == [i \in Positions |-> Thread(i)]
  <2>1. IsFiniteSet(Positions)
    <3>1. 1 \in Int /\ Len(trace) \in Int
      BY <1>3
    <3> QED
      BY <1>3, <3>1, FS_Interval
  <2>2. thread \in Surjection(Positions, TraceThreads)
    <3>1. thread \in [Positions -> TraceThreads]
      BY DEF TraceThreads
    <3>2. ASSUME NEW x \in TraceThreads PROVE \E i \in Positions : thread[i] = x
      BY DEF TraceThreads
    <3> HIDE DEF thread
    <3> QED
      BY <3>1, <3>2 DEF Surjection
  <2> HIDE DEF thread
  <2> QED
    BY <2>1, <2>2, FS_Surjection
<1> HIDE DEF t
<1> DEFINE one == {c.this}
           two == one \cup {c.other}
           three == two \cup {t}
<1>5. IsFiniteSet(one) /\ Cardinality(one) = 1
  BY FS_Singleton
<1>6. IsFiniteSet(two) /\ Cardinality(two) = 2
  <2>1. c.other \notin one
    BY <1>2
  <2> HIDE DEF one
  <2> QED
    BY <1>5, <2>1, FS_AddElement
<1>7. IsFiniteSet(three) /\ Cardinality(three) = 3
  <2>1. t \notin two
    BY <1>2
  <2> HIDE DEF two
  <2> QED
    BY <1>6, <2>1, FS_AddElement
<1>8. three \in SUBSET TraceThreads
  BY <1>1, <1>2
<1> HIDE DEF three
<1>9. Cardinality(three) <= Cardinality(TraceThreads)
  BY <1>4, <1>8, FS_Subset
<1>10. Cardinality(TraceThreads) <= 2 /\ Cardinality(TraceThreads) \in Nat
  BY <1>2, <1>4, FS_CardinalityType DEF FewThreads
<1> QED
  BY <1>7, <1>9, <1>10

\* The threads of further calls.
LEMMA FurtherThreads ==
  ASSUME GenInv, CallThreads, NEW c \in calls, NEW d \in Further(c)
  PROVE  d.this \in TraceThreads /\ d.other \in TraceThreads \cup {NoThread} /\ d.other # d.this
<1>1. d.this = c.this /\ d.other = NewOther(c)
  BY DEF Further, Call
<1>2. Thread(c.node) \in TraceThreads
  BY WalkFacts DEF TraceThreads
<1>3. c.this \in TraceThreads /\ c.other \in TraceThreads \cup {NoThread} /\ c.other # c.this
  BY DEF CallThreads
<1> QED
  BY <1>1, <1>2, <1>3 DEF NewOther

\* A call on the way goes on on it.
LEMMA GoesOn ==
  ASSUME GenInv, NEW q, NEW a, Goal(q, a), NEW c \in calls, NEW m, CameTo(c, q, m)
  PROVE  /\ ~OnPath(c)
         /\ m < Len(q) => \E d \in Further(c) : CameTo(d, q, m + 1)
         /\ m = Len(q) => \E d \in Further(c) : CameBack(d, q, a)
<1>1. /\ q \in Seq(Positions) /\ Len(q) \in Nat /\ Len(q) >= 1
      /\ \A i \in 1..(Len(q) - 1) : <<q[i], q[i + 1]>> \in black \cup White
  BY DEF Goal, Chain
<1>2. \A i, j \in 1..Len(q) : i < j => q[i] < q[j]
  BY ChainsOnwards DEF Goal
<1>3. /\ m \in 1..Len(q) /\ Len(c.path) = m - 1 /\ c.node = q[m] /\ c.redUsed = FALSE
      /\ \A i \in 1..(m - 1) : c.path[i] = q[i]
  BY DEF CameTo
<1>4. /\ c.path \in Seq(Positions) /\ DOMAIN c.path = 1..Len(c.path)
      /\ Walk(c) \in Seq(Positions) /\ Len(Walk(c)) = Len(c.path) + 1
      /\ \A i \in 1..Len(c.path) : Walk(c)[i] = c.path[i]
      /\ Walk(c)[Len(c.path) + 1] = c.node
  BY WalkFacts
<1>5. \A i \in 1..Len(q) : q[i] \in Nat
  <2>1. Positions \subseteq Nat
    BY TraceType DEF GenInv, GenTypeOK
  <2>2. q \in Seq(Positions)
    BY <1>1
  <2>3. \A i \in 1..Len(q) : q[i] \in Positions
    BY <2>2
  <2> QED
    BY <2>1, <2>3
<1>6. m \in Nat /\ m >= 1 /\ m <= Len(q)
  BY <1>1, <1>3
<1>7. ~OnPath(c)
  <2> SUFFICES ASSUME NEW i \in 1..(m - 1), c.path[i] = c.node PROVE FALSE
    BY <1>3, <1>4 DEF OnPath
  <2>1. i \in 1..Len(q) /\ i < m
    BY <1>1, <1>6
  <2>2. q[i] < q[m] /\ q[i] = q[m]
    BY <1>2, <1>3, <2>1
  <2>3. q[i] \in Nat /\ q[m] \in Nat
    BY <1>1, <1>3, <1>5, <2>1
  <2> QED
    BY <2>2, <2>3
<1>8. Len(Walk(c)) = m /\ \A i \in 1..m : Walk(c)[i] = q[i]
  <2>1. Len(Walk(c)) = m
    BY <1>3, <1>4, <1>6
  <2>2. ASSUME NEW i \in 1..m PROVE Walk(c)[i] = q[i]
    <3>1. CASE i = m
      <4>1. Len(c.path) + 1 = m
        BY <1>3, <1>6
      <4> QED
        BY <1>3, <1>4, <3>1, <4>1
    <3>2. CASE i # m
      <4>1. i \in 1..(m - 1) /\ i \in 1..Len(c.path)
        BY <1>3, <1>6, <3>2
      <4> QED
        BY <1>3, <1>4, <4>1
    <3> QED
      BY <3>1, <3>2
  <2> QED
    BY <2>1, <2>2
<1>9. ASSUME NEW e \in GraphEdges, e[1] = c.node
      PROVE  Call(Walk(c), e[2], e \in RedDotted, c.this, NewOther(c)) \in Further(c)
  BY <1>3, <1>9 DEF Further, GraphEdges, Walk
<1>10. ASSUME m < Len(q) PROVE \E d \in Further(c) : CameTo(d, q, m + 1)
  <2> DEFINE e == <<q[m], q[m + 1]>>
             d == Call(Walk(c), e[2], e \in RedDotted, c.this, NewOther(c))
  <2>1. m \in 1..(Len(q) - 1) /\ m + 1 \in 1..Len(q)
    BY <1>1, <1>6, <1>10
  <2>2. e \in GraphEdges /\ e[1] = c.node
    BY <1>1, <1>3, <2>1 DEF GraphEdges
  <2>3. d \in Further(c)
    BY <1>9, <2>2
  <2>4. e \notin RedDotted
    <3>1. q[m] < q[m + 1] /\ q[m] \in Nat /\ q[m + 1] \in Nat
      BY <1>1, <1>2, <1>3, <1>5, <1>6, <2>1
    <3>2. ~(q[m + 1] < q[m])
      BY <3>1
    <3> QED
      BY <3>2 DEF RedDotted
  <2>5. d.path = Walk(c) /\ d.node = q[m + 1] /\ d.redUsed = FALSE
    <3>1. (e \in RedDotted) = FALSE
      BY <2>4
    <3>2. d.path = Walk(c) /\ d.node = e[2] /\ d.redUsed = (e \in RedDotted)
      BY DEF Call
    <3> HIDE DEF d
    <3> QED
      BY <3>1, <3>2
  <2>6. (m + 1) - 1 = m
    BY <1>6
  <2> HIDE DEF d
  <2>7. CameTo(d, q, m + 1)
    BY <1>8, <2>1, <2>5, <2>6 DEF CameTo
  <2> QED
    BY <2>3, <2>7
<1>11. ASSUME m = Len(q) PROVE \E d \in Further(c) : CameBack(d, q, a)
  <2> DEFINE e == <<q[Len(q)], q[a]>>
             d == Call(Walk(c), e[2], e \in RedDotted, c.this, NewOther(c))
  <2>1. e \in RedDotted
    BY DEF Goal
  <2>2. e \in GraphEdges /\ e[1] = c.node
    BY <1>3, <1>11, <2>1 DEF GraphEdges
  <2>3. d \in Further(c)
    BY <1>9, <2>2
  <2>4. d.path = Walk(c) /\ d.node = q[a]
    BY DEF Call
  <2>5. Walk(c) = q
    <3> DEFINE w == Walk(c)
    <3>1. w \in Seq(Positions) /\ Len(w) = Len(q) /\ \A i \in 1..Len(q) : w[i] = q[i]
      BY <1>4, <1>8, <1>11
    <3> HIDE DEF w
    <3>2. w = q
      BY <1>1, <3>1, SeqEqual
    <3> QED
      BY <3>2 DEF w
  <2> HIDE DEF d
  <2>6. CameBack(d, q, a)
    BY <2>4, <2>5 DEF CameBack
  <2> QED
    BY <2>3, <2>6
<1> QED
  BY <1>7, <1>10, <1>11

\* A call that has turned back closes the cycle of the way.
LEMMA ComesBack ==
  ASSUME GenInv, NEW q, NEW a, Goal(q, a), NEW c \in calls, CameBack(c, q, a)
  PROVE  /\ OnPath(c) /\ GoodCycle(CycleOf(c))
         /\ <<q[Len(q)], q[a]>> \in EdgesOf(CycleOf(c))
<1>1. /\ q \in Seq(Positions) /\ Len(q) \in Nat /\ Len(q) >= 1 /\ DOMAIN q = 1..Len(q)
      /\ a \in 1..(Len(q) - 1) /\ Thread(q[a + 1]) # Thread(q[a])
      /\ \A i \in 1..Len(q) : q[i] \in Positions
  BY DEF Goal, Chain
<1>2. \A i, j \in 1..Len(q) : i < j => q[i] < q[j]
  BY ChainsOnwards DEF Goal
<1>3. c.path = q /\ c.node = q[a] /\ c.node \in Positions
  BY WalkFacts DEF CameBack
<1>4. Positions \subseteq Nat
  BY TraceType DEF GenInv, GenTypeOK
<1>5. a \in 1..Len(q) /\ a \in Nat /\ a >= 1 /\ a + 1 <= Len(q)
  BY <1>1
<1>6. OnPath(c)
  BY <1>1, <1>3, <1>5 DEF OnPath
<1> DEFINE first == CHOOSE i \in DOMAIN c.path : c.path[i] = c.node
<1>7. first = a
  <2>1. first \in 1..Len(q) /\ q[first] = q[a]
    BY <1>1, <1>3, <1>5
  <2> HIDE DEF first
  <2>2. q[a] \in Nat
    BY <1>1, <1>4, <1>5
  <2>3. ~(first < a) /\ ~(a < first)
    BY <1>2, <1>5, <2>1, <2>2
  <2> QED
    BY <1>5, <2>1, <2>3
<1> DEFINE part == SubSeq(q, a, Len(q))
           cycle == Append(part, q[a])
<1>8. CycleOf(c) = cycle
  BY <1>3, <1>7 DEF CycleOf
<1>9. /\ part \in Seq(Positions) /\ Len(part) = Len(q) - a + 1
      /\ \A i \in 1..(Len(q) - a + 1) : part[i] = q[a + i - 1]
  <2>1. a \in Int /\ Len(q) \in Int /\ a <= Len(q)
    BY <1>1, <1>5
  <2>2. \A i \in a..Len(q) : q[i] \in Positions
    BY <1>1, <1>5
  <2> QED
    BY <2>1, <2>2, SubSeqProperties
<1> HIDE DEF part
<1>10. /\ Len(cycle) = Len(part) + 1 /\ DOMAIN cycle = 1..(Len(part) + 1)
       /\ \A i \in 1..Len(part) : cycle[i] = part[i]
       /\ cycle[Len(part) + 1] = q[a]
  BY <1>1, <1>5, <1>9
<1> HIDE DEF cycle
<1> DEFINE n == Len(q) - a + 1
<1>11. n \in Nat /\ n >= 2 /\ Len(part) = n
  BY <1>1, <1>5, <1>9
<1>12. /\ 1 \in 1..n /\ a + 1 - 1 = a
       /\ 2 \in 1..n /\ a + 2 - 1 = a + 1
       /\ n \in 1..n /\ a + n - 1 = Len(q)
  BY <1>1, <1>5
<1>13. part[1] = q[a] /\ part[2] = q[a + 1] /\ part[n] = q[Len(q)]
  BY <1>9, <1>12
<1> HIDE DEF n
<1>14. cycle[1] = q[a] /\ cycle[2] = q[a + 1] /\ cycle[n] = q[Len(q)] /\ cycle[n + 1] = q[a]
  BY <1>10, <1>11, <1>12, <1>13
<1>15. GoodCycle(cycle)
  <2>1. 2 \in DOMAIN cycle
    BY <1>10, <1>11
  <2> QED
    BY <1>1, <1>14, <2>1 DEF GoodCycle
<1>16. <<q[Len(q)], q[a]>> \in EdgesOf(cycle)
  <2>1. n \in 1..(Len(cycle) - 1)
    BY <1>10, <1>11
  <2> QED
    BY <1>14, <2>1 DEF EdgesOf
<1> QED
  BY <1>6, <1>8, <1>15, <1>16

\* What the search has found stays, what is under way goes on.
LEMMA SearchStep ==
  ASSUME GenInv, SearchInv, [GenNext]_genVars
  PROVE  SearchInv'
<1>0. trace' = trace /\ Positions' = Positions
  BY TraceFixed DEF Positions
<1>1. CASE \/ StayInBlock \/ EndOfBlock \/ ReachThread \/ AllReached \/ EndOfTrace
           \/ GeneraliseEdge \/ CompareWithBefore \/ EdgeGeneralised
  <2>1. phase' # "cycles"
    BY <1>1 DEF StayInBlock, EndOfBlock, ReachThread, AllReached, EndOfTrace,
                GeneraliseEdge, CompareWithBefore, EdgeGeneralised
  <2> QED
    BY <2>1 DEF SearchInv
<1>2. CASE BuildGraph
  <2>1. /\ edges = <<>> /\ edges' = edges /\ edgesGen' = edgesGen /\ deadlock' = deadlock
        /\ black' = Reduced(edgesGen)
        /\ calls' = {Call(<<>>, s, FALSE, Thread(s), NoThread) : s \in Starts}
    BY <1>2 DEF BuildGraph, scan
  <2>2. Reduced(edgesGen)' = Reduced(edgesGen)
    BY <1>0, <2>1 DEF Reduced, Ways, White, Thread
  <2>3. Starts \subseteq Positions
    BY DEF Starts
  <2>4. NoThread \notin TraceThreads /\ TraceThreads' = TraceThreads
    <3>1. \A i \in Positions : Thread(i) \in Threads
      BY TraceType DEF GenInv, GenTypeOK
    <3> QED
      BY <1>0, <3>1, GeneralisationAssumption DEF TraceThreads, Thread
  <2>5. CallThreads'
    <3>1. ASSUME NEW c \in calls'
          PROVE  c.this \in TraceThreads /\ c.other = NoThread
      <4>1. PICK s \in Starts : c = Call(<<>>, s, FALSE, Thread(s), NoThread)
        BY <2>1
      <4> QED
        BY <2>3, <4>1 DEF Call, TraceThreads
    <3> QED
      BY <2>4, <3>1 DEF CallThreads
  <2>6. ASSUME NEW q, NEW a, Goal(q, a)' PROVE UnderWay(q, a)'
    <3>1. q[1] \in Starts /\ Len(q) \in Nat /\ Len(q) >= 1
      BY <1>0, <2>6 DEF Goal, Chain, Starts, Thread
    <3> DEFINE c == Call(<<>>, q[1], FALSE, Thread(q[1]), NoThread)
    <3>2. c \in calls'
      BY <2>1, <3>1
    <3>3. c.path = <<>> /\ c.node = q[1] /\ c.redUsed = FALSE
      BY DEF Call
    <3> HIDE DEF c
    <3>4. 1 \in 1..Len(q) /\ Len(c.path) = 1 - 1 /\ \A i \in 1..(1 - 1) : c.path[i] = q[i]
      BY <3>1, <3>3
    <3>5. CameTo(c, q, 1)
      BY <3>3, <3>4 DEF CameTo
    <3> QED
      BY <3>2, <3>4, <3>5 DEF UnderWay
  <2> QED
    BY <2>1, <2>2, <2>5, <2>6 DEF SearchInv
<1>3. ASSUME deadlock' = deadlock, edgesGen' = edgesGen, black' = black
      PROVE  /\ RedDotted' = RedDotted /\ Reduced(edgesGen)' = Reduced(edgesGen)
             /\ TraceThreads' = TraceThreads /\ FewThreads' = FewThreads
             /\ \A q, a : Goal(q, a)' => Goal(q, a)
  <2>1. RedDotted' = RedDotted /\ White' = White /\ Starts' = Starts /\ \A i : Thread(i)' = Thread(i)
    BY <1>0, <1>3 DEF White, RedDotted, GenEndpoints, Thread, Starts
  <2>2. Reduced(edgesGen)' = Reduced(edgesGen)
    BY <1>0, <1>3, <2>1 DEF Reduced, Ways
  <2>3. TraceThreads' = TraceThreads /\ FewThreads' = FewThreads
    BY <1>0, <1>3, <2>1 DEF TraceThreads, FewThreads
  <2>4. \A q, a : Goal(q, a)' => Goal(q, a)
    BY <1>0, <1>3, <2>1 DEF Goal, Chain
  <2> QED
    BY <2>1, <2>2, <2>3, <2>4
<1>4. CASE FindCycles
  <2> DEFINE entered == {c \in calls : ~ThirdThread(c)}
             closed == {c \in entered : OnPath(c)}
  <2>1. /\ phase = "cycles" /\ deadlock' = deadlock
        /\ edges' = edges /\ edgesGen' = edgesGen /\ black' = black
        /\ cycles' = cycles \cup {k \in {CycleOf(c) : c \in closed} : GoodCycle(k)}
        /\ calls' = UNION {Further(c) : c \in entered \ closed}
    BY <1>4 DEF FindCycles, scan
  <2>2. /\ edges = <<>> /\ black = Reduced(edgesGen) /\ CallThreads
        /\ FewThreads => \A q, a : Goal(q, a) => Found(q, a) \/ UnderWay(q, a)
    BY <2>1 DEF SearchInv
  <2>3. /\ RedDotted' = RedDotted /\ Reduced(edgesGen)' = Reduced(edgesGen)
        /\ TraceThreads' = TraceThreads /\ FewThreads' = FewThreads
        /\ \A q, a : Goal(q, a)' => Goal(q, a)
    BY <1>3, <2>1
  <2>4. CallThreads'
    <3>1. ASSUME NEW d \in calls'
          PROVE  d.this \in TraceThreads /\ d.other \in TraceThreads \cup {NoThread}
                 /\ d.other # d.this
      <4>1. PICK c \in calls : d \in Further(c)
        BY <2>1
      <4> QED
        BY <2>2, <4>1, FurtherThreads
    <3> QED
      BY <2>3, <3>1 DEF CallThreads
  <2>5. ASSUME FewThreads, NEW q, NEW a, Goal(q, a)
        PROVE  Found(q, a)' \/ UnderWay(q, a)'
    <3>1. \A c \in calls : c \in entered
      BY <2>2, <2>5, NoThird
    <3>2. ASSUME Found(q, a) PROVE Found(q, a)'
      <4>1. PICK k \in cycles : <<q[Len(q)], q[a]>> \in EdgesOf(k) \cap RedDotted
        BY <3>2 DEF Found, Swaps
      <4>2. k \in cycles' /\ EdgesOf(k)' = EdgesOf(k)
        BY <2>1 DEF EdgesOf
      <4> QED
        BY <2>3, <4>1, <4>2 DEF Found, Swaps
    <3>3. ASSUME NEW c \in calls, CameBack(c, q, a) PROVE Found(q, a)'
      <4>1. /\ OnPath(c) /\ GoodCycle(CycleOf(c))
            /\ <<q[Len(q)], q[a]>> \in EdgesOf(CycleOf(c))
        BY <2>5, <3>3, ComesBack
      <4>2. CycleOf(c) \in cycles'
        BY <2>1, <3>1, <4>1
      <4>3. <<q[Len(q)], q[a]>> \in RedDotted'
        BY <2>3, <2>5 DEF Goal
      <4>4. <<q[Len(q)], q[a]>> \in EdgesOf(CycleOf(c)) \cap RedDotted'
        BY <4>1, <4>3
      <4> DEFINE k == CycleOf(c)
      <4> HIDE DEF k
      <4>5. k \in cycles' /\ <<q[Len(q)], q[a]>> \in EdgesOf(k) \cap RedDotted'
        BY <4>2, <4>4 DEF k
      <4> QED
        BY <4>5 DEF Found, Swaps, EdgesOf
    <3>4. ASSUME NEW c \in calls, NEW m \in 1..Len(q), CameTo(c, q, m) PROVE UnderWay(q, a)'
      <4>1. /\ ~OnPath(c)
            /\ m < Len(q) => \E d \in Further(c) : CameTo(d, q, m + 1)
            /\ m = Len(q) => \E d \in Further(c) : CameBack(d, q, a)
        BY <2>5, <3>4, GoesOn
      <4>2. \A d \in Further(c) : d \in calls'
        BY <2>1, <3>1, <4>1
      <4>3. Len(q) \in Nat
        BY <2>5 DEF Goal, Chain
      <4>4. CASE m = Len(q)
        BY <4>1, <4>2, <4>4 DEF UnderWay, CameBack
      <4>5. CASE m < Len(q)
        <5>1. PICK d \in Further(c) : CameTo(d, q, m + 1)
          BY <4>1, <4>5
        <5>2. m + 1 \in 1..Len(q)
          BY <4>3, <4>5
        <5> QED
          BY <4>2, <5>1, <5>2 DEF UnderWay, CameTo
      <4> QED
        BY <4>3, <4>4, <4>5
    <3> QED
      BY <2>2, <2>5, <3>2, <3>3, <3>4 DEF UnderWay
  <2>6. FewThreads' => \A q, a : Goal(q, a)' => Found(q, a)' \/ UnderWay(q, a)'
    BY <2>3, <2>5
  <2> QED
    BY <2>1, <2>2, <2>3, <2>4, <2>6 DEF SearchInv
<1>5. CASE UNCHANGED genVars
  <2>1. /\ phase' = phase /\ deadlock' = deadlock /\ edges' = edges /\ edgesGen' = edgesGen
        /\ black' = black /\ calls' = calls /\ cycles' = cycles
    BY <1>5 DEF genVars, scan, search
  <2>2. /\ RedDotted' = RedDotted /\ Reduced(edgesGen)' = Reduced(edgesGen)
        /\ TraceThreads' = TraceThreads /\ FewThreads' = FewThreads
        /\ \A q, a : Goal(q, a)' => Goal(q, a)
    BY <1>3, <2>1
  <2>3. CallThreads => CallThreads'
    BY <2>1, <2>2 DEF CallThreads
  <2>4. \A q, a : (Found(q, a) => Found(q, a)') /\ (UnderWay(q, a) => UnderWay(q, a)')
    BY <2>1, <2>2 DEF Found, Swaps, EdgesOf, UnderWay, CameTo, CameBack
  <2> QED
    BY <2>1, <2>2, <2>3, <2>4 DEF SearchInv
<1> QED
  BY <1>1, <1>2, <1>4, <1>5 DEF GenNext

\* Between a last statement of a thread and the next one that follows in a chain
\* the chain leaves the thread and comes back, both along black edges.
LEMMA LeavesThread ==
  ASSUME GenInv, NEW q, Chain(q, black \cup White), NEW t,
         NEW x \in 1..Len(q), NEW y \in 1..Len(q), NEW z \in 1..Len(q), x < y, y < z,
         Thread(q[x]) = t, Thread(q[y]) # t, Thread(q[z]) = t
  PROVE  \E a, b \in 1..Len(q) :
           /\ x <= a /\ a < y /\ y < b /\ b <= z
           /\ Thread(q[a]) = t /\ Thread(q[a + 1]) # t /\ q[a] \in GenEndpoints
           /\ Thread(q[b]) = t /\ q[b] \in GenEndpoints
<1>1. Len(q) \in Nat /\ x \in Nat /\ y \in Nat /\ z \in Nat
  BY DEF Chain
<1>2. ASSUME NEW i \in 1..(Len(q) - 1), Thread(q[i]) # Thread(q[i + 1])
      PROVE  q[i] \in GenEndpoints /\ q[i + 1] \in GenEndpoints
  <2> DEFINE e == <<q[i], q[i + 1]>>
  <2>1. e \in black \cup White
    BY DEF Chain
  <2>2. e \notin White
    BY <1>2 DEF White
  <2>3. e \in edgesGen /\ e[1] = q[i] /\ e[2] = q[i + 1]
    BY <2>1, <2>2 DEF GenInv, GenTypeOK
  <2> HIDE DEF e
  <2> QED
    BY <2>3 DEF GenEndpoints
<1> DEFINE fromY == {n \in Nat : \E i \in x..(y - 1) : n = y - i /\ Thread(q[i]) = t}
           afterY == {i \in (y + 1)..z : Thread(q[i]) = t}
<1>3. y - x \in fromY /\ fromY \subseteq Nat
  BY <1>1
<1>4. z \in afterY /\ afterY \subseteq Nat
  BY <1>1
<1>5. PICK n \in fromY : \A m \in fromY : n <= m
  <2> HIDE DEF fromY
  <2> QED
    BY <1>3, LeastOf
<1>6. PICK b \in afterY : \A i \in afterY : b <= i
  <2> HIDE DEF afterY
  <2> QED
    BY <1>4, LeastOf
<1>7. PICK a \in x..(y - 1) : n = y - a /\ Thread(q[a]) = t
  OBVIOUS
<1>8. a \in Nat /\ a \in 1..(Len(q) - 1) /\ x <= a /\ a < y
  BY <1>1
<1>9. b \in Nat /\ b \in 1..Len(q) /\ y < b /\ b <= z /\ Thread(q[b]) = t
  BY <1>1
<1>10. Thread(q[a + 1]) # t
  <2>1. CASE a + 1 = y
    BY <2>1
  <2>2. CASE a + 1 # y
    <3>1. a + 1 \in x..(y - 1) /\ y - (a + 1) \in Nat /\ ~(n <= y - (a + 1))
      BY <1>1, <1>7, <1>8, <2>2
    <3>2. y - (a + 1) \notin fromY
      BY <1>5, <3>1
    <3> QED
      BY <3>1, <3>2
  <2> QED
    BY <2>1, <2>2
<1>11. Thread(q[b - 1]) # t
  <2>1. CASE b - 1 = y
    BY <2>1
  <2>2. CASE b - 1 # y
    <3>1. b - 1 \in (y + 1)..z /\ ~(b <= b - 1)
      BY <1>1, <1>9, <2>2
    <3>2. b - 1 \notin afterY
      BY <1>6, <3>1
    <3> QED
      BY <3>1, <3>2
  <2> QED
    BY <2>1, <2>2
<1>12. q[a] \in GenEndpoints
  BY <1>2, <1>7, <1>8, <1>10
<1>13. q[b] \in GenEndpoints
  <2>1. b - 1 \in 1..(Len(q) - 1) /\ (b - 1) + 1 = b
    BY <1>1, <1>9
  <2> QED
    BY <1>2, <1>9, <1>11, <2>1
<1>14. a \in 1..Len(q)
  BY <1>8
<1> QED
  BY <1>7, <1>8, <1>9, <1>10, <1>12, <1>13, <1>14

\* A swap that forbids the trace closes a way that the search follows.
LEMMA SwapIsFound ==
  ASSUME GenInv, ConflictsCovered, SearchInv, Solved, FewThreads,
         NEW i \in Positions, NEW j \in Positions, Forbids(i, j)
  PROVE  Offered(i, j)
<1> DEFINE rel == black \cup White
           t == Thread(i)
<1>1. /\ phase = "cycles" /\ calls = {} /\ edges = <<>> /\ black = Reduced(edgesGen)
      /\ \A q, a : Goal(q, a) => Found(q, a)
  BY DEF SearchInv, Solved, UnderWay
<1>2. Positions \subseteq Nat /\ Len(trace) \in Nat /\ GenTypeOK
  BY TraceType DEF GenInv, GenTypeOK
<1>3. PICK k \in Others(i) : \E threads :
        <<i, k>> \in Ways(Dependences(threads)) /\ <<k, j>> \in Ways(Dependences(threads))
  BY DEF Forbids
<1>4. Thread(j) = t /\ Thread(k) # t /\ k \in Positions
  BY DEF Forbids, Others
<1>5. Linked(i, k, rel) /\ Linked(k, j, rel)
  <2>1. PICK threads : /\ <<i, k>> \in Ways(Dependences(threads))
                       /\ <<k, j>> \in Ways(Dependences(threads))
    BY <1>3
  <2> DEFINE ways == Dependences(threads)
  <2>2. \A e \in ways : e \in Positions \X Positions /\ Linked(e[1], e[2], rel)
    BY <1>1, DependencesLinked
  <2> HIDE DEF rel, ways
  <2>3. \A e \in Ways(ways) : e \in Positions \X Positions /\ Linked(e[1], e[2], rel)
    BY <1>2, <2>2, WaysLinked
  <2>4. <<i, k>> \in Ways(ways) /\ <<k, j>> \in Ways(ways)
    BY <2>1 DEF ways
  <2> QED
    BY <2>3, <2>4
<1> DEFINE firsts == {l \in Positions : Thread(l) = t}
<1>6. PICK s \in firsts : \A l \in firsts : s <= l
  <2>1. firsts \subseteq Nat /\ i \in firsts
    BY <1>2
  <2> HIDE DEF firsts
  <2> QED
    BY <2>1, LeastOf
<1>7. s \in Positions /\ Thread(s) = t /\ s <= i /\ s \in Nat
  BY <1>2, <1>6
<1>8. s \in Starts
  <2>1. ASSUME NEW l \in 1..(s - 1), Thread(l) = Thread(s) PROVE FALSE
    <3>1. l \in Positions /\ ~(s <= l)
      BY <1>2, <1>7 DEF Positions
    <3>2. l \in firsts
      BY <1>7, <2>1, <3>1
    <3> QED
      BY <1>6, <3>1, <3>2
  <2> QED
    BY <1>7, <2>1 DEF Starts
<1> HIDE DEF firsts
<1>9. Linked(s, i, rel)
  <2>1. White \subseteq rel
    OBVIOUS
  <2> HIDE DEF rel
  <2> QED
    BY <1>2, <1>7, <2>1, ThreadLinked
<1> HIDE DEF rel
<1>10. PICK p1 : Chain(p1, rel) /\ p1[1] = s /\ p1[Len(p1)] = i
  BY <1>9 DEF Linked
<1>11. PICK p2 : Chain(p2, rel) /\ p2[1] = i /\ p2[Len(p2)] = k
  BY <1>5 DEF Linked
<1>12. PICK p3 : Chain(p3, rel) /\ p3[1] = k /\ p3[Len(p3)] = j
  BY <1>5 DEF Linked
<1>13. PICK p4 : Joins(p4, p1, p2, rel)
  BY <1>10, <1>11, ChainsJoin
<1>14. /\ Len(p1) \in Nat /\ Len(p1) >= 1 /\ Len(p2) \in Nat /\ Len(p2) >= 1
       /\ Len(p3) \in Nat /\ Len(p3) >= 1
  BY <1>10, <1>11, <1>12 DEF Chain
<1>15. /\ Chain(p4, rel) /\ Len(p4) = Len(p1) + Len(p2) - 1
       /\ p4[1] = s /\ p4[Len(p1)] = i /\ p4[Len(p4)] = k
  <2>1. /\ Chain(p4, rel) /\ Len(p4) = Len(p1) + Len(p2) - 1
        /\ \A n \in 1..Len(p1) : p4[n] = p1[n]
        /\ \A n \in 1..Len(p2) : p4[Len(p1) + n - 1] = p2[n]
    BY <1>13 DEF Joins
  <2>2. 1 \in 1..Len(p1) /\ Len(p1) \in 1..Len(p1) /\ Len(p2) \in 1..Len(p2)
    BY <1>14
  <2> QED
    BY <1>10, <1>11, <2>1, <2>2
<1>16. PICK p : Joins(p, p4, p3, rel)
  BY <1>12, <1>15, ChainsJoin
<1> DEFINE x == Len(p1)
           y == Len(p4)
           z == Len(p)
<1>17. /\ Chain(p, rel) /\ z = y + Len(p3) - 1
       /\ p[1] = s /\ p[x] = i /\ p[y] = k /\ p[z] = j
  <2>1. /\ Chain(p, rel) /\ Len(p) = Len(p4) + Len(p3) - 1
        /\ \A n \in 1..Len(p4) : p[n] = p4[n]
        /\ \A n \in 1..Len(p3) : p[Len(p4) + n - 1] = p3[n]
    BY <1>16 DEF Joins
  <2>2. 1 \in 1..Len(p4) /\ Len(p1) \in 1..Len(p4) /\ Len(p4) \in 1..Len(p4) /\ Len(p3) \in 1..Len(p3)
    BY <1>14, <1>15
  <2> QED
    BY <1>12, <1>15, <2>1, <2>2
<1>18. /\ x \in 1..z /\ y \in 1..z /\ z \in 1..z /\ z \in Nat /\ x <= y /\ y <= z
  <2>1. y = x + Len(p2) - 1
    BY <1>15
  <2>2. z = y + Len(p3) - 1
    BY <1>17
  <2>3. x \in Nat /\ x >= 1
    BY <1>14
  <2> HIDE DEF x, y, z
  <2> QED
    BY <1>14, <2>1, <2>2, <2>3
<1>19. x < y /\ y < z
  <2>1. p[x] # p[y] /\ p[y] # p[z]
    BY <1>4, <1>17
  <2>2. x # y /\ y # z
    BY <2>1
  <2> HIDE DEF x, y, z
  <2> QED
    BY <1>18, <2>2
<1>20. PICK a, b \in 1..Len(p) :
           /\ x <= a /\ a < y /\ y < b /\ b <= z
           /\ Thread(p[a]) = t /\ Thread(p[a + 1]) # t /\ p[a] \in GenEndpoints
           /\ Thread(p[b]) = t /\ p[b] \in GenEndpoints
  <2>1. Thread(p[x]) = t /\ Thread(p[y]) # t /\ Thread(p[z]) = t
    BY <1>4, <1>17
  <2> QED
    BY <1>17, <1>18, <1>19, <2>1, LeavesThread DEF rel
<1>21. \A m, n \in 1..Len(p) : m < n => p[m] < p[n]
  BY <1>17, ChainsOnwards DEF rel
<1>22. a \in Nat /\ b \in Nat /\ a < b /\ \A n \in 1..Len(p) : p[n] \in Positions /\ p[n] \in Nat
  <2>1. p \in Seq(Positions)
    BY <1>17 DEF Chain
  <2>2. \A n \in 1..Len(p) : p[n] \in Positions
    BY <2>1
  <2>3. a \in Nat /\ b \in Nat
    BY <1>20, <2>1
  <2>4. y \in Nat
    BY <1>18
  <2>5. a < y /\ y < b
    BY <1>20
  <2>6. a < b
    <3> HIDE DEF x, y, z
    <3> QED
      BY <2>3, <2>4, <2>5
  <2>7. Positions \subseteq Nat
    BY <1>2
  <2>8. \A n \in 1..Len(p) : p[n] \in Nat
    BY <2>2, <2>7
  <2> QED
    BY <2>2, <2>3, <2>6, <2>8
<1>23. i <= p[a] /\ p[b] <= j
  <2>1. x = a \/ x < a
    BY <1>18, <1>20, <1>22
  <2>2. b = z \/ b < z
    BY <1>18, <1>20, <1>22
  <2>3. p[x] <= p[a]
    BY <1>18, <1>20, <1>21, <1>22, <2>1
  <2>4. p[b] <= p[z]
    BY <1>18, <1>20, <1>21, <1>22, <2>2
  <2> QED
    BY <1>17, <2>3, <2>4
<1>24. <<p[b], p[a]>> \in RedDotted
  <2>1. p[a] < p[b]
    BY <1>20, <1>21, <1>22
  <2> QED
    BY <1>20, <2>1 DEF RedDotted
<1> DEFINE q == SubSeq(p, 1, b)
<1>25. q \in Seq(Positions) /\ Len(q) = b /\ \A n \in 1..b : q[n] = p[n]
  <2>1. \A n \in 1..b : p[n] \in Positions
    BY <1>20, <1>22
  <2>2. /\ q \in Seq(Positions) /\ Len(q) = (IF 1 <= b THEN b - 1 + 1 ELSE 0)
        /\ \A n \in 1..(b - 1 + 1) : q[n] = p[1 + n - 1]
    BY <1>22, <2>1, SubSeqProperties
  <2> HIDE DEF q
  <2>3. b >= 1 /\ b - 1 + 1 = b /\ \A n \in 1..b : 1 + n - 1 = n
    BY <1>20, <1>22
  <2> QED
    BY <2>2, <2>3
<1> HIDE DEF q
<1>26. Goal(q, a)
  <2>1. 1 \in 1..b /\ a \in 1..(b - 1) /\ a \in 1..b /\ a + 1 \in 1..b /\ b \in 1..b
    BY <1>20, <1>22
  <2>2. ASSUME NEW n \in 1..(Len(q) - 1) PROVE <<q[n], q[n + 1]>> \in black \cup White
    <3>1. n \in 1..b /\ n + 1 \in 1..b /\ n \in 1..(Len(p) - 1)
      BY <1>18, <1>20, <1>22, <1>25
    <3>2. <<p[n], p[n + 1]>> \in rel
      BY <1>17, <3>1 DEF Chain
    <3> QED
      BY <1>25, <3>1, <3>2 DEF rel
  <2>3. Chain(q, black \cup White)
    <3>1. Len(q) >= 1
      BY <1>25, <2>1
    <3> QED
      BY <1>25, <2>2, <3>1 DEF Chain
  <2>4. q[1] \in Starts
    BY <1>8, <1>17, <1>25, <2>1
  <2>5. <<q[Len(q)], q[a]>> \in RedDotted /\ Thread(q[a + 1]) # Thread(q[a])
    BY <1>20, <1>24, <1>25, <2>1
  <2> QED
    BY <1>25, <2>1, <2>3, <2>4, <2>5 DEF Goal
<1>27. <<p[b], p[a]>> \in Swaps
  <2>1. Found(q, a)
    BY <1>1, <1>26
  <2>2. a \in 1..b /\ b \in 1..b
    BY <1>20, <1>22
  <2> QED
    BY <1>25, <2>1, <2>2 DEF Found
<1> DEFINE r == <<p[b], p[a]>>
<1>28. r \in Swaps /\ i <= r[2] /\ r[1] <= j /\ Thread(r[1]) = Thread(i)
  BY <1>20, <1>23, <1>27
<1> HIDE DEF r
<1> QED
  BY <1>28 DEF Offered

\* findCycles is complete: of every trace of two threads, and of every trace of a
\* deadlock, each swap that would forbid the trace is offered, or a narrower one,
\* although it looks only at the generalised edges, without the transitive ones,
\* and follows each way only until it meets itself.
THEOREM SearchComplete == GenSpec => []SwapsFound
<1>1. GenInit => SearchInv
  BY DEF GenInit, SearchInv
<1>2. GenInv /\ SearchInv /\ [GenNext]_genVars => SearchInv'
  BY SearchStep
<1>3. GenInv /\ ConflictsCovered /\ SearchInv => SwapsFound
  BY SwapIsFound DEF SwapsFound, FewThreads, TraceThreads
<1> QED
  BY <1>1, <1>2, <1>3, GenInvariance, GeneralisationCovers, PTL DEF GenSpec
================================================================================
