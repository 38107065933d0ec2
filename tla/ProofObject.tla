----------------------------- MODULE ProofObject -----------------------------
(***************************************************************************)
(* What one good trace teaches (ProofObject.scala).  Main initialises the  *)
(* variables, the threads run, and an assertion holds because of the       *)
(* writes it reads from (red edges).  It reads the same in every run that  *)
(* keeps the red edges and the edges to and from the writes that could get *)
(* in between (green).  Such an edge holds if a path of program order      *)
(* (dotted) and of assumptions that wait for their writer (blue) covers    *)
(* it: the program order on the path must then be kept, it becomes black.  *)
(* An edge without a path is firm, and swaps are suggested that would give *)
(* it one (red dotted).                                                    *)
(* A statement of the trace is its position, as CtexStmt compares it.      *)
(***************************************************************************)
EXTENDS Integers, Sequences, FiniteSets, Functions

CONSTANT
  Traces       \* the good traces: sequences of Event, thread 0 is main

VARIABLES
  trace,       \* the trace
  oneOnly,     \* is one assertion looked at, or (deadlock step) all?
  graph,       \* the coloured edges <<from, to, colour>>
  firmB,       \* the edges that are not covered
  todo,        \* the edges the current loop has yet to visit
  phase        \* the loop of the constructor that runs

vars == <<trace, oneOnly, graph, firmB, todo, phase>>

Event == [thread: Nat, kind: {"write", "assume", "assert"},
          variables: SUBSET STRING]

ASSUME TracesAssumption == Traces \subseteq Seq(Event)
-------------------------------------------------------------------------------
(* The trace.                                                              *)

Thread(i) == trace[i].thread
ChangedVariables(i) == IF trace[i].kind = "write" THEN trace[i].variables ELSE {}
UsedVariables(i) == IF trace[i].kind = "write" THEN {} ELSE trace[i].variables
OfKind(kind) == {i \in DOMAIN trace : trace[i].kind = kind}
LastOf(t) == CHOOSE i \in DOMAIN trace :
               Thread(i) = t /\ \A j \in i + 1 .. Len(trace) : Thread(j) # t

Crosses(e) == Thread(e[1]) # Thread(e[2])

\* Every statement of a thread points to every later one of the thread.
Dotted == UNION {{<<i, j, "Dotted">> : j \in {j \in i + 1 .. Len(trace) :
                    Thread(j) = Thread(i)}} : i \in DOMAIN trace}

\* The write of v that statement i reads from.
FindDependency(i, v, colour) ==
  {<<j, i, colour>> : j \in {j \in 1 .. i - 1 :
     /\ v \in ChangedVariables(j)
     /\ \A k \in j + 1 .. i - 1 : v \notin ChangedVariables(k)}}

Dependencies(statements, colour) ==
  UNION {UNION {FindDependency(i, v, colour) : v \in UsedVariables(i)} :
         i \in statements}

Red == Dependencies(OfKind("assert"), "Red")

\* In every other thread: the nearest write before the one that is read, and
\* the nearest one after the assertion.  Thread 0 is over before both.
WritesBefore(from) ==
  LET writes == {c \in 1 .. from - 1 :
                   ChangedVariables(c) \cap ChangedVariables(from) # {}}
  IN  {c \in writes : /\ Thread(c) \notin {0, Thread(from)}
                      /\ \A d \in writes : d > c => Thread(d) # Thread(c)}

\* the last write after the assertion
WritesAfter_Bug(to) ==
  LET writes == {c \in to + 1 .. Len(trace) :
                   ChangedVariables(c) \cap UsedVariables(to) # {}}
  IN  {c \in writes : /\ Thread(c) \notin {0, Thread(to)}
                      /\ \A d \in writes : d > c => Thread(d) # Thread(c)}

WritesAfter(to) ==
  LET writes == {c \in to + 1 .. Len(trace) :
                   ChangedVariables(c) \cap UsedVariables(to) # {}}
  IN  {c \in writes : /\ Thread(c) \notin {0, Thread(to)}
                      /\ \A d \in writes : d < c => Thread(d) # Thread(c)}

Green == UNION {{<<c, red[1], "Green">> : c \in WritesBefore(red[1])}
                \cup {<<red[2], c, "Green">> : c \in WritesAfter(red[2])} :
                red \in Red}

AssertionThreads ==
  UNION {{0, Thread(red[2])} \cup {Thread(c) : c \in WritesAfter(red[2])} :
         red \in Red}

\* Which assumptions wait for whom; for one assertion, only in its threads.
Blue == Dependencies({i \in OfKind("assume") :
                        oneOnly => Thread(i) \in AssertionThreads}, "Blue")
-------------------------------------------------------------------------------
(* Paths.                                                                  *)

Coloured(colours) == {e \in graph : e[3] \in colours}

\* The ways of n edges that start at from, as sequences of edges.
Ways(from, edges) ==
  LET ways[n \in Nat] ==
        IF n = 0 THEN {<<>>}
        ELSE UNION {{Append(way, e) : e \in {e \in edges : e[1] =
                        (IF way = <<>> THEN from ELSE way[Len(way)][2])}} :
                    way \in ways[n - 1]}
  IN  ways

\* All shortest paths; the search finds any of them, by the order in which the
\* library lists the edges of a node.
ShortestPaths(from, to, edges) ==
  LET arrived(n) == {way \in Ways(from, edges)[n] :
                       (IF way = <<>> THEN from ELSE way[n][2]) = to}
      lengths == {n \in 0 .. Len(trace) : arrived(n) # {}}
  IN  UNION {arrived(n) : n \in {n \in lengths : \A k \in lengths : n <= k}}

Connected(from, to, edges) == ShortestPaths(from, to, edges) # {}

\* The order of each pair becomes firm program order.
MakeBlack(pairs) ==
  (graph \ {<<p[1], p[2], "Dotted">> : p \in pairs})
  \cup {<<p[1], p[2], "Black">> : p \in pairs}
-------------------------------------------------------------------------------
(* The constructor.                                                        *)

Init ==
  /\ trace \in Traces
  /\ oneOnly \in BOOLEAN
  /\ graph = Dotted \cup Red \cup Green \cup Blue
  /\ firmB = {}
  /\ todo = Blue
  /\ phase = "cycles"

\* From an assumption to the end of the thread it waits for, inside the two.
WayBack(blue) ==
  ShortestPaths(blue[2], LastOf(Thread(blue[1])),
    {e \in Coloured({"Dotted", "Black", "Blue"}) :
       Thread(e[2]) \in {Thread(blue[1]), Thread(blue[2])}})

\* from to from and to to
KeepBoth_Bug(blue, other) == {<<blue[1], other[1]>>, <<blue[2], other[2]>>}

KeepBoth(blue, other) == {<<blue[1], other[2]>>, <<blue[2], other[1]>>}

\* A waits for B and then B for A: the order of the two waits is kept in both
\* threads, or they would wait for each other.  The code asserts that the other
\* blue edge goes the other way.
FindCycle ==
  /\ phase = "cycles"
  /\ \E blue \in todo :
       /\ todo' = todo \ {blue}
       /\ \/ WayBack(blue) = {} /\ UNCHANGED <<graph, phase>>
          \/ \E p \in WayBack(blue) :
               LET others == {e \in Range(p) : e[3] = "Blue" /\ Crosses(e)}
               IN  /\ graph' = MakeBlack(UNION {KeepBoth(blue, e) : e \in others})
                   /\ phase' = IF \A e \in others : /\ Thread(e[2]) = Thread(blue[1])
                                                    /\ Thread(e[1]) = Thread(blue[2])
                               THEN phase ELSE "failed"
  /\ UNCHANGED <<trace, oneOnly, firmB>>

\* A green edge goes if there is another way.
RemoveTransitive ==
  /\ phase = "transitive"
  /\ \E e \in todo :
       /\ todo' = todo \ {e}
       /\ graph' = graph \ (IF Connected(e[1], e[2],
                                 Coloured({"Black", "Dotted", "Green"}) \ {e})
                            THEN {e} ELSE {})
  /\ UNCHANGED <<trace, oneOnly, firmB, phase>>

\* The statements from which the thread of `from` lets x go on.
Awaited(x, from) == {e[1] : e \in {e \in Coloured({"Blue"}) :
                                     e[2] = x /\ Thread(e[1]) = Thread(from)}}

\* the statements after the assertion looked at, too
SuggestReordering_Bug(edge) ==
  {<<edge[1], above, "RedDotted">> : above \in
     UNION {Awaited(x, edge[1]) : x \in {x \in DOMAIN trace :
              edge[3] = "Red" /\ Thread(x) = Thread(edge[2]) /\ Thread(edge[1]) # 0}}}

\* Red: the assertion waits already, but for a statement above the one it reads
\* from, which should move down.  Green: what waits lies below.
SuggestReordering(edge) ==
  LET from == edge[1]
      to == edge[2]
      inThread == {x \in DOMAIN trace : Thread(x) = Thread(to)}
  IN  IF 0 \in {Thread(from), Thread(to)} THEN {}
      ELSE IF edge[3] = "Red"
      THEN {<<from, above, "RedDotted">> :
              above \in UNION {Awaited(x, from) : x \in {x \in inThread : x < to}}}
      ELSE {<<x, to, "RedDotted">> : x \in
              {x \in inThread : x > to /\ \E other \in Awaited(x, from) : other > from}}

Cover ==
  /\ phase = "cover"
  /\ \E edge \in todo :
       LET paths == ShortestPaths(edge[1], edge[2], Coloured({"Dotted", "Black", "Blue"}))
       IN  /\ todo' = todo \ {edge}
           /\ \/ /\ ~Crosses(edge)
                 /\ UNCHANGED <<graph, firmB>>
              \/ /\ Crosses(edge) /\ paths = {}
                 /\ firmB' = firmB \cup {<<edge[1], edge[2]>>}
                 /\ graph' = graph \cup SuggestReordering(edge)
              \/ /\ Crosses(edge)
                 /\ \E p \in paths :
                      graph' = MakeBlack({<<e[1], e[2]>> : e \in
                                            {e \in Range(p) : e[3] = "Dotted"}})
                 /\ UNCHANGED firmB
  /\ UNCHANGED <<trace, oneOnly, phase>>

NextPhase ==
  /\ todo = {}
  /\ \/ /\ phase = "cycles" /\ phase' = "transitive"
        /\ todo' = Coloured({"Green"})
     \/ /\ phase = "transitive" /\ phase' = "cover"
        /\ todo' = Coloured({"Red", "Green"})
     \/ /\ phase = "cover" /\ phase' = "done"
        /\ todo' = {}
  /\ UNCHANGED <<trace, oneOnly, graph, firmB>>

Finished == phase = "done" /\ UNCHANGED vars

Next == FindCycle \/ RemoveTransitive \/ Cover \/ NextPhase \/ Finished

Spec == Init /\ [][Next]_vars

\* What learnFromGoodTraces takes.
firm == {f \in firmB : 0 \notin {Thread(f[1]), Thread(f[2])}}
black == {<<e[1], e[2]>> : e \in Coloured({"Black"})}
suggestedReorderings == {<<e[1], e[2]>> : e \in Coloured({"RedDotted"})}
-------------------------------------------------------------------------------
(* Properties.                                                             *)

\* Black edges run forward in the trace and inside one thread, although they
\* are put together from edges of different paths, and the assertions about the
\* other blue edge of a deadlock cycle hold, although the way may pass from
\* thread to thread (ProofObject.scala:108-131).
BlackWithinThread ==
  /\ phase # "failed"
  /\ \A b \in black : b[1] < b[2] /\ Thread(b[1]) = Thread(b[2])

\* A suggestion asks to turn round two statements of one thread, the first of
\* which the trace has after the second (ProofObject.scala:236-259).
SuggestionsGoBack ==
  \A s \in suggestedReorderings : s[1] > s[2] /\ Thread(s[1]) = Thread(s[2])

\* The order every run keeps: black edges, awaited writes, main, and what one
\* thread may not swap: work on the same variable, and one statement with itself.
Kept ==
  black \cup {<<e[1], e[2]>> : e \in Coloured({"Blue"})} \cup
  {p \in (DOMAIN trace) \X (DOMAIN trace) :
     /\ p[1] < p[2]
     /\ \/ Thread(p[1]) = 0
        \/ /\ Thread(p[1]) = Thread(p[2])
           /\ \/ ChangedVariables(p[1]) \cap trace[p[2]].variables # {}
              \/ UsedVariables(p[1]) \cap ChangedVariables(p[2]) # {}
              \/ oneOnly /\ {p[1], p[2]} \subseteq OfKind("assert")}

KeptBetween(i, j) == Connected(i, j, Kept)

\* If no edge is firm then in every run that keeps this order the assertion
\* reads from the same write: the write comes before it, and every other write
\* of the variable before the one or after the other.  For one assertion, which
\* reads one variable (ProofObject.scala:58-172).
ReadProtected ==
  phase = "done" /\ firm = {} /\ (oneOnly \/ Cardinality(OfKind("assert")) = 1) =>
    \A red \in Red : Cardinality(UsedVariables(red[2])) = 1 =>
      /\ KeptBetween(red[1], red[2])
      /\ \A c \in DOMAIN trace :
           ChangedVariables(c) \cap UsedVariables(red[2]) # {} /\ c # red[1] =>
             KeptBetween(c, red[1]) \/ KeptBetween(red[2], c)
===============================================================================
