------------------------------ MODULE OrderItems ------------------------------
(***************************************************************************)
(* PartialOrder.orderItemsUp and orderItemsDown, the two list sorts with   *)
(* which a reordering is carried out.  StatementOrder.integrate runs both  *)
(* on one list of statements, first upwards, then downwards.               *)
(*                                                                         *)
(* Both sorts are recursive and change what they iterate over: the upward  *)
(* one fills the result while it walks a snapshot of the statements still  *)
(* missing from it, the downward one removes entries from a hash map while *)
(* every call on the stack iterates over that map.  So the calls on the    *)
(* stack and the chains of the hash map are part of the state.             *)
(***************************************************************************)
EXTENDS Integers, Sequences, FiniteSets, Functions

CONSTANTS Statements,   \* the items, known by their Ids
          Buckets,      \* the number of buckets of the hash map
          Layouts,      \* the ways the Ids may be hashed to buckets
          Problems,     \* the <<list, edges>> given to the sorts
          Null

ASSUME OrderItemsAssumption ==
  /\ Buckets \in Nat \ {0}
  /\ Layouts \subseteq [Statements -> 1..Buckets]
  /\ Problems \subseteq Seq(Statements) \X SUBSET (Statements \X Statements)
  /\ \A p \in Problems : p[2] \subseteq Range(p[1]) \X Range(p[1])
  /\ Null \notin Statements

VARIABLES
  items,        \* the list to sort
  edges,        \* the edges of the partial order's graph
  layout,       \* the bucket of every Id
  phase,        \* "up", then "down", then "sorted"
  todo,         \* the items the outermost loop has yet to visit
  upResult, upStack,      \* result and the calls of addElement, going up
  downResult, downStack,  \* the same, going down
  pendingNeed,  \* what a pending item still waits for, {} if there is no entry
  head, next    \* the chains of pendingNeed's hash table

sorting == <<phase, todo, upResult, upStack, downResult, downStack, pendingNeed,
             head, next>>
sortVars == <<items, edges, layout, sorting>>

OneStepLonger(rel) ==
  rel \cup {<<p[1][1], p[2][2]>> : p \in {q \in rel \X rel : q[1][2] = q[2][1]}}

\* The pairs joined by a path: pairs are joined until nothing is new.
Paths(rel) ==
  LET joined[r \in SUBSET (Statements \X Statements)] ==
        IF OneStepLonger(r) = r THEN r ELSE joined[OneStepLonger(r)]
  IN  joined[rel]

\* The edges lead from s to t: whatever they do not leave, from s on, holds t.
Leads(rel, s, t) ==
  \A W \in SUBSET Statements :
    (\A e \in rel : e[1] \in W \cup {s} => e[2] \in W) => t \in W

Acyclic(rel) == \A s \in Statements : ~Leads(rel, s, s)

Predecessors(s) == {p \in Statements : <<p, s>> \in edges}
-------------------------------------------------------------------------------
(* The hash table of scala.collection.mutable.HashMap (Scala 2.10).        *)

\* Iteration starts with the highest bucket that is not empty ...
FirstEntry(heads, top) ==
  LET used == {b \in 1..top : heads[b] # Null}
  IN  IF used = {} THEN [entry |-> Null, bucket |-> 0]
      ELSE LET b == CHOOSE b \in used : \A c \in used : c <= b
           IN  [entry |-> heads[b], bucket |-> b]

\* ... and goes on with what follows the entry, when its visit has ended.
NextEntry(entry, bucket) ==
  IF next[entry] # Null THEN [entry |-> next[entry], bucket |-> bucket]
  ELSE FirstEntry(head, bucket - 1)

\* A new entry becomes the head of its chain.
PutEntry(i) ==
  /\ next' = [next EXCEPT ![i] = head[layout[i]]]
  /\ head' = [head EXCEPT ![layout[i]] = i]

\* A removed entry keeps its own next pointer.  (An entry of the table needs
\* something; only such an entry can be the predecessor in the chain.)
RemoveEntry(i) ==
  IF head[layout[i]] = i
  THEN /\ head' = [head EXCEPT ![layout[i]] = next[i]]
       /\ next' = next
  ELSE /\ next' = [s \in Statements |-> IF next[s] = i /\ pendingNeed[s] # {}
                                        THEN next[i] ELSE next[s]]
       /\ head' = head
-------------------------------------------------------------------------------
SortInit ==
  /\ \E p \in Problems : items = p[1] /\ edges = p[2]
  /\ layout \in Layouts
  /\ phase = "up"
  /\ todo = items
  /\ upResult = <<>> /\ upStack = <<>>
  /\ downResult = <<>> /\ downStack = <<>>
  /\ pendingNeed = [s \in Statements |-> {}]
  /\ head = [b \in 1..Buckets |-> Null]
  /\ next = [s \in Statements |-> Null]

\* orderItemsUp: addElement(e) starts with the predecessors that are missing
\* from the result at that time.
UpCall(e) == [elem |-> e, missing |-> Predecessors(e) \ Range(upResult)]

\* the loop over the items, without its test
UpItem_Bug ==
  /\ phase = "up" /\ upStack = <<>> /\ todo # <<>>
  /\ upStack' = <<UpCall(Head(todo))>>
  /\ todo' = Tail(todo)
  /\ UNCHANGED <<phase, upResult, downResult, downStack, pendingNeed, head, next>>

\* the loop does not go on after an item it skips
UpItem_Stuck_Bug ==
  /\ phase = "up" /\ upStack = <<>> /\ todo # <<>>
  /\ IF Head(todo) \in Range(upResult)
     THEN UNCHANGED <<upStack, todo>>
     ELSE upStack' = <<UpCall(Head(todo))>> /\ todo' = Tail(todo)
  /\ UNCHANGED <<phase, upResult, downResult, downStack, pendingNeed, head, next>>

\* The loop over the items skips what is in the result already.
UpItem ==
  /\ phase = "up" /\ upStack = <<>> /\ todo # <<>>
  /\ upStack' = IF Head(todo) \in Range(upResult) THEN <<>> ELSE <<UpCall(Head(todo))>>
  /\ todo' = Tail(todo)
  /\ UNCHANGED <<phase, upResult, downResult, downStack, pendingNeed, head, next>>

UpTop == upStack[Len(upStack)]

\* The next missing predecessor is added by a recursive call.
UpNeeded ==
  /\ phase = "up" /\ upStack # <<>> /\ UpTop.missing # {}
  /\ \E p \in UpTop.missing :
       upStack' = Append([upStack EXCEPT ![Len(upStack)].missing = @ \ {p}], UpCall(p))
  /\ UNCHANGED <<phase, todo, upResult, downResult, downStack, pendingNeed, head, next>>

\* the element is added although not all its predecessors were
UpInsert_Bug ==
  /\ phase = "up" /\ upStack # <<>>
  /\ upResult' = Append(upResult, UpTop.elem)
  /\ upStack' = SubSeq(upStack, 1, Len(upStack) - 1)
  /\ UNCHANGED <<phase, todo, downResult, downStack, pendingNeed, head, next>>

\* Then comes the element itself.
UpInsert ==
  /\ phase = "up" /\ upStack # <<>> /\ UpTop.missing = {}
  /\ upResult' = Append(upResult, UpTop.elem)
  /\ upStack' = SubSeq(upStack, 1, Len(upStack) - 1)
  /\ UNCHANGED <<phase, todo, downResult, downStack, pendingNeed, head, next>>

\* the second sort starts on the result of the first
UpDone_Bug ==
  /\ phase = "up" /\ upStack = <<>> /\ todo = <<>>
  /\ phase' = "down"
  /\ todo' = upResult
  /\ UNCHANGED <<upResult, upStack, downResult, downStack, pendingNeed, head, next>>

\* orderItemsDown starts on the same list.
UpDone ==
  /\ phase = "up" /\ upStack = <<>> /\ todo = <<>>
  /\ phase' = "down"
  /\ todo' = items
  /\ UNCHANGED <<upResult, upStack, downResult, downStack, pendingNeed, head, next>>

\* the cursor starts one bucket too low
DownCall_Bug(e, heads) ==
  LET first == FirstEntry(heads, Buckets)
  IN  [elem |-> e, entry |-> first.entry, bucket |-> first.bucket - 1]

\* orderItemsDown: addElement(e) iterates over the pending items as they are.
DownCall(e, heads) ==
  LET first == FirstEntry(heads, Buckets)
  IN  [elem |-> e, entry |-> first.entry, bucket |-> first.bucket]

\* pending predecessors taken for inserted ones
ReadyToInsert_Bug(e) ==
  {p \in Predecessors(e) \ Range(downResult) : pendingNeed[p] = {}}

\* readyToInsert(elem): the predecessors that are missing.
ReadyToInsert(e) == Predecessors(e) \ Range(downResult)

\* The loop over the items inserts an item that needs nothing ...
DownItemReady ==
  /\ phase = "down" /\ downStack = <<>> /\ todo # <<>>
  /\ ReadyToInsert(Head(todo)) = {}
  /\ downResult' = Append(downResult, Head(todo))
  /\ downStack' = <<DownCall(Head(todo), head)>>
  /\ todo' = Tail(todo)
  /\ UNCHANGED <<phase, upResult, upStack, pendingNeed, head, next>>

\* ... and makes any other item pending.
DownItemPending ==
  /\ phase = "down" /\ downStack = <<>> /\ todo # <<>>
  /\ ReadyToInsert(Head(todo)) # {}
  /\ pendingNeed' = [pendingNeed EXCEPT ![Head(todo)] = ReadyToInsert(Head(todo))]
  /\ PutEntry(Head(todo))
  /\ todo' = Tail(todo)
  /\ UNCHANGED <<phase, upResult, upStack, downResult, downStack>>

DownTop == downStack[Len(downStack)]

\* The visit of an entry: the item just inserted is no longer needed.
StillNeeded == pendingNeed[DownTop.entry] \ {DownTop.elem}

Advance(call, place) == [call EXCEPT !.entry = place.entry, !.bucket = place.bucket]

DownStillPending ==
  /\ phase = "down" /\ downStack # <<>> /\ DownTop.entry # Null
  /\ StillNeeded # {}
  /\ pendingNeed' = [pendingNeed EXCEPT ![DownTop.entry] = StillNeeded]
  /\ downStack' = [downStack EXCEPT ![Len(downStack)] =
                     Advance(@, NextEntry(@.entry, @.bucket))]
  /\ UNCHANGED <<phase, todo, upResult, upStack, downResult, head, next>>

\* the entry inserted is left in the table
DownRelease_Kept_Bug ==
  /\ phase = "down" /\ downStack # <<>> /\ DownTop.entry # Null
  /\ StillNeeded = {}
  /\ pendingNeed' = [pendingNeed EXCEPT ![DownTop.entry] = {}]
  /\ downResult' = Append(downResult, DownTop.entry)
  /\ downStack' = Append(downStack, DownCall(DownTop.entry, head))
  /\ UNCHANGED <<phase, todo, upResult, upStack, head, next>>

\* It was the last one: the entry is removed and inserted by a recursive call,
\* during which the iteration of this call stays at the removed entry.
DownRelease ==
  /\ phase = "down" /\ downStack # <<>> /\ DownTop.entry # Null
  /\ StillNeeded = {}
  /\ pendingNeed' = [pendingNeed EXCEPT ![DownTop.entry] = {}]
  /\ RemoveEntry(DownTop.entry)
  /\ downResult' = Append(downResult, DownTop.entry)
  /\ downStack' = Append(downStack, DownCall(DownTop.entry, head'))
  /\ UNCHANGED <<phase, todo, upResult, upStack>>

\* The call returns; the caller's iteration follows the pointer of its entry.
DownReturn ==
  /\ phase = "down" /\ downStack # <<>> /\ DownTop.entry = Null
  /\ LET callers == SubSeq(downStack, 1, Len(downStack) - 1)
     IN  downStack' = IF callers = <<>> THEN <<>>
                      ELSE [callers EXCEPT ![Len(callers)] =
                              Advance(@, NextEntry(@.entry, @.bucket))]
  /\ UNCHANGED <<phase, todo, upResult, upStack, downResult, pendingNeed, head, next>>

DownDone ==
  /\ phase = "down" /\ downStack = <<>> /\ todo = <<>>
  /\ phase' = "sorted"
  /\ UNCHANGED <<todo, upResult, upStack, downResult, downStack, pendingNeed, head, next>>

SortStep ==
  \/ UpItem \/ UpNeeded \/ UpInsert \/ UpDone
  \/ DownItemReady \/ DownItemPending
  \/ DownStillPending \/ DownRelease \/ DownReturn \/ DownDone

SortNext == SortStep /\ UNCHANGED <<items, edges, layout>>

SortSpec == SortInit /\ [][SortNext]_sortVars

\* The sorts are sequential code of the main thread.
FairSortSpec == SortSpec /\ WF_sortVars(SortNext)
-------------------------------------------------------------------------------
UpFrames == [elem : Statements, missing : SUBSET Statements]
DownFrames == [elem : Statements, entry : Statements \cup {Null}, bucket : 0..Buckets]

\* The type invariant of the two sorts.
SortTypeOK ==
  /\ items \in Seq(Statements)
  /\ edges \subseteq Statements \X Statements
  /\ layout \in [Statements -> 1..Buckets]
  /\ phase \in {"up", "down", "sorted"}
  /\ todo \in Seq(Statements)
  /\ upResult \in Seq(Statements) /\ upStack \in Seq(UpFrames)
  /\ downResult \in Seq(Statements) /\ downStack \in Seq(DownFrames)
  /\ pendingNeed \in [Statements -> SUBSET Statements]
  /\ head \in [1..Buckets -> Statements \cup {Null}]
  /\ next \in [Statements -> Statements \cup {Null}]

PredecessorsBefore(list) ==
  \A i \in 1..Len(list) : \A p \in Predecessors(list[i]) :
    \E j \in 1..(i - 1) : list[j] = p

\* Neither sort ever puts an item before one that the order wants before it,
\* whatever the hash layout and whatever list it is given: at no time does
\* either result (orderItemsUp, orderItemsDown) hold an item without all its
\* predecessors in front of it.
InsertedAfterPredecessors ==
  PredecessorsBefore(upResult) /\ PredecessorsBefore(downResult)

\* When orderItemsUp has run, its result holds every item of the list and
\* nothing else.
UpKeepsItems == phase # "up" => Range(upResult) = Range(items)

\* orderItemsDown returns a permutation of the list, although every call of its
\* addElement iterates over the hash map that the calls it makes remove entries
\* from: no item is inserted twice, and none is left pending for ever, to be
\* silently dropped.
DownPermutes ==
  /\ IsInjective(downResult)
  /\ phase = "sorted" => Range(downResult) = Range(items)

Position(list, s) == CHOOSE i \in 1..Len(list) : list[i] = s
Precedes(list, s, t) == Position(list, s) < Position(list, t)

\* The edges a list does not respect yet.
Against(list, rel) == {e \in rel : e[2] \in Range(list) /\ ~Precedes(list, e[1], e[2])}

\* Here: the one that was just added.
Disturbed == Against(items, edges)

\* What StatementOrder.integrate gives to the sorts: a list without repetitions,
\* in the order of all edges but the new one.
SoundProblem(list, rel) ==
  /\ IsInjective(list)
  /\ \A e, f \in Against(list, rel) : e = f

\* The first repair of a program: but for the new edge, the graph is as
\* PartialOrder.reduced left it, without an edge that a longer path stands for.
FirstRepair ==
  LET old == edges \ Disturbed IN \A e \in old : ~Leads(old \ {e}, e[1], e[2])

\* orderItemsUp loses no item, and in a first repair it adds none twice ("ensure we
\* don't add elements double", PartialOrder.scala:226), although a call goes on
\* with the predecessors that were missing when it started.
UpPermutes == UpKeepsItems /\ (FirstRepair => IsInjective(upResult))

\* In a first repair, sorting upwards moves only what must precede the source of
\* the new edge, sorting downwards only what must follow its target: all other items keep
\* their places relative to each other ("needed items will be moved up", "it
\* will be moved down", PartialOrder.scala:159,202).
MovesOnlyWhatItMust ==
  phase = "sorted" /\ FirstRepair =>
    LET moved(result) == {m \in Range(items) \X Range(items) :
                            Precedes(items, m[1], m[2]) /\ Precedes(result, m[2], m[1])}
    IN  /\ \A m \in moved(upResult) : \E e \in Disturbed :
             m[2] = e[1] \/ Leads(edges, m[2], e[1])
        /\ \A m \in moved(downResult) : \E e \in Disturbed :
             m[1] = e[2] \/ Leads(edges, e[2], m[1])

\* The sorts agree on whether there is anything to reorder: StatementOrder.
\* integrate asks only the one that ran last ("reordered" is overwritten,
\* StatementOrder.scala:228) before it offers the results of both.
SortsAgreeOnChange ==
  phase = "sorted" => (upResult = items <=> downResult = items)

\* Both sorts end: the recursion of orderItemsUp finds no cycle to follow, and
\* iterating over the shrinking hash map comes to its end.
SortsEnd == <>(phase = "sorted")
===============================================================================
