--------------------------- MODULE OrderItems_proofs ---------------------------
(***************************************************************************)
(* Theorems about the two sorts of OrderItems, for every list, order and   *)
(* hash layout: they insert nothing before its predecessors; the downward  *)
(* one returns a permutation of the list, in spite of iterating over a     *)
(* hash map that the calls it makes remove entries from; both return the   *)
(* list itself just when there is nothing to reorder; and in a first       *)
(* repair the upward one adds nothing twice, and neither moves an item     *)
(* without need.                                                           *)
(***************************************************************************)
EXTENDS OrderItems, SequenceTheorems, WellFoundedInduction, TLAPS

(***************************************************************************)
(* Sequences used as lists and as stacks.                                  *)
(***************************************************************************)
\* What Append does to length, elements and range.
LEMMA AppendFacts ==
  ASSUME NEW S, NEW s \in Seq(S), NEW e \in S
  PROVE  /\ Append(s, e) \in Seq(S)
         /\ Len(Append(s, e)) = Len(s) + 1
         /\ \A i \in 1..Len(s) : Append(s, e)[i] = s[i]
         /\ Append(s, e)[Len(s) + 1] = e
         /\ Range(Append(s, e)) = Range(s) \cup {e}
<1> DEFINE t == Append(s, e)
<1>1. /\ t \in Seq(S)
      /\ Len(t) = Len(s) + 1
      /\ \A i \in 1..Len(s) : t[i] = s[i]
      /\ t[Len(s) + 1] = e
  OBVIOUS
<1>2. DOMAIN s = 1..Len(s) /\ DOMAIN t = 1..Len(t)
  BY <1>1
<1> HIDE DEF t
<1>3. Range(t) = Range(s) \cup {e}
  BY <1>1, <1>2 DEF Range
<1> QED
  BY <1>1, <1>3 DEF t

\* What is left of a stack when its top is popped.
LEMMA FrontFacts ==
  ASSUME NEW S, NEW s \in Seq(S), s # <<>>
  PROVE  /\ SubSeq(s, 1, Len(s) - 1) \in Seq(S)
         /\ Len(SubSeq(s, 1, Len(s) - 1)) = Len(s) - 1
         /\ \A i \in 1..(Len(s) - 1) : SubSeq(s, 1, Len(s) - 1)[i] = s[i]
<1>1. Len(s) \in Nat \ {0} /\ \A i \in 1..(Len(s) - 1) : s[i] \in S
  OBVIOUS
<1>2. ASSUME NEW k \in Nat, \A i \in 1..k : s[i] \in S
      PROVE  /\ SubSeq(s, 1, k) \in Seq(S)
             /\ Len(SubSeq(s, 1, k)) = k
             /\ \A i \in 1..k : SubSeq(s, 1, k)[i] = s[i]
  <2>1. k - 1 + 1 = k /\ (~(1 <= k) => k = 0) /\ \A i \in 1..k : 1 + i - 1 = i
    OBVIOUS
  <2>2. /\ SubSeq(s, 1, k) \in Seq(S)
        /\ Len(SubSeq(s, 1, k)) = IF 1 <= k THEN k - 1 + 1 ELSE 0
        /\ \A i \in 1..(k - 1 + 1) : SubSeq(s, 1, k)[i] = s[1 + i - 1]
    BY <1>2, SubSeqProperties
  <2> QED
    BY <2>1, <2>2
<1>3. Len(s) - 1 \in Nat
  BY <1>1
<1> QED
  BY <1>1, <1>2, <1>3

\* What is left of a list when its head is taken.
LEMMA TailFacts ==
  ASSUME NEW S, NEW s \in Seq(S), s # <<>>
  PROVE  /\ Head(s) \in S
         /\ Tail(s) \in Seq(S)
         /\ Range(s) = {Head(s)} \cup Range(Tail(s))
<1> DEFINE t == Tail(s)
<1>1. /\ t \in Seq(S)
      /\ Len(t) = Len(s) - 1
      /\ \A i \in 1..Len(t) : t[i] = s[i + 1]
      /\ Head(s) = s[1]
      /\ Len(s) \in Nat \ {0}
      /\ s[1] \in S
  OBVIOUS
<1>2. DOMAIN s = 1..Len(s) /\ DOMAIN t = 1..Len(t)
  BY <1>1
<1> HIDE DEF t
<1>3. ASSUME NEW x \in Range(s) PROVE x \in {Head(s)} \cup Range(t)
  <2>1. PICK i \in 1..Len(s) : s[i] = x
    BY <1>2 DEF Range
  <2>2. CASE i = 1
    BY <2>1, <2>2, <1>1
  <2>3. CASE i # 1
    <3>1. i - 1 \in 1..Len(t) /\ t[i - 1] = s[i]
      BY <2>3, <1>1
    <3> QED
      BY <3>1, <2>1, <1>2 DEF Range
  <2> QED
    BY <2>2, <2>3
<1>4. ASSUME NEW x \in Range(t) PROVE x \in Range(s)
  <2>1. PICK i \in 1..Len(t) : t[i] = x
    BY <1>2 DEF Range
  <2>2. i + 1 \in 1..Len(s) /\ s[i + 1] = x
    BY <2>1, <1>1
  <2> QED
    BY <2>2, <1>2 DEF Range
<1>5. Head(s) \in Range(s)
  BY <1>1, <1>2 DEF Range
<1> QED
  BY <1>1, <1>3, <1>4, <1>5 DEF t

\* Changing the top of a stack changes nothing below it.
LEMMA ReplaceTopFacts ==
  ASSUME NEW S, NEW s \in Seq(S), s # <<>>, NEW x \in S
  PROVE  /\ [s EXCEPT ![Len(s)] = x] \in Seq(S)
         /\ Len([s EXCEPT ![Len(s)] = x]) = Len(s)
         /\ [s EXCEPT ![Len(s)] = x][Len(s)] = x
         /\ \A i \in 1..(Len(s) - 1) : [s EXCEPT ![Len(s)] = x][i] = s[i]
OBVIOUS

\* The empty list has no elements; the top of a stack has the type of its elements.
LEMMA EmptyFacts ==
  /\ Range(<<>>) = {}
  /\ \A S, s : s \in Seq(S) => DOMAIN s = 1..Len(s) /\ Len(s) \in Nat
  /\ \A S, s : s \in Seq(S) /\ s # <<>> => Len(s) \in Nat \ {0} /\ s[Len(s)] \in S
BY DEF Range

-------------------------------------------------------------------------------
(***************************************************************************)
(* The inductive invariant.                                                *)
(***************************************************************************)

\* What precedes an item of the list is in the list, and the sorts do not change it.
ProblemOK == \A e \in edges : e[2] \in Range(items) => e[1] \in Range(items)

\* What a call of the upward addElement still has to see added: its own missing
\* set, and the element of the call it waits for.
Awaited(k) == upStack[k].missing \cup
                (IF k < Len(upStack) THEN {upStack[k + 1].elem} ELSE {})

UpCallsOK == \A k \in 1..Len(upStack) :
               Predecessors(upStack[k].elem) \subseteq Range(upResult) \cup Awaited(k)

\* Nothing outside the list is ever added, and everything visited is.
UpWithin == /\ Range(upResult) \subseteq Range(items)
            /\ Range(todo) \subseteq Range(items)
            /\ \A k \in 1..Len(upStack) : /\ upStack[k].elem \in Range(items)
                                          /\ upStack[k].missing \subseteq Range(items)

UpVisited == phase = "up" =>
               Range(items) \subseteq Range(upResult) \cup Range(todo) \cup
                                     (IF upStack = <<>> THEN {} ELSE {upStack[1].elem})

\* A call that waits for another one is at the entry it made the call for.
CallersAtEntry == \A k \in 1..(Len(downStack) - 1) : downStack[k].entry # Null

\* The items that may be entries of the hash map, in the table or not any more:
\* what such an item no longer needs is in the result.
Known == {s \in Statements : Predecessors(s) \ pendingNeed[s] \subseteq Range(downResult)}

Places == Known \cup {Null}

EntriesKnown == /\ head \in [1..Buckets -> Places]
                /\ next \in [Statements -> Places]
                /\ \A k \in 1..Len(downStack) : downStack[k].entry \in Places

\* A call of the downward addElement works for an item that was inserted.
CallsInserted == \A k \in 1..Len(downStack) : downStack[k].elem \in Range(downResult)

SortInv == /\ SortTypeOK
           /\ ProblemOK
           /\ UpCallsOK /\ UpWithin /\ UpVisited /\ UpKeepsItems
           /\ CallersAtEntry /\ EntriesKnown /\ CallsInserted
           /\ InsertedAfterPredecessors
-------------------------------------------------------------------------------
\* A set of bucket numbers has a highest one.
LEMMA HighestOf ==
  ASSUME NEW top \in Nat, NEW used, used \subseteq 1..top, used # {}
  PROVE  \E c \in used : \A d \in used : d <= c
<1> DEFINE less == {ss \in Nat \X Nat : ss[1] < ss[2]}
           distances == {k \in Nat : \E c \in used : k = top - c}
<1>1. IsWellFoundedOn(less, Nat)
  BY NatLessThanWellFounded DEF OpToRel
<1>2. distances \subseteq Nat /\ distances # {}
  <2>1. PICK c : c \in used
    OBVIOUS
  <2>2. top - c \in Nat
    BY <2>1
  <2> QED
    BY <2>1, <2>2
<1> HIDE DEF less
<1>3. PICK x \in distances : \A y \in distances : ~(<<y, x>> \in less)
  <2> HIDE DEF distances
  <2> QED
    BY <1>1, <1>2, WFMin
<1>4. PICK c \in used : x = top - c
  OBVIOUS
<1>5. ASSUME NEW d \in used PROVE d <= c
  <2>1. top - d \in distances
    OBVIOUS
  <2>2. ~(<<top - d, x>> \in less)
    BY <1>3, <2>1
  <2>3. top - d \in Nat /\ x \in Nat
    BY <2>1
  <2>4. ~(top - d < x)
    BY <2>2, <2>3 DEF less
  <2>5. c \in 1..top /\ d \in 1..top
    OBVIOUS
  <2> QED
    BY <1>4, <2>3, <2>4, <2>5
<1> QED
  BY <1>5

\* An iteration starts at an entry of a bucket, or is over at bucket 0.
LEMMA FirstEntryType ==
  ASSUME NEW heads \in [1..Buckets -> Statements \cup {Null}], NEW top \in -1..Buckets
  PROVE  /\ FirstEntry(heads, top).entry \in Statements \cup {Null}
         /\ FirstEntry(heads, top).bucket \in 0..Buckets
         /\ FirstEntry(heads, top).entry # Null =>
              \E b \in 1..Buckets : FirstEntry(heads, top).entry = heads[b]
<1> USE OrderItemsAssumption
<1> DEFINE used == {b \in 1..top : heads[b] # Null}
<1>1. CASE used = {}
  BY <1>1 DEF FirstEntry
<1>2. CASE used # {}
  <2> DEFINE b == CHOOSE b \in used : \A c \in used : c <= b
  <2>1. \E c \in used : \A d \in used : d <= c
    <3>1. top \in Nat /\ used \subseteq 1..top
      BY <1>2
    <3> HIDE DEF used
    <3> QED
      BY <1>2, <3>1, HighestOf
  <2>2. b \in used
    BY <2>1
  <2>3. FirstEntry(heads, top) = [entry |-> heads[b], bucket |-> b]
    BY <1>2 DEF FirstEntry
  <2>4. b \in 1..Buckets
    BY <2>2
  <2> HIDE DEF b
  <2> QED
    BY <2>3, <2>4
<1> QED
  BY <1>1, <1>2

\* An iteration goes on at an entry of a bucket, or is over at bucket 0.
LEMMA NextEntryType ==
  ASSUME SortTypeOK, NEW entry \in Statements, NEW bucket \in 0..Buckets
  PROVE  /\ NextEntry(entry, bucket).entry \in Statements \cup {Null}
         /\ NextEntry(entry, bucket).bucket \in 0..Buckets
         /\ NextEntry(entry, bucket).entry # Null =>
              \/ NextEntry(entry, bucket).entry = next[entry] /\ next[entry] # Null
              \/ \E b \in 1..Buckets : NextEntry(entry, bucket).entry = head[b]
<1>1. CASE next[entry] # Null
  BY <1>1 DEF NextEntry, SortTypeOK
<1>2. CASE next[entry] = Null
  <2>1. NextEntry(entry, bucket) = FirstEntry(head, bucket - 1)
    BY <1>2 DEF NextEntry
  <2>2. bucket - 1 \in -1..Buckets /\ head \in [1..Buckets -> Statements \cup {Null}]
    BY OrderItemsAssumption DEF SortTypeOK
  <2> QED
    BY <2>1, <2>2, FirstEntryType
<1> QED
  BY <1>1, <1>2

\* Predecessors are statements.
LEMMA PredecessorsType == \A s : Predecessors(s) \subseteq Statements
BY DEF Predecessors

\* Every step keeps the types, given that waiting callers stand at an entry.
LEMMA StepTypes == SortTypeOK /\ CallersAtEntry /\ [SortNext]_sortVars => SortTypeOK'
<1> SUFFICES ASSUME SortTypeOK, CallersAtEntry, [SortNext]_sortVars PROVE SortTypeOK'
  OBVIOUS
<1> USE OrderItemsAssumption, PredecessorsType
<1>1. CASE SortNext
  <2> USE <1>1 DEF SortNext
  <2>0. UNCHANGED <<items, edges, layout>>
    BY <1>1
  <2>1. CASE UpItem
    <3>1. Head(todo) \in Statements /\ Tail(todo) \in Seq(Statements)
      BY <2>1, TailFacts DEF UpItem, SortTypeOK
    <3>2. UpCall(Head(todo)) \in UpFrames
      BY <3>1 DEF UpCall, UpFrames
    <3>3. upStack' \in Seq(UpFrames)
      BY <2>1, <3>2 DEF UpItem
    <3> QED
      BY <2>0, <2>1, <3>1, <3>3 DEF UpItem, SortTypeOK
  <2>2. CASE UpNeeded
    <3>1. PICK p \in UpTop.missing :
            upStack' = Append([upStack EXCEPT ![Len(upStack)].missing = @ \ {p}], UpCall(p))
      BY <2>2 DEF UpNeeded
    <3>2. UpTop \in UpFrames /\ upStack \in Seq(UpFrames) /\ upStack # <<>>
      BY <2>2, EmptyFacts DEF UpNeeded, UpTop, SortTypeOK
    <3>3. p \in Statements /\ UpCall(p) \in UpFrames
      BY <3>2 DEF UpFrames, UpCall
    <3> DEFINE x == [UpTop EXCEPT !.missing = @ \ {p}]
    <3>4. x \in UpFrames
      BY <3>2 DEF UpFrames
    <3>5. [upStack EXCEPT ![Len(upStack)].missing = @ \ {p}] = [upStack EXCEPT ![Len(upStack)] = x]
      BY DEF UpTop
    <3> HIDE DEF x
    <3>6. upStack' \in Seq(UpFrames)
      BY <3>1, <3>2, <3>3, <3>4, <3>5, ReplaceTopFacts, AppendFacts
    <3> QED
      BY <2>0, <2>2, <3>6 DEF UpNeeded, SortTypeOK
  <2>3. CASE UpInsert
    <3>1. UpTop \in UpFrames /\ upStack \in Seq(UpFrames) /\ upStack # <<>>
      BY <2>3, EmptyFacts DEF UpInsert, UpTop, SortTypeOK
    <3>2. UpTop.elem \in Statements
      BY <3>1 DEF UpFrames
    <3>3. upResult' \in Seq(Statements)
      BY <2>3, <3>2, AppendFacts DEF UpInsert, SortTypeOK
    <3>4. upStack' \in Seq(UpFrames)
      BY <2>3, <3>1, FrontFacts DEF UpInsert
    <3> QED
      BY <2>0, <2>3, <3>3, <3>4 DEF UpInsert, SortTypeOK
  <2>4. CASE UpDone
    BY <2>0, <2>4 DEF UpDone, SortTypeOK
  <2>5. CASE DownItemReady
    <3>1. Head(todo) \in Statements /\ Tail(todo) \in Seq(Statements)
      BY <2>5, TailFacts DEF DownItemReady, SortTypeOK
    <3>2. DownCall(Head(todo), head) \in DownFrames
      <4>1. Buckets \in -1..Buckets /\ head \in [1..Buckets -> Statements \cup {Null}]
        BY DEF SortTypeOK
      <4> QED
        BY <3>1, <4>1, FirstEntryType DEF DownCall, DownFrames
    <3>3. downStack' \in Seq(DownFrames)
      BY <2>5, <3>2 DEF DownItemReady
    <3>4. downResult' \in Seq(Statements)
      BY <2>5, <3>1, AppendFacts DEF DownItemReady, SortTypeOK
    <3> QED
      BY <2>0, <2>5, <3>1, <3>3, <3>4 DEF DownItemReady, SortTypeOK
  <2>6. CASE DownItemPending
    <3>1. Head(todo) \in Statements /\ Tail(todo) \in Seq(Statements)
      BY <2>6, TailFacts DEF DownItemPending, SortTypeOK
    <3>2. ReadyToInsert(Head(todo)) \subseteq Statements
      BY DEF ReadyToInsert
    <3>3. pendingNeed' \in [Statements -> SUBSET Statements]
      BY <2>6, <3>1, <3>2 DEF DownItemPending, SortTypeOK
    <3>4. /\ head' \in [1..Buckets -> Statements \cup {Null}]
          /\ next' \in [Statements -> Statements \cup {Null}]
      BY <2>6, <3>1 DEF DownItemPending, PutEntry, SortTypeOK
    <3> QED
      BY <2>0, <2>6, <3>1, <3>3, <3>4 DEF DownItemPending, SortTypeOK
  <2>7. CASE DownStillPending
    <3>1. DownTop \in DownFrames /\ downStack \in Seq(DownFrames) /\ downStack # <<>>
      BY <2>7, EmptyFacts DEF DownStillPending, DownTop, SortTypeOK
    <3>2. DownTop.entry \in Statements /\ DownTop.bucket \in 0..Buckets
      BY <2>7, <3>1 DEF DownStillPending, DownFrames
    <3>3. Advance(DownTop, NextEntry(DownTop.entry, DownTop.bucket)) \in DownFrames
      BY <3>1, <3>2, NextEntryType DEF Advance, DownFrames
    <3>4. downStack' = [downStack EXCEPT ![Len(downStack)] =
                          Advance(DownTop, NextEntry(DownTop.entry, DownTop.bucket))]
      BY <2>7 DEF DownStillPending, DownTop
    <3>5. downStack' \in Seq(DownFrames)
      BY <3>1, <3>3, <3>4, ReplaceTopFacts
    <3>6. pendingNeed' \in [Statements -> SUBSET Statements]
      BY <2>7, <3>2 DEF DownStillPending, StillNeeded, SortTypeOK
    <3> QED
      BY <2>0, <2>7, <3>5, <3>6 DEF DownStillPending, SortTypeOK
  <2>8. CASE DownRelease
    <3>1. DownTop \in DownFrames /\ downStack \in Seq(DownFrames) /\ downStack # <<>>
      BY <2>8, EmptyFacts DEF DownRelease, DownTop, SortTypeOK
    <3>2. DownTop.entry \in Statements
      BY <2>8, <3>1 DEF DownRelease, DownFrames
    <3>3. /\ head' \in [1..Buckets -> Statements \cup {Null}]
          /\ next' \in [Statements -> Statements \cup {Null}]
      <4>1. layout[DownTop.entry] \in 1..Buckets /\ next[DownTop.entry] \in Statements \cup {Null}
        BY <3>2 DEF SortTypeOK
      <4>2. CASE head[layout[DownTop.entry]] = DownTop.entry
        BY <2>8, <4>1, <4>2 DEF DownRelease, RemoveEntry, SortTypeOK
      <4>3. CASE head[layout[DownTop.entry]] # DownTop.entry
        BY <2>8, <4>1, <4>3 DEF DownRelease, RemoveEntry, SortTypeOK
      <4> QED
        BY <4>2, <4>3
    <3>4. DownCall(DownTop.entry, head') \in DownFrames
      <4>1. Buckets \in -1..Buckets
        OBVIOUS
      <4> QED
        BY <3>2, <3>3, <4>1, FirstEntryType DEF DownCall, DownFrames
    <3>5. downStack' \in Seq(DownFrames)
      BY <2>8, <3>1, <3>4, AppendFacts DEF DownRelease
    <3>6. downResult' \in Seq(Statements)
      BY <2>8, <3>2, AppendFacts DEF DownRelease, SortTypeOK
    <3>7. pendingNeed' \in [Statements -> SUBSET Statements]
      BY <2>8, <3>2 DEF DownRelease, SortTypeOK
    <3> QED
      BY <2>0, <2>8, <3>3, <3>5, <3>6, <3>7 DEF DownRelease, SortTypeOK
  <2>9. CASE DownReturn
    <3> DEFINE callers == SubSeq(downStack, 1, Len(downStack) - 1)
    <3>1. downStack \in Seq(DownFrames) /\ callers \in Seq(DownFrames)
      BY <2>9, FrontFacts DEF DownReturn, SortTypeOK
    <3>2. downStack' = IF callers = <<>> THEN <<>>
                       ELSE [callers EXCEPT ![Len(callers)] =
                               Advance(@, NextEntry(@.entry, @.bucket))]
      BY <2>9 DEF DownReturn
    <3> HIDE DEF callers
    <3>3. ASSUME callers # <<>>, callers[Len(callers)].entry \in Statements
          PROVE  downStack' \in Seq(DownFrames)
      <4> DEFINE c == callers[Len(callers)]
      <4>1. c \in DownFrames
        BY <3>1, <3>3, EmptyFacts
      <4>2. Advance(c, NextEntry(c.entry, c.bucket)) \in DownFrames
        BY <3>3, <4>1, NextEntryType DEF Advance, DownFrames
      <4> QED
        BY <3>1, <3>2, <3>3, <4>2, ReplaceTopFacts
    <3>4. ASSUME callers # <<>> PROVE callers[Len(callers)].entry \in Statements
      <4>1. /\ Len(callers) = Len(downStack) - 1
            /\ \A i \in 1..(Len(downStack) - 1) : callers[i] = downStack[i]
        BY <2>9, FrontFacts DEF callers, DownReturn, SortTypeOK
      <4>2. Len(callers) \in 1..(Len(downStack) - 1)
        BY <3>1, <3>4, <4>1, EmptyFacts
      <4>3. callers[Len(callers)].entry # Null
        BY <4>1, <4>2 DEF CallersAtEntry
      <4>4. callers[Len(callers)] \in DownFrames
        BY <3>1, <3>4, EmptyFacts
      <4> QED
        BY <4>3, <4>4 DEF DownFrames
    <3>5. downStack' \in Seq(DownFrames)
      <4>1. CASE callers = <<>>
        BY <3>1, <3>2, <4>1
      <4>2. CASE callers # <<>>
        BY <3>3, <3>4, <4>2
      <4> QED
        BY <4>1, <4>2
    <3>6. UNCHANGED <<phase, todo, upResult, upStack, downResult, pendingNeed, head, next>>
      BY <2>9 DEF DownReturn
    <3> QED
      BY <2>0, <3>5, <3>6 DEF SortTypeOK
  <2>10. CASE DownDone
    BY <2>0, <2>10 DEF DownDone, SortTypeOK
  <2> QED
    BY <1>1, <2>1, <2>2, <2>3, <2>4, <2>5, <2>6, <2>7, <2>8, <2>9, <2>10 DEF SortStep
<1>2. CASE UNCHANGED sortVars
  BY <1>2 DEF sortVars, sorting, SortTypeOK
<1> QED
  BY <1>1, <1>2
-------------------------------------------------------------------------------
(***************************************************************************)
(* Sorting upwards.                                                        *)
(***************************************************************************)
\* Appending an item whose predecessors are all there keeps a result in order.
LEMMA AppendKeepsOrder ==
  ASSUME NEW list \in Seq(Statements), PredecessorsBefore(list),
         NEW e \in Statements, Predecessors(e) \subseteq Range(list)
  PROVE  PredecessorsBefore(Append(list, e))
<1> DEFINE t == Append(list, e)
<1>1. /\ Len(t) = Len(list) + 1 /\ Len(list) \in Nat
      /\ \A i \in 1..Len(list) : t[i] = list[i]
      /\ t[Len(list) + 1] = e
      /\ DOMAIN list = 1..Len(list)
  BY AppendFacts
<1> HIDE DEF t
<1> SUFFICES ASSUME NEW i \in 1..Len(t), NEW p \in Predecessors(t[i])
             PROVE  \E j \in 1..(i - 1) : t[j] = p
  BY DEF PredecessorsBefore, t
<1>2. CASE i \in 1..Len(list)
  <2>1. PICK j \in 1..(i - 1) : list[j] = p
    BY <1>1, <1>2 DEF PredecessorsBefore
  <2>2. j \in 1..Len(list)
    BY <1>1, <1>2
  <2> QED
    BY <1>1, <2>1, <2>2
<1>3. CASE i = Len(list) + 1
  <2>1. PICK j \in 1..Len(list) : list[j] = p
    BY <1>1, <1>3 DEF Range
  <2> QED
    BY <1>1, <1>3, <2>1
<1> QED
  BY <1>1, <1>2, <1>3

UpInv == UpCallsOK /\ UpWithin /\ UpVisited /\ UpKeepsItems /\ PredecessorsBefore(upResult)

\* The steps of the downward sort leave the upward one alone.
LEMMA UpInvFrame ==
  ASSUME UpInv, UNCHANGED <<items, edges, upResult, upStack>>,
         \/ todo' = todo /\ phase' = phase
         \/ phase' # "up" /\ phase # "up" /\ Range(todo') \subseteq Range(items)
  PROVE  UpInv'
BY DEF UpInv, UpCallsOK, Awaited, UpWithin, UpVisited, UpKeepsItems, PredecessorsBefore,
       Predecessors

\* Every step keeps what holds of the upward sort.
LEMMA StepUp ==
  ASSUME SortTypeOK, ProblemOK, UpInv, SortStep, UNCHANGED <<items, edges, layout>>
  PROVE  UpInv'
<1> DEFINE Same == UNCHANGED <<items, edges>>
<1>1. CASE UpItem
  <2>1. /\ Head(todo) \in Statements /\ Head(todo) \in Range(todo)
        /\ Range(todo) = {Head(todo)} \cup Range(Tail(todo))
    BY <1>1, TailFacts DEF UpItem, SortTypeOK
  <2>2. CASE Head(todo) \in Range(upResult)
    <3>1. upStack' = <<>> /\ upStack = <<>> /\ todo' = Tail(todo) /\ upResult' = upResult
          /\ phase' = phase
      BY <1>1, <2>2 DEF UpItem
    <3>2. Len(upStack') = 0
      BY <3>1
    <3> QED
      BY <2>1, <2>2, <3>1, <3>2 DEF UpInv, UpCallsOK, UpWithin, UpVisited, UpKeepsItems,
         PredecessorsBefore, Predecessors
  <2>3. CASE Head(todo) \notin Range(upResult)
    <3>1. /\ upStack' = <<UpCall(Head(todo))>> /\ upStack = <<>> /\ todo' = Tail(todo)
          /\ upResult' = upResult /\ phase' = phase /\ phase = "up"
      BY <1>1, <2>3 DEF UpItem
    <3>2. /\ Len(upStack') = 1 /\ upStack'[1] = UpCall(Head(todo)) /\ upStack' # <<>>
          /\ upStack'[1].elem = Head(todo)
          /\ upStack'[1].missing = Predecessors(Head(todo)) \ Range(upResult)
      BY <3>1 DEF UpCall
    <3>3. UpCallsOK'
      BY <3>1, <3>2 DEF UpCallsOK, Awaited, Predecessors
    <3>4. UpWithin'
      <4>1. Predecessors(Head(todo)) \subseteq Range(items)
        BY <2>1 DEF ProblemOK, Predecessors, UpInv, UpWithin
      <4>2. \A k \in 1..Len(upStack') : k = 1
        BY <3>2
      <4>3. items' = items
        OBVIOUS
      <4> HIDE DEF UpWithin
      <4>4. /\ Range(upResult) \subseteq Range(items)
            /\ Range(todo) \subseteq Range(items)
        BY DEF UpInv, UpWithin
      <4>5. Range(upResult') \subseteq Range(items') /\ Range(todo') \subseteq Range(items')
        BY <2>1, <3>1, <4>3, <4>4
      <4>6. \A k \in 1..Len(upStack') : /\ upStack'[k].elem \in Range(items')
                                       /\ upStack'[k].missing \subseteq Range(items')
        BY <2>1, <3>2, <4>1, <4>2, <4>3, <4>4
      <4> QED
        BY <4>5, <4>6 DEF UpWithin
    <3>5. UpVisited'
      BY <2>1, <3>1, <3>2 DEF UpInv, UpVisited
    <3> QED
      BY <3>1, <3>3, <3>4, <3>5 DEF UpInv, UpKeepsItems, PredecessorsBefore, Predecessors
  <2> QED
    BY <2>2, <2>3
<1>2. CASE UpNeeded
  <2>1. PICK p \in UpTop.missing :
          upStack' = Append([upStack EXCEPT ![Len(upStack)].missing = @ \ {p}], UpCall(p))
    BY <1>2 DEF UpNeeded
  <2>a. UpTop \in UpFrames /\ upStack \in Seq(UpFrames) /\ upStack # <<>>
    BY <1>2, EmptyFacts DEF UpNeeded, UpTop, SortTypeOK
  <2>b. PICK l \in Nat \ {0} : l = Len(upStack)
    BY <2>a, EmptyFacts
  <2> DEFINE x == [UpTop EXCEPT !.missing = @ \ {p}]
             s == [upStack EXCEPT ![Len(upStack)] = x]
  <2>2. /\ UpTop \in UpFrames /\ upStack \in Seq(UpFrames) /\ upStack # <<>>
        /\ l \in Nat \ {0} /\ l = Len(upStack)
    BY <2>a, <2>b
  <2>3. p \in Statements /\ UpCall(p) \in UpFrames
    BY <2>2 DEF UpFrames, UpCall, Predecessors
  <2>4. x \in UpFrames /\ x.elem = UpTop.elem /\ x.missing = UpTop.missing \ {p}
    BY <2>2 DEF UpFrames
  <2>5. [upStack EXCEPT ![Len(upStack)].missing = @ \ {p}] = s
    BY DEF UpTop
  <2> HIDE DEF x
  <2>6. /\ s \in Seq(UpFrames) /\ Len(s) = l /\ s[l] = x
        /\ \A i \in 1..(l - 1) : s[i] = upStack[i]
    BY <2>2, <2>4, ReplaceTopFacts
  <2> HIDE DEF s
  <2>7. /\ Len(upStack') = l + 1
        /\ \A i \in 1..l : upStack'[i] = s[i]
        /\ upStack'[l + 1] = UpCall(p)
    <3>1. upStack' = Append(s, UpCall(p))
      BY <2>1, <2>5
    <3> QED
      BY <2>3, <2>6, <3>1, AppendFacts
  <2>8. /\ upStack'[l].elem = upStack[l].elem
        /\ upStack'[l].missing = upStack[l].missing \ {p}
        /\ \A i \in 1..(l - 1) : upStack'[i] = upStack[i]
        /\ upStack'[l + 1].elem = p
        /\ upStack'[l + 1].missing = Predecessors(p) \ Range(upResult)
    <3>1. upStack[l] = UpTop
      BY <2>2 DEF UpTop
    <3>2. UpCall(p).elem = p /\ UpCall(p).missing = Predecessors(p) \ Range(upResult)
      BY DEF UpCall
    <3>3. l \in 1..l /\ \A i \in 1..(l - 1) : i \in 1..l
      BY <2>2
    <3>4. upStack'[l] = x /\ \A i \in 1..(l - 1) : upStack'[i] = upStack[i]
      BY <2>6, <2>7, <3>3
    <3> QED
      BY <2>4, <2>7, <3>1, <3>2, <3>4
  <2>9. upResult' = upResult /\ todo' = todo /\ phase' = phase /\ phase = "up"
        /\ edges' = edges /\ items' = items
    BY <1>2 DEF UpNeeded
  <2>10. UpCallsOK'
    <3> SUFFICES ASSUME NEW k \in 1..(l + 1)
                 PROVE  (Predecessors(upStack[k].elem) \subseteq Range(upResult) \cup Awaited(k))'
      BY <2>7 DEF UpCallsOK
    <3>1. CASE k = l + 1
      BY <2>2, <2>7, <2>8, <2>9, <3>1 DEF Awaited, Predecessors
    <3>2. CASE k = l
      <4>1. Predecessors(upStack[l].elem) \subseteq Range(upResult) \cup upStack[l].missing
        <5>1. Awaited(l) = upStack[l].missing
          BY <2>2 DEF Awaited
        <5>2. l \in 1..Len(upStack)
          BY <2>2
        <5> QED
          BY <2>2, <5>1, <5>2 DEF UpInv, UpCallsOK
      <4>2. Awaited(l)' = (upStack[l].missing \ {p}) \cup {p}
        BY <2>2, <2>7, <2>8 DEF Awaited
      <4> QED
        BY <2>8, <2>9, <3>2, <4>1, <4>2 DEF Predecessors
    <3>3. CASE k \in 1..(l - 1)
      <4>1. k < l /\ k + 1 \in 1..l /\ k \in 1..l /\ k < l + 1
        BY <2>2, <3>3
      <4>2. upStack'[k + 1].elem = upStack[k + 1].elem
        <5>1. CASE k + 1 = l
          BY <2>8, <5>1
        <5>2. CASE k + 1 \in 1..(l - 1)
          BY <2>8, <5>2
        <5> QED
          BY <2>2, <3>3, <5>1, <5>2
      <4>3. Awaited(k)' = Awaited(k)
        BY <2>2, <2>7, <2>8, <3>3, <4>1, <4>2 DEF Awaited
      <4>4. Predecessors(upStack[k].elem) \subseteq Range(upResult) \cup Awaited(k)
        BY <2>2, <4>1 DEF UpInv, UpCallsOK
      <4> QED
        BY <2>8, <2>9, <3>3, <4>3, <4>4 DEF Predecessors
    <3> QED
      BY <2>2, <3>1, <3>2, <3>3
  <2>11. UpWithin'
    <3>1. p \in Range(items) /\ Predecessors(p) \subseteq Range(items)
      BY <2>2 DEF UpInv, UpWithin, UpTop, ProblemOK, Predecessors
    <3>2. \A k \in 1..l : /\ upStack[k].elem \in Range(items)
                          /\ upStack[k].missing \subseteq Range(items)
      BY <2>2 DEF UpInv, UpWithin
    <3> QED
      BY <2>2, <2>7, <2>8, <2>9, <3>1, <3>2 DEF UpInv, UpWithin
  <2>12. UpVisited'
    <3>1. upStack' # <<>> /\ upStack'[1].elem = upStack[1].elem
      <4>1. CASE l = 1
        BY <2>7, <2>8, <4>1
      <4>2. CASE l # 1
        BY <2>2, <2>7, <2>8, <4>2
      <4> QED
        BY <4>1, <4>2
    <3> QED
      BY <2>2, <2>9, <3>1 DEF UpInv, UpVisited
  <2> QED
    BY <2>9, <2>10, <2>11, <2>12 DEF UpInv, UpKeepsItems, PredecessorsBefore, Predecessors
<1>3. CASE UpInsert
  <2>1. UpTop \in UpFrames /\ upStack \in Seq(UpFrames) /\ upStack # <<>>
    BY <1>3, EmptyFacts DEF UpInsert, UpTop, SortTypeOK
  <2>2. PICK l \in Nat \ {0} : l = Len(upStack)
    BY <2>1, EmptyFacts
  <2>3. PICK e \in Statements : e = UpTop.elem
    BY <2>1 DEF UpFrames
  <2>4. /\ Len(upStack') = l - 1
        /\ \A i \in 1..(l - 1) : upStack'[i] = upStack[i]
        /\ upStack' \in Seq(UpFrames)
    BY <1>3, <2>1, <2>2, FrontFacts DEF UpInsert
  <2>5. /\ upResult' = Append(upResult, e) /\ todo' = todo /\ phase' = phase /\ phase = "up"
        /\ edges' = edges /\ items' = items /\ upStack[l].missing = {} /\ upStack[l].elem = e
    BY <1>3, <2>2, <2>3 DEF UpInsert, UpTop
  <2>6. Range(upResult') = Range(upResult) \cup {e}
    BY <2>5, AppendFacts DEF SortTypeOK
  <2>7. Predecessors(e) \subseteq Range(upResult)
    <3>1. Awaited(l) = {} /\ l \in 1..Len(upStack)
      BY <2>2, <2>5 DEF Awaited
    <3> QED
      BY <2>5, <3>1 DEF UpInv, UpCallsOK
  <2>8. UpCallsOK'
    <3> SUFFICES ASSUME NEW k \in 1..(l - 1)
                 PROVE  (Predecessors(upStack[k].elem) \subseteq Range(upResult) \cup Awaited(k))'
      BY <2>4 DEF UpCallsOK
    <3>1. k \in 1..l /\ k < l /\ k + 1 \in 1..l
      BY <2>2
    <3>2. Predecessors(upStack[k].elem) \subseteq
            Range(upResult) \cup upStack[k].missing \cup {upStack[k + 1].elem}
      <4>1. Awaited(k) = upStack[k].missing \cup {upStack[k + 1].elem}
        BY <2>2, <3>1 DEF Awaited
      <4> QED
        BY <2>2, <3>1, <4>1 DEF UpInv, UpCallsOK
    <3>3. CASE k + 1 = l
      BY <2>4, <2>5, <2>6, <3>2, <3>3 DEF Awaited, Predecessors
    <3>4. CASE k + 1 \in 1..(l - 1)
      <4>1. Awaited(k)' = upStack[k].missing \cup {upStack[k + 1].elem}
        BY <2>2, <2>4, <3>4 DEF Awaited
      <4> QED
        BY <2>4, <2>5, <2>6, <3>2, <4>1 DEF Predecessors
    <3> QED
      BY <2>2, <3>1, <3>3, <3>4
  <2>9. UpWithin'
    <3>1. \A k \in 1..l : /\ upStack[k].elem \in Range(items)
                          /\ upStack[k].missing \subseteq Range(items)
      BY <2>2 DEF UpInv, UpWithin
    <3>2. e \in Range(items)
      BY <2>2, <2>5, <3>1
    <3> QED
      BY <2>2, <2>4, <2>5, <2>6, <3>1, <3>2 DEF UpInv, UpWithin
  <2>10. UpVisited'
    <3>1. CASE l = 1
      <4>1. upStack' = <<>>
        BY <2>4, <3>1
      <4> QED
        BY <2>1, <2>5, <2>6, <3>1, <4>1 DEF UpInv, UpVisited
    <3>2. CASE l # 1
      <4>1. upStack' # <<>> /\ upStack'[1] = upStack[1]
        BY <2>2, <2>4, <3>2
      <4> QED
        BY <2>1, <2>5, <2>6, <4>1 DEF UpInv, UpVisited
    <3> QED
      BY <3>1, <3>2
  <2>11. PredecessorsBefore(upResult)'
    <3>1. PredecessorsBefore(Append(upResult, e))
      BY <2>7, AppendKeepsOrder DEF UpInv, SortTypeOK
    <3> QED
      BY <2>5, <3>1 DEF PredecessorsBefore, Predecessors
  <2> QED
    BY <2>5, <2>8, <2>9, <2>10, <2>11 DEF UpInv, UpKeepsItems
<1>4. CASE UpDone
  <2>1. /\ todo = <<>> /\ upStack = <<>> /\ phase = "up" /\ phase' = "down" /\ todo' = items
        /\ UNCHANGED <<items, edges, upResult, upStack>>
    BY <1>4 DEF UpDone
  <2>2. Range(todo) = {}
    BY <2>1, EmptyFacts
  <2>3. Range(upResult) = Range(items)
    BY <2>1, <2>2 DEF UpInv, UpVisited, UpWithin
  <2> QED
    BY <2>1, <2>3 DEF UpInv, UpCallsOK, Awaited, UpWithin, UpVisited, UpKeepsItems,
       PredecessorsBefore, Predecessors
<1>5. CASE DownItemReady \/ DownItemPending
  <2>1. /\ phase = "down" /\ phase' = phase /\ todo # <<>> /\ todo' = Tail(todo)
        /\ UNCHANGED <<items, edges, upResult, upStack>>
    BY <1>5 DEF DownItemReady, DownItemPending
  <2>2. Range(todo') \subseteq Range(items)
    BY <2>1, TailFacts DEF SortTypeOK, UpInv, UpWithin
  <2> QED
    BY <2>1, <2>2, UpInvFrame
<1>6. CASE DownStillPending \/ DownRelease \/ DownReturn
  <2>1. UNCHANGED <<items, edges, upResult, upStack, todo, phase>>
    BY <1>6 DEF DownStillPending, DownRelease, DownReturn
  <2> QED
    BY <2>1, UpInvFrame
<1>7. CASE DownDone
  <2>1. /\ phase' # "up" /\ phase # "up"
        /\ UNCHANGED <<items, edges, upResult, upStack, todo>>
    BY <1>7 DEF DownDone
  <2> QED
    BY <2>1, UpInvFrame DEF UpInv, UpWithin
<1> QED
  BY <1>1, <1>2, <1>3, <1>4, <1>5, <1>6, <1>7 DEF SortStep
-------------------------------------------------------------------------------
(***************************************************************************)
(* Sorting downwards.                                                      *)
(***************************************************************************)
DownInv == CallersAtEntry /\ EntriesKnown /\ CallsInserted /\ PredecessorsBefore(downResult)

LEMMA DownInvFrame ==
  ASSUME DownInv, UNCHANGED <<edges, downResult, downStack, pendingNeed, head, next>>
  PROVE  DownInv'
BY DEF DownInv, CallersAtEntry, EntriesKnown, CallsInserted, Places, Known,
       PredecessorsBefore, Predecessors

\* Where an iteration goes next is an entry that is or was in the table.
LEMMA NextPlace ==
  ASSUME SortTypeOK, EntriesKnown, NEW e \in Statements, NEW b \in 0..Buckets
  PROVE  NextEntry(e, b).entry \in Places
BY NextEntryType DEF EntriesKnown, Places

\* Where an iteration starts is an entry of the table.
LEMMA FirstPlace ==
  ASSUME NEW P, P \subseteq Statements, NEW heads \in [1..Buckets -> P \cup {Null}]
  PROVE  FirstEntry(heads, Buckets).entry \in P \cup {Null}
<1>1. Buckets \in -1..Buckets /\ heads \in [1..Buckets -> Statements \cup {Null}]
  BY OrderItemsAssumption
<1> QED
  BY <1>1, FirstEntryType

\* Every step keeps what holds of the downward sort.
LEMMA StepDown ==
  ASSUME SortTypeOK, SortTypeOK', DownInv, SortStep, UNCHANGED <<items, edges, layout>>
  PROVE  DownInv'
<1> USE OrderItemsAssumption
<1>1. CASE UpItem \/ UpNeeded \/ UpInsert \/ UpDone \/ DownDone
  <2>1. UNCHANGED <<edges, downResult, downStack, pendingNeed, head, next>>
    BY <1>1 DEF UpItem, UpNeeded, UpInsert, UpDone, DownDone
  <2> QED
    BY <2>1, DownInvFrame
<1>2. CASE DownItemReady
  <2>1. PICK e \in Statements : e = Head(todo)
    BY <1>2, TailFacts DEF DownItemReady, SortTypeOK
  <2>2. PICK call : call = DownCall(e, head)
    OBVIOUS
  <2>3. /\ downResult' = Append(downResult, e) /\ downStack' = <<call>>
        /\ Predecessors(e) \subseteq Range(downResult)
        /\ UNCHANGED <<edges, pendingNeed, head, next>>
    BY <1>2, <2>1, <2>2 DEF DownItemReady, ReadyToInsert
  <2>4. Range(downResult') = Range(downResult) \cup {e}
    BY <2>3, AppendFacts DEF SortTypeOK
  <2>5. Len(downStack') = 1 /\ downStack'[1] = call
    BY <2>3
  <2>6. Places \subseteq Places'
    BY <2>3, <2>4 DEF Places, Known, Predecessors
  <2>7. call.elem = e /\ call.entry \in Places
    <3>1. Known \subseteq Statements /\ head \in [1..Buckets -> Known \cup {Null}]
      BY DEF DownInv, EntriesKnown, Places, Known
    <3> QED
      BY <2>2, <3>1, FirstPlace DEF DownCall, Places
  <2>8. EntriesKnown' /\ CallsInserted' /\ CallersAtEntry'
    BY <2>3, <2>4, <2>5, <2>6, <2>7 DEF DownInv, EntriesKnown, CallsInserted, CallersAtEntry
  <2>9. PredecessorsBefore(downResult)'
    <3>1. PredecessorsBefore(Append(downResult, e))
      BY <2>3, AppendKeepsOrder DEF DownInv, SortTypeOK
    <3> QED
      BY <2>3, <3>1 DEF PredecessorsBefore, Predecessors
  <2> QED
    BY <2>8, <2>9 DEF DownInv
<1>3. CASE DownItemPending
  <2>1. PICK e \in Statements : e = Head(todo)
    BY <1>3, TailFacts DEF DownItemPending, SortTypeOK
  <2>2. /\ pendingNeed' = [pendingNeed EXCEPT ![e] = Predecessors(e) \ Range(downResult)]
        /\ next' = [next EXCEPT ![e] = head[layout[e]]]
        /\ head' = [head EXCEPT ![layout[e]] = e]
        /\ UNCHANGED <<edges, downResult, downStack>>
    BY <1>3, <2>1 DEF DownItemPending, PutEntry, ReadyToInsert
  <2>3. Places \subseteq Places' /\ e \in Places'
    BY <2>2 DEF Places, Known, Predecessors, SortTypeOK
  <2>4. EntriesKnown'
    <3>1. layout[e] \in 1..Buckets /\ head[layout[e]] \in Places
      BY DEF SortTypeOK, DownInv, EntriesKnown
    <3> QED
      BY <2>2, <2>3, <3>1 DEF DownInv, EntriesKnown
  <2> QED
    BY <2>2, <2>4 DEF DownInv, CallsInserted, CallersAtEntry, PredecessorsBefore, Predecessors
<1>4. CASE DownStillPending
  <2>1. PICK l \in Nat \ {0} : l = Len(downStack)
    BY <1>4, EmptyFacts DEF DownStillPending, SortTypeOK
  <2>2. PICK call \in DownFrames : call = downStack[l]
    BY <1>4, <2>1, EmptyFacts DEF DownStillPending, SortTypeOK
  <2>3. /\ call.entry \in Statements /\ call.bucket \in 0..Buckets
        /\ call.elem \in Range(downResult)
    BY <1>4, <2>1, <2>2 DEF DownStillPending, DownTop, DownFrames, DownInv, CallsInserted
  <2>4. PICK moved : moved = Advance(call, NextEntry(call.entry, call.bucket))
    OBVIOUS
  <2>5. moved.elem = call.elem /\ moved.entry \in Places /\ moved \in DownFrames
    BY <2>2, <2>3, <2>4, NextPlace, NextEntryType DEF Advance, DownFrames, DownInv
  <2>6. /\ downStack' = [downStack EXCEPT ![l] = moved]
        /\ pendingNeed' = [pendingNeed EXCEPT ![call.entry] = pendingNeed[call.entry] \ {call.elem}]
        /\ UNCHANGED <<edges, downResult, head, next>>
    BY <1>4, <2>1, <2>2, <2>4 DEF DownStillPending, DownTop, StillNeeded
  <2>7. /\ Len(downStack') = l /\ downStack'[l] = moved
        /\ \A k \in 1..(l - 1) : downStack'[k] = downStack[k]
    BY <1>4, <2>1, <2>5, <2>6, ReplaceTopFacts DEF DownStillPending, SortTypeOK
  <2>8. Places \subseteq Places'
    <3>1. Known \subseteq Known'
      <4>1. \A q \in Statements : pendingNeed[q] \ {call.elem} \subseteq pendingNeed'[q]
        BY <2>3, <2>6 DEF SortTypeOK
      <4> QED
        BY <2>3, <2>6, <4>1 DEF Known, Predecessors
    <3> QED
      BY <3>1 DEF Places
  <2>9. \A k \in 1..l : k = l \/ k \in 1..(l - 1)
    OBVIOUS
  <2>10. EntriesKnown'
    BY <2>1, <2>5, <2>6, <2>7, <2>8, <2>9 DEF DownInv, EntriesKnown
  <2>11. CallsInserted' /\ CallersAtEntry'
    BY <2>1, <2>3, <2>5, <2>6, <2>7, <2>9 DEF DownInv, CallsInserted, CallersAtEntry
  <2> QED
    BY <2>6, <2>10, <2>11 DEF DownInv, PredecessorsBefore, Predecessors
<1>5. CASE DownRelease
  <2>1. PICK l \in Nat \ {0} : l = Len(downStack)
    BY <1>5, EmptyFacts DEF DownRelease, SortTypeOK
  <2>2. PICK call \in DownFrames : call = downStack[l]
    BY <1>5, <2>1, EmptyFacts DEF DownRelease, SortTypeOK
  <2>3. PICK e \in Statements : e = call.entry
    BY <1>5, <2>1, <2>2 DEF DownRelease, DownTop, DownFrames
  <2>4. PICK new : new = DownCall(e, head')
    OBVIOUS
  <2>5. /\ pendingNeed[e] \ {call.elem} = {} /\ call.elem \in Range(downResult) /\ e \in Known
        /\ e # Null
    BY <1>5, <2>1, <2>2, <2>3
       DEF DownRelease, StillNeeded, DownTop, DownInv, CallsInserted, EntriesKnown, Places
  <2>6. Predecessors(e) \subseteq Range(downResult)
    BY <2>5 DEF Known
  <2>7. /\ pendingNeed' = [pendingNeed EXCEPT ![e] = {}]
        /\ RemoveEntry(e)
        /\ downResult' = Append(downResult, e)
        /\ downStack' = Append(downStack, new)
        /\ edges' = edges
    BY <1>5, <2>1, <2>2, <2>3, <2>4 DEF DownRelease, DownTop
  <2>8. Range(downResult') = Range(downResult) \cup {e}
    BY <2>7, AppendFacts DEF SortTypeOK
  <2>9. Known \subseteq Known'
    BY <2>6, <2>7, <2>8 DEF Known, Predecessors, SortTypeOK
  <2>10. PICK P : P = Known
    OBVIOUS
  <2>11. head' \in [1..Buckets -> P \cup {Null}] /\ next' \in [Statements -> P \cup {Null}]
    <3>1. /\ layout[e] \in 1..Buckets
          /\ head \in [1..Buckets -> P \cup {Null}] /\ next \in [Statements -> P \cup {Null}]
      BY <2>10 DEF SortTypeOK, DownInv, EntriesKnown, Places
    <3>2. CASE head[layout[e]] = e
      BY <2>7, <3>1, <3>2 DEF RemoveEntry
    <3>3. CASE head[layout[e]] # e
      BY <2>7, <3>1, <3>3 DEF RemoveEntry
    <3> QED
      BY <3>2, <3>3
  <2>12. new.elem = e /\ new.entry \in P \cup {Null}
    <3>1. P \subseteq Statements
      BY <2>10 DEF Known
    <3> QED
      BY <2>4, <2>11, <3>1, FirstPlace DEF DownCall
  <2>13. /\ Len(downStack') = l + 1 /\ downStack'[l + 1] = new
         /\ \A k \in 1..l : downStack'[k] = downStack[k]
    <3>1. new \in DownFrames
      <4>1. Buckets \in -1..Buckets /\ head' \in [1..Buckets -> Statements \cup {Null}]
        BY DEF SortTypeOK
      <4> QED
        BY <2>4, <4>1, FirstEntryType DEF DownCall, DownFrames
    <3> QED
      BY <2>1, <2>7, <3>1, AppendFacts DEF SortTypeOK
  <2>14. P \cup {Null} \subseteq Places' /\ P \cup {Null} = Places
    BY <2>9, <2>10 DEF Places
  <2>15. \A k \in 1..(l + 1) : k = l + 1 \/ k \in 1..l
    OBVIOUS
  <2>16. EntriesKnown'
    <3>1. \A k \in 1..l : downStack[k].entry \in Places
      BY <2>1 DEF DownInv, EntriesKnown
    <3> QED
      BY <2>11, <2>12, <2>13, <2>14, <2>15, <3>1 DEF EntriesKnown
  <2>17. CallsInserted'
    BY <2>1, <2>8, <2>12, <2>13, <2>15 DEF DownInv, CallsInserted
  <2>18. CallersAtEntry'
    <3>1. \A k \in 1..l : k = l \/ k \in 1..(l - 1)
      OBVIOUS
    <3>2. \A k \in 1..l : downStack[k].entry # Null
      BY <2>1, <2>2, <2>3, <2>5, <3>1 DEF DownInv, CallersAtEntry
    <3> QED
      BY <2>13, <3>2 DEF CallersAtEntry
  <2>19. PredecessorsBefore(downResult)'
    <3>1. PredecessorsBefore(Append(downResult, e))
      BY <2>6, AppendKeepsOrder DEF DownInv, SortTypeOK
    <3> QED
      BY <2>7, <3>1 DEF PredecessorsBefore, Predecessors
  <2> QED
    BY <2>16, <2>17, <2>18, <2>19 DEF DownInv
<1>6. CASE DownReturn
  <2>1. PICK l \in Nat \ {0} : l = Len(downStack)
    BY <1>6, EmptyFacts DEF DownReturn, SortTypeOK
  <2>2. PICK callers : callers = SubSeq(downStack, 1, Len(downStack) - 1)
    OBVIOUS
  <2>3. /\ callers \in Seq(DownFrames) /\ Len(callers) = l - 1
        /\ \A k \in 1..(l - 1) : callers[k] = downStack[k]
    BY <1>6, <2>1, <2>2, FrontFacts DEF DownReturn, SortTypeOK
  <2>4. /\ downStack' = IF callers = <<>> THEN <<>>
                        ELSE [callers EXCEPT ![Len(callers)] =
                                Advance(@, NextEntry(@.entry, @.bucket))]
        /\ UNCHANGED <<edges, downResult, pendingNeed, head, next>>
    BY <1>6, <2>2 DEF DownReturn
  <2>5. Places' = Places
    BY <2>4 DEF Places, Known, Predecessors
  <2>6. CASE callers = <<>>
    <3>1. Len(downStack') = 0
      BY <2>4, <2>6
    <3> QED
      BY <2>4, <2>5, <3>1 DEF DownInv, EntriesKnown, CallsInserted, CallersAtEntry,
         PredecessorsBefore, Predecessors
  <2>7. CASE callers # <<>>
    <3>1. l - 1 \in Nat \ {0} /\ l - 1 \in 1..(l - 1)
      BY <2>3, <2>7, EmptyFacts
    <3>2. PICK call \in DownFrames : call = callers[l - 1] /\ call = downStack[l - 1]
      BY <2>3, <2>7, <3>1, EmptyFacts
    <3>3. call.entry \in Statements /\ call.elem \in Range(downResult)
      <4>1. call.entry # Null
        BY <2>1, <3>1, <3>2 DEF DownInv, CallersAtEntry
      <4>2. l - 1 \in 1..Len(downStack)
        BY <2>1, <3>1
      <4> QED
        BY <3>2, <4>1, <4>2 DEF DownInv, CallsInserted, DownFrames
    <3>4. PICK moved : moved = Advance(call, NextEntry(call.entry, call.bucket))
      OBVIOUS
    <3>5. call.bucket \in 0..Buckets
      BY DEF DownFrames
    <3>6. moved.elem = call.elem /\ moved.entry \in Places /\ moved \in DownFrames
      BY <3>2, <3>3, <3>4, <3>5, NextPlace, NextEntryType DEF Advance, DownFrames, DownInv
    <3>7. downStack' = [callers EXCEPT ![Len(callers)] = moved]
      BY <2>3, <2>4, <2>7, <3>2, <3>4
    <3>8. /\ Len(downStack') = l - 1 /\ downStack'[l - 1] = moved
          /\ \A k \in 1..(l - 2) : downStack'[k] = callers[k]
      <4>1. Len(callers) - 1 = l - 2
        BY <2>3
      <4> QED
        BY <2>3, <2>7, <3>6, <3>7, <4>1, ReplaceTopFacts
    <3>9. \A k \in 1..(l - 1) : k \in 1..l /\ (k = l - 1 \/ k \in 1..(l - 2))
      OBVIOUS
    <3>10. \A k \in 1..(l - 1) :
             /\ downStack[k].entry \in Places /\ downStack[k].elem \in Range(downResult)
             /\ downStack[k].entry # Null
      BY <2>1, <3>9 DEF DownInv, EntriesKnown, CallsInserted, CallersAtEntry
    <3>11. \A k \in 1..(l - 1) :
             /\ downStack'[k].entry \in Places /\ downStack'[k].elem \in Range(downResult)
             /\ k \in 1..(l - 2) => downStack'[k].entry # Null
      BY <2>3, <3>3, <3>6, <3>8, <3>9, <3>10
    <3>12. EntriesKnown' /\ CallsInserted'
      BY <2>4, <2>5, <3>8, <3>11 DEF DownInv, EntriesKnown, CallsInserted
    <3>13. CallersAtEntry'
      <4>1. Len(downStack') - 1 = l - 2 /\ \A k \in 1..(l - 2) : k \in 1..(l - 1)
        BY <3>8
      <4> QED
        BY <3>11, <4>1 DEF CallersAtEntry
    <3> QED
      BY <2>4, <3>12, <3>13 DEF DownInv, PredecessorsBefore, Predecessors
  <2> QED
    BY <2>6, <2>7
<1> QED
  BY <1>1, <1>2, <1>3, <1>4, <1>5, <1>6 DEF SortStep
-------------------------------------------------------------------------------
(***************************************************************************)
(* The theorems.                                                           *)
(***************************************************************************)
\* Nothing is sorted yet, or there is nothing to sort.
Fresh ==
  /\ items \in Seq(Statements) /\ edges \subseteq Statements \X Statements
  /\ layout \in [Statements -> 1..Buckets]
  /\ phase \in {"up", "sorted"} /\ (phase = "sorted" => items = <<>>)
  /\ todo = items
  /\ upResult = <<>> /\ upStack = <<>> /\ downResult = <<>> /\ downStack = <<>>
  /\ pendingNeed = [s \in Statements |-> {}]
  /\ head = [b \in 1..Buckets |-> Null]
  /\ next = [s \in Statements |-> Null]

\* What an initial state of the sorts is.
LEMMA InitFresh == SortInit => Fresh /\ ProblemOK /\ phase = "up"
<1> SUFFICES ASSUME SortInit PROVE Fresh /\ ProblemOK /\ phase = "up"
  OBVIOUS
<1>1. PICK p \in Problems : items = p[1] /\ edges = p[2]
  BY DEF SortInit
<1>2. /\ items \in Seq(Statements) /\ edges \subseteq Statements \X Statements
      /\ edges \subseteq Range(items) \X Range(items)
  BY <1>1, OrderItemsAssumption
<1> QED
  BY <1>2, OrderItemsAssumption DEF SortInit, Fresh, ProblemOK

\* The inductive invariant holds when the sorts start.
LEMMA FreshInv == Fresh /\ ProblemOK => SortInv
<1> SUFFICES ASSUME Fresh, ProblemOK PROVE SortInv
  OBVIOUS
<1> USE OrderItemsAssumption
<1>1. SortTypeOK
  BY DEF SortTypeOK, Fresh
<1>2. Len(upResult) = 0 /\ Len(downResult) = 0 /\ Len(upStack) = 0 /\ Len(downStack) = 0
      /\ Range(upResult) = {}
  BY EmptyFacts DEF Fresh
<1>3. UpCallsOK /\ UpWithin /\ UpVisited /\ UpKeepsItems
  BY <1>2 DEF UpCallsOK, UpWithin, UpVisited, UpKeepsItems, Fresh
<1>4. CallersAtEntry /\ EntriesKnown /\ CallsInserted
  BY <1>2 DEF CallersAtEntry, EntriesKnown, CallsInserted, Places, Fresh
<1>5. InsertedAfterPredecessors
  BY <1>2 DEF InsertedAfterPredecessors, PredecessorsBefore
<1> QED
  BY <1>1, <1>3, <1>4, <1>5 DEF SortInv

LEMMA SortInvInit == SortInit => SortInv
BY InitFresh, FreshInv

\* Every step keeps the inductive invariant.
LEMMA SortInvStep == SortInv /\ [SortNext]_sortVars => SortInv'
<1> SUFFICES ASSUME SortInv, [SortNext]_sortVars PROVE SortInv'
  OBVIOUS
<1>1. SortTypeOK'
  BY StepTypes DEF SortInv
<1>2. UpInv /\ DownInv
  BY DEF SortInv, UpInv, DownInv, InsertedAfterPredecessors
<1>3. UpInv' /\ DownInv' /\ ProblemOK'
  <2>1. CASE SortNext
    <3>1. SortStep /\ UNCHANGED <<items, edges, layout>>
      BY <2>1 DEF SortNext
    <3>2. UpInv'
      BY <1>2, <3>1, StepUp DEF SortInv
    <3>3. DownInv'
      BY <1>1, <1>2, <3>1, StepDown DEF SortInv
    <3> QED
      BY <3>1, <3>2, <3>3 DEF SortInv, ProblemOK
  <2>2. CASE UNCHANGED sortVars
    <3>1. UNCHANGED <<items, edges, upResult, upStack, todo, phase>>
          /\ UNCHANGED <<edges, downResult, downStack, pendingNeed, head, next>>
      BY <2>2 DEF sortVars, sorting
    <3> QED
      BY <1>2, <3>1, UpInvFrame, DownInvFrame DEF SortInv, ProblemOK
  <2> QED
    BY <2>1, <2>2
<1> QED
  BY <1>1, <1>3 DEF SortInv, UpInv, DownInv, InsertedAfterPredecessors

\* The two sorts keep their types (no cursor of an iteration ever leaves the
\* hash table: a call that waits has an entry to go on from).
THEOREM SortTypeCorrect == SortSpec => []SortTypeOK
<1>1. SortInv => SortTypeOK
  BY DEF SortInv
<1> QED
  BY <1>1, SortInvInit, SortInvStep, PTL DEF SortSpec

\* Neither orderItemsUp nor orderItemsDown ever inserts an item before one of
\* its predecessors, for every list, graph and hash layout.
THEOREM SortsRespectOrder == SortSpec => []InsertedAfterPredecessors
<1>1. SortInv => InsertedAfterPredecessors
  BY DEF SortInv
<1> QED
  BY <1>1, SortInvInit, SortInvStep, PTL DEF SortSpec

\* orderItemsUp loses no item of the list and adds none, for every list and
\* graph, cyclic ones included.
THEOREM UpLosesNothing == SortSpec => []UpKeepsItems
<1>1. SortInv => UpKeepsItems
  BY DEF SortInv
<1> QED
  BY <1>1, SortInvInit, SortInvStep, PTL DEF SortSpec
-------------------------------------------------------------------------------
(***************************************************************************)
(* What the sorts return.                                                  *)
(***************************************************************************)

\* The place of an item in the list.
Pos(s) == Position(items, s)

\* The outermost loop visits the list from its start to its end.
TodoInv ==
  /\ Len(todo) <= Len(items)
  /\ \A i \in 1..Len(todo) : todo[i] = items[Len(items) - Len(todo) + i]

\* The items it has visited.
Visited == {s \in Range(items) : Pos(s) <= Len(items) - Len(todo)}

\* An item of the list is at its place.
LEMMA PosType ==
  ASSUME NEW S, items \in Seq(S)
  PROVE  /\ \A s \in Range(items) : Pos(s) \in 1..Len(items) /\ items[Pos(s)] = s
         /\ \A i \in 1..Len(items) : items[i] \in Range(items)
         /\ Len(items) \in Nat
  BY DEF Pos, Position, Range

\* In a list without repetitions every place has its own item.
LEMMA PosInjective ==
  ASSUME NEW S, items \in Seq(S), IsInjective(items)
  PROVE  /\ \A i \in 1..Len(items) : Pos(items[i]) = i
         /\ \A s, t \in Range(items) : Pos(s) = Pos(t) => s = t
<1>1. \A i, j \in 1..Len(items) : items[i] = items[j] => i = j
  BY DEF IsInjective
<1> QED
  BY <1>1, PosType

\* The loop takes the items one after the other.
LEMMA VisitHead ==
  ASSUME NEW S, items \in Seq(S), todo \in Seq(S), IsInjective(items), TodoInv,
         todo # <<>>, todo' = Tail(todo), items' = items
  PROVE  /\ TodoInv'
         /\ Head(todo) \in Range(items) \ Visited
         /\ Visited' = Visited \cup {Head(todo)}
         /\ Pos(Head(todo)) = Len(items) - Len(todo) + 1
         /\ Visited \subseteq Range(items)
         /\ \A s \in Visited : Pos(s) < Pos(Head(todo))
         /\ \A s \in Range(items) : Pos(s) < Pos(Head(todo)) => s \in Visited
<1> DEFINE n == Len(items)
           k == Len(todo)
<1>1. /\ n \in Nat /\ k \in Nat \ {0} /\ k <= n
      /\ Len(Tail(todo)) = k - 1
      /\ \A i \in 1..(k - 1) : Tail(todo)[i] = todo[i + 1]
      /\ Head(todo) = todo[1]
  BY DEF TodoInv
<1>2. \A i \in 1..k : todo[i] = items[n - k + i]
  BY DEF TodoInv
<1>3. Head(todo) = items[n - k + 1] /\ n - k + 1 \in 1..n
  BY <1>1, <1>2
<1>4. Head(todo) \in Range(items) /\ Pos(Head(todo)) = n - k + 1
  BY <1>3, PosType, PosInjective
<1>5. TodoInv'
  <2>1. \A i \in 1..(k - 1) : Tail(todo)[i] = items[n - (k - 1) + i]
    <3> SUFFICES ASSUME NEW i \in 1..(k - 1) PROVE todo[i + 1] = items[n - (k - 1) + i]
      BY <1>1
    <3>1. i + 1 \in 1..k /\ n - k + (i + 1) = n - (k - 1) + i
      BY <1>1
    <3>2. todo[i + 1] = items[n - k + (i + 1)]
      BY <1>2, <3>1
    <3> QED
      BY <3>1, <3>2
  <2>2. todo' = Tail(todo) /\ Len(todo') = k - 1 /\ items' = items
    BY <1>1
  <2> HIDE DEF n, k
  <2>3. /\ k - 1 <= n
        /\ \A i \in 1..(k - 1) : Tail(todo)[i] = items[n - (k - 1) + i]
    BY <1>1, <2>1
  <2> QED
    BY <2>2, <2>3 DEF TodoInv, n
<1>6. Visited' = {s \in Range(items) : Pos(s) <= n - (k - 1)}
  BY <1>1 DEF Visited, Pos
<1>7. \A s \in Range(items) : Pos(s) \in 1..n
  BY PosType
<1>8. Visited = {s \in Range(items) : Pos(s) <= n - k}
  BY DEF Visited
<1>9. \A s \in Range(items) : Pos(s) = n - k + 1 => s = Head(todo)
  BY <1>4, PosInjective
<1> HIDE DEF n, k
<1>10. \A x \in 1..n : x <= n - (k - 1) <=> (x <= n - k \/ x = n - k + 1)
  BY <1>1
<1>11. \A x \in 1..n : x <= n - k <=> x < n - k + 1
  BY <1>1
<1>12. Visited' = Visited \cup {Head(todo)}
  BY <1>4, <1>6, <1>7, <1>8, <1>9, <1>10
<1>13. Head(todo) \notin Visited
  BY <1>1, <1>4, <1>8
<1>14. /\ \A s \in Visited : Pos(s) < Pos(Head(todo))
       /\ \A s \in Range(items) : Pos(s) < Pos(Head(todo)) => s \in Visited
  BY <1>4, <1>7, <1>8, <1>11
<1> QED
  BY <1>4, <1>5, <1>8, <1>12, <1>13, <1>14 DEF n, k
-------------------------------------------------------------------------------
(***************************************************************************)
(* The hash map during the downward sort.                                  *)
(***************************************************************************)

\* The items that are pending: only they have an entry in the map.
Waiting == {s \in Statements : pendingNeed[s] # {}}

\* x is the last item of the list in front of place n that is in the chain b,
\* if the items W are in the map: a new entry becomes the head of its chain.
Latest(x, b, n, W) ==
  /\ x # Null => x \in W /\ layout[x] = b /\ Pos(x) < n
  /\ \A p \in W : layout[p] = b /\ Pos(p) < n => x # Null /\ Pos(p) <= Pos(x)

\* The chains hold the pending items, the later ones in front.
HeadsOK == \A b \in 1..Buckets : Latest(head[b], b, Len(items) + 1, Waiting)

\* An entry that was removed still leads to those behind it, as long as a call
\* waits at it.
ChainsOK ==
  /\ HeadsOK
  /\ \A s \in Waiting : Latest(next[s], layout[s], Pos(s), Waiting)
  /\ \A k \in 1..(Len(downStack) - 1) :
       LET e == downStack[k].entry IN Latest(next[e], layout[e], Pos(e), Waiting)

\* An iteration that is at this place will come to p.
AheadOf(place, p) ==
  /\ place.entry # Null
  /\ \/ layout[p] < place.bucket
     \/ layout[p] = place.bucket /\ Pos(p) <= Pos(place.entry)

\* A place of an iteration is an entry in its bucket, or the end.
PlaceOK(place, W) ==
  place.entry # Null => place.entry \in W /\ place.bucket = layout[place.entry]

\* An iteration starts at the highest bucket that is not empty.
LEMMA FirstEntryHighest ==
  ASSUME NEW heads \in [1..Buckets -> Statements \cup {Null}], NEW top \in -1..Buckets
  PROVE  LET first == FirstEntry(heads, top)
         IN  /\ first.entry # Null => first.bucket \in 1..top /\ first.entry = heads[first.bucket]
             /\ \A b \in 1..top : heads[b] # Null => first.entry # Null /\ b <= first.bucket
<1> USE OrderItemsAssumption
<1> DEFINE used == {b \in 1..top : heads[b] # Null}
<1>1. CASE used = {}
  BY <1>1 DEF FirstEntry
<1>2. CASE used # {}
  <2> DEFINE b == CHOOSE b \in used : \A c \in used : c <= b
  <2>1. \E c \in used : \A d \in used : d <= c
    <3>1. top \in Nat /\ used \subseteq 1..top
      BY <1>2
    <3> HIDE DEF used
    <3> QED
      BY <1>2, <3>1, HighestOf
  <2>2. b \in used /\ \A d \in used : d <= b
    BY <2>1
  <2>3. FirstEntry(heads, top) = [entry |-> heads[b], bucket |-> b]
    BY <1>2 DEF FirstEntry
  <2> HIDE DEF b
  <2> QED
    BY <2>2, <2>3
<1> QED
  BY <1>1, <1>2

\* An iteration that starts below a bucket comes to every pending item there.
LEMMA FirstAhead ==
  ASSUME NEW W, W \subseteq Range(items), NEW S, items \in Seq(S),
         layout \in [Statements -> 1..Buckets], W \subseteq Statements,
         NEW heads \in [1..Buckets -> Statements \cup {Null}],
         \A b \in 1..Buckets : Latest(heads[b], b, Len(items) + 1, W),
         NEW top \in -1..Buckets
  PROVE  /\ PlaceOK(FirstEntry(heads, top), W)
         /\ \A p \in W : layout[p] <= top => AheadOf(FirstEntry(heads, top), p)
<1> USE OrderItemsAssumption
<1> DEFINE first == FirstEntry(heads, top)
<1>1. /\ first.entry # Null => first.bucket \in 1..top /\ first.entry = heads[first.bucket]
      /\ \A b \in 1..top : heads[b] # Null => first.entry # Null /\ b <= first.bucket
  BY FirstEntryHighest
<1> HIDE DEF first
<1>2. PlaceOK(first, W)
  <2> SUFFICES ASSUME first.entry # Null
               PROVE  first.entry \in W /\ first.bucket = layout[first.entry]
    BY DEF PlaceOK
  <2>1. first.bucket \in 1..Buckets
    BY <1>1
  <2> QED
    BY <1>1, <2>1 DEF Latest
<1>3. ASSUME NEW p \in W, layout[p] <= top PROVE AheadOf(first, p)
  <2>1. layout[p] \in 1..top /\ layout[p] \in 1..Buckets
    BY <1>3
  <2>2. Pos(p) < Len(items) + 1
    BY PosType
  <2>3. heads[layout[p]] # Null /\ Pos(p) <= Pos(heads[layout[p]])
    BY <2>1, <2>2 DEF Latest
  <2>4. first.entry # Null /\ layout[p] <= first.bucket
    BY <1>1, <2>1, <2>3
  <2>5. first.bucket \in 1..top /\ first.entry = heads[first.bucket]
    BY <1>1, <2>4
  <2> QED
    BY <2>1, <2>3, <2>4, <2>5 DEF AheadOf
<1> QED
  BY <1>2, <1>3 DEF first

\* An iteration that leaves an entry still comes to every other item that was
\* ahead, provided the entry still leads to those behind it.
LEMMA NextAhead ==
  ASSUME NEW W, W \subseteq Range(items), NEW S, items \in Seq(S), IsInjective(items),
         layout \in [Statements -> 1..Buckets], W \subseteq Statements,
         head \in [1..Buckets -> Statements \cup {Null}],
         \A b \in 1..Buckets : Latest(head[b], b, Len(items) + 1, W),
         NEW e \in Range(items) \cap Statements, Latest(next[e], layout[e], Pos(e), W)
  PROVE  /\ PlaceOK(NextEntry(e, layout[e]), W)
         /\ \A p \in W : /\ p # e
                         /\ AheadOf([entry |-> e, bucket |-> layout[e]], p)
                         => AheadOf(NextEntry(e, layout[e]), p)
<1> USE OrderItemsAssumption
<1>1. e # Null /\ layout[e] \in 1..Buckets /\ layout[e] - 1 \in -1..Buckets
  OBVIOUS
<1>2. \A p \in W : /\ Pos(p) \in Int /\ Pos(e) \in Int
                   /\ p # e /\ Pos(p) <= Pos(e) => Pos(p) < Pos(e)
                   /\ layout[p] \in 1..Buckets
  BY PosType, PosInjective
<1>3. CASE next[e] # Null
  <2>1. NextEntry(e, layout[e]) = [entry |-> next[e], bucket |-> layout[e]]
    BY <1>3 DEF NextEntry
  <2> QED
    BY <1>1, <1>2, <1>3, <2>1 DEF Latest, PlaceOK, AheadOf
<1>4. CASE next[e] = Null
  <2>1. NextEntry(e, layout[e]) = FirstEntry(head, layout[e] - 1)
    BY <1>4 DEF NextEntry
  <2>2. \A p \in W : p # e /\ AheadOf([entry |-> e, bucket |-> layout[e]], p)
                       => layout[p] <= layout[e] - 1
    BY <1>1, <1>2, <1>4 DEF Latest, AheadOf
  <2>3. /\ PlaceOK(FirstEntry(head, layout[e] - 1), W)
        /\ \A p \in W : layout[p] <= layout[e] - 1
             => AheadOf(FirstEntry(head, layout[e] - 1), p)
    BY <1>1, FirstAhead
  <2> QED
    BY <2>1, <2>2, <2>3
<1> QED
  BY <1>3, <1>4

\* What is left of the map when an entry goes, for the pointers that are not to it,
LEMMA LatestWithout ==
  ASSUME NEW x, NEW b, NEW n, NEW W, Latest(x, b, n, W), NEW e, x # e
  PROVE  Latest(x, b, n, W \ {e})
BY DEF Latest

\* and for those that are: they skip it.
LEMMA LatestSkip ==
  ASSUME NEW S, items \in Seq(S), IsInjective(items), NEW W, W \subseteq Range(items),
         NEW b, NEW n \in Int, NEW e \in W, NEW y, Latest(e, b, n, W), e # Null,
         Latest(y, b, Pos(e), W)
  PROVE  Latest(y, b, n, W \ {e})
<1>1. \A p \in W : Pos(p) \in Int /\ (Pos(p) = Pos(e) => p = e)
  BY PosType, PosInjective
<1>2. layout[e] = b /\ Pos(e) < n
  BY DEF Latest
<1>3. y # Null => y \in W \ {e} /\ layout[y] = b /\ Pos(y) < n
  BY <1>1, <1>2 DEF Latest
<1>4. ASSUME NEW p \in W \ {e}, layout[p] = b, Pos(p) < n PROVE y # Null /\ Pos(p) <= Pos(y)
  <2>1. Pos(p) <= Pos(e) /\ Pos(p) # Pos(e)
    BY <1>1, <1>4 DEF Latest
  <2> QED
    BY <1>1, <1>4, <2>1 DEF Latest
<1> QED
  BY <1>3, <1>4 DEF Latest

\* A new entry does not matter to the pointers of another chain or further down the list.
LEMMA LatestMore ==
  ASSUME NEW x, NEW b, NEW n, NEW W, Latest(x, b, n, W), NEW h, layout[h] # b \/ ~(Pos(h) < n)
  PROVE  Latest(x, b, n, W \cup {h})
BY DEF Latest
-------------------------------------------------------------------------------
(***************************************************************************)
(* The inductive invariant of the downward sort.                           *)
(***************************************************************************)

\* The items visited are those in the result and those pending; in the end
\* nothing is pending.
PhasesOK ==
  /\ phase = "up" => Waiting = {} /\ downResult = <<>> /\ downStack = <<>>
  /\ phase # "up" => Visited = Waiting \cup Range(downResult)
  /\ phase = "sorted" => Waiting = {} /\ todo = <<>>

InsertedOnce == IsInjective(downResult) /\ Waiting \cap Range(downResult) = {}

\* A pending item needs predecessors of its own, and one that was inserted is
\* still needed only as long as the call made for it runs.
NeedsOK == \A p \in Waiting :
  /\ pendingNeed[p] \subseteq Predecessors(p)
  /\ \A n \in pendingNeed[p] \cap Range(downResult) :
       \E k \in 1..Len(downStack) : downStack[k].elem = n

\* The running call is at a pending entry or at the end, and each of its callers
\* at the entry it was made for.
FramesOK ==
  /\ downStack # <<>> => PlaceOK(DownTop, Waiting)
  /\ \A k \in 1..(Len(downStack) - 1) :
       /\ downStack[k].entry = downStack[k + 1].elem
       /\ downStack[k].bucket = layout[downStack[k].entry]

\* Every call will come to the items that need its element.
StillAhead == \A k \in 1..Len(downStack) : \A p \in Waiting :
                downStack[k].elem \in pendingNeed[p] => AheadOf(downStack[k], p)

\* The source of the new edge is never pending: all it needs is in front of it.
SourcesReady == \A e \in Disturbed :
                  /\ e[1] \notin Waiting
                  /\ \A k \in 1..(Len(downStack) - 1) : downStack[k].entry # e[1]

\* So the calls go down the list.
CallersDescend == \A j, k \in 1..(Len(downStack) - 1) :
                    j < k => Pos(downStack[j].entry) < Pos(downStack[k].entry)

PermInv == /\ TodoInv /\ PhasesOK /\ InsertedOnce
           /\ NeedsOK /\ ChainsOK /\ FramesOK
           /\ StillAhead /\ SourcesReady /\ CallersDescend

\* What the proofs about single steps start from.
Sorting == SortInv /\ PermInv /\ SoundProblem(items, edges)

\* The facts about them that are needed again and again.
LEMMA SortingFacts ==
  ASSUME Sorting
  PROVE  /\ items \in Seq(Statements) /\ IsInjective(items)
         /\ Range(items) \subseteq Statements
         /\ Waiting \subseteq Range(items) /\ Waiting \subseteq Statements
         /\ phase # "up" => Waiting \subseteq Visited
         /\ \A s \in Range(items) : Pos(s) \in 1..Len(items)
         /\ Len(items) \in Nat
         /\ Null \notin Statements
         /\ layout \in [Statements -> 1..Buckets]
         /\ head \in [1..Buckets -> Statements \cup {Null}]
         /\ next \in [Statements -> Statements \cup {Null}]
         /\ pendingNeed \in [Statements -> SUBSET Statements]
         /\ downStack \in Seq(DownFrames) /\ Len(downStack) \in Nat
         /\ \A k \in 1..Len(downStack) : downStack[k] \in DownFrames
         /\ todo \in Seq(Statements) /\ downResult \in Seq(Statements)
         /\ Buckets \in Nat \ {0}
<1>1. Range(items) \subseteq Statements
  BY DEF Sorting, SortInv, SortTypeOK, Range
<1>2. Waiting \subseteq Range(items) /\ (phase # "up" => Waiting \subseteq Visited)
  BY DEF Sorting, PermInv, PhasesOK, Visited
<1>3. \A s \in Range(items) : Pos(s) \in 1..Len(items)
  BY PosType DEF Sorting, SortInv, SortTypeOK
<1>4. /\ downStack \in Seq(DownFrames) /\ Len(downStack) \in Nat
      /\ \A k \in 1..Len(downStack) : downStack[k] \in DownFrames
  BY DEF Sorting, SortInv, SortTypeOK
<1> QED
  BY <1>1, <1>2, <1>3, <1>4, OrderItemsAssumption
     DEF Sorting, SortInv, SortTypeOK, SoundProblem, Waiting

\* The order has no cycle: the sort upwards came to its end.
LEMMA NoCycle ==
  ASSUME SortInv, phase # "up", NEW T, T \subseteq Range(items), T # {}
  PROVE  \E t \in T : \A p \in T : <<p, t>> \notin edges
<1> DEFINE less == {ss \in Nat \X Nat : ss[1] < ss[2]}
           places == {i \in 1..Len(upResult) : upResult[i] \in T}
<1>1. upResult \in Seq(Statements) /\ Range(upResult) = Range(items)
      /\ edges \subseteq Statements \X Statements
  BY DEF SortInv, SortTypeOK, UpKeepsItems
<1>2. IsWellFoundedOn(less, Nat)
  BY NatLessThanWellFounded DEF OpToRel
<1>3. places \subseteq Nat /\ places # {}
  <2>1. PICK t : t \in T
    OBVIOUS
  <2>2. \E i \in 1..Len(upResult) : upResult[i] = t
    <3>1. t \in Range(upResult)
      BY <1>1, <2>1
    <3> QED
      BY <1>1, <3>1, EmptyFacts DEF Range
  <2> QED
    BY <1>1, <2>1, <2>2
<1> HIDE DEF less
<1>4. PICK i \in places : \A j \in places : ~(<<j, i>> \in less)
  <2> HIDE DEF places
  <2> QED
    BY <1>2, <1>3, WFMin
<1>5. ASSUME NEW p \in T, <<p, upResult[i]>> \in edges PROVE FALSE
  <2>1. p \in Predecessors(upResult[i]) /\ i \in 1..Len(upResult)
    BY <1>1, <1>5 DEF Predecessors
  <2>2. PICK j \in 1..(i - 1) : upResult[j] = p
    BY <2>1 DEF SortInv, InsertedAfterPredecessors, PredecessorsBefore
  <2>3. j \in places /\ j < i /\ j \in Nat /\ i \in Nat
    BY <1>1, <2>1, <2>2
  <2> QED
    BY <1>4, <2>3 DEF less
<1> QED
  BY <1>4, <1>5

\* An edge that is not disturbed goes down the list.
LEMMA EdgeDown ==
  ASSUME Sorting, NEW p, NEW s \in Range(items), p \in Predecessors(s),
         <<p, s>> \notin Disturbed
  PROVE  p \in Range(items) /\ Pos(p) < Pos(s)
BY DEF Sorting, SortInv, ProblemOK, Predecessors, Disturbed, Against, Precedes, Pos
-------------------------------------------------------------------------------
(***************************************************************************)
(* The steps of the downward sort.                                         *)
(***************************************************************************)

\* An item becomes pending: it is not the source of the new edge.
LEMMA PendingStep ==
  ASSUME Sorting, DownItemPending, UNCHANGED <<items, edges, layout>>
  PROVE  PermInv'
<1> DEFINE h == Head(todo)
<1>0. /\ phase = "down" /\ downStack = <<>> /\ todo # <<>>
      /\ ReadyToInsert(h) # {}
      /\ pendingNeed' = [pendingNeed EXCEPT ![h] = ReadyToInsert(h)]
      /\ next' = [next EXCEPT ![h] = head[layout[h]]]
      /\ head' = [head EXCEPT ![layout[h]] = h]
      /\ todo' = Tail(todo)
      /\ phase' = phase /\ downResult' = downResult /\ downStack' = <<>>
      /\ items' = items /\ edges' = edges /\ layout' = layout
  BY DEF DownItemPending, PutEntry
<1>1. /\ TodoInv'
      /\ h \in Range(items) \ Visited
      /\ Visited' = Visited \cup {h}
      /\ \A s \in Visited : Pos(s) < Pos(h)
      /\ \A s \in Range(items) : Pos(s) < Pos(h) => s \in Visited
  BY <1>0, VisitHead, SortingFacts DEF Sorting, PermInv
<1>2. /\ h \in Statements /\ h \notin Waiting /\ h \notin Range(downResult)
      /\ Visited = Waiting \cup Range(downResult)
  BY <1>0, <1>1, SortingFacts DEF Sorting, PermInv, PhasesOK
<1>3. /\ ReadyToInsert(h) \subseteq Predecessors(h)
      /\ ReadyToInsert(h) \cap Range(downResult) = {}
      /\ ReadyToInsert(h) \subseteq Statements
  BY PredecessorsType DEF ReadyToInsert
<1>4. Waiting' = Waiting \cup {h}
  BY <1>0, <1>2, SortingFacts DEF Waiting
<1>5. \A p : Pos(p)' = Pos(p)
  BY <1>0 DEF Pos
<1>6. Len(downStack') = 0 /\ Len(downStack) = 0
  BY <1>0
<1> HIDE DEF h
<1>7. PhasesOK' /\ InsertedOnce'
  BY <1>0, <1>1, <1>2, <1>4 DEF Sorting, PermInv, PhasesOK, InsertedOnce
<1>8. NeedsOK'
  <2> SUFFICES ASSUME NEW p \in Waiting'
               PROVE  /\ pendingNeed'[p] \subseteq Predecessors(p)
                      /\ pendingNeed'[p] \cap Range(downResult) = {}
    BY <1>0 DEF NeedsOK, Predecessors
  <2>1. CASE p = h
    BY <1>0, <1>2, <1>3, <2>1, SortingFacts
  <2>2. CASE p # h
    <3>1. p \in Waiting /\ pendingNeed'[p] = pendingNeed[p]
      BY <1>0, <1>4, <2>2, SortingFacts
    <3> QED
      BY <1>6, <3>1 DEF Sorting, PermInv, NeedsOK
  <2> QED
    BY <2>1, <2>2
<1>9. ChainsOK'
  <2>1. ASSUME NEW b \in 1..Buckets
        PROVE  Latest(head[b], b, Len(items) + 1, Waiting) /\ head'[b] = IF b = layout[h] THEN h ELSE head[b]
    BY <1>0, <1>2, SortingFacts DEF Sorting, PermInv, ChainsOK, HeadsOK
  <2>2. ASSUME NEW b \in 1..Buckets PROVE Latest(head'[b], b, Len(items) + 1, Waiting \cup {h})
    <3>1. CASE b = layout[h]
      <4>1. head'[b] = h /\ h # Null /\ h \in Range(items) /\ Pos(h) < Len(items) + 1
        BY <1>1, <1>2, <2>1, <3>1, SortingFacts
      <4>2. ASSUME NEW p \in Waiting \cup {h} PROVE Pos(p) <= Pos(h)
        <5>1. p \in Visited \/ p = h
          BY <1>2
        <5>2. Pos(p) \in Nat /\ Pos(h) \in Nat
          BY <1>2, <4>1, SortingFacts
        <5> QED
          BY <1>1, <5>1, <5>2
      <4> QED
        BY <3>1, <4>1, <4>2 DEF Latest
    <3>2. CASE b # layout[h]
      BY <2>1, <3>2, LatestMore
    <3> QED
      BY <3>1, <3>2
  <2>3. ASSUME NEW s \in Waiting \cup {h}
        PROVE  Latest(next'[s], layout[s], Pos(s), Waiting \cup {h})
    <3>1. CASE s = h
      <4>1. next'[h] = head[layout[h]] /\ layout[h] \in 1..Buckets
        BY <1>0, <1>2, SortingFacts
      <4>2. Latest(head[layout[h]], layout[h], Len(items) + 1, Waiting)
        BY <2>1, <4>1
      <4>3. \A p \in Waiting : Pos(p) < Pos(h) /\ Pos(p) < Len(items) + 1
        BY <1>1, <1>2, SortingFacts
      <4>4. Latest(head[layout[h]], layout[h], Pos(h), Waiting)
        BY <4>2, <4>3 DEF Latest
      <4>5. ~(Pos(h) < Pos(h))
        BY <1>1, SortingFacts
      <4> QED
        BY <3>1, <4>1, <4>4, <4>5, LatestMore
    <3>2. CASE s # h
      <4>1. s \in Waiting /\ next'[s] = next[s]
        BY <1>0, <3>2, SortingFacts
      <4>2. Latest(next[s], layout[s], Pos(s), Waiting)
        BY <4>1 DEF Sorting, PermInv, ChainsOK
      <4>3. ~(Pos(h) < Pos(s))
        BY <1>1, <1>2, <4>1, SortingFacts
      <4> QED
        BY <4>1, <4>2, <4>3, LatestMore
    <3> QED
      BY <3>1, <3>2
  <2> QED
    BY <1>0, <1>4, <1>5, <1>6, <2>2, <2>3 DEF ChainsOK, HeadsOK, Latest
<1>10. FramesOK' /\ StillAhead' /\ CallersDescend'
  BY <1>0, <1>6 DEF FramesOK, StillAhead, CallersDescend
<1>11. SourcesReady'
  <2> SUFFICES ASSUME NEW d \in Disturbed, d[1] = h PROVE FALSE
    BY <1>0, <1>4, <1>6 DEF SourcesReady, Disturbed, Against, Precedes, Sorting, PermInv
  <2> DEFINE T == Waiting \cup {h}
  <2>1. ASSUME NEW t \in T PROVE \E n \in T : n \in Predecessors(t)
    <3> DEFINE need == IF t = h THEN ReadyToInsert(h) ELSE pendingNeed[t]
    <3>1. need # {} /\ need \subseteq Predecessors(t) /\ need \cap Range(downResult) = {}
      <4>1. CASE t = h
        BY <1>0, <1>3, <4>1
      <4>2. CASE t # h
        BY <1>6, <2>1, <4>2 DEF Sorting, PermInv, NeedsOK, Waiting
      <4> QED
        BY <4>1, <4>2
    <3>2. PICK n : n \in need
      BY <3>1
    <3>3. t \in Range(items) /\ Pos(t) <= Pos(h)
      BY <1>1, <1>2, SortingFacts
    <3>4. n \in Predecessors(t) /\ n \notin Range(downResult)
      BY <3>1, <3>2
    <3>5. CASE <<n, t>> \in Disturbed
      <4>1. <<n, t>> = d
        BY <3>5 DEF Sorting, SoundProblem, Disturbed
      <4>2. n = h
        BY <4>1
      <4> QED
        BY <3>4, <4>2
    <3>6. CASE <<n, t>> \notin Disturbed
      <4>1. n \in Range(items) /\ Pos(n) < Pos(t)
        BY <3>3, <3>4, <3>6, EdgeDown
      <4>2. n \in Visited
        BY <1>1, <3>3, <4>1, SortingFacts
      <4> QED
        BY <1>2, <3>4, <4>2
    <3> QED
      BY <3>5, <3>6
  <2>2. T \in SUBSET Range(items) /\ T # {}
    BY <1>1, SortingFacts
  <2> HIDE DEF T
  <2>3. PICK t \in T : \A n \in T : <<n, t>> \notin edges
    BY <1>0, <2>2, NoCycle DEF Sorting
  <2> QED
    BY <2>1, <2>3 DEF Predecessors
<1> QED
  BY <1>1, <1>7, <1>8, <1>9, <1>10, <1>11 DEF PermInv

\* A list without repetitions gets a new item.
LEMMA AppendOnce ==
  ASSUME NEW S, NEW s \in Seq(S), NEW e \in S, IsInjective(s), e \notin Range(s)
  PROVE  IsInjective(Append(s, e))
<1> DEFINE t == Append(s, e)
<1>1. /\ \A i, j \in 1..Len(s) : s[i] = s[j] => i = j
      /\ \A i \in 1..Len(s) : s[i] # e
      /\ Len(s) \in Nat
  BY DEF IsInjective, Range
<1>2. /\ DOMAIN t = 1..(Len(s) + 1)
      /\ \A i \in 1..(Len(s) + 1) : t[i] = IF i = Len(s) + 1 THEN e ELSE s[i]
  OBVIOUS
<1> HIDE DEF t
<1>3. \A i, j \in DOMAIN t : t[i] = t[j] => i = j
  BY <1>1, <1>2
<1>4. IsInjective(t)
  BY <1>3 DEF IsInjective
<1> QED
  BY <1>4 DEF t

\* An item is inserted at once, and its call starts.
LEMMA ReadyStep ==
  ASSUME Sorting, DownItemReady, UNCHANGED <<items, edges, layout>>
  PROVE  PermInv'
<1> DEFINE h == Head(todo)
           call == DownCall(h, head)
<1>0. /\ phase = "down" /\ downStack = <<>> /\ todo # <<>>
      /\ downResult' = Append(downResult, h)
      /\ downStack' = <<call>>
      /\ pendingNeed' = pendingNeed /\ head' = head /\ next' = next
      /\ todo' = Tail(todo) /\ phase' = phase
      /\ items' = items /\ edges' = edges /\ layout' = layout
  BY DEF DownItemReady
<1>1. /\ TodoInv'
      /\ h \in Range(items) \ Visited
      /\ Visited' = Visited \cup {h}
  BY <1>0, VisitHead, SortingFacts DEF Sorting, PermInv
<1>2. /\ h \in Statements /\ h \notin Waiting /\ h \notin Range(downResult)
      /\ Visited = Waiting \cup Range(downResult)
  BY <1>0, <1>1, SortingFacts DEF Sorting, PermInv, PhasesOK
<1>3. Range(downResult') = Range(downResult) \cup {h}
  BY <1>0, <1>2, AppendFacts, SortingFacts
<1>4. Waiting' = Waiting
  BY <1>0 DEF Waiting
<1>5. \A p : Pos(p)' = Pos(p)
  BY <1>0 DEF Pos
<1>6. Len(downStack) = 0 /\ Len(downStack') = 1 /\ downStack'[1] = call /\ downStack' # <<>>
  BY <1>0
<1>7. /\ call.elem = h
      /\ PlaceOK(call, Waiting)
      /\ \A p \in Waiting : AheadOf(call, p)
  <2>1. /\ PlaceOK(FirstEntry(head, Buckets), Waiting)
        /\ \A p \in Waiting : layout[p] <= Buckets => AheadOf(FirstEntry(head, Buckets), p)
    <3>1. Buckets \in -1..Buckets
      BY SortingFacts
    <3>2. \A b \in 1..Buckets : Latest(head[b], b, Len(items) + 1, Waiting)
      BY DEF Sorting, PermInv, ChainsOK, HeadsOK
    <3> QED
      BY <3>1, <3>2, FirstAhead, SortingFacts
  <2>2. \A p \in Waiting : layout[p] <= Buckets
    BY SortingFacts
  <2> QED
    BY <2>1, <2>2 DEF DownCall, PlaceOK, AheadOf
<1> HIDE DEF h, call
<1>8. PhasesOK' /\ InsertedOnce'
  <2>1. IsInjective(Append(downResult, h))
    <3>1. downResult \in Seq(Statements) /\ IsInjective(downResult)
      BY SortingFacts DEF Sorting, PermInv, InsertedOnce
    <3> QED
      BY <1>2, <3>1, AppendOnce
  <2> QED
    BY <1>0, <1>1, <1>2, <1>3, <1>4, <2>1 DEF Sorting, PermInv, PhasesOK, InsertedOnce
<1>9. NeedsOK'
  <2>1. \A p \in Waiting : /\ pendingNeed[p] \subseteq Predecessors(p)
                           /\ pendingNeed[p] \cap Range(downResult) = {}
    BY <1>6 DEF Sorting, PermInv, NeedsOK
  <2> QED
    BY <1>0, <1>3, <1>4, <1>6, <1>7, <2>1 DEF NeedsOK, Predecessors
<1>10. ChainsOK'
  BY <1>0, <1>4, <1>5, <1>6 DEF Sorting, PermInv, ChainsOK, HeadsOK, Latest
<1>11. FramesOK' /\ CallersDescend'
  BY <1>0, <1>4, <1>6, <1>7 DEF FramesOK, CallersDescend, DownTop, PlaceOK
<1>12. StillAhead'
  BY <1>0, <1>4, <1>5, <1>6, <1>7 DEF StillAhead, AheadOf
<1>13. SourcesReady'
  BY <1>0, <1>4, <1>6 DEF SourcesReady, Disturbed, Against, Precedes, Sorting, PermInv
<1> QED
  BY <1>1, <1>8, <1>9, <1>10, <1>11, <1>12, <1>13 DEF PermInv

\* What a step keeps that changes neither the map nor the callers that remain.
LEMMA CallersKept ==
  ASSUME Sorting, UNCHANGED <<items, edges, layout, head, next>>, Waiting' = Waiting,
         NEW n \in Nat, Len(downStack') = n, n <= Len(downStack),
         \A k \in 1..(n - 1) : downStack'[k] = downStack[k]
  PROVE  ChainsOK' /\ SourcesReady' /\ CallersDescend'
<1>0. /\ items' = items /\ edges' = edges /\ layout' = layout /\ head' = head /\ next' = next
  OBVIOUS
<1>1. \A p : Pos(p)' = Pos(p)
  BY <1>0 DEF Pos
<1>2. Disturbed' = Disturbed
  BY <1>0 DEF Disturbed
<1>3. \A k \in 1..(n - 1) : k \in 1..(Len(downStack) - 1)
  BY SortingFacts
<1>4. \A k \in 1..(n - 1) : LET e == downStack[k].entry
                            IN  Latest(next[e], layout[e], Pos(e), Waiting)
  BY <1>3 DEF Sorting, PermInv, ChainsOK
<1>5. \A x, b, m : Latest(x, b, m, Waiting)' <=> Latest(x, b, m, Waiting)
  BY <1>0, <1>1 DEF Latest
<1>6. HeadsOK' /\ \A s \in Waiting : Latest(next[s], layout[s], Pos(s), Waiting)
  BY <1>0 DEF Sorting, PermInv, ChainsOK, HeadsOK, Latest, Pos
<1>7. ChainsOK'
  BY <1>0, <1>1, <1>4, <1>6 DEF ChainsOK, Latest
<1>8. SourcesReady'
  BY <1>2, <1>3 DEF Sorting, PermInv, SourcesReady
<1>9. CallersDescend'
  BY <1>1, <1>3 DEF Sorting, PermInv, CallersDescend
<1> QED
  BY <1>7, <1>8, <1>9

\* The running call is at a pending item, and the ones behind it are ahead.
LEMMA TopFacts ==
  ASSUME Sorting, phase = "down", downStack # <<>>, DownTop.entry # Null
  PROVE  /\ DownTop = downStack[Len(downStack)] /\ Len(downStack) \in 1..Len(downStack)
         /\ DownTop.entry \in Waiting /\ DownTop.entry \in Range(items) \cap Statements
         /\ DownTop.bucket = layout[DownTop.entry]
         /\ DownTop \in DownFrames /\ DownTop.elem \in Range(downResult)
         /\ PlaceOK(NextEntry(DownTop.entry, DownTop.bucket), Waiting)
         /\ \A p \in Waiting :
              /\ p # DownTop.entry
              /\ DownTop.elem \in pendingNeed[p]
              => AheadOf(NextEntry(DownTop.entry, DownTop.bucket), p)
<1> DEFINE e == DownTop.entry
<1>1. Len(downStack) \in 1..Len(downStack) /\ DownTop = downStack[Len(downStack)]
  BY EmptyFacts, SortingFacts DEF DownTop
<1>2. DownTop \in DownFrames /\ DownTop.elem \in Range(downResult)
  BY <1>1, SortingFacts DEF Sorting, SortInv, CallsInserted
<1>3. e \in Waiting /\ DownTop.bucket = layout[e]
  BY DEF Sorting, PermInv, FramesOK, PlaceOK
<1>4. e \in Range(items) \cap Statements
  BY <1>3, SortingFacts
<1>5. Latest(next[e], layout[e], Pos(e), Waiting)
  BY <1>3 DEF Sorting, PermInv, ChainsOK
<1>6. \A b \in 1..Buckets : Latest(head[b], b, Len(items) + 1, Waiting)
  BY DEF Sorting, PermInv, ChainsOK, HeadsOK
<1> HIDE DEF e
<1>7. /\ PlaceOK(NextEntry(e, layout[e]), Waiting)
      /\ \A p \in Waiting : /\ p # e
                            /\ AheadOf([entry |-> e, bucket |-> layout[e]], p)
                            => AheadOf(NextEntry(e, layout[e]), p)
  BY <1>4, <1>5, <1>6, NextAhead, SortingFacts
<1>8. \A p \in Waiting : DownTop.elem \in pendingNeed[p]
                           => AheadOf([entry |-> e, bucket |-> layout[e]], p)
  BY <1>1, <1>3 DEF e, Sorting, PermInv, StillAhead, AheadOf
<1> QED
  BY <1>1, <1>2, <1>3, <1>4, <1>7, <1>8 DEF e

\* An entry is visited and stays pending.
LEMMA StillPendingStep ==
  ASSUME Sorting, DownStillPending, UNCHANGED <<items, edges, layout>>
  PROVE  PermInv'
<1> DEFINE e == DownTop.entry
           n == Len(downStack)
           x == DownTop.elem
           place == NextEntry(e, DownTop.bucket)
<1>0. /\ phase = "down" /\ downStack # <<>> /\ e # Null
      /\ StillNeeded # {} /\ StillNeeded = pendingNeed[e] \ {x}
      /\ pendingNeed' = [pendingNeed EXCEPT ![e] = StillNeeded]
      /\ downStack' = [downStack EXCEPT ![n] = Advance(DownTop, place)]
      /\ todo' = todo /\ phase' = phase /\ downResult' = downResult
      /\ head' = head /\ next' = next
      /\ items' = items /\ edges' = edges /\ layout' = layout
  BY DEF DownStillPending, DownTop, StillNeeded
<1>1. /\ n \in 1..n /\ DownTop = downStack[n]
      /\ e \in Waiting /\ e \in Statements
      /\ PlaceOK(place, Waiting)
      /\ \A p \in Waiting : p # e /\ x \in pendingNeed[p] => AheadOf(place, p)
      /\ DownTop \in DownFrames
  BY <1>0, TopFacts
<1>2. /\ Len(downStack') = n /\ n \in Nat
      /\ \A k \in 1..n : downStack'[k] = IF k = n THEN Advance(DownTop, place) ELSE downStack[k]
      /\ downStack' # <<>>
  BY <1>0, <1>1, SortingFacts
<1>3. /\ Advance(DownTop, place).elem = x
      /\ Advance(DownTop, place).entry = place.entry
      /\ Advance(DownTop, place).bucket = place.bucket
  BY <1>1 DEF Advance, DownFrames
<1>4. Waiting' = Waiting
  BY <1>0, <1>1, SortingFacts DEF Waiting
<1>5. \A p : Pos(p)' = Pos(p)
  BY <1>0 DEF Pos
<1>6. /\ \A p \in Waiting : pendingNeed'[p] \subseteq pendingNeed[p]
      /\ x \notin pendingNeed'[e]
  BY <1>0, <1>1, SortingFacts
<1>7. \A k \in 1..n : downStack'[k].elem = downStack[k].elem
  BY <1>1, <1>2, <1>3
<1>8. \A k \in 1..(n - 1) : downStack'[k] = downStack[k] /\ k \in 1..n /\ k + 1 \in 1..n
  BY <1>1, <1>2
<1> HIDE DEF e, n, x, place
<1>9. TodoInv' /\ PhasesOK' /\ InsertedOnce'
  BY <1>0, <1>4, <1>5 DEF Sorting, PermInv, TodoInv, PhasesOK, InsertedOnce, Visited
<1>10. NeedsOK'
  <2>1. ASSUME NEW p \in Waiting, NEW y \in pendingNeed'[p] \cap Range(downResult)
        PROVE  \E k \in 1..n : downStack'[k].elem = y
    <3>1. PICK k \in 1..n : downStack[k].elem = y
      BY <1>6 DEF Sorting, PermInv, NeedsOK, n
    <3> QED
      BY <1>7, <3>1
  <2>2. \A p \in Waiting : pendingNeed'[p] \subseteq Predecessors(p)
    BY <1>6 DEF Sorting, PermInv, NeedsOK
  <2> QED
    BY <1>0, <1>2, <1>4, <2>1, <2>2 DEF NeedsOK, Predecessors
<1>11. ChainsOK' /\ SourcesReady' /\ CallersDescend'
  <2>1. n <= Len(downStack) /\ n \in Nat
    BY <1>2 DEF n
  <2> QED
    BY <1>0, <1>2, <1>4, <1>8, <2>1, CallersKept
<1>12. FramesOK'
  <2>1. DownTop' = Advance(DownTop, place)
    BY <1>1, <1>2 DEF DownTop
  <2>2. PlaceOK(DownTop', Waiting)
    BY <1>1, <1>3, <2>1 DEF PlaceOK
  <2>3. PlaceOK(DownTop, Waiting)'
    BY <1>0, <1>4, <2>2 DEF PlaceOK
  <2>4. ASSUME NEW k \in 1..(n - 1)
        PROVE  /\ downStack'[k].entry = downStack'[k + 1].elem
               /\ downStack'[k].bucket = layout[downStack'[k].entry]
    BY <1>7, <1>8 DEF Sorting, PermInv, FramesOK, n
  <2> QED
    BY <1>0, <1>2, <2>3, <2>4 DEF FramesOK
<1>13. StillAhead'
  <2> SUFFICES ASSUME NEW k \in 1..n, NEW p \in Waiting, downStack'[k].elem \in pendingNeed'[p]
               PROVE  AheadOf(downStack'[k], p)
    BY <1>0, <1>2, <1>4, <1>5 DEF StillAhead, AheadOf
  <2>1. downStack[k].elem \in pendingNeed[p]
    BY <1>6, <1>7
  <2>2. CASE k = n
    <3>1. x \in pendingNeed'[p] /\ p # e
      BY <1>2, <1>3, <1>6, <2>2
    <3>2. AheadOf(place, p)
      BY <1>1, <1>6, <3>1
    <3> QED
      BY <1>2, <1>3, <2>2, <3>2 DEF AheadOf
  <2>3. CASE k # n
    BY <1>2, <2>1, <2>3 DEF Sorting, PermInv, StillAhead, n
  <2> QED
    BY <2>2, <2>3
<1> QED
  BY <1>9, <1>10, <1>11, <1>12, <1>13 DEF PermInv

\* A call returns: nobody needs its element any more, and its caller goes on.
LEMMA ReturnStep ==
  ASSUME Sorting, DownReturn, UNCHANGED <<items, edges, layout>>
  PROVE  PermInv'
<1> DEFINE n == Len(downStack)
           m == n - 1
           caller == downStack[m]
           e == caller.entry
           place == NextEntry(e, caller.bucket)
           callers == SubSeq(downStack, 1, n - 1)
<1>0. /\ phase = "down" /\ downStack # <<>> /\ DownTop.entry = Null
      /\ downStack' = IF callers = <<>> THEN <<>>
                      ELSE [callers EXCEPT ![Len(callers)] =
                              Advance(callers[Len(callers)],
                                      NextEntry(callers[Len(callers)].entry,
                                                callers[Len(callers)].bucket))]
      /\ todo' = todo /\ phase' = phase /\ downResult' = downResult
      /\ pendingNeed' = pendingNeed /\ head' = head /\ next' = next
      /\ items' = items /\ edges' = edges /\ layout' = layout
  BY DEF DownReturn
<1>1. /\ n \in 1..n /\ n \in Nat \ {0} /\ m \in Nat /\ DownTop = downStack[n]
      /\ callers \in Seq(DownFrames) /\ Len(callers) = m
      /\ \A k \in 1..m : callers[k] = downStack[k] /\ k \in 1..n
  BY <1>0, EmptyFacts, FrontFacts, SortingFacts DEF DownTop
<1> HIDE DEF callers
<1>2. m # 0 => m \in 1..m /\ callers # <<>> /\ callers[m] = caller
  <2> HIDE DEF m
  <2>1. m # 0 => m \in 1..m
    BY <1>1
  <2> QED
    BY <1>1, <2>1, EmptyFacts DEF caller
<1>3. m = 0 => callers = <<>>
  <2> HIDE DEF m
  <2> QED
    BY <1>1
<1>4. /\ Len(downStack') = m
      /\ \A k \in 1..m : downStack'[k] = IF k = m THEN Advance(caller, place) ELSE downStack[k]
      /\ m # 0 => downStack' # <<>>
      /\ m = 0 => downStack' = <<>>
  <2>1. CASE m = 0
    <3>1. downStack' = <<>>
      BY <1>0, <1>3, <2>1
    <3> HIDE DEF m
    <3> QED
      BY <2>1, <3>1
  <2>2. CASE m # 0
    <3>1. downStack' = [callers EXCEPT ![m] = Advance(caller, place)]
      BY <1>0, <1>1, <1>2, <2>2
    <3>2. DOMAIN callers = 1..m
      BY <1>1
    <3> HIDE DEF m, place, caller
    <3>3. /\ Len(downStack') = m
          /\ \A k \in 1..m : downStack'[k] = IF k = m THEN Advance(caller, place) ELSE callers[k]
      BY <1>1, <3>1, <3>2
    <3> QED
      BY <1>1, <1>2, <2>2, <3>3
  <2> QED
    BY <2>1, <2>2
<1>5. Waiting' = Waiting
  BY <1>0 DEF Waiting
<1>6. \A p : Pos(p)' = Pos(p)
  BY <1>0 DEF Pos
<1>7. \A p \in Waiting : downStack[n].elem \notin pendingNeed[p]
  BY <1>0, <1>1 DEF Sorting, PermInv, StillAhead, AheadOf
<1>8. m # 0 => /\ caller \in DownFrames /\ caller.bucket = layout[e]
               /\ e = downStack[n].elem /\ e \in Range(downResult)
               /\ Latest(next[e], layout[e], Pos(e), Waiting)
  <2> SUFFICES ASSUME m # 0
               PROVE  /\ caller \in DownFrames /\ caller.bucket = layout[e]
                      /\ e = downStack[n].elem /\ e \in Range(downResult)
                      /\ Latest(next[e], layout[e], Pos(e), Waiting)
    OBVIOUS
  <2>1. m \in 1..(n - 1) /\ m \in 1..n /\ m + 1 = n
    BY <1>1
  <2>2. caller \in DownFrames /\ downStack[n].elem \in Range(downResult)
    BY <1>1, <2>1, SortingFacts DEF Sorting, SortInv, CallsInserted
  <2>3. caller.entry = downStack[n].elem /\ caller.bucket = layout[caller.entry]
    BY <2>1 DEF Sorting, PermInv, FramesOK
  <2>4. Latest(next[caller.entry], layout[caller.entry], Pos(caller.entry), Waiting)
    BY <2>1 DEF Sorting, PermInv, ChainsOK
  <2> QED
    BY <2>2, <2>3, <2>4
<1>9. m # 0 => /\ PlaceOK(place, Waiting)
               /\ \A p \in Waiting : AheadOf(caller, p) => AheadOf(place, p)
  <2> SUFFICES ASSUME m # 0 PROVE /\ PlaceOK(place, Waiting)
                                  /\ \A p \in Waiting : AheadOf(caller, p) => AheadOf(place, p)
    OBVIOUS
  <2>1. e \notin Waiting /\ e \in Range(items) \cap Statements
    BY <1>0, <1>8, SortingFacts DEF Sorting, PermInv, InsertedOnce, PhasesOK, Visited
  <2>2. \A b \in 1..Buckets : Latest(head[b], b, Len(items) + 1, Waiting)
    BY DEF Sorting, PermInv, ChainsOK, HeadsOK
  <2>3. caller.bucket = layout[e] /\ Latest(next[e], layout[e], Pos(e), Waiting)
    BY <1>8
  <2> HIDE DEF e
  <2>4. /\ PlaceOK(NextEntry(e, layout[e]), Waiting)
        /\ \A p \in Waiting : /\ p # e
                              /\ AheadOf([entry |-> e, bucket |-> layout[e]], p)
                              => AheadOf(NextEntry(e, layout[e]), p)
    BY <2>1, <2>2, <2>3, NextAhead, SortingFacts
  <2> QED
    BY <2>1, <2>3, <2>4 DEF AheadOf, e
<1>10. m # 0 => /\ Advance(caller, place).elem = caller.elem
                /\ Advance(caller, place).entry = place.entry
                /\ Advance(caller, place).bucket = place.bucket
  BY <1>8 DEF Advance, DownFrames
<1> HIDE DEF place, e
<1>11. \A k \in 1..m : downStack'[k].elem = downStack[k].elem
  BY <1>1, <1>4, <1>10
<1>12. \A k \in 1..(m - 1) : downStack'[k] = downStack[k] /\ k \in 1..m /\ k + 1 \in 1..m
                             /\ k \in 1..(n - 1)
  BY <1>1, <1>4
<1>13. \A k \in 1..m : k \in 1..n /\ k \in 1..(n - 1)
  BY <1>1
<1> HIDE DEF n, m, caller
<1>14. TodoInv' /\ PhasesOK' /\ InsertedOnce'
  BY <1>0, <1>5, <1>6 DEF Sorting, PermInv, TodoInv, PhasesOK, InsertedOnce, Visited
<1>15. NeedsOK'
  <2>1. ASSUME NEW p \in Waiting, NEW y \in pendingNeed[p] \cap Range(downResult)
        PROVE  \E k \in 1..m : downStack'[k].elem = y
    <3>1. PICK k \in 1..n : downStack[k].elem = y
      BY DEF Sorting, PermInv, NeedsOK, n
    <3>2. k \in 1..m
      BY <1>1, <1>7, <3>1 DEF m
    <3> QED
      BY <1>11, <3>1, <3>2
  <2> QED
    BY <1>0, <1>4, <1>5, <2>1 DEF Sorting, PermInv, NeedsOK, Predecessors
<1>16. ChainsOK' /\ SourcesReady' /\ CallersDescend'
  <2>1. m <= Len(downStack)
    BY <1>1 DEF n, m
  <2> QED
    BY <1>0, <1>1, <1>4, <1>5, <1>12, <2>1, CallersKept
<1>17. FramesOK'
  <2>1. ASSUME downStack' # <<>> PROVE PlaceOK(DownTop, Waiting)'
    <3>1. m # 0 /\ m \in 1..m
      BY <1>1, <1>4, <2>1
    <3>2. DownTop' = Advance(caller, place)
      BY <1>4, <3>1 DEF DownTop
    <3> QED
      BY <1>0, <1>5, <1>9, <1>10, <3>1, <3>2 DEF PlaceOK
  <2>2. ASSUME NEW k \in 1..(m - 1)
        PROVE  /\ downStack'[k].entry = downStack'[k + 1].elem
               /\ downStack'[k].bucket = layout[downStack'[k].entry]
    BY <1>11, <1>12 DEF Sorting, PermInv, FramesOK, n
  <2> QED
    BY <1>0, <1>4, <2>1, <2>2 DEF FramesOK
<1>18. StillAhead'
  <2> SUFFICES ASSUME NEW k \in 1..m, NEW p \in Waiting, downStack'[k].elem \in pendingNeed[p]
               PROVE  AheadOf(downStack'[k], p)
    BY <1>0, <1>4, <1>5, <1>6 DEF StillAhead, AheadOf
  <2>1. AheadOf(downStack[k], p)
    BY <1>11, <1>13 DEF Sorting, PermInv, StillAhead, n
  <2>2. CASE k = m
    <3>1. m # 0
      BY <1>1, <2>2
    <3> QED
      BY <1>4, <1>9, <1>10, <2>1, <2>2, <3>1 DEF AheadOf, caller
  <2>3. CASE k # m
    BY <1>4, <2>1, <2>3
  <2> QED
    BY <2>2, <2>3
<1> QED
  BY <1>14, <1>15, <1>16, <1>17, <1>18 DEF PermInv

\* Removing an entry leaves the chains right, also for the callers' entries: they
\* are in front of it in the list.
LEMMA RemoveKeepsChains ==
  ASSUME Sorting, NEW e \in Waiting, RemoveEntry(e),
         \A k \in 1..(Len(downStack) - 1) : Pos(downStack[k].entry) < Pos(e)
  PROVE  /\ \A b \in 1..Buckets : Latest(head'[b], b, Len(items) + 1, Waiting \ {e})
         /\ \A s \in Waiting : Latest(next'[s], layout[s], Pos(s), Waiting \ {e})
         /\ \A k \in 1..(Len(downStack) - 1) :
              LET c == downStack[k].entry
              IN  Latest(next'[c], layout[c], Pos(c), Waiting \ {e})
<1> DEFINE be == layout[e]
<1>1. /\ e \in Statements /\ e # Null /\ be \in 1..Buckets
      /\ Pos(e) \in Int /\ Len(items) + 1 \in Int
      /\ \A s \in Waiting : pendingNeed[s] # {} /\ Pos(s) \in Int /\ s \in Statements
      /\ Waiting \subseteq Range(items) /\ items \in Seq(Statements) /\ IsInjective(items)
  BY SortingFacts DEF Waiting
<1>2. /\ \A b \in 1..Buckets : Latest(head[b], b, Len(items) + 1, Waiting)
      /\ \A s \in Waiting : Latest(next[s], layout[s], Pos(s), Waiting)
      /\ \A k \in 1..(Len(downStack) - 1) :
           LET c == downStack[k].entry IN Latest(next[c], layout[c], Pos(c), Waiting)
  BY DEF Sorting, PermInv, ChainsOK, HeadsOK
<1>3. Latest(next[e], be, Pos(e), Waiting)
  BY <1>2
<1>4. ASSUME NEW n \in Int, NEW b, Latest(e, b, n, Waiting)
      PROVE  Latest(next[e], b, n, Waiting \ {e})
  <2>1. b = be
    BY <1>1, <1>4 DEF Latest
  <2> QED
    BY <1>1, <1>3, <1>4, <2>1, LatestSkip
<1>6. next[e] # e
  BY <1>1, <1>3 DEF Latest
<1>7. ASSUME NEW k \in 1..(Len(downStack) - 1)
      PROVE  /\ downStack[k].entry \in Statements
             /\ next[downStack[k].entry] # e
             /\ Latest(next[downStack[k].entry], layout[downStack[k].entry],
                       Pos(downStack[k].entry), Waiting)
             /\ Pos(downStack[k].entry) \in Int
  <2>1. k \in 1..Len(downStack) /\ downStack[k].entry = downStack[k + 1].elem
        /\ k + 1 \in 1..Len(downStack)
    BY SortingFacts DEF Sorting, PermInv, FramesOK
  <2>2. downStack[k].entry \in Range(downResult) /\ phase # "up"
    BY <2>1, SortingFacts DEF Sorting, SortInv, CallsInserted, PermInv, PhasesOK
  <2>3. downStack[k].entry \in Range(items)
    BY <2>2 DEF Sorting, PermInv, PhasesOK, Visited
  <2>4. Latest(next[downStack[k].entry], layout[downStack[k].entry],
               Pos(downStack[k].entry), Waiting)
    BY <1>2
  <2>5. Pos(downStack[k].entry) < Pos(e) /\ Pos(downStack[k].entry) \in Int
    BY <2>3, SortingFacts
  <2>6. next[downStack[k].entry] # e
    BY <1>1, <2>4, <2>5 DEF Latest
  <2> QED
    BY <2>3, <2>4, <2>5, <2>6, SortingFacts
<1> HIDE DEF be
<1>8. CASE head[layout[e]] = e
  <2>1. head' = [head EXCEPT ![be] = next[e]] /\ next' = next
    BY <1>8 DEF RemoveEntry, be
  <2>2. ASSUME NEW b \in 1..Buckets PROVE Latest(head'[b], b, Len(items) + 1, Waiting \ {e})
    <3>1. CASE b = be
      <4>1. Latest(e, b, Len(items) + 1, Waiting)
        BY <1>2, <1>8, <3>1 DEF be
      <4>2. head'[b] = next[e]
        BY <2>1, <3>1, SortingFacts
      <4> QED
        BY <1>1, <1>4, <4>1, <4>2
    <3>2. CASE b # be
      <4>1. head'[b] = head[b] /\ Latest(head[b], b, Len(items) + 1, Waiting)
        BY <1>2, <2>1, <3>2, SortingFacts
      <4>2. head[b] # e
        BY <1>1, <3>2, <4>1 DEF Latest, be
      <4> QED
        BY <4>1, <4>2, LatestWithout
    <3> QED
      BY <3>1, <3>2
  <2>3. ASSUME NEW s \in Waiting PROVE Latest(next'[s], layout[s], Pos(s), Waiting \ {e})
    <3>1. Latest(next[s], layout[s], Pos(s), Waiting)
      BY <1>2
    <3>2. next[s] # e
      <4> SUFFICES ASSUME next[s] = e PROVE FALSE
        OBVIOUS
      <4>1. layout[s] = layout[e] /\ Pos(e) < Pos(s)
        BY <1>1, <3>1 DEF Latest
      <4>2. Latest(e, be, Len(items) + 1, Waiting)
        BY <1>1, <1>2, <1>8 DEF be
      <4>3. Pos(s) < Len(items) + 1
        BY <1>1, SortingFacts
      <4>4. Pos(s) <= Pos(e)
        BY <4>1, <4>2, <4>3 DEF Latest, be
      <4> QED
        BY <1>1, <4>1, <4>4
    <3> QED
      BY <2>1, <3>1, <3>2, LatestWithout
  <2>4. ASSUME NEW k \in 1..(Len(downStack) - 1)
        PROVE  Latest(next'[downStack[k].entry], layout[downStack[k].entry],
                      Pos(downStack[k].entry), Waiting \ {e})
    BY <1>7, <2>1, LatestWithout
  <2> QED
    BY <2>2, <2>3, <2>4
<1>9. CASE head[layout[e]] # e
  <2>1. /\ next' = [s \in Statements |-> IF next[s] = e /\ pendingNeed[s] # {}
                                         THEN next[e] ELSE next[s]]
        /\ head' = head
    BY <1>9 DEF RemoveEntry
  <2>2. ASSUME NEW b \in 1..Buckets PROVE Latest(head'[b], b, Len(items) + 1, Waiting \ {e})
    <3>1. Latest(head[b], b, Len(items) + 1, Waiting)
      BY <1>2
    <3>2. head[b] # e
      BY <1>1, <1>9, <3>1 DEF Latest
    <3> QED
      BY <2>1, <3>1, <3>2, LatestWithout
  <2>3. ASSUME NEW s \in Waiting PROVE Latest(next'[s], layout[s], Pos(s), Waiting \ {e})
    <3>1. Latest(next[s], layout[s], Pos(s), Waiting)
      BY <1>2
    <3>2. CASE next[s] = e
      <4>1. next'[s] = next[e]
        BY <1>1, <2>1, <3>2
      <4> QED
        BY <1>1, <1>4, <3>1, <3>2, <4>1
    <3>3. CASE next[s] # e
      <4>1. next'[s] = next[s]
        BY <1>1, <2>1, <3>3
      <4> QED
        BY <3>1, <3>3, <4>1, LatestWithout
    <3> QED
      BY <3>2, <3>3
  <2>4. ASSUME NEW k \in 1..(Len(downStack) - 1)
        PROVE  Latest(next'[downStack[k].entry], layout[downStack[k].entry],
                      Pos(downStack[k].entry), Waiting \ {e})
    <3>1. next'[downStack[k].entry] = next[downStack[k].entry]
      BY <1>7, <2>1
    <3> QED
      BY <1>7, <3>1, LatestWithout
  <2> QED
    BY <2>2, <2>3, <2>4
<1> QED
  BY <1>8, <1>9

\* An entry that needs nothing any more is removed and inserted, and its call starts.
LEMMA ReleaseStep ==
  ASSUME Sorting, DownRelease, UNCHANGED <<items, edges, layout>>, SortTypeOK'
  PROVE  PermInv'
<1> DEFINE e == DownTop.entry
           n == Len(downStack)
           x == DownTop.elem
           call == DownCall(e, head')
<1>0. /\ phase = "down" /\ downStack # <<>> /\ e # Null
      /\ pendingNeed[e] \ {x} = {}
      /\ pendingNeed' = [pendingNeed EXCEPT ![e] = {}]
      /\ RemoveEntry(e)
      /\ downStack' = Append(downStack, call)
      /\ downResult' = Append(downResult, e)
      /\ todo' = todo /\ phase' = phase
      /\ items' = items /\ edges' = edges /\ layout' = layout
  BY DEF DownRelease, StillNeeded
<1>1. /\ n \in 1..n /\ n \in Nat /\ DownTop = downStack[n]
      /\ e \in Waiting /\ e \in Statements /\ e \in Range(items)
      /\ DownTop.bucket = layout[e]
      /\ DownTop \in DownFrames
  BY <1>0, TopFacts
<1>2. /\ Len(downStack') = n + 1
      /\ \A k \in 1..(n + 1) : downStack'[k] = IF k = n + 1 THEN call ELSE downStack[k]
      /\ downStack' # <<>>
  <2>1. downStack' = Append(downStack, call) /\ downStack \in Seq(DownFrames)
    BY <1>0, SortingFacts
  <2> HIDE DEF call
  <2> QED
    BY <2>1
<1>3. Waiting' = Waiting \ {e}
  BY <1>0, <1>1, SortingFacts DEF Waiting
<1>4. \A p : Pos(p)' = Pos(p)
  BY <1>0 DEF Pos
<1>5. Disturbed' = Disturbed
  BY <1>0 DEF Disturbed
<1>6. Range(downResult') = Range(downResult) \cup {e} /\ e \notin Range(downResult)
  BY <1>0, <1>1, AppendFacts, SortingFacts DEF Sorting, PermInv, InsertedOnce
<1>7. \A p \in Waiting \ {e} : pendingNeed'[p] = pendingNeed[p]
  BY <1>0, <1>1, SortingFacts
<1> HIDE DEF e, x, call
<1>8. \A k \in 1..n : /\ downStack'[k] = downStack[k] /\ k \in 1..(n + 1)
                      /\ k # n => k \in 1..(n - 1)
  BY <1>1, <1>2
<1>9. x \in Predecessors(e) /\ x \in pendingNeed[e]
  <2>1. pendingNeed[e] # {}
    BY <1>1 DEF Waiting
  <2> QED
    BY <1>0, <1>1, <2>1 DEF Sorting, PermInv, NeedsOK
\* Its callers were called for items further up the list.
<1>10. \A k \in 1..(n - 1) : Pos(downStack[k].entry) < Pos(e)
  <2> SUFFICES ASSUME NEW k \in 1..(n - 1) PROVE Pos(downStack[k].entry) < Pos(e)
    OBVIOUS
  <2>1. n - 1 \in 1..(n - 1) /\ n - 1 + 1 = n /\ (k # n - 1 => k < n - 1)
    BY <1>1
  <2>2. downStack[n - 1].entry = x
    BY <1>1, <2>1 DEF Sorting, PermInv, FramesOK, n, x
  <2>3. <<x, e>> \notin Disturbed
    <3> SUFFICES ASSUME <<x, e>> \in Disturbed PROVE FALSE
      OBVIOUS
    <3>1. downStack[n - 1].entry # <<x, e>>[1]
      BY <2>1 DEF Sorting, PermInv, SourcesReady, n
    <3> QED
      BY <2>2, <3>1
  <2>4. x \in Range(items) /\ Pos(x) < Pos(e)
    BY <1>1, <1>9, <2>3, EdgeDown
  <2>5. CASE k = n - 1
    BY <2>2, <2>4, <2>5
  <2>6. CASE k # n - 1
    <3>1. Pos(downStack[k].entry) < Pos(downStack[n - 1].entry)
      BY <2>1, <2>6 DEF Sorting, PermInv, CallersDescend, n
    <3>2. k \in 1..n /\ k + 1 \in 1..n
      BY <1>1
    <3>3. downStack[k].entry \in Range(items)
      BY <1>0, <3>2 DEF Sorting, PermInv, FramesOK, SortInv, CallsInserted, PhasesOK, Visited, n
    <3>4. \A p \in Range(items) : Pos(p) \in Int
      <4>1. \A p \in Range(items) : Pos(p) \in 1..Len(items)
        BY SortingFacts
      <4> QED
        BY <4>1
    <3>5. /\ Pos(downStack[k].entry) \in Int /\ Pos(x) \in Int /\ Pos(e) \in Int
          /\ Pos(downStack[k].entry) < Pos(x)
      BY <1>1, <2>2, <2>4, <3>1, <3>3, <3>4
    <3> QED
      BY <2>4, <3>5
  <2> QED
    BY <2>5, <2>6
<1>11. /\ \A b \in 1..Buckets : Latest(head'[b], b, Len(items) + 1, Waiting \ {e})
       /\ \A s \in Waiting : Latest(next'[s], layout[s], Pos(s), Waiting \ {e})
       /\ \A k \in 1..(n - 1) :
            LET c == downStack[k].entry IN Latest(next'[c], layout[c], Pos(c), Waiting \ {e})
  BY <1>0, <1>1, <1>10, RemoveKeepsChains DEF n
<1>12. /\ call.elem = e
       /\ PlaceOK(call, Waiting \ {e})
       /\ \A p \in Waiting \ {e} : AheadOf(call, p)
  <2>1. /\ PlaceOK(FirstEntry(head', Buckets), Waiting \ {e})
        /\ \A p \in Waiting \ {e} : layout[p] <= Buckets => AheadOf(FirstEntry(head', Buckets), p)
    <3>1. Buckets \in -1..Buckets /\ head' \in [1..Buckets -> Statements \cup {Null}]
      BY SortingFacts DEF SortTypeOK
    <3>2. /\ Waiting \ {e} \subseteq Range(items) /\ Waiting \ {e} \subseteq Statements
          /\ items \in Seq(Statements) /\ layout \in [Statements -> 1..Buckets]
      BY SortingFacts
    <3> QED
      BY <1>11, <3>1, <3>2, FirstAhead
  <2>2. \A p \in Waiting \ {e} : layout[p] <= Buckets
    BY SortingFacts
  <2> QED
    BY <2>1, <2>2 DEF DownCall, PlaceOK, AheadOf, call
<1>13. TodoInv' /\ PhasesOK'
  BY <1>0, <1>1, <1>3, <1>4, <1>6 DEF Sorting, PermInv, TodoInv, PhasesOK, Visited
<1>14. InsertedOnce'
  <2>1. IsInjective(Append(downResult, e))
    <3>1. downResult \in Seq(Statements) /\ IsInjective(downResult)
      BY SortingFacts DEF Sorting, PermInv, InsertedOnce
    <3> QED
      BY <1>1, <1>6, <3>1, AppendOnce
  <2> QED
    BY <1>0, <1>3, <1>6, <2>1 DEF Sorting, PermInv, InsertedOnce
<1>15. NeedsOK'
  <2>1. ASSUME NEW p \in Waiting \ {e}, NEW y \in pendingNeed[p] \cap Range(downResult')
        PROVE  \E k \in 1..(n + 1) : downStack'[k].elem = y
    <3>1. CASE y = e
      <4>1. n + 1 \in 1..(n + 1)
        BY <1>1
      <4> QED
        BY <1>2, <1>12, <3>1, <4>1
    <3>2. CASE y # e
      <4>1. PICK k \in 1..n : downStack[k].elem = y
        BY <1>6, <3>2 DEF Sorting, PermInv, NeedsOK, n
      <4> QED
        BY <1>8, <4>1
    <3> QED
      BY <3>1, <3>2
  <2>2. \A p \in Waiting \ {e} : pendingNeed[p] \subseteq Predecessors(p)
    BY DEF Sorting, PermInv, NeedsOK
  <2> QED
    BY <1>0, <1>2, <1>3, <1>7, <2>1, <2>2 DEF NeedsOK, Predecessors
<1>16. ChainsOK'
  <2>1. ASSUME NEW k \in 1..n
        PROVE  LET c == downStack[k].entry IN Latest(next'[c], layout[c], Pos(c), Waiting \ {e})
    <3>1. CASE k = n
      BY <1>1, <1>11, <3>1 DEF e
    <3>2. CASE k # n
      BY <1>8, <1>11, <3>2
    <3> QED
      BY <3>1, <3>2
  <2>2. Len(downStack') - 1 = n
    BY <1>1, <1>2
  <2>3. HeadsOK'
    BY <1>0, <1>3, <1>4, <1>11 DEF HeadsOK, Latest
  <2>4. \A s \in Waiting' : Latest(next'[s], layout[s], Pos(s), Waiting \ {e})
    BY <1>3, <1>11
  <2>5. \A k \in 1..(Len(downStack') - 1) :
          LET c == downStack'[k].entry IN Latest(next'[c], layout[c], Pos(c), Waiting \ {e})
    BY <1>2, <1>8, <2>1, <2>2
  <2> QED
    BY <1>0, <1>3, <1>4, <2>3, <2>4, <2>5 DEF ChainsOK, Latest
<1>17. FramesOK'
  <2>1. PlaceOK(DownTop, Waiting)'
    <3>1. DownTop' = call
      BY <1>1, <1>2 DEF DownTop
    <3> QED
      BY <1>0, <1>3, <1>12, <3>1 DEF PlaceOK
  <2>2. ASSUME NEW k \in 1..n
        PROVE  /\ downStack'[k].entry = downStack'[k + 1].elem
               /\ downStack'[k].bucket = layout[downStack'[k].entry]
    <3>1. CASE k = n
      <4>1. n + 1 \in 1..(n + 1)
        BY <1>1
      <4> QED
        BY <1>1, <1>2, <1>8, <1>12, <3>1, <4>1 DEF e
    <3>2. CASE k # n
      <4>1. k + 1 \in 1..n /\ k \in 1..(n - 1)
        BY <1>1, <3>2
      <4> QED
        BY <1>8, <4>1 DEF Sorting, PermInv, FramesOK, n
    <3> QED
      BY <3>1, <3>2
  <2>3. Len(downStack') - 1 = n
    BY <1>1, <1>2
  <2> QED
    BY <1>0, <1>2, <2>1, <2>2, <2>3 DEF FramesOK
<1>18. StillAhead'
  <2>1. ASSUME NEW k \in 1..(n + 1), NEW p \in Waiting \ {e},
               downStack'[k].elem \in pendingNeed[p]
        PROVE  AheadOf(downStack'[k], p)
    <3>1. CASE k = n + 1
      BY <1>2, <1>12, <3>1
    <3>2. CASE k # n + 1
      <4>1. k \in 1..n
        BY <1>1, <3>2
      <4> QED
        BY <1>8, <2>1, <4>1 DEF Sorting, PermInv, StillAhead, n
    <3> QED
      BY <3>1, <3>2
  <2> QED
    BY <1>0, <1>2, <1>3, <1>4, <1>7, <2>1 DEF StillAhead, AheadOf
<1>19. SourcesReady'
  <2>1. ASSUME NEW d \in Disturbed, NEW k \in 1..n PROVE downStack[k].entry # d[1]
    <3>1. CASE k = n
      BY <1>1, <3>1 DEF e, Sorting, PermInv, SourcesReady
    <3>2. CASE k # n
      BY <1>8, <3>2 DEF Sorting, PermInv, SourcesReady, n
    <3> QED
      BY <3>1, <3>2
  <2>2. Len(downStack') - 1 = n
    BY <1>1, <1>2
  <2> QED
    BY <1>2, <1>3, <1>5, <1>8, <2>1, <2>2 DEF Sorting, PermInv, SourcesReady
<1>20. CallersDescend'
  <2>1. ASSUME NEW j \in 1..n, NEW k \in 1..n, j < k
        PROVE  Pos(downStack[j].entry) < Pos(downStack[k].entry)
    <3>1. CASE k = n
      <4>1. j \in 1..(n - 1)
        BY <1>1, <2>1, <3>1
      <4> QED
        BY <1>1, <1>10, <3>1, <4>1 DEF e
    <3>2. CASE k # n
      <4>1. j \in 1..(n - 1) /\ k \in 1..(n - 1)
        BY <1>1, <2>1, <3>2
      <4> QED
        BY <2>1, <4>1 DEF Sorting, PermInv, CallersDescend, n
    <3> QED
      BY <3>1, <3>2
  <2>2. Len(downStack') - 1 = n
    BY <1>1, <1>2
  <2> QED
    BY <1>2, <1>4, <1>8, <2>1, <2>2 DEF CallersDescend
<1> QED
  BY <1>13, <1>14, <1>15, <1>16, <1>17, <1>18, <1>19, <1>20 DEF PermInv

\* When the last item was visited nothing is pending: every pending item would
\* need another one.
LEMMA NothingLeftPending ==
  ASSUME Sorting, phase = "down", downStack = <<>>, todo = <<>>
  PROVE  Waiting = {} /\ Visited = Range(items)
<1>1. Visited = Range(items) /\ Visited = Waiting \cup Range(downResult)
  <2>1. Len(todo) = 0
    OBVIOUS
  <2>2. \A s \in Range(items) : Pos(s) <= Len(items) - Len(todo)
    BY <2>1, SortingFacts
  <2> QED
    BY <2>2 DEF Visited, Sorting, PermInv, PhasesOK
<1>2. ASSUME NEW t \in Waiting PROVE \E y \in Waiting : y \in Predecessors(t)
  <2>1. PICK y : y \in pendingNeed[t]
    BY DEF Waiting
  <2>2. y \in Predecessors(t) /\ y \notin Range(downResult)
    <3>1. Len(downStack) = 0
      OBVIOUS
    <3> QED
      BY <2>1, <3>1 DEF Sorting, PermInv, NeedsOK
  <2>3. y \in Range(items)
    BY <2>2, SortingFacts DEF Sorting, SortInv, ProblemOK, Predecessors
  <2> QED
    BY <1>1, <2>2, <2>3
<1>3. Waiting = {}
  <2> SUFFICES ASSUME Waiting # {} PROVE FALSE
    OBVIOUS
  <2>1. Waiting \in SUBSET Range(items)
    BY SortingFacts
  <2>2. PICK t \in Waiting : \A p \in Waiting : <<p, t>> \notin edges
    BY <2>1, NoCycle DEF Sorting
  <2> QED
    BY <1>2, <2>2 DEF Predecessors
<1> QED
  BY <1>1, <1>3

\* A step that leaves the downward sort and its data alone.
LEMMA PermFrame ==
  ASSUME PermInv, UNCHANGED <<items, edges, layout, todo, downResult, downStack, pendingNeed,
                              head, next, phase>>
  PROVE  PermInv'
<1>1. (TodoInv /\ PhasesOK /\ InsertedOnce /\ NeedsOK)'
  BY DEF PermInv, TodoInv, PhasesOK, InsertedOnce, NeedsOK, Waiting, Visited, Pos, Predecessors,
         DownTop
<1>2. ChainsOK'
  BY DEF PermInv, ChainsOK, HeadsOK, Waiting, Latest, Pos
<1>3. FramesOK'
  BY DEF PermInv, FramesOK, Waiting, AheadOf, PlaceOK, Pos, Disturbed, Predecessors, DownTop
<1>4. StillAhead'
  BY DEF PermInv, StillAhead, Waiting, AheadOf, Pos, Disturbed
<1>5. SourcesReady'
  BY DEF PermInv, SourcesReady, Waiting, Pos, Disturbed, Predecessors
<1>6. CallersDescend'
  BY DEF PermInv, CallersDescend, Pos, Disturbed, Predecessors
<1> QED
  BY <1>1, <1>2, <1>3, <1>4, <1>5, <1>6 DEF PermInv

\* Nor do the steps of the upward sort matter, which goes through the list before.
LEMMA UpSteps ==
  ASSUME Sorting, UpItem \/ UpNeeded \/ UpInsert \/ UpDone, UNCHANGED <<items, edges, layout>>
  PROVE  PermInv'
<1>1. CASE UpNeeded \/ UpInsert
  BY <1>1, PermFrame DEF UpNeeded, UpInsert, Sorting
<1>2. CASE UpItem \/ UpDone
  <2>1. /\ phase = "up" /\ phase' \in {"up", "down"} /\ items' = items /\ edges' = edges
        /\ layout' = layout /\ downResult' = downResult /\ downStack' = downStack
        /\ pendingNeed' = pendingNeed /\ head' = head /\ next' = next
        /\ phase' = "down" => todo' = items
    BY <1>2 DEF UpItem, UpDone
  <2>2. Waiting' = Waiting /\ Waiting = {} /\ downResult = <<>> /\ downStack = <<>>
        /\ Range(downResult) = {} /\ Len(downStack) = 0
    BY <2>1, EmptyFacts DEF Waiting, Sorting, PermInv, PhasesOK
  <2>3. TodoInv'
    <3>1. CASE UpItem
      BY <2>1, <3>1, VisitHead, SortingFacts DEF UpItem, Sorting, PermInv
    <3>2. CASE UpDone
      <4>1. todo' = items /\ Len(items) \in Nat
        BY <3>2, SortingFacts DEF UpDone
      <4> QED
        BY <2>1, <4>1 DEF TodoInv
    <3> QED
      BY <1>2, <3>1, <3>2
  <2>4. phase' = "down" => Visited' = {}
    <3> SUFFICES ASSUME phase' = "down" PROVE Visited' = {}
      OBVIOUS
    <3>1. \A s \in Range(items) : ~(Pos(s) <= Len(items) - Len(items))
      BY SortingFacts
    <3> QED
      BY <2>1, <3>1 DEF Visited, Pos
  <2>5. PhasesOK'
    BY <2>1, <2>2, <2>4 DEF PhasesOK
  <2>6. NeedsOK' /\ FramesOK' /\ StillAhead' /\ SourcesReady' /\ CallersDescend'
    BY <2>1, <2>2 DEF NeedsOK, FramesOK, StillAhead, SourcesReady, CallersDescend
  <2>7. InsertedOnce' /\ ChainsOK'
    BY <2>1, <2>2 DEF Sorting, PermInv, InsertedOnce, ChainsOK, HeadsOK, Latest, Pos
  <2> QED
    BY <2>3, <2>5, <2>6, <2>7 DEF PermInv
<1> QED
  BY <1>1, <1>2

\* All steps.
LEMMA PermInvStep == Sorting /\ [SortNext]_sortVars => Sorting'
<1> SUFFICES ASSUME Sorting, [SortNext]_sortVars PROVE Sorting'
  OBVIOUS
<1>1. SortInv' /\ UNCHANGED <<items, edges, layout>>
  BY SortInvStep DEF Sorting, SortNext, sortVars
<1>2. SoundProblem(items, edges)'
  BY <1>1 DEF Sorting, SoundProblem, Against, Precedes
<1>3. PermInv'
  <2>1. CASE UNCHANGED sortVars
    BY <2>1, PermFrame DEF sortVars, sorting, Sorting
  <2>2. CASE UpItem \/ UpNeeded \/ UpInsert \/ UpDone
    BY <1>1, <2>2, UpSteps
  <2>3. CASE DownItemReady
    BY <1>1, <2>3, ReadyStep
  <2>4. CASE DownItemPending
    BY <1>1, <2>4, PendingStep
  <2>5. CASE DownStillPending
    BY <1>1, <2>5, StillPendingStep
  <2>6. CASE DownRelease
    BY <1>1, <2>6, ReleaseStep DEF SortInv
  <2>7. CASE DownReturn
    BY <1>1, <2>7, ReturnStep
  <2>8. CASE DownDone
    <3>1. /\ phase = "down" /\ downStack = <<>> /\ todo = <<>>
          /\ phase' = "sorted" /\ items' = items /\ edges' = edges /\ layout' = layout
          /\ todo' = todo /\ downResult' = downResult /\ downStack' = downStack
          /\ pendingNeed' = pendingNeed /\ head' = head /\ next' = next
      BY <1>1, <2>8 DEF DownDone
    <3>2. Waiting = {} /\ Waiting' = {}
      BY <3>1, NothingLeftPending DEF Waiting
    <3>3. TodoInv' /\ InsertedOnce' /\ PhasesOK'
      BY <3>1, <3>2 DEF Sorting, PermInv, TodoInv, InsertedOnce, PhasesOK, Visited, Pos
    <3>4. NeedsOK' /\ StillAhead' /\ FramesOK' /\ CallersDescend'
      BY <3>1, <3>2 DEF NeedsOK, StillAhead, FramesOK, CallersDescend
    <3>5. ChainsOK' /\ SourcesReady'
      BY <3>1, <3>2 DEF Sorting, PermInv, ChainsOK, HeadsOK, Latest, SourcesReady, Disturbed,
                        Against, Precedes, Pos
    <3> QED
      BY <3>3, <3>4, <3>5 DEF PermInv
  <2> QED
    BY <2>1, <2>2, <2>3, <2>4, <2>5, <2>6, <2>7, <2>8 DEF SortNext, SortStep
<1> QED
  BY <1>1, <1>2, <1>3 DEF Sorting

\* When nothing is sorted yet.
LEMMA FreshSorting == Fresh /\ ProblemOK /\ SoundProblem(items, edges) => Sorting
<1> SUFFICES ASSUME Fresh, ProblemOK, SoundProblem(items, edges) PROVE Sorting
  OBVIOUS
<1>1. SortInv
  BY FreshInv
<1>2. /\ phase # "down" /\ todo = items /\ downResult = <<>> /\ downStack = <<>>
      /\ Len(downStack) = 0 /\ Range(downResult) = {} /\ Len(items) \in Nat
      /\ phase = "sorted" => items = <<>>
      /\ phase \in {"up", "sorted"}
  BY <1>1, EmptyFacts DEF Fresh, SortInv, SortTypeOK
<1>3. Waiting = {} /\ \A b \in 1..Buckets : head[b] = Null
  BY DEF Waiting, Fresh
<1>4. TodoInv
  BY <1>2 DEF TodoInv
<1>5. phase = "sorted" => Visited = {}
  BY <1>2, EmptyFacts DEF Visited
<1>6. PhasesOK /\ InsertedOnce /\ NeedsOK /\ FramesOK /\ StillAhead /\ CallersDescend
  <2>1. PhasesOK
    BY <1>2, <1>3, <1>5 DEF PhasesOK
  <2>2. InsertedOnce
    BY <1>2, <1>3 DEF InsertedOnce, IsInjective
  <2>3. NeedsOK /\ FramesOK /\ StillAhead /\ CallersDescend
    BY <1>2, <1>3 DEF NeedsOK, FramesOK, StillAhead, CallersDescend
  <2> QED
    BY <2>1, <2>2, <2>3
<1>7. ChainsOK /\ SourcesReady
  BY <1>2, <1>3 DEF ChainsOK, HeadsOK, Latest, SourcesReady
<1> QED
  BY <1>1, <1>4, <1>6, <1>7 DEF Sorting, PermInv

\* A list that was sorted downwards is a permutation of the one given.
LEMMA SortingPermutes == Sorting => DownPermutes
<1> SUFFICES ASSUME Sorting PROVE DownPermutes
  OBVIOUS
<1>1. ASSUME phase = "sorted" PROVE Range(downResult) = Range(items)
  <2>1. Visited = Range(downResult) /\ Len(todo) = 0
    BY <1>1 DEF Sorting, PermInv, PhasesOK
  <2>2. \A s \in Range(items) : Pos(s) <= Len(items) - Len(todo)
    BY <2>1, SortingFacts
  <2> QED
    BY <2>1, <2>2 DEF Visited
<1> QED
  BY <1>1 DEF DownPermutes, Sorting, PermInv, InsertedOnce

\* orderItemsDown returns a permutation of the list it was given, whatever the
\* list, the order and the hash layout: no item is added twice, and none stays
\* pending for ever, although the map of pending items is changed under the
\* iterations of all the calls on the stack (PartialOrder.orderItemsDown).  The
\* list has no repetitions and is in the order of all edges but one: what
\* StatementOrder.integrate guarantees.  (The order has no cycle then, or the
\* sort upwards, which comes first, would not have ended.)
THEOREM DownSortPermutes ==
  ASSUME \A p \in Problems : SoundProblem(p[1], p[2])
  PROVE  SortSpec => []DownPermutes
<1>1. SortInit => Sorting
  <2> SUFFICES ASSUME SortInit PROVE Sorting
    OBVIOUS
  <2>1. SoundProblem(items, edges)
    BY DEF SortInit
  <2> QED
    BY <2>1, InitFresh, FreshSorting
<1>2. Sorting /\ [SortNext]_sortVars => Sorting'
  BY PermInvStep
<1> QED
  BY <1>1, <1>2, SortingPermutes, PTL DEF SortSpec
-------------------------------------------------------------------------------
(***************************************************************************)
(* A list that is in order already.                                        *)
(***************************************************************************)

\* The items the outermost loop has visited are the first ones of the list.
Done == Len(items) - Len(todo)

FirstItems(list, n) == Len(list) = n /\ \A i \in 1..n : list[i] = items[i]

\* Going up, every item is added by a call that finds nothing missing.
QuietUp ==
  /\ phase = "up" =>
       \/ upStack = <<>> /\ FirstItems(upResult, Done)
       \/ /\ Len(upStack) = 1 /\ Done >= 1
          /\ upStack[1].missing = {} /\ upStack[1].elem = items[Done]
          /\ FirstItems(upResult, Done - 1)
  /\ phase # "up" => FirstItems(upResult, Len(items))

\* A call finds nothing to visit.
Idle(calls) == calls = <<>> \/ (Len(calls) = 1 /\ calls[1].entry = Null)

\* Going down, no item is ever pending.
QuietDown ==
  /\ \A s \in Statements : pendingNeed[s] = {}
  /\ \A b \in 1..Buckets : head[b] = Null
  /\ phase = "up" => downResult = <<>> /\ downStack = <<>>
  /\ phase # "up" => /\ FirstItems(downResult, Done)
                     /\ Idle(downStack)
  /\ phase = "sorted" => todo = <<>>

QuietInv == /\ SortInv /\ TodoInv /\ IsInjective(items)
            /\ PredecessorsBefore(items) => QuietUp /\ QuietDown

\* The loop is at an item whose predecessors were all visited before.
LEMMA NextInOrder ==
  ASSUME SortInv, TodoInv, IsInjective(items), PredecessorsBefore(items), todo # <<>>,
         NEW list \in Seq(Statements), FirstItems(list, Done)
  PROVE  /\ Head(todo) = items[Done + 1] /\ Done \in Nat /\ Done + 1 \in 1..Len(items)
         /\ Head(todo) \notin Range(list)
         /\ Predecessors(Head(todo)) \subseteq Range(list)
         /\ Len(items) - Len(Tail(todo)) = Done + 1
<1>1. items \in Seq(Statements) /\ todo \in Seq(Statements)
  BY DEF SortInv, SortTypeOK
<1>2. /\ Len(items) \in Nat /\ Len(todo) \in Nat \ {0} /\ Len(todo) <= Len(items)
      /\ Head(todo) = todo[1] /\ Len(Tail(todo)) = Len(todo) - 1
  BY <1>1 DEF TodoInv
<1>3. todo[1] = items[Len(items) - Len(todo) + 1]
  BY <1>2 DEF TodoInv
<1>4. /\ Done \in Nat /\ Done + 1 \in 1..Len(items) /\ Head(todo) = items[Done + 1]
      /\ Len(items) - Len(Tail(todo)) = Done + 1
  BY <1>2, <1>3 DEF Done
<1>5. \A i \in 1..Done : i \in 1..Len(items) /\ i # Done + 1
  BY <1>2, <1>4
<1>6. \A i, j \in 1..Len(items) : items[i] = items[j] => i = j
  BY <1>1 DEF IsInjective
<1>7. DOMAIN list = 1..Done /\ \A i \in 1..Done : list[i] = items[i]
  BY EmptyFacts DEF FirstItems
<1>8. Head(todo) \notin Range(list)
  BY <1>4, <1>5, <1>6, <1>7 DEF Range
<1>9. ASSUME NEW p \in Predecessors(Head(todo)) PROVE p \in Range(list)
  <2>0. p \in Predecessors(items[Done + 1]) /\ Done + 1 \in 1..Len(items)
    BY <1>4
  <2>1. \E j \in 1..((Done + 1) - 1) : items[j] = p
    <3> DEFINE i == Done + 1
    <3> HIDE DEF i
    <3>1. \E j \in 1..(i - 1) : items[j] = p
      BY <2>0 DEF PredecessorsBefore, i
    <3> QED
      BY <3>1 DEF i
  <2>2. PICK j \in 1..Done : items[j] = p
    BY <1>4, <2>1
  <2> QED
    BY <1>7, <2>2 DEF Range
<1> QED
  BY <1>4, <1>8, <1>9

\* One more item in order.
LEMMA AppendNext ==
  ASSUME NEW S, NEW list \in Seq(S), NEW n \in Nat, FirstItems(list, n), items[n + 1] \in S
  PROVE  FirstItems(Append(list, items[n + 1]), n + 1)
<1>1. Len(list) = n /\ \A i \in 1..n : list[i] = items[i]
  BY DEF FirstItems
<1> DEFINE x == items[n + 1]
           t == Append(list, x)
<1>2. Len(t) = n + 1 /\ \A i \in 1..n : t[i] = list[i]
  <2> HIDE DEF x
  <2> QED
    BY <1>1
<1>3. t[n + 1] = x
  <2> HIDE DEF x
  <2> QED
    BY <1>1
<1> HIDE DEF t
<1>4. \A i \in 1..(n + 1) : i \in 1..n \/ i = n + 1
  OBVIOUS
<1>5. FirstItems(t, n + 1)
  BY <1>1, <1>2, <1>3, <1>4 DEF FirstItems
<1> QED
  BY <1>5 DEF t

\* Every step keeps a list in order quiet.
LEMMA QuietStep ==
  ASSUME SortInv, TodoInv, IsInjective(items), PredecessorsBefore(items),
         QuietUp, QuietDown, SortStep, UNCHANGED <<items, edges, layout>>
  PROVE  TodoInv' /\ QuietUp' /\ QuietDown'
<1>0. /\ items' = items /\ items \in Seq(Statements) /\ todo \in Seq(Statements)
      /\ upResult \in Seq(Statements) /\ downResult \in Seq(Statements)
      /\ upStack \in Seq(UpFrames) /\ downStack \in Seq(DownFrames)
      /\ Len(items) \in Nat /\ Len(todo) \in Nat /\ Done \in Int
      /\ todo = <<>> => Done = Len(items)
      /\ Len(items) - Len(items) = 0
      /\ head \in [1..Buckets -> Statements \cup {Null}] /\ Buckets \in -1..Buckets
      /\ \A i \in 1..Len(items) : items[i] \in Statements
  BY OrderItemsAssumption DEF SortInv, SortTypeOK, Done
<1>10. Idle(<<>>)
  BY DEF Idle
<1>1. CASE UpItem
  <2>1. /\ phase = "up" /\ upStack = <<>> /\ todo # <<>> /\ phase' = phase
        /\ upStack' = IF Head(todo) \in Range(upResult) THEN <<>> ELSE <<UpCall(Head(todo))>>
        /\ todo' = Tail(todo) /\ upResult' = upResult
        /\ downResult' = downResult /\ downStack' = downStack /\ pendingNeed' = pendingNeed
        /\ head' = head
    BY <1>1 DEF UpItem
  <2>2. FirstItems(upResult, Done)
    BY <2>1 DEF QuietUp
  <2>3. /\ Head(todo) = items[Done + 1] /\ Done \in Nat
        /\ Head(todo) \notin Range(upResult)
        /\ Predecessors(Head(todo)) \subseteq Range(upResult)
        /\ Done' = Done + 1
    BY <1>0, <2>1, <2>2, NextInOrder DEF Done
  <2>4. upStack' = <<UpCall(Head(todo))>> /\ UpCall(Head(todo)).missing = {}
        /\ UpCall(Head(todo)).elem = items[Done + 1]
    BY <2>1, <2>3 DEF UpCall
  <2>5. /\ Len(upStack') = 1 /\ upStack'[1].missing = {} /\ upStack'[1].elem = items[Done + 1]
    BY <2>4
  <2>6. Done + 1 >= 1 /\ Done + 1 - 1 = Done
    BY <2>3
  <2>7. QuietUp'
    BY <1>0, <2>1, <2>2, <2>3, <2>5, <2>6 DEF QuietUp, FirstItems
  <2>8. QuietDown'
    BY <2>1 DEF QuietDown
  <2>9. TodoInv'
    BY <1>0, <2>1, VisitHead
  <2> QED
    BY <2>7, <2>8, <2>9
<1>2. CASE UpNeeded
  <2>1. phase = "up" /\ upStack # <<>> /\ UpTop.missing # {}
    BY <1>2 DEF UpNeeded
  <2>2. Len(upStack) = 1 /\ upStack[1].missing = {}
    BY <2>1 DEF QuietUp
  <2> QED
    BY <2>1, <2>2 DEF UpTop
<1>3. CASE UpInsert
  <2>1. /\ phase = "up" /\ upStack # <<>> /\ phase' = phase
        /\ upResult' = Append(upResult, UpTop.elem)
        /\ upStack' = SubSeq(upStack, 1, Len(upStack) - 1)
        /\ todo' = todo /\ downResult' = downResult /\ downStack' = downStack
        /\ pendingNeed' = pendingNeed /\ head' = head
    BY <1>3 DEF UpInsert
  <2>2. /\ Len(upStack) = 1 /\ Done >= 1 /\ UpTop.elem = items[Done]
        /\ FirstItems(upResult, Done - 1)
    BY <2>1 DEF QuietUp, UpTop
  <2>3. Done - 1 \in Nat /\ Done - 1 + 1 = Done /\ Done \in 1..Len(items)
    BY <1>0, <2>2 DEF Done
  <2>4. items[Done - 1 + 1] \in Statements
    BY <1>0, <2>3
  <2>5. FirstItems(Append(upResult, items[Done - 1 + 1]), Done - 1 + 1)
    BY <1>0, <2>2, <2>3, <2>4, AppendNext
  <2>6. FirstItems(Append(upResult, items[Done]), Done)
    BY <2>3, <2>5
  <2>7. upStack' = <<>>
    BY <1>0, <2>1, <2>2, FrontFacts
  <2>8. QuietUp' /\ QuietDown' /\ TodoInv'
    <3>1. Done' = Done
      BY <1>0, <2>1 DEF Done
    <3>2. upResult' = Append(upResult, items[Done])
      BY <2>1, <2>2
    <3>3. FirstItems(upResult', Done)
      BY <2>6, <3>2
    <3>4. FirstItems(upResult, Done)'
      BY <1>0, <3>1, <3>3 DEF FirstItems
    <3>5. QuietUp'
      BY <2>1, <2>7, <3>4 DEF QuietUp
    <3>6. QuietDown'
      BY <2>1 DEF QuietDown
    <3>7. TodoInv'
      BY <1>0, <2>1 DEF TodoInv
    <3> QED
      BY <3>5, <3>6, <3>7
  <2> QED
    BY <2>8
<1>4. CASE UpDone
  <2>1. /\ phase = "up" /\ upStack = <<>> /\ todo = <<>> /\ phase' = "down"
        /\ todo' = items /\ upResult' = upResult /\ downResult' = downResult
        /\ downStack' = downStack /\ pendingNeed' = pendingNeed /\ head' = head
    BY <1>4 DEF UpDone
  <2>2. FirstItems(upResult, Len(items)) /\ downResult = <<>> /\ downStack = <<>>
    BY <1>0, <2>1 DEF QuietUp, QuietDown, FirstItems
  <2>3. Done' = 0 /\ Len(downResult) = 0
    BY <1>0, <2>1, <2>2 DEF Done
  <2>4. TodoInv'
    BY <1>0, <2>1 DEF TodoInv
  <2>5. QuietUp'
    BY <1>0, <2>1, <2>2 DEF QuietUp, FirstItems
  <2>6. QuietDown'
    <3>1. FirstItems(downResult, Done)'
      BY <2>1, <2>2, <2>3 DEF FirstItems
    <3> QED
      BY <1>10, <2>1, <2>2, <3>1 DEF QuietDown
  <2> QED
    BY <2>4, <2>5, <2>6
<1>5. CASE DownItemReady
  <2> DEFINE call == DownCall(Head(todo), head)
  <2>1. /\ phase = "down" /\ downStack = <<>> /\ todo # <<>> /\ phase' = phase
        /\ downResult' = Append(downResult, Head(todo))
        /\ downStack' = <<call>>
        /\ todo' = Tail(todo) /\ upResult' = upResult
        /\ pendingNeed' = pendingNeed /\ head' = head
    BY <1>5 DEF DownItemReady
  <2>2. FirstItems(downResult, Done)
    BY <2>1 DEF QuietDown
  <2>3. /\ Head(todo) = items[Done + 1] /\ Done \in Nat /\ Done' = Done + 1
        /\ Done + 1 \in 1..Len(items)
    BY <1>0, <2>1, <2>2, NextInOrder DEF Done
  <2>4. call.entry = Null
    <3>1. FirstEntry(head, Buckets).entry # Null =>
            \E b \in 1..Buckets : FirstEntry(head, Buckets).entry = head[b]
      BY <1>0, FirstEntryType
    <3> QED
      BY <3>1 DEF QuietDown, DownCall
  <2> HIDE DEF call
  <2>5. Len(downStack') = 1 /\ downStack'[1].entry = Null
    BY <2>1, <2>4
  <2>6. items[Done + 1] \in Statements
    BY <1>0, <2>3
  <2>7. FirstItems(Append(downResult, items[Done + 1]), Done + 1)
    BY <1>0, <2>2, <2>3, <2>6, AppendNext
  <2>8. QuietDown'
    BY <1>0, <2>1, <2>3, <2>5, <2>7 DEF QuietDown, FirstItems, Idle
  <2>9. TodoInv' /\ QuietUp'
    BY <1>0, <2>1, VisitHead DEF QuietUp, FirstItems
  <2> QED
    BY <2>8, <2>9
<1>6. CASE DownItemPending
  <2>1. phase = "down" /\ todo # <<>> /\ ReadyToInsert(Head(todo)) # {}
    BY <1>6 DEF DownItemPending
  <2>2. FirstItems(downResult, Done)
    BY <2>1 DEF QuietDown
  <2>3. Predecessors(Head(todo)) \subseteq Range(downResult)
    BY <1>0, <2>1, <2>2, NextInOrder
  <2> QED
    BY <2>1, <2>3 DEF ReadyToInsert
<1>7. CASE DownStillPending \/ DownRelease
  <2>1. phase = "down" /\ downStack # <<>> /\ downStack[Len(downStack)].entry # Null
    BY <1>7 DEF DownStillPending, DownRelease, DownTop
  <2> QED
    BY <2>1 DEF QuietDown, Idle
<1>8. CASE DownReturn
  <2>1. /\ phase = "down" /\ downStack # <<>> /\ phase' = phase
        /\ LET callers == SubSeq(downStack, 1, Len(downStack) - 1)
           IN  downStack' = IF callers = <<>> THEN <<>>
                            ELSE [callers EXCEPT ![Len(callers)] =
                                    Advance(@, NextEntry(@.entry, @.bucket))]
        /\ todo' = todo /\ upResult' = upResult /\ downResult' = downResult
        /\ pendingNeed' = pendingNeed /\ head' = head
    BY <1>8 DEF DownReturn
  <2>2. Len(downStack) = 1
    BY <2>1 DEF QuietDown, Idle
  <2>3. SubSeq(downStack, 1, Len(downStack) - 1) = <<>>
    BY <1>0, <2>1, <2>2, FrontFacts
  <2>4. downStack' = <<>>
    BY <2>1, <2>3
  <2>5. TodoInv' /\ QuietUp'
    BY <1>0, <2>1 DEF QuietUp, TodoInv, FirstItems
  <2>6. QuietDown'
    <3>1. Done' = Done
      BY <1>0, <2>1 DEF Done
    <3>2. FirstItems(downResult, Done)
      BY <2>1 DEF QuietDown
    <3>3. FirstItems(downResult, Done)'
      BY <1>0, <2>1, <3>1, <3>2 DEF FirstItems
    <3>4. (\A s \in Statements : pendingNeed[s] = {})' /\ (\A b \in 1..Buckets : head[b] = Null)'
      BY <2>1 DEF QuietDown
    <3> QED
      BY <1>10, <2>1, <2>4, <3>3, <3>4 DEF QuietDown
  <2> QED
    BY <2>5, <2>6
<1>9. CASE DownDone
  <2>1. /\ phase = "down" /\ downStack = <<>> /\ todo = <<>> /\ phase' = "sorted"
        /\ downStack' = downStack
        /\ todo' = todo /\ upResult' = upResult /\ downResult' = downResult
        /\ pendingNeed' = pendingNeed /\ head' = head
    BY <1>9 DEF DownDone
  <2> QED
    BY <1>0, <2>1 DEF QuietUp, QuietDown, TodoInv, Done, FirstItems
<1> QED
  BY <1>1, <1>2, <1>3, <1>4, <1>5, <1>6, <1>7, <1>8, <1>9 DEF SortStep

\* The loop goes through the list whether or not it is in order.
LEMMA TodoStep ==
  ASSUME SortInv, TodoInv, IsInjective(items), [SortNext]_sortVars
  PROVE  TodoInv'
<1>1. items' = items /\ items \in Seq(Statements) /\ todo \in Seq(Statements)
  BY DEF SortNext, sortVars, SortInv, SortTypeOK
<1>2. CASE todo' = todo
  BY <1>1, <1>2 DEF TodoInv
<1>3. CASE todo' = items
  <2>1. Len(items) \in Nat
    BY <1>1
  <2> QED
    BY <1>1, <1>3, <2>1 DEF TodoInv
<1>4. CASE todo # <<>> /\ todo' = Tail(todo)
  BY <1>1, <1>4, VisitHead
<1>5. todo' = todo \/ todo' = items \/ (todo # <<>> /\ todo' = Tail(todo))
  BY DEF SortNext, SortStep, sortVars, sorting, UpItem, UpNeeded, UpInsert, UpDone,
         DownItemReady, DownItemPending, DownStillPending, DownRelease, DownReturn, DownDone
<1> QED
  BY <1>2, <1>3, <1>4, <1>5

\* A list that holds the items of another at all its places is that list.
LEMMA AllFirstItems ==
  ASSUME SortInv, NEW list \in Seq(Statements)
  PROVE  FirstItems(list, Len(items)) => list = items
<1>1. items \in Seq(Statements)
  BY DEF SortInv, SortTypeOK
<1> QED
  BY <1>1 DEF FirstItems

\* When nothing is sorted yet,
LEMMA FreshQuiet == Fresh /\ ProblemOK /\ IsInjective(items) => QuietInv
<1> SUFFICES ASSUME Fresh, ProblemOK, IsInjective(items) PROVE QuietInv
  OBVIOUS
<1>1. SortInv
  BY FreshInv
<1>2. /\ phase \in {"up", "sorted"} /\ upStack = <<>> /\ upResult = <<>> /\ todo = items
      /\ Len(items) \in Nat /\ Len(items) - Len(items) = 0
      /\ Len(upResult) = 0 /\ downResult = <<>> /\ downStack = <<>> /\ Len(downResult) = 0
      /\ phase = "sorted" => items = <<>> /\ Len(items) = 0
  BY <1>1 DEF Fresh, SortInv, SortTypeOK
<1>3. TodoInv /\ QuietUp
  BY <1>2 DEF TodoInv, QuietUp, Done, FirstItems
<1>4. Idle(downStack)
  BY <1>2 DEF Idle
<1>5. phase # "up" => FirstItems(downResult, Done)
  BY <1>2 DEF FirstItems, Done
<1>6. QuietDown
  BY <1>2, <1>4, <1>5 DEF QuietDown, Fresh
<1> QED
  BY <1>1, <1>3, <1>6 DEF QuietInv

\* and after every step.
LEMMA QuietInvStep == QuietInv /\ [SortNext]_sortVars => QuietInv'
<1> SUFFICES ASSUME QuietInv, [SortNext]_sortVars PROVE QuietInv'
  OBVIOUS
<1>1. SortInv' /\ TodoInv'
  BY SortInvStep, TodoStep DEF QuietInv
<1>2. items' = items /\ edges' = edges /\ layout' = layout
  BY DEF SortNext, sortVars
<1>3. IsInjective(items)'
  BY <1>2 DEF QuietInv
<1>4. PredecessorsBefore(items)' <=> PredecessorsBefore(items)
  BY <1>2 DEF PredecessorsBefore, Predecessors
<1>5. ASSUME PredecessorsBefore(items) PROVE QuietUp' /\ QuietDown'
  <2>1. CASE SortNext
    BY <1>2, <1>5, <2>1, QuietStep DEF SortNext, QuietInv
  <2>2. CASE UNCHANGED sortVars
    BY <1>5, <2>2 DEF sortVars, sorting, QuietInv, QuietUp, QuietDown, Done, FirstItems, Idle
  <2> QED
    BY <2>1, <2>2
<1> QED
  BY <1>1, <1>3, <1>4, <1>5 DEF QuietInv

\* A list in order comes out of both sorts as it was.
LEMMA QuietSorted ==
  ASSUME QuietInv, phase = "sorted", PredecessorsBefore(items)
  PROVE  upResult = items /\ downResult = items
<1>1. FirstItems(upResult, Len(items)) /\ FirstItems(downResult, Done) /\ todo = <<>>
  BY DEF QuietInv, QuietUp, QuietDown
<1>2. Done = Len(items) /\ upResult \in Seq(Statements) /\ downResult \in Seq(Statements)
  BY <1>1 DEF Done, QuietInv, SortInv, SortTypeOK
<1> QED
  BY <1>1, <1>2, AllFirstItems DEF QuietInv

\* What neither sort changes, both leave alone.
LEMMA QuietAgree == QuietInv => SortsAgreeOnChange
<1> SUFFICES ASSUME QuietInv, phase = "sorted"
             PROVE  upResult = items <=> downResult = items
  BY DEF SortsAgreeOnChange
<1>1. PredecessorsBefore(upResult) /\ PredecessorsBefore(downResult)
  BY DEF QuietInv, SortInv, InsertedAfterPredecessors
<1> QED
  BY <1>1, QuietSorted

\* The two sorts agree on whether there is anything to reorder: each of them
\* returns the list as it was just when all items come after their predecessors.
\* StatementOrder.integrate asks only one of them ("reordered" is overwritten).
\* The list has no repetitions: it holds the statements of one section.
THEOREM SortsAgree ==
  ASSUME \A p \in Problems : IsInjective(p[1])
  PROVE  SortSpec => []SortsAgreeOnChange
<1>1. SortInit => QuietInv
  <2> SUFFICES ASSUME SortInit PROVE QuietInv
    OBVIOUS
  <2>1. IsInjective(items)
    BY DEF SortInit
  <2> QED
    BY <2>1, InitFresh, FreshQuiet
<1> QED
  BY <1>1, QuietAgree, QuietInvStep, PTL DEF SortSpec
-------------------------------------------------------------------------------
(***************************************************************************)
(* First repairs: nothing is added twice, and nothing moves without need.  *)
(***************************************************************************)

\* An edge leads to its end.
LEMMA LeadsEdge ==
  ASSUME NEW R, NEW s, NEW t, <<s, t>> \in R
  PROVE  Leads(R, s, t)
<1> DEFINE e == <<s, t>>
<1>1. e \in R /\ e[1] = s /\ e[2] = t
  OBVIOUS
<1> HIDE DEF e
<1> QED
  BY <1>1 DEF Leads

\* Where the edges lead they lead on.
LEMMA LeadsOn ==
  ASSUME NEW R, NEW s, NEW p, NEW t, Leads(R, s, p), <<p, t>> \in R
  PROVE  Leads(R, s, t)
<1> DEFINE e == <<p, t>>
<1>1. e \in R /\ e[1] = p /\ e[2] = t
  OBVIOUS
<1> HIDE DEF e
<1> QED
  BY <1>1 DEF Leads

\* From the top of a stack of elements that wait for the one above each, the
\* edges lead to every element below.
LEMMA ChainLeads ==
  ASSUME NEW R, NEW f, NEW n \in Nat, NEW k \in 1..(n - 1),
         \A j \in k..(n - 1) : <<f[j + 1], f[j]>> \in R
  PROVE  Leads(R, f[n], f[k])
<1> SUFFICES ASSUME NEW W \in SUBSET Statements,
                    \A e \in R : e[1] \in W \cup {f[n]} => e[2] \in W,
                    f[k] \notin W
             PROVE  FALSE
  BY DEF Leads
<1> DEFINE out == {j \in k..(n - 1) : f[j] \notin W}
<1>1. out \subseteq 1..n /\ out # {}
  OBVIOUS
<1>2. PICK j \in out : \A i \in out : i <= j
  <2> HIDE DEF out
  <2> QED
    BY <1>1, HighestOf
<1>3. j \in k..(n - 1) /\ f[j] \notin W /\ j \in Nat /\ j + 1 \in Nat /\ k \in Nat
  OBVIOUS
<1> DEFINE e == <<f[j + 1], f[j]>>
<1>4. e \in R /\ e[1] = f[j + 1] /\ e[2] = f[j]
  BY <1>3
<1> HIDE DEF e
<1>5. f[j + 1] \in W \cup {f[n]}
  <2>1. CASE j + 1 = n
    BY <2>1
  <2>2. CASE j + 1 # n
    <3>1. j + 1 \in k..(n - 1)
      BY <1>3, <2>2
    <3>2. j + 1 \notin out
      BY <1>2, <1>3
    <3> QED
      BY <3>1, <3>2
  <2> QED
    BY <2>1, <2>2
<1> QED
  BY <1>3, <1>4, <1>5

\* What orderItemsUp may have to move: what must precede the source of the new edge.
Needed(y) == \E e \in Disturbed : y = e[1] \/ Leads(edges, y, e[1])

\* What orderItemsDown may have to move: what must follow its target.
After(y) == \E e \in Disturbed : y = e[2] \/ Leads(edges, e[2], y)

\* In front of an item of a result stands what the list has in front of it, but
\* for what may have to move.
EarlierIn(list, k, s) == \E j \in 1..(k - 1) : list[j] = s

UpInPlace ==
  \A k \in 1..Len(upResult) : \A s \in Range(items) :
    Pos(s) < Pos(upResult[k]) => EarlierIn(upResult, k, s) \/ Needed(upResult[k])

DownInPlace ==
  \A k \in 1..Len(downResult) : \A s \in Range(items) :
    Pos(s) < Pos(downResult[k]) => EarlierIn(downResult, k, s) \/ After(s)

\* The calls of addElement, going up: every one was made for a predecessor.
CallsClimb ==
  /\ \A k \in 1..Len(upStack) : upStack[k].missing \subseteq Predecessors(upStack[k].elem)
  /\ \A k \in 1..(Len(upStack) - 1) :
       /\ upStack[k + 1].elem \in Predecessors(upStack[k].elem)
       /\ upStack[k + 1].elem \notin upStack[k].missing

\* What the outermost loop has visited is in the result, or in its first call.
VisitedAdded ==
  phase = "up" =>
    /\ upStack = <<>> => Visited \subseteq Range(upResult)
    /\ upStack # <<>> => /\ Visited \subseteq Range(upResult) \cup {upStack[1].elem}
                         /\ \A s \in Range(items) : Pos(s) < Pos(upStack[1].elem)
                                                      => s \in Range(upResult)

\* No call works for an item that is in the result, or waits for one.
Unadded == \A k \in 1..Len(upStack) :
             /\ upStack[k].elem \notin Range(upResult)
             /\ upStack[k].missing \cap Range(upResult) = {}

Unsettled == \A p \in Waiting : After(p)

ClimbInv == /\ CallsClimb /\ VisitedAdded
            /\ FirstRepair => Unadded /\ IsInjective(upResult) /\ UpInPlace

ShiftInv == Unsettled /\ DownInPlace

\* The items on the stack.
LEMMA StackFacts ==
  ASSUME Sorting, CallsClimb
  PROVE  /\ upStack \in Seq(UpFrames) /\ Len(upStack) \in Nat
         /\ \A k \in 1..Len(upStack) :
              /\ upStack[k].elem \in Range(items) /\ upStack[k].elem \in Statements
              /\ upStack[k].missing \subseteq Statements
         /\ \A k \in 1..(Len(upStack) - 1) :
              <<upStack[k + 1].elem, upStack[k].elem>> \in edges
<1>1. upStack \in Seq(UpFrames) /\ Len(upStack) \in Nat
  BY EmptyFacts DEF Sorting, SortInv, SortTypeOK
<1>2. \A k \in 1..Len(upStack) : upStack[k] \in UpFrames /\ upStack[k].elem \in Range(items)
  BY <1>1 DEF Sorting, SortInv, UpWithin
<1> QED
  BY <1>1, <1>2 DEF UpFrames, CallsClimb, Predecessors

\* Only the source of the new edge is missing when an item of the list is visited.
LEMMA SecondCall ==
  ASSUME Sorting, phase = "up", CallsClimb, VisitedAdded, Unadded, upStack # <<>>
  PROVE  /\ \A p \in upStack[1].missing : <<p, upStack[1].elem>> \in Disturbed
         /\ Len(upStack) >= 2 => <<upStack[2].elem, upStack[1].elem>> \in Disturbed
<1> DEFINE t == upStack[1].elem
<1>1. 1 \in 1..Len(upStack) /\ Len(upStack) \in Nat /\ t \in Range(items)
  <2>1. Len(upStack) \in Nat \ {0}
    BY StackFacts, EmptyFacts
  <2> QED
    BY <2>1, StackFacts
<1>2. ASSUME NEW p \in Predecessors(t), p \notin Range(upResult)
      PROVE  <<p, t>> \in Disturbed
  <2> SUFFICES ASSUME <<p, t>> \notin Disturbed PROVE FALSE
    OBVIOUS
  <2>1. p \in Range(items) /\ Pos(p) < Pos(t)
    <3> HIDE DEF t
    <3> QED
      BY <1>1, <1>2, EdgeDown
  <2> QED
    BY <1>2, <2>1 DEF VisitedAdded
<1>3. \A p \in upStack[1].missing : p \in Predecessors(t) /\ p \notin Range(upResult)
  BY <1>1 DEF CallsClimb, Unadded
<1>4. Len(upStack) >= 2 => /\ upStack[2].elem \in Predecessors(t)
                           /\ upStack[2].elem \notin Range(upResult)
  <2> SUFFICES ASSUME Len(upStack) >= 2
               PROVE  /\ upStack[2].elem \in Predecessors(t)
                      /\ upStack[2].elem \notin Range(upResult)
    OBVIOUS
  <2>1. 1 \in 1..(Len(upStack) - 1) /\ 2 \in 1..Len(upStack) /\ 1 + 1 = 2
    BY <1>1
  <2> QED
    BY <2>1 DEF CallsClimb, Unadded
<1> HIDE DEF t
<1> QED
  BY <1>2, <1>3, <1>4 DEF t

\* The item that is inserted next is on the stack once, and no call below waits
\* for it any more: else one of two edges would be another's short cut.
LEMMA InsertedNext ==
  ASSUME Sorting, phase = "up", CallsClimb, VisitedAdded, Unadded, upStack # <<>>,
         Acyclic(edges), FirstRepair
  PROVE  /\ \A k \in 1..(Len(upStack) - 1) :
              UpTop.elem # upStack[k].elem /\ UpTop.elem \notin upStack[k].missing
         /\ Len(upStack) >= 2 => Needed(UpTop.elem)
<1> DEFINE n == Len(upStack)
           elem == [k \in 1..Len(upStack) |-> upStack[k].elem]
           x == UpTop.elem
<1>1. n \in Nat /\ n >= 1 /\ n \in 1..n
  <2>1. n \in Nat \ {0}
    BY StackFacts, EmptyFacts
  <2> QED
    BY <2>1
<1>2. /\ \A k \in 1..n : elem[k] = upStack[k].elem /\ elem[k] \in Statements
      /\ x = elem[n]
      /\ \A k \in 1..(n - 1) : k \in 1..n /\ k + 1 \in 1..n /\ <<elem[k + 1], elem[k]>> \in edges
  BY <1>1, StackFacts DEF UpTop
<1>3. /\ \A p \in upStack[1].missing : <<p, elem[1]>> \in Disturbed
      /\ n >= 2 => <<elem[2], elem[1]>> \in Disturbed
      /\ n >= 2 => 1 \in 1..(n - 1) /\ 2 \in 1..n
  <2>1. n >= 2 => 1 \in 1..(n - 1) /\ 2 \in 1..n
    BY <1>1
  <2>2. 1 \in 1..n
    BY <1>1
  <2> QED
    BY <1>2, <2>1, <2>2, SecondCall
<1>4. \A e, f \in Disturbed : e = f
  BY DEF Sorting, SoundProblem, Disturbed
<1>5. \A k \in 1..(n - 1) : upStack[k].missing \subseteq Predecessors(elem[k])
                            /\ elem[k + 1] \notin upStack[k].missing
  BY <1>2 DEF CallsClimb
<1> HIDE DEF n, elem, x
\* no element is twice on the stack
<1>6. ASSUME NEW j \in 1..n, NEW k \in 1..(j - 1) PROVE elem[j] # elem[k]
  <2>1. \A i \in k..(j - 1) : <<elem[i + 1], elem[i]>> \in edges
    BY <1>1, <1>2
  <2>2. j \in Nat
    BY <1>1
  <2>3. Leads(edges, elem[j], elem[k])
    BY <2>1, <2>2, ChainLeads
  <2>4. elem[k] \in Statements
    BY <1>1, <1>2
  <2> QED
    BY <2>3, <2>4 DEF Acyclic
<1>7. ASSUME NEW k \in 1..(n - 1) PROVE x # elem[k]
  BY <1>1, <1>2, <1>6
<1>8. ASSUME NEW k \in 1..(n - 1), x \in upStack[k].missing PROVE FALSE
  <2> DEFINE f == <<x, elem[k]>>
             old == edges \ Disturbed
  <2>1. f \in edges /\ x # elem[k + 1]
    BY <1>5, <1>8 DEF Predecessors
  <2>2. CASE k = 1
    <3>1. f \in Disturbed /\ <<elem[2], elem[1]>> \in Disturbed /\ n >= 2
      BY <1>1, <1>3, <1>8, <2>2
    <3>2. f = <<elem[2], elem[1]>> /\ k + 1 = 2
      BY <1>4, <2>2, <3>1
    <3> QED
      BY <2>1, <3>2
  <2>3. CASE k # 1
    <3>1. n >= 2 /\ k \in 1..n /\ k \in Nat /\ 1 \in 1..(k - 1)
      BY <1>1, <2>3
    <3>2. <<elem[2], elem[1]>> \in Disturbed
      BY <1>3, <3>1
    <3>3. ASSUME NEW j \in k..(n - 1)
          PROVE  <<elem[j + 1], elem[j]>> \in old \ {f}
      <4>1. j \in 1..(n - 1) /\ j \in 1..n /\ 1 \in 1..(j - 1)
        BY <1>1, <3>1
      <4>2. <<elem[j + 1], elem[j]>> \in edges
        BY <1>2, <4>1
      <4>3. elem[j] # elem[1]
        BY <1>6, <4>1
      <4>4. <<elem[j + 1], elem[j]>> \notin Disturbed
        BY <1>4, <3>2, <4>3
      <4>5. <<elem[j + 1], elem[j]>> # f
        <5>1. CASE j = k
          BY <2>1, <5>1
        <5>2. CASE j # k
          <6>1. k \in 1..(j - 1)
            BY <3>1, <5>2
          <6> QED
            BY <1>6, <4>1, <6>1
        <5> QED
          BY <5>1, <5>2
      <4> QED
        BY <4>2, <4>4, <4>5
    <3>4. Leads(old \ {f}, elem[n], elem[k])
      <4> HIDE DEF old, f
      <4> QED
        BY <1>1, <3>3, ChainLeads
    <3>5. f \in old
      <4>1. elem[k] # elem[1]
        BY <1>6, <3>1
      <4>2. f \notin Disturbed
        BY <1>4, <3>2, <4>1
      <4> QED
        BY <2>1, <4>2
    <3>6. ~Leads(old \ {f}, f[1], f[2])
      BY <3>5 DEF FirstRepair
    <3> QED
      BY <1>2, <3>4, <3>6
  <2> QED
    BY <2>2, <2>3
<1>9. n >= 2 => Needed(x)
  <2> SUFFICES ASSUME n >= 2 PROVE Needed(x)
    OBVIOUS
  <2> DEFINE e == <<elem[2], elem[1]>>
  <2>1. e \in Disturbed /\ e[1] = elem[2]
    BY <1>3
  <2>2. CASE n = 2
    BY <1>2, <2>1, <2>2 DEF Needed
  <2>3. CASE n # 2
    <3>1. 2 \in 1..(n - 1) /\ \A i \in 2..(n - 1) : <<elem[i + 1], elem[i]>> \in edges
      BY <1>1, <1>2, <2>3
    <3>2. Leads(edges, elem[n], elem[2])
      BY <1>1, <3>1, ChainLeads
    <3> QED
      BY <1>2, <2>1, <3>2 DEF Needed
  <2> QED
    BY <2>2, <2>3
<1>10. \A k \in 1..(n - 1) : elem[k] = upStack[k].elem
  BY <1>2
<1> QED
  BY <1>7, <1>8, <1>9, <1>10 DEF n, x

\* The names below do not change while the list and its edges do not.
LEMMA SameProblem ==
  ASSUME UNCHANGED <<items, edges, layout>>
  PROVE  /\ Disturbed' = Disturbed /\ (FirstRepair' <=> FirstRepair)
         /\ \A s : Pos(s)' = Pos(s) /\ Predecessors(s)' = Predecessors(s)
         /\ \A s : (Needed(s)' <=> Needed(s)) /\ (After(s)' <=> After(s))
<1>1. Disturbed' = Disturbed
  BY DEF Disturbed
<1>2. FirstRepair' <=> FirstRepair
  BY <1>1 DEF FirstRepair, Leads
<1>3. \A s : Pos(s)' = Pos(s) /\ Predecessors(s)' = Predecessors(s)
  BY DEF Pos, Predecessors
<1>4. \A s : (Needed(s)' <=> Needed(s)) /\ (After(s)' <=> After(s))
  BY <1>1 DEF Needed, After, Leads
<1> QED
  BY <1>1, <1>2, <1>3, <1>4

\* A step that leaves the upward sort alone, when it is over.
LEMMA ClimbFrame ==
  ASSUME ClimbInv, UNCHANGED <<items, edges, layout, upResult, upStack>>,
         \/ todo' = todo /\ phase' = phase
         \/ phase' # "up"
  PROVE  ClimbInv'
<1>1. CallsClimb'
  BY SameProblem DEF ClimbInv, CallsClimb
<1>2. VisitedAdded'
  BY SameProblem DEF ClimbInv, VisitedAdded, Visited
<1>3. FirstRepair' => (Unadded /\ IsInjective(upResult) /\ UpInPlace)'
  <2> SUFFICES ASSUME FirstRepair PROVE (Unadded /\ IsInjective(upResult) /\ UpInPlace)'
    BY SameProblem
  <2>1. Unadded'
    BY DEF ClimbInv, Unadded
  <2>2. IsInjective(upResult)'
    BY DEF ClimbInv, IsInjective
  <2>3. UpInPlace'
    BY SameProblem DEF ClimbInv, UpInPlace, EarlierIn
  <2> QED
    BY <2>1, <2>2, <2>3
<1> QED
  BY <1>1, <1>2, <1>3 DEF ClimbInv

\* The next item is visited.
LEMMA ClimbItem ==
  ASSUME Sorting, ClimbInv, UpItem, UNCHANGED <<items, edges, layout>>
  PROVE  ClimbInv'
<1> DEFINE h == Head(todo)
<1>1. /\ phase = "up" /\ phase' = phase /\ upStack = <<>> /\ todo # <<>> /\ todo' = Tail(todo)
      /\ upResult' = upResult
      /\ upStack' = IF h \in Range(upResult) THEN <<>> ELSE <<UpCall(h)>>
  BY DEF UpItem
<1>2. /\ h \in Range(items) /\ Visited' = Visited \cup {h}
      /\ \A s \in Range(items) : Pos(s) < Pos(h) => s \in Visited
  BY <1>1, VisitHead, SortingFacts DEF Sorting, PermInv
<1>3. Visited \subseteq Range(upResult)
  BY <1>1 DEF ClimbInv, VisitedAdded
<1>4. UpInPlace => UpInPlace'
  BY <1>1, SameProblem DEF UpInPlace, EarlierIn
<1>5. IsInjective(upResult) => IsInjective(upResult)'
  BY <1>1 DEF IsInjective
<1> HIDE DEF h
<1>6. CASE h \in Range(upResult)
  <2>1. upStack' = <<>> /\ Len(upStack') = 0
    BY <1>1, <1>6
  <2>2. CallsClimb' /\ Unadded'
    BY <2>1 DEF CallsClimb, Unadded
  <2>3. VisitedAdded'
    BY <1>1, <1>2, <1>3, <1>6, <2>1 DEF VisitedAdded
  <2> QED
    BY <1>4, <1>5, <2>2, <2>3, SameProblem DEF ClimbInv
<1>7. CASE h \notin Range(upResult)
  <2>1. /\ upStack' # <<>> /\ Len(upStack') = 1 /\ upStack'[1].elem = h
        /\ upStack'[1].missing = Predecessors(h) \ Range(upResult)
    BY <1>1, <1>7 DEF UpCall
  <2>2. CallsClimb'
    BY <2>1, SameProblem DEF CallsClimb
  <2>3. Unadded'
    BY <1>1, <1>7, <2>1 DEF Unadded
  <2>4. VisitedAdded'
    <3>1. Visited' \subseteq Range(upResult') \cup {upStack'[1].elem}
      BY <1>1, <1>2, <1>3, <2>1
    <3>2. \A s \in Range(items') : Pos(s)' < (Pos(upStack[1].elem))' => s \in Range(upResult')
      <4>1. (Pos(upStack[1].elem))' = Pos(h)
        BY <2>1 DEF Pos
      <4> QED
        BY <1>1, <1>2, <1>3, <4>1, SameProblem
    <3> QED
      BY <2>1, <3>1, <3>2 DEF VisitedAdded
  <2> QED
    BY <1>4, <1>5, <2>2, <2>3, <2>4, SameProblem DEF ClimbInv
<1> QED
  BY <1>6, <1>7

\* A call is made for a predecessor that is missing.
LEMMA ClimbNeeded ==
  ASSUME Sorting, ClimbInv, UpNeeded, UNCHANGED <<items, edges, layout>>
  PROVE  ClimbInv'
<1>1. PICK p \in UpTop.missing :
        upStack' = Append([upStack EXCEPT ![Len(upStack)].missing = @ \ {p}], UpCall(p))
  BY DEF UpNeeded
<1>2. /\ phase = "up" /\ phase' = phase /\ upStack # <<>> /\ todo' = todo
      /\ upResult' = upResult
  BY DEF UpNeeded
<1> DEFINE n == Len(upStack)
           x == [UpTop EXCEPT !.missing = @ \ {p}]
           s == [upStack EXCEPT ![Len(upStack)] = x]
<1>3. /\ n \in Nat \ {0} /\ upStack \in Seq(UpFrames) /\ UpTop = upStack[n] /\ UpTop \in UpFrames
      /\ \A k \in 1..n : upStack[k] \in UpFrames
  <2>1. upStack \in Seq(UpFrames)
    BY StackFacts DEF ClimbInv
  <2> QED
    BY <1>2, <2>1, EmptyFacts DEF UpTop
<1>4. p \in Statements /\ UpCall(p) \in UpFrames
  BY <1>3 DEF UpFrames, UpCall, Predecessors
<1>5. x \in UpFrames /\ x.elem = UpTop.elem /\ x.missing = UpTop.missing \ {p}
  BY <1>3 DEF UpFrames
<1>6. [upStack EXCEPT ![Len(upStack)].missing = @ \ {p}] = s
  BY DEF UpTop
<1> HIDE DEF x
<1>7. /\ s \in Seq(UpFrames) /\ Len(s) = n /\ s[n] = x
      /\ \A i \in 1..(n - 1) : s[i] = upStack[i]
  BY <1>2, <1>3, <1>5, ReplaceTopFacts
<1> HIDE DEF s
<1>8. /\ Len(upStack') = n + 1
      /\ \A i \in 1..n : upStack'[i] = s[i]
      /\ upStack'[n + 1] = UpCall(p)
  <2>1. upStack' = Append(s, UpCall(p))
    BY <1>1, <1>6
  <2> QED
    BY <1>4, <1>7, <2>1, AppendFacts
<1> HIDE DEF n
<1>9. /\ \A k \in 1..n : /\ upStack'[k].elem = upStack[k].elem
                         /\ upStack'[k].missing \subseteq upStack[k].missing
      /\ upStack'[n].missing = upStack[n].missing \ {p}
      /\ upStack'[n + 1].elem = p
      /\ upStack'[n + 1].missing = Predecessors(p) \ Range(upResult)
      /\ p \in upStack[n].missing /\ n \in 1..n
  <2>1. ASSUME NEW k \in 1..n
        PROVE  /\ upStack'[k].elem = upStack[k].elem
               /\ upStack'[k].missing \subseteq upStack[k].missing
    <3>1. CASE k = n
      BY <1>3, <1>5, <1>7, <1>8, <3>1
    <3>2. CASE k # n
      <4>1. k \in 1..(n - 1)
        BY <1>3, <3>2
      <4> QED
        BY <1>7, <1>8, <4>1
    <3> QED
      BY <3>1, <3>2
  <2>2. n \in 1..n /\ upStack'[n] = x
    BY <1>3, <1>7, <1>8
  <2> QED
    BY <1>3, <1>5, <1>8, <2>1, <2>2 DEF UpCall
<1>10. CallsClimb'
  <2>0. /\ \A k \in 1..n : upStack[k].missing \subseteq Predecessors(upStack[k].elem)
        /\ \A k \in 1..(n - 1) : /\ upStack[k + 1].elem \in Predecessors(upStack[k].elem)
                                 /\ upStack[k + 1].elem \notin upStack[k].missing
    BY DEF ClimbInv, CallsClimb, n
  <2>1. ASSUME NEW k \in 1..(n + 1)
        PROVE  upStack'[k].missing \subseteq Predecessors(upStack'[k].elem)
    <3>1. CASE k = n + 1
      BY <1>9, <3>1
    <3>2. CASE k # n + 1
      <4>1. k \in 1..n
        BY <1>3, <3>2
      <4> QED
        BY <1>9, <2>0, <4>1
    <3> QED
      BY <3>1, <3>2
  <2>2. ASSUME NEW k \in 1..n
        PROVE  /\ upStack'[k + 1].elem \in Predecessors(upStack'[k].elem)
               /\ upStack'[k + 1].elem \notin upStack'[k].missing
    <3>1. CASE k = n
      <4>1. p \in Predecessors(upStack[n].elem)
        BY <1>9, <2>0
      <4> QED
        BY <1>9, <3>1, <4>1
    <3>2. CASE k # n
      <4>1. k \in 1..(n - 1) /\ k + 1 \in 1..n
        BY <1>3, <3>2
      <4> QED
        BY <1>9, <2>0, <4>1
    <3> QED
      BY <3>1, <3>2
  <2>3. Len(upStack') - 1 = n
    BY <1>3, <1>8
  <2> QED
    BY <1>8, <2>1, <2>2, <2>3, SameProblem DEF CallsClimb
<1>11. VisitedAdded'
  <2>1. upStack' # <<>> /\ upStack'[1].elem = upStack[1].elem
    <3>1. 1 \in 1..n /\ Len(upStack') # 0
      BY <1>3, <1>8
    <3> QED
      BY <1>9, <3>1
  <2>2. Visited' = Visited
    BY <1>2, SameProblem DEF Visited
  <2> QED
    BY <1>2, <2>1, <2>2, SameProblem DEF ClimbInv, VisitedAdded
<1>12. Unadded => Unadded'
  <2> SUFFICES ASSUME Unadded, NEW k \in 1..(n + 1)
               PROVE  /\ upStack'[k].elem \notin Range(upResult)
                      /\ upStack'[k].missing \cap Range(upResult) = {}
    BY <1>2, <1>8 DEF Unadded
  <2>0. \A j \in 1..n : /\ upStack[j].elem \notin Range(upResult)
                        /\ upStack[j].missing \cap Range(upResult) = {}
    BY DEF Unadded, n
  <2>1. CASE k = n + 1
    BY <1>9, <2>0, <2>1
  <2>2. CASE k # n + 1
    <3>1. k \in 1..n
      BY <1>3, <2>2
    <3> QED
      BY <1>9, <2>0, <3>1
  <2> QED
    BY <2>1, <2>2
<1>13. /\ UpInPlace => UpInPlace'
       /\ IsInjective(upResult) => IsInjective(upResult)'
  BY <1>2, SameProblem DEF UpInPlace, EarlierIn, IsInjective
<1> QED
  BY <1>10, <1>11, <1>12, <1>13, SameProblem DEF ClimbInv

\* An item is inserted.
LEMMA ClimbInsert ==
  ASSUME Sorting, ClimbInv, UpInsert, Acyclic(edges), UNCHANGED <<items, edges, layout>>
  PROVE  ClimbInv'
<1> DEFINE n == Len(upStack)
           x == UpTop.elem
<1>1. /\ phase = "up" /\ phase' = phase /\ upStack # <<>> /\ todo' = todo
      /\ upResult' = Append(upResult, x)
      /\ upStack' = SubSeq(upStack, 1, n - 1)
  BY DEF UpInsert
<1>2. /\ n \in Nat \ {0} /\ upStack \in Seq(UpFrames) /\ UpTop = upStack[n] /\ n \in 1..n
      /\ x \in Range(items) /\ x \in Statements /\ upResult \in Seq(Statements)
      /\ Len(upResult) \in Nat
  <2>1. upStack \in Seq(UpFrames) /\ upResult \in Seq(Statements)
    BY DEF Sorting, SortInv, SortTypeOK
  <2>2. n \in Nat \ {0}
    BY <1>1, <2>1, EmptyFacts
  <2>3. n \in 1..n
    BY <2>2
  <2> QED
    BY <2>1, <2>2, <2>3, StackFacts, EmptyFacts DEF ClimbInv, UpTop
<1>3. Len(upStack') = n - 1 /\ \A i \in 1..(n - 1) : upStack'[i] = upStack[i]
  BY <1>1, <1>2, FrontFacts
<1>4. /\ Range(upResult') = Range(upResult) \cup {x}
      /\ Len(upResult') = Len(upResult) + 1
      /\ \A i \in 1..Len(upResult) : upResult'[i] = upResult[i]
      /\ upResult'[Len(upResult) + 1] = x
      /\ DOMAIN upResult = 1..Len(upResult)
  BY <1>1, <1>2, AppendFacts, EmptyFacts
<1> HIDE DEF n, x
<1>5. CallsClimb'
  <2>1. /\ \A k \in 1..n : upStack[k].missing \subseteq Predecessors(upStack[k].elem)
        /\ \A k \in 1..(n - 1) : /\ upStack[k + 1].elem \in Predecessors(upStack[k].elem)
                                 /\ upStack[k + 1].elem \notin upStack[k].missing
    BY DEF ClimbInv, CallsClimb, n
  <2>2. /\ \A k \in 1..(n - 1) : k \in 1..n
        /\ \A k \in 1..((n - 1) - 1) : k \in 1..(n - 1) /\ k + 1 \in 1..(n - 1)
    BY <1>2
  <2> QED
    BY <1>3, <2>1, <2>2, SameProblem DEF CallsClimb
<1>6. n = 1 => upStack[1].elem = x
  BY <1>2 DEF x
<1>7. VisitedAdded'
  <2>0. Visited' = Visited
    BY <1>1, SameProblem DEF Visited
  <2>1. /\ Visited \subseteq Range(upResult) \cup {upStack[1].elem}
        /\ \A s \in Range(items) : Pos(s) < Pos(upStack[1].elem) => s \in Range(upResult)
    BY <1>1 DEF ClimbInv, VisitedAdded
  <2>2. CASE n = 1
    <3>1. upStack' = <<>>
      BY <1>2, <1>3, <2>2
    <3> QED
      BY <1>1, <1>4, <1>6, <2>0, <2>1, <2>2, <3>1 DEF VisitedAdded
  <2>3. CASE n # 1
    <3>1. upStack' # <<>> /\ upStack'[1] = upStack[1]
      <4>1. 1 \in 1..(n - 1) /\ Len(upStack') # 0
        BY <1>2, <1>3, <2>3
      <4> QED
        BY <1>3, <4>1
    <3>2. Visited' \subseteq Range(upResult') \cup {upStack'[1].elem}
      BY <1>4, <2>0, <2>1, <3>1
    <3>3. (Pos(upStack[1].elem))' = Pos(upStack[1].elem)
      BY <3>1 DEF Pos
    <3>4. \A s \in Range(items') : Pos(s)' < (Pos(upStack[1].elem))' => s \in Range(upResult')
      BY <1>4, <2>1, <3>3, SameProblem
    <3> QED
      BY <1>1, <3>1, <3>2, <3>4 DEF VisitedAdded
  <2> QED
    BY <2>2, <2>3
<1>8. ASSUME FirstRepair PROVE (Unadded /\ IsInjective(upResult) /\ UpInPlace)'
  <2>0. /\ \A k \in 1..(n - 1) : x # upStack[k].elem /\ x \notin upStack[k].missing
        /\ n >= 2 => Needed(x)
    BY <1>1, <1>8, InsertedNext DEF ClimbInv, n, x
  <2>1. Unadded'
    <3>1. \A k \in 1..n : /\ upStack[k].elem \notin Range(upResult)
                          /\ upStack[k].missing \cap Range(upResult) = {}
      BY <1>8 DEF ClimbInv, Unadded, n
    <3>2. \A k \in 1..(n - 1) : k \in 1..n
      BY <1>2
    <3> QED
      BY <1>3, <1>4, <2>0, <3>1, <3>2 DEF Unadded
  <2>2. x \notin Range(upResult)
    BY <1>2, <1>8 DEF ClimbInv, Unadded, n, x
  <2>3. IsInjective(upResult)'
    <3>1. IsInjective(Append(upResult, x))
      BY <1>2, <1>8, <2>2, AppendOnce DEF ClimbInv
    <3> QED
      BY <1>1, <3>1 DEF IsInjective, x
  <2>4. UpInPlace'
    <3> SUFFICES ASSUME NEW k \in 1..(Len(upResult) + 1), NEW s \in Range(items),
                        Pos(s) < Pos(upResult'[k])
                 PROVE  EarlierIn(upResult', k, s) \/ Needed(upResult'[k])
      <4>1. \A y : Pos(y)' = Pos(y) /\ (Needed(y)' <=> Needed(y))
        BY SameProblem
      <4> QED
        BY <1>4, <4>1 DEF UpInPlace, EarlierIn, Pos, Needed, Disturbed, Leads
    <3>1. CASE k # Len(upResult) + 1
      <4>1. k \in 1..Len(upResult) /\ upResult'[k] = upResult[k]
        BY <1>2, <1>4, <3>1
      <4>2. EarlierIn(upResult, k, s) \/ Needed(upResult[k])
        BY <1>8, <4>1 DEF ClimbInv, UpInPlace
      <4>3. \A j \in 1..(k - 1) : upResult'[j] = upResult[j]
        BY <1>2, <1>4, <4>1
      <4> QED
        BY <4>1, <4>2, <4>3 DEF EarlierIn
    <3>2. CASE k = Len(upResult) + 1 /\ n >= 2
      BY <1>4, <2>0, <3>2
    <3>3. CASE k = Len(upResult) + 1 /\ ~(n >= 2)
      <4>1. n = 1 /\ upResult'[k] = x /\ upStack[1].elem = x
        BY <1>2, <1>4, <1>6, <3>3
      <4>2. s \in Range(upResult)
        BY <1>1, <4>1 DEF ClimbInv, VisitedAdded
      <4>3. PICK j \in 1..Len(upResult) : upResult[j] = s
        BY <1>4, <4>2 DEF Range
      <4>4. j \in 1..(k - 1) /\ upResult'[j] = s
        BY <1>2, <1>4, <3>3, <4>3
      <4> QED
        BY <4>4 DEF EarlierIn
    <3> QED
      BY <3>1, <3>2, <3>3
  <2> QED
    BY <2>1, <2>3, <2>4
<1> QED
  BY <1>5, <1>7, <1>8, SameProblem DEF ClimbInv

\* What has been visited is in the result or follows the target of the new edge.
LEMMA BehindTarget ==
  ASSUME Sorting, ShiftInv, phase = "down", NEW s \in Visited
  PROVE  (\E j \in 1..Len(downResult) : downResult[j] = s) \/ After(s)
<1>1. s \in Waiting \/ s \in Range(downResult)
  BY DEF Sorting, PermInv, PhasesOK
<1>2. s \in Waiting => After(s)
  BY DEF ShiftInv, Unsettled
<1>3. DOMAIN downResult = 1..Len(downResult)
  BY SortingFacts, EmptyFacts
<1> QED
  BY <1>1, <1>2, <1>3 DEF Range

\* An item with all that precedes it visited may be appended.
LEMMA ShiftAppend ==
  ASSUME Sorting, ShiftInv, phase = "down", UNCHANGED <<items, edges, layout>>,
         NEW x \in Statements, downResult' = Append(downResult, x),
         \A s \in Range(items) : Pos(s) < Pos(x) => s \in Visited
  PROVE  DownInPlace'
<1>1. downResult \in Seq(Statements) /\ Len(downResult) \in Nat
  BY SortingFacts, EmptyFacts
<1>2. /\ Len(downResult') = Len(downResult) + 1
      /\ \A i \in 1..Len(downResult) : downResult'[i] = downResult[i]
      /\ downResult'[Len(downResult) + 1] = x
  BY <1>1, AppendFacts
<1> SUFFICES ASSUME NEW k \in 1..(Len(downResult) + 1), NEW s \in Range(items),
                    Pos(s) < Pos(downResult'[k])
             PROVE  EarlierIn(downResult', k, s) \/ After(s)
  <2>1. \A y : Pos(y)' = Pos(y) /\ (After(y)' <=> After(y))
    BY SameProblem
  <2> QED
    BY <1>2, <2>1 DEF DownInPlace, EarlierIn, Pos, After, Disturbed, Leads
<1>3. CASE k # Len(downResult) + 1
  <2>1. k \in 1..Len(downResult) /\ downResult'[k] = downResult[k]
    BY <1>1, <1>2, <1>3
  <2>2. EarlierIn(downResult, k, s) \/ After(s)
    BY <2>1 DEF ShiftInv, DownInPlace
  <2>3. \A j \in 1..(k - 1) : downResult'[j] = downResult[j]
    BY <1>1, <1>2, <2>1
  <2> QED
    BY <2>2, <2>3 DEF EarlierIn
<1>4. CASE k = Len(downResult) + 1
  <2>1. s \in Visited
    BY <1>2, <1>4
  <2>2. CASE After(s)
    BY <2>2
  <2>3. CASE ~After(s)
    <3>1. PICK j \in 1..Len(downResult) : downResult[j] = s
      BY <2>1, <2>3, BehindTarget
    <3>2. j \in 1..(k - 1) /\ downResult'[j] = s
      BY <1>1, <1>2, <1>4, <3>1
    <3> QED
      BY <3>2 DEF EarlierIn
  <2> QED
    BY <2>2, <2>3
<1> QED
  BY <1>3, <1>4

\* Every step of the downward sort keeps ShiftInv.
LEMMA ShiftStep ==
  ASSUME Sorting, ShiftInv, [SortNext]_sortVars
  PROVE  ShiftInv'
<1>0. UNCHANGED <<items, edges, layout>>
  BY DEF SortNext, sortVars
<1>1. ASSUME Waiting' \subseteq Waiting PROVE Unsettled'
  BY <1>0, <1>1, SameProblem DEF ShiftInv, Unsettled
<1>2. ASSUME downResult' = downResult PROVE DownInPlace'
  BY <1>0, <1>2, SameProblem DEF ShiftInv, DownInPlace, EarlierIn
<1>3. CASE \/ UpItem \/ UpNeeded \/ UpInsert \/ UpDone \/ DownReturn \/ DownDone
           \/ UNCHANGED sortVars
  <2>1. downResult' = downResult /\ pendingNeed' = pendingNeed
    BY <1>3 DEF UpItem, UpNeeded, UpInsert, UpDone, DownReturn, DownDone, sortVars, sorting
  <2> QED
    BY <1>1, <1>2, <2>1 DEF Waiting, ShiftInv
<1>4. CASE DownItemReady
  <2>1. /\ phase = "down" /\ todo # <<>> /\ todo' = Tail(todo)
        /\ downResult' = Append(downResult, Head(todo)) /\ pendingNeed' = pendingNeed
    BY <1>4 DEF DownItemReady
  <2>2. /\ Head(todo) \in Statements
        /\ \A s \in Range(items) : Pos(s) < Pos(Head(todo)) => s \in Visited
    BY <1>0, <2>1, VisitHead, SortingFacts DEF Sorting, PermInv
  <2>3. DownInPlace'
    BY <1>0, <2>1, <2>2, ShiftAppend
  <2> QED
    BY <1>1, <2>1, <2>3 DEF Waiting, ShiftInv
<1>5. CASE DownItemPending
  <2> DEFINE h == Head(todo)
  <2>1. /\ phase = "down" /\ todo # <<>> /\ todo' = Tail(todo) /\ ReadyToInsert(h) # {}
        /\ downResult' = downResult
        /\ pendingNeed' = [pendingNeed EXCEPT ![h] = ReadyToInsert(h)]
    BY <1>5 DEF DownItemPending
  <2>2. /\ h \in Statements /\ h \in Range(items)
        /\ \A s \in Range(items) : Pos(s) < Pos(h) => s \in Visited
    BY <1>0, <2>1, VisitHead, SortingFacts DEF Sorting, PermInv
  <2> HIDE DEF h
  <2>3. After(h)
    <3>1. PICK p \in Predecessors(h) : p \notin Range(downResult)
      BY <2>1 DEF ReadyToInsert
    <3>2. <<p, h>> \in edges
      BY <3>1 DEF Predecessors
    <3>3. CASE <<p, h>> \in Disturbed
      <4> DEFINE e == <<p, h>>
      <4>1. e \in Disturbed /\ e[2] = h
        BY <3>3
      <4> HIDE DEF e
      <4> QED
        BY <4>1 DEF After
    <3>4. CASE <<p, h>> \notin Disturbed
      <4>1. p \in Visited
        BY <2>2, <3>1, <3>4, EdgeDown
      <4>2. p \in Waiting
        BY <2>1, <3>1, <4>1 DEF Sorting, PermInv, PhasesOK
      <4>3. After(p)
        BY <4>2 DEF ShiftInv, Unsettled
      <4>4. PICK e \in Disturbed : p = e[2] \/ Leads(edges, e[2], p)
        BY <4>3 DEF After
      <4>5. Leads(edges, e[2], h)
        <5>1. CASE p = e[2]
          BY <3>2, <5>1, LeadsEdge
        <5>2. CASE Leads(edges, e[2], p)
          BY <3>2, <5>2, LeadsOn
        <5> QED
          BY <4>4, <5>1, <5>2
      <4> QED
        BY <4>5 DEF After
    <3> QED
      BY <3>3, <3>4
  <2>4. Waiting' \subseteq Waiting \cup {h}
    BY <2>1, SortingFacts DEF Waiting
  <2>5. Unsettled'
    BY <1>0, <2>3, <2>4, SameProblem DEF ShiftInv, Unsettled
  <2> QED
    BY <1>2, <2>1, <2>5 DEF ShiftInv
<1>6. CASE DownStillPending
  <2> DEFINE e == DownTop.entry
  <2>1. /\ phase = "down" /\ downStack # <<>> /\ e # Null /\ downResult' = downResult
        /\ pendingNeed' = [pendingNeed EXCEPT ![e] = StillNeeded]
    BY <1>6 DEF DownStillPending
  <2>2. e \in Waiting
    BY <2>1, TopFacts
  <2> HIDE DEF e
  <2>3. Waiting' \subseteq Waiting
    BY <2>1, <2>2, SortingFacts DEF Waiting
  <2> QED
    BY <1>1, <1>2, <2>1, <2>3 DEF ShiftInv
<1>7. CASE DownRelease
  <2> DEFINE e == DownTop.entry
  <2>1. /\ phase = "down" /\ downStack # <<>> /\ e # Null
        /\ downResult' = Append(downResult, e)
        /\ pendingNeed' = [pendingNeed EXCEPT ![e] = {}]
    BY <1>7 DEF DownRelease
  <2>2. e \in Waiting /\ e \in Statements /\ e \in Visited
    BY <2>1, TopFacts, SortingFacts
  <2> HIDE DEF e
  <2>3. Waiting' \subseteq Waiting
    BY <2>1, <2>2, SortingFacts DEF Waiting
  <2>4. ASSUME NEW s \in Range(items), Pos(s) < Pos(e) PROVE s \in Visited
    <3>1. /\ Pos(s) \in Nat /\ Pos(e) \in Nat /\ Pos(e) <= Len(items) - Len(todo)
          /\ Len(items) - Len(todo) \in Int
      BY <2>2, SortingFacts, EmptyFacts DEF Visited
    <3>2. Pos(s) <= Len(items) - Len(todo)
      BY <2>4, <3>1
    <3> QED
      BY <3>2 DEF Visited
  <2>5. DownInPlace'
    BY <1>0, <2>1, <2>2, <2>4, ShiftAppend
  <2> QED
    BY <1>1, <2>3, <2>5 DEF ShiftInv
<1> QED
  BY <1>3, <1>4, <1>5, <1>6, <1>7 DEF SortNext, SortStep

\* Every step keeps both.
Moving == Sorting /\ Acyclic(edges) /\ ClimbInv /\ ShiftInv

LEMMA MovingStep == Moving /\ [SortNext]_sortVars => Moving'
<1> SUFFICES ASSUME Moving, [SortNext]_sortVars PROVE Moving'
  OBVIOUS
<1>1. Sorting' /\ UNCHANGED <<items, edges, layout>>
  BY PermInvStep DEF Moving, SortNext, sortVars
<1>2. Acyclic(edges)'
  BY <1>1 DEF Moving, Acyclic, Leads
<1>3. ShiftInv'
  BY ShiftStep DEF Moving
<1>4. ClimbInv'
  <2>1. CASE UpItem
    BY <1>1, <2>1, ClimbItem DEF Moving
  <2>2. CASE UpNeeded
    BY <1>1, <2>2, ClimbNeeded DEF Moving
  <2>3. CASE UpInsert
    BY <1>1, <2>3, ClimbInsert DEF Moving
  <2>4. CASE UpDone
    <3>1. upResult' = upResult /\ upStack' = upStack /\ phase' # "up"
      BY <2>4 DEF UpDone
    <3> QED
      BY <1>1, <3>1, ClimbFrame DEF Moving
  <2>5. CASE DownItemReady \/ DownItemPending \/ DownStillPending \/ DownRelease
             \/ DownReturn \/ DownDone
    <3>1. upResult' = upResult /\ upStack' = upStack /\ phase' # "up"
      BY <2>5 DEF DownItemReady, DownItemPending, DownStillPending, DownRelease,
                  DownReturn, DownDone
    <3> QED
      BY <1>1, <3>1, ClimbFrame DEF Moving
  <2>6. CASE UNCHANGED sortVars
    BY <1>1, <2>6, ClimbFrame DEF Moving, sortVars, sorting
  <2> QED
    BY <2>1, <2>2, <2>3, <2>4, <2>5, <2>6 DEF SortNext, SortStep
<1> QED
  BY <1>1, <1>2, <1>3, <1>4 DEF Moving

\* Before anything is sorted nothing is in place or out of it.
LEMMA FreshMoving ==
  ASSUME Fresh, ProblemOK, SoundProblem(items, edges), Acyclic(edges)
  PROVE  Moving
<1>1. Sorting
  BY FreshSorting
<1>2. /\ upStack = <<>> /\ upResult = <<>> /\ downResult = <<>> /\ todo = items
      /\ Len(upStack) = 0 /\ Len(upResult) = 0 /\ Len(downResult) = 0
      /\ \A s \in Statements : pendingNeed[s] = {}
  BY DEF Fresh
<1>3. Visited = {}
  <2>1. \A s \in Range(items) : Pos(s) \in 1..Len(items)
    BY <1>1, SortingFacts
  <2>2. Len(items) - Len(todo) = 0
    BY <1>1, <1>2, SortingFacts
  <2> QED
    BY <2>1, <2>2 DEF Visited
<1>4. CallsClimb /\ VisitedAdded /\ Unadded
  BY <1>2, <1>3 DEF CallsClimb, VisitedAdded, Unadded
<1>5. IsInjective(upResult) /\ UpInPlace /\ DownInPlace
  BY <1>2 DEF IsInjective, UpInPlace, DownInPlace
<1>6. Unsettled
  BY <1>2 DEF Unsettled, Waiting
<1> QED
  BY <1>1, <1>4, <1>5, <1>6 DEF Moving, ClimbInv, ShiftInv

\* A list in which s stands in front of place k has it there.
LEMMA PlaceInFront ==
  ASSUME NEW list \in Seq(Statements), IsInjective(list), NEW m \in Range(list),
         NEW s, EarlierIn(list, Position(list, m), s)
  PROVE  ~Precedes(list, m, s)
<1>1. /\ \A i, j \in 1..Len(list) : list[i] = list[j] => i = j
      /\ Len(list) \in Nat
      /\ \E i \in 1..Len(list) : list[i] = m
  BY DEF IsInjective, Range
<1>2. Position(list, m) \in 1..Len(list)
  BY <1>1 DEF Position
<1>3. PICK j \in 1..(Position(list, m) - 1) : list[j] = s
  BY DEF EarlierIn
<1>4. j \in 1..Len(list) /\ j < Position(list, m) /\ j \in Nat
  BY <1>1, <1>2
<1>5. Position(list, s) = j
  BY <1>1, <1>3, <1>4 DEF Position
<1> QED
  BY <1>2, <1>4, <1>5 DEF Precedes

\* Then what moved had to.
LEMMA MovingMoves == Moving => MovesOnlyWhatItMust
<1> SUFFICES ASSUME Moving, phase = "sorted", FirstRepair,
                    NEW m \in Range(items) \X Range(items), Precedes(items, m[1], m[2])
             PROVE  /\ Precedes(upResult, m[2], m[1]) => Needed(m[2])
                    /\ Precedes(downResult, m[2], m[1]) => After(m[1])
  BY DEF MovesOnlyWhatItMust, Needed, After
<1>1. /\ upResult \in Seq(Statements) /\ IsInjective(upResult) /\ UpInPlace
      /\ Range(upResult) = Range(items)
  BY DEF Moving, ClimbInv, Sorting, SortInv, SortTypeOK, UpKeepsItems
<1>2. /\ downResult \in Seq(Statements) /\ IsInjective(downResult) /\ DownInPlace
      /\ Range(downResult) = Range(items)
  <2>1. DownPermutes
    BY SortingPermutes DEF Moving
  <2> QED
    BY <2>1, SortingFacts DEF Moving, ShiftInv, DownPermutes
<1>3. m[1] \in Range(items) /\ m[2] \in Range(items) /\ Pos(m[1]) < Pos(m[2])
  BY DEF Precedes, Pos
<1>4. ASSUME NEW list \in Seq(Statements), Range(list) = Range(items)
      PROVE  Position(list, m[2]) \in 1..Len(list) /\ list[Position(list, m[2])] = m[2]
  <2>1. \E i \in 1..Len(list) : list[i] = m[2]
    <3>1. DOMAIN list = 1..Len(list)
      BY EmptyFacts
    <3> QED
      BY <1>3, <1>4, <3>1 DEF Range
  <2> QED
    BY <2>1 DEF Position
<1>5. Precedes(upResult, m[2], m[1]) => Needed(m[2])
  <2>1. /\ Position(upResult, m[2]) \in 1..Len(upResult)
        /\ upResult[Position(upResult, m[2])] = m[2]
    BY <1>1, <1>4
  <2>2. EarlierIn(upResult, Position(upResult, m[2]), m[1]) \/ Needed(m[2])
    BY <1>1, <1>3, <2>1 DEF UpInPlace
  <2> QED
    BY <1>1, <1>3, <2>2, PlaceInFront
<1>6. Precedes(downResult, m[2], m[1]) => After(m[1])
  <2>1. /\ Position(downResult, m[2]) \in 1..Len(downResult)
        /\ downResult[Position(downResult, m[2])] = m[2]
    BY <1>2, <1>4
  <2>2. EarlierIn(downResult, Position(downResult, m[2]), m[1]) \/ After(m[1])
    BY <1>2, <1>3, <2>1 DEF DownInPlace
  <2> QED
    BY <1>2, <1>3, <2>2, PlaceInFront
<1> QED
  BY <1>5, <1>6

\* Then the result of sorting upwards is a permutation.
LEMMA MovingPermutes == Moving => UpPermutes
BY DEF Moving, Sorting, SortInv, ClimbInv, UpPermutes

\* orderItemsUp returns all items, in a first repair each of them once, for any
\* list without repetitions that is in the order of all edges but one, any acyclic
\* graph that was reduced before that edge came, and any layout.
THEOREM UpAddsOnce ==
  ASSUME \A p \in Problems : SoundProblem(p[1], p[2]) /\ Acyclic(p[2])
  PROVE  SortSpec => []UpPermutes
<1>1. SortInit => Moving
  <2> SUFFICES ASSUME SortInit PROVE Moving
    OBVIOUS
  <2>1. SoundProblem(items, edges) /\ Acyclic(edges)
    BY DEF SortInit
  <2> QED
    BY <2>1, InitFresh, FreshMoving
<1>2. Moving /\ [SortNext]_sortVars => Moving'
  BY MovingStep
<1>3. Moving => UpPermutes
  BY MovingPermutes
<1> QED
  BY <1>1, <1>2, <1>3, PTL DEF SortSpec

\* What moves in such a repair has to: upwards only what must precede the source of
\* the new edge, downwards only what must follow its target.
THEOREM SortsMoveLittle ==
  ASSUME \A p \in Problems : SoundProblem(p[1], p[2]) /\ Acyclic(p[2])
  PROVE  SortSpec => []MovesOnlyWhatItMust
<1>1. SortInit => Moving
  <2> SUFFICES ASSUME SortInit PROVE Moving
    OBVIOUS
  <2>1. SoundProblem(items, edges) /\ Acyclic(edges)
    BY DEF SortInit
  <2> QED
    BY <2>1, InitFresh, FreshMoving
<1>2. Moving /\ [SortNext]_sortVars => Moving'
  BY MovingStep
<1> QED
  BY <1>1, <1>2, MovingMoves, PTL DEF SortSpec
================================================================================
