---------------------------- MODULE StatementOrder ----------------------------
(***************************************************************************)
(* A program under repair, as StatementOrder and PartialOrder keep it: the *)
(* lists of statements, and a graph over them that says which must stay in *)
(* front of which.  The module follows one branch of the search: from the  *)
(* parsed program through the black edges learnt from good traces and a    *)
(* number of repairs, each of which reorders one list or wraps a part of   *)
(* it into an atomic section.                                              *)
(*                                                                         *)
(* A reordering runs the two sorts of OrderItems, whose steps are steps of *)
(* this module.  The program is one function body of simple statements;    *)
(* atomic sections, the only structure a repair adds, may nest.            *)
(***************************************************************************)
EXTENDS OrderItems

CONSTANTS Body,            \* the list of the function's statements
          Program,         \* the statements, by line number
          Sections,        \* the Ids of new atomic sections
          Calls,           \* the statements that are function calls
          Text,            \* the statements in the order of the source text
          MaxBlackEdges,   \* bound on the black edges
          MaxRepairs       \* bound on the repairs

ASSUME StatementOrderAssumption ==
  /\ Program \subseteq Nat /\ Sections \subseteq Int /\ IsFiniteSet(Sections)
  /\ Statements = Program \cup Sections /\ Program \cap Sections = {}
  /\ Calls \subseteq Program
  /\ Body \notin Statements \cup {Null}
  /\ Text \in Seq(Program) /\ Range(Text) = Program
  /\ \A i, j \in 1..Len(Text) : i < j => Text[i] < Text[j]
  /\ MaxBlackEdges \in Nat /\ MaxRepairs \in Nat /\ MaxRepairs <= Cardinality(Sections)

VARIABLES
  lists,      \* the statements of the body and of every section
  bucket,     \* PartialOrder.elementBuckets: whose list an element is in
  order,      \* PartialOrder.graph, its edges
  reorder,    \* the red edge <<en1, en2>> being integrated, <<>> between two
  required,   \* history: the pairs of statements whose order was decided
  blacks, repairs   \* how many black edges and repairs there were

program == <<lists, bucket, order, required, blacks, repairs>>
orderVars == <<program, reorder, sortVars>>

Owners == {Body} \cup Sections

\* The statements an element of a list consists of: a section holds what is in
\* its list and, with a section in it, what that one holds.
Leaves(s) ==
  IF s \in Program THEN {s}
  ELSE {t \in Program :
          /\ bucket[t] \in Sections
          /\ \A around \in SUBSET Sections :
               /\ bucket[t] \in around
               /\ \A u \in around : bucket[u] \in Sections => bucket[u] \in around
               => s \in around}
-------------------------------------------------------------------------------
\* nothing is reduced
Reduced_Bug(rel) == rel

\* PartialOrder.reduced: an edge goes if a longer path leads the same way.
Reduced(rel) ==
  LET paths == Paths(rel)
  IN  {e \in rel : \A s \in Statements : ~(<<e[1], s>> \in paths /\ <<s, e[2]>> \in paths)}

\* getPartialOrder: two statements that interfere keep the order of the text.
StartOrder ==
  /\ \E conflicts \in SUBSET {e \in Program \X Program : e[1] < e[2]} :
       required = conflicts /\ order = Reduced(conflicts)
  /\ lists = [o \in Owners |-> IF o = Body THEN Text ELSE <<>>]
  /\ bucket = [s \in Statements |-> IF s \in Program THEN Body ELSE Null]
  /\ reorder = <<>>
  /\ blacks = 0 /\ repairs = 0
  /\ items = <<>> /\ edges = {} /\ layout \in Layouts
  /\ phase = "sorted" /\ todo = <<>>
  /\ upResult = <<>> /\ upStack = <<>> /\ downResult = <<>> /\ downStack = <<>>
  /\ pendingNeed = [s \in Statements |-> {}]
  /\ head = [b \in 1..Buckets |-> Null]
  /\ next = [s \in Statements |-> Null]

\* the edge is taken as the trace has it
AddBlackEdge_Bug ==
  /\ reorder = <<>> /\ repairs = 0 /\ blacks < MaxBlackEdges
  /\ \E s, t \in Program :
       /\ s # t
       /\ order' = order \cup {<<s, t>>}
       /\ required' = required \cup {<<s, t>>}
  /\ blacks' = blacks + 1
  /\ UNCHANGED <<lists, bucket, reorder, repairs, sortVars>>

\* addBlackEdge, on the parsed program: two statements happened in the order of
\* the text in some good trace, so they shall stay in this order.  The edge is
\* added to the reduced graph as it is.
AddBlackEdge ==
  /\ reorder = <<>> /\ repairs = 0 /\ blacks < MaxBlackEdges
  /\ \E s, t \in Program :
       /\ s < t
       /\ order' = order \cup {<<s, t>>}
       /\ required' = required \cup {<<s, t>>}
  /\ blacks' = blacks + 1
  /\ UNCHANGED <<lists, bucket, reorder, repairs, sortVars>>

\* Both sorts start anew, with the red edge in the graph; between two repairs
\* their variables are empty.
SetSorts(now, list, rel) ==
  /\ items' = list /\ edges' = rel
  /\ phase' = now /\ todo' = list
  /\ upResult' = <<>> /\ upStack' = <<>> /\ downResult' = <<>> /\ downStack' = <<>>
  /\ pendingNeed' = [s \in Statements |-> {}]
  /\ head' = [b \in 1..Buckets |-> Null]
  /\ next' = [s \in Statements |-> Null]
  /\ UNCHANGED layout

\* getSameLevel: what a red edge may join.
SameLevel == {e \in Statements \X Statements :
                e[1] # e[2] /\ bucket[e[1]] = bucket[e[2]] /\ bucket[e[1]] # Null}

\* integrate: the first shall run before the second.  If the order forbids it,
\* only an atomic section is tried.  (A list that lost its one-to-one shape is
\* not repaired further: a bound of the model.)
Integrate ==
  /\ reorder = <<>> /\ repairs < MaxRepairs
  /\ LET ordered == Paths(order)
     IN  \E red \in SameLevel \ ordered :
           /\ IsInjective(lists[bucket[red[1]]])
           /\ reorder' = red
           /\ IF <<red[2], red[1]>> \in ordered THEN UNCHANGED sortVars
              ELSE SetSorts("up", lists[bucket[red[1]]], order \cup {red})
  /\ UNCHANGED program

Sort == SortNext /\ UNCHANGED <<program, reorder>>

\* The sorts were run and the candidates are there.
Sorted == reorder # <<>> /\ phase = "sorted"
Back == reorder' = <<>> /\ SetSorts("sorted", <<>>, {})

Reordered(result) ==
  /\ lists' = [lists EXCEPT ![bucket[reorder[1]]] = result]
  /\ order' = edges
  /\ required' = required \cup (Leaves(reorder[1]) \X Leaves(reorder[2]))
  /\ repairs' = repairs + 1
  /\ UNCHANGED <<bucket, blacks>>
  /\ Back

\* "reordered" is set by the second sort, which changes the list just when the
\* first one does.
MoveUp ==
  /\ Sorted /\ downResult # items
  /\ Reordered(upResult)

MoveDown ==
  /\ Sorted /\ downResult # items /\ upResult # downResult
  /\ Reordered(downResult)

\* the section's edges to the outside are forgotten
ElementMerge_Open_Bug(section, members) ==
  LET old == Range(members)
  IN  {e \in order : e[1] \notin old /\ e[2] \notin old}
        \cup {<<members[i], members[i + 1]>> : i \in 1..(Len(members) - 1)}

\* the edges go to the bucket of the members, not to the section
ElementMerge_Bucket_Bug(section, members) ==
  LET old == Range(members)
      from(s) == IF s \in old THEN bucket[s] ELSE s
  IN  {e \in order : e[1] \notin old /\ e[2] \notin old}
        \cup {<<from(e[1]), from(e[2])>> : e \in {f \in order : f[1] \in old <=> f[2] \notin old}}
        \cup {<<members[i], members[i + 1]>> : i \in 1..(Len(members) - 1)}

\* PartialOrder.elementMerge: edges between a member and the outside become the
\* section's, and the members form a chain.
ElementMerge(section, members) ==
  LET old == Range(members)
      from(s) == IF s \in old THEN section ELSE s
  IN  {e \in order : e[1] \notin old /\ e[2] \notin old}
        \cup {<<from(e[1]), from(e[2])>> : e \in {f \in order : f[1] \in old <=> f[2] \notin old}}
        \cup {<<members[i], members[i + 1]>> : i \in 1..(Len(members) - 1)}

\* the parents are not looked at
InAtomicSection_Bug(s) == FALSE

InAtomicSection(s) == bucket[s] \in Sections

\* the last member stays in the list, too
AroundSection_Bug(list, i, j, section) ==
  SubSeq(list, 1, i - 1) \o <<section>> \o SubSeq(list, j, Len(list))

\* (prefix :+ newAs) ++ suffix
AroundSection(list, i, j, section) ==
  SubSeq(list, 1, i - 1) \o <<section>> \o SubSeq(list, j + 1, Len(list))

\* integrateAtomicSection(en2, en1): the part of the list from one to the other
\* becomes the list of a new section, unless it calls a function or is itself
\* part of a section.
MakeAtomic ==
  /\ Sorted
  /\ ~InAtomicSection(reorder[1])
  /\ LET owner == bucket[reorder[1]]
         list == lists[owner]
         section == CHOOSE s \in Sections : bucket[s] = Null
     IN  \E i, j \in 1..Len(list) :
           /\ i < j /\ {list[i], list[j]} = Range(reorder)
           /\ LET members == SubSeq(list, i, j)
              IN  /\ \A k \in 1..Len(members) : Leaves(members[k]) \cap Calls = {}
                  /\ lists' = [lists EXCEPT ![owner] = AroundSection(list, i, j, section),
                                            ![section] = members]
                  /\ bucket' = [s \in Statements |->
                                  IF s = section THEN owner
                                  ELSE IF s \in Range(members) THEN section ELSE bucket[s]]
                  /\ order' = ElementMerge(section, members)
  /\ repairs' = repairs + 1
  /\ UNCHANGED <<required, blacks>>
  /\ Back

\* No candidate passes the checks: the search goes on with another red edge.
Reject == Sorted /\ Back /\ UNCHANGED program

OrderNext == AddBlackEdge \/ Integrate \/ Sort \/ MoveUp \/ MoveDown \/ MakeAtomic \/ Reject

OrderSpec == StartOrder /\ [][OrderNext]_orderVars
-------------------------------------------------------------------------------
OrderTypeOK ==
  /\ lists \in [Owners -> Seq(Statements)]
  /\ bucket \in [Statements -> Owners \cup {Null}]
  /\ order \subseteq Statements \X Statements
  /\ reorder \in {<<>>} \cup (Statements \X Statements)
  /\ required \subseteq Program \X Program
  /\ blacks \in 0..MaxBlackEdges /\ repairs \in 0..MaxRepairs

InFront(list, s, t) ==
  \A j \in 1..Len(list) : list[j] = t => \E i \in 1..(j - 1) : list[i] = s

\* The graph and the program agree: the two ends of an edge are in one list, in
\* the order of the edge.  Nothing recomputes the graph after a repair, so the
\* reorderings, the merges of elementMerge and the black edges must keep it
\* right (an edge across lists makes the next sort throw, StatementOrder.scala:
\* 250 through PartialOrder.scala:220).
ListsRespectOrder ==
  \A e \in order : /\ bucket[e[1]] = bucket[e[2]] /\ bucket[e[1]] # Null
                   /\ InFront(lists[bucket[e[1]]], e[1], e[2])

\* Every decision stands: whatever was repaired since, two statements that
\* interfere, two that a black edge joins and two that an earlier reordering
\* joined still run in that order, although reduced, elementMerge and the sorts
\* drop, move and replace the edges that said so.
DependenciesKept ==
  \A r \in required :
    \E s, t \in Statements :
      /\ r[1] \in Leaves(s) /\ r[2] \in Leaves(t)
      /\ bucket[s] = bucket[t]
      /\ InFront(lists[bucket[s]], s, t)

\* The program keeps its statements: each list holds just the elements whose
\* bucket it is, and every statement is part of the body.
NothingLost ==
  /\ \A o \in Owners : Range(lists[o]) = {s \in Statements : bucket[s] = o}
  /\ UNION {Leaves(s) : s \in Range(lists[Body])} = Program

\* What was made atomic stays as it is: no later repair moves a statement out of
\* a section, into it or within it.
SectionsStay ==
  [][\A s \in Sections : lists[s] # <<>> => lists'[s] = lists[s]]_orderVars

\* No repair puts a statement into the program twice ("ensure we don't add
\* elements double", PartialOrder.scala:226).
NoStatementTwice == \A o \in Owners : IsInjective(lists[o])

\* And what does so is the result of sorting upwards, in a repair of a graph that
\* is no longer as PartialOrder.reduced left it: a first repair without black
\* edges, the result of sorting downwards and a new section repeat nothing.
OnlyMoveUpRepeats ==
  [][NoStatementTwice /\ ~NoStatementTwice' => MoveUp /\ (repairs > 0 \/ blacks > 0)]_orderVars
===============================================================================
