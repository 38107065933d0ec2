------------------------- MODULE StatementOrder_proofs -------------------------
(***************************************************************************)
(* Theorems about a program under repair (StatementOrder), for every       *)
(* program, every set of conflicts and every number of repairs: the graph  *)
(* and the lists agree, nothing is lost, and every decision stands.        *)
(***************************************************************************)
EXTENDS StatementOrder, OrderItems_proofs, FiniteSetTheorems

(***************************************************************************)
(* Paths of any length.                                                    *)
(***************************************************************************)

\* The pairs joined by a path: every set that holds what follows the first and
\* what follows its own elements holds the second.
Reach(rel) ==
  {e \in Statements \X Statements :
     \A T \in SUBSET Statements :
       (\A f \in rel : (f[1] = e[1] \/ f[1] \in T) => f[2] \in T) => e[2] \in T}

\* An edge is a path, and paths can be joined.
LEMMA ReachFacts ==
  ASSUME NEW rel, rel \subseteq Statements \X Statements
  PROVE  /\ rel \subseteq Reach(rel)
         /\ \A s, t, u : <<s, t>> \in Reach(rel) /\ <<t, u>> \in Reach(rel)
                           => <<s, u>> \in Reach(rel)
<1>1. ASSUME NEW e \in rel PROVE e \in Reach(rel)
  BY DEF Reach
<1>2. ASSUME NEW s, NEW t, NEW u, <<s, t>> \in Reach(rel), <<t, u>> \in Reach(rel)
      PROVE  <<s, u>> \in Reach(rel)
  <2>1. s \in Statements /\ t \in Statements /\ u \in Statements
    BY <1>2 DEF Reach
  <2>2. ASSUME NEW T \in SUBSET Statements,
               \A f \in rel : (f[1] = s \/ f[1] \in T) => f[2] \in T
        PROVE  u \in T
    <3>1. t \in T
      BY <1>2, <2>2 DEF Reach
    <3>2. \A f \in rel : (f[1] = t \/ f[1] \in T) => f[2] \in T
      BY <2>2, <3>1
    <3> QED
      BY <1>2, <3>2 DEF Reach
  <2> QED
    BY <2>1, <2>2 DEF Reach
<1> QED
  BY <1>1, <1>2

\* More edges, more paths.
LEMMA ReachMore ==
  ASSUME NEW rel, NEW more, rel \subseteq more
  PROVE  Reach(rel) \subseteq Reach(more)
BY DEF Reach

\* A relation that joins the ends of every edge and can be followed on by edges
\* joins the ends of every path.
LEMMA ReachInduction ==
  ASSUME NEW rel, NEW s, NEW goal, goal \subseteq Statements,
         \A f \in rel : (f[1] = s \/ f[1] \in goal) => f[2] \in goal
  PROVE  \A t : <<s, t>> \in Reach(rel) => t \in goal
BY DEF Reach
\* The last edge of a path.
LEMMA ReachLast ==
  ASSUME NEW rel, rel \subseteq Statements \X Statements, NEW s, NEW t,
         <<s, t>> \in Reach(rel)
  PROVE  \E f \in rel : f[2] = t /\ (f[1] = s \/ <<s, f[1]>> \in Reach(rel))
<1> DEFINE goal == {u \in Statements :
                      \E f \in rel : f[2] = u /\ (f[1] = s \/ <<s, f[1]>> \in Reach(rel))}
<1>1. s \in Statements /\ t \in Statements
  BY DEF Reach
<1>2. ASSUME NEW f \in rel, f[1] = s \/ f[1] \in goal PROVE f[2] \in goal
  <2>1. f = <<f[1], f[2]>> /\ f[1] \in Statements /\ f[2] \in Statements
    OBVIOUS
  <2>2. CASE f[1] = s
    BY <2>1, <2>2
  <2>3. CASE f[1] \in goal
    <3>1. PICK g \in rel : g[2] = f[1] /\ (g[1] = s \/ <<s, g[1]>> \in Reach(rel))
      BY <2>3
    <3>2. g = <<g[1], f[1]>> /\ g \in Reach(rel)
      BY <3>1, ReachFacts
    <3>3. <<s, f[1]>> \in Reach(rel)
      BY <3>1, <3>2, ReachFacts
    <3> QED
      BY <2>1, <3>3
  <2> QED
    BY <1>2, <2>2, <2>3
<1>3. t \in goal
  <2>1. goal \subseteq Statements
    OBVIOUS
  <2> HIDE DEF goal
  <2> QED
    BY <1>2, <2>1, ReachInduction
<1> QED
  BY <1>3

\* Paths joined from paths are paths.
LEMMA ReachClosed ==
  ASSUME NEW rel, rel \subseteq Statements \X Statements, NEW more, more \subseteq Reach(rel)
  PROVE  Reach(more) \subseteq Reach(rel)
<1> SUFFICES ASSUME NEW e \in Reach(more) PROVE e \in Reach(rel)
  OBVIOUS
<1> DEFINE goal == {u \in Statements : <<e[1], u>> \in Reach(rel)}
<1>1. e = <<e[1], e[2]>> /\ e[1] \in Statements /\ e[2] \in Statements
  BY DEF Reach
<1>2. ASSUME NEW f \in more, f[1] = e[1] \/ f[1] \in goal PROVE f[2] \in goal
  <2>1. f \in Reach(rel)
    OBVIOUS
  <2>2. f = <<f[1], f[2]>> /\ f[2] \in Statements
    BY <2>1 DEF Reach
  <2> QED
    BY <1>2, <2>1, <2>2, ReachFacts
<1>3. goal \subseteq Statements
  OBVIOUS
<1>4. \A u : <<e[1], u>> \in Reach(more) => u \in goal
  <2> HIDE DEF goal
  <2> QED
    BY <1>2, <1>3, ReachInduction
<1> QED
  BY <1>1, <1>4

\* The least number of a set of numbers.
LEMMA LeastOf ==
  ASSUME NEW S, S \subseteq Nat, S # {}
  PROVE  \E least \in S : \A n \in S : least <= n
<1> DEFINE less == {pair \in Nat \X Nat : pair[1] < pair[2]}
<1>1. IsWellFoundedOn(less, Nat)
  BY NatLessThanWellFounded DEF OpToRel
<1>2. PICK least \in S : \A y \in S : <<y, least>> \notin less
  BY <1>1, WFMin
<1>3. ASSUME NEW n \in S PROVE least <= n
  <2>1. ~(n < least)
    BY <1>2
  <2> QED
    BY <2>1
<1> QED
  BY <1>3

\* There are finitely many statements.
LEMMA StatementsFinite == IsFiniteSet(Statements)
<1>1. Text \in Seq(Program) /\ Range(Text) = Program /\ Statements = Program \cup Sections
      /\ IsFiniteSet(Sections)
  BY StatementOrderAssumption
<1>2. IsFiniteSet(1..Len(Text))
  BY <1>1, FS_Interval
<1>3. Text \in Surjection(1..Len(Text), Program)
  BY <1>1 DEF Surjection, Range
<1>4. IsFiniteSet(Program)
  BY <1>2, <1>3, FS_Surjection
<1> QED
  BY <1>1, <1>4, FS_Union

\* Joining pairs adds paths, until there are none to add.
LEMMA JoinedFacts ==
  ASSUME NEW r, r \subseteq Statements \X Statements
  PROVE  /\ r \subseteq OneStepLonger(r) /\ OneStepLonger(r) \subseteq Statements \X Statements
         /\ Reach(OneStepLonger(r)) = Reach(r)
         /\ OneStepLonger(r) = r => Reach(r) = r
<1> DEFINE longer == OneStepLonger(r)
<1>1. ASSUME NEW e \in r, NEW f \in r, e[2] = f[1] PROVE <<e[1], f[2]>> \in longer
  <2>1. <<e, f>> \in r \X r /\ <<e, f>>[1] = e /\ <<e, f>>[2] = f
    OBVIOUS
  <2> QED
    BY <1>1, <2>1 DEF OneStepLonger
<1>2. ASSUME NEW e \in longer
      PROVE  e \in r \/ \E f, g \in r : f[2] = g[1] /\ e = <<f[1], g[2]>>
  BY DEF OneStepLonger
<1>3. r \subseteq longer
  BY DEF OneStepLonger
<1> HIDE DEF longer
<1>4. longer \subseteq Reach(r)
  <2> SUFFICES ASSUME NEW e \in longer, e \notin r PROVE e \in Reach(r)
    BY ReachFacts
  <2>1. PICK f, g \in r : f[2] = g[1] /\ e = <<f[1], g[2]>>
    BY <1>2
  <2>2. f = <<f[1], f[2]>> /\ g = <<f[2], g[2]>> /\ f \in Reach(r) /\ g \in Reach(r)
    BY <2>1, ReachFacts
  <2> QED
    BY <2>1, <2>2, ReachFacts
<1>5. Reach(r) \subseteq Statements \X Statements
  BY DEF Reach
<1>6. Reach(longer) = Reach(r)
  BY <1>3, <1>4, <1>5, ReachMore, ReachClosed
<1>7. ASSUME longer = r, NEW e \in Reach(r) PROVE e \in r
  <2> DEFINE goal == {u \in Statements : <<e[1], u>> \in r}
  <2>1. e = <<e[1], e[2]>>
    BY <1>5
  <2>2. ASSUME NEW f \in r, f[1] = e[1] \/ f[1] \in goal PROVE f[2] \in goal
    <3>1. f = <<f[1], f[2]>> /\ f[2] \in Statements
      OBVIOUS
    <3>2. CASE f[1] = e[1]
      BY <3>1, <3>2
    <3>3. CASE f[1] \in goal
      <4> DEFINE g == <<e[1], f[1]>>
      <4>1. g \in r /\ g[2] = f[1] /\ g[1] = e[1]
        BY <3>3
      <4> HIDE DEF g
      <4>2. <<g[1], f[2]>> \in r
        BY <1>1, <1>7, <4>1
      <4> QED
        BY <3>1, <4>1, <4>2
    <3> QED
      BY <2>2, <3>2, <3>3
  <2>3. goal \subseteq Statements
    OBVIOUS
  <2>4. \A u : <<e[1], u>> \in Reach(r) => u \in goal
    <3> HIDE DEF goal
    <3> QED
      BY <2>2, <2>3, ReachInduction
  <2> QED
    BY <2>1, <2>4
<1>8. r \subseteq Reach(r)
  BY ReachFacts
<1> QED
  BY <1>3, <1>4, <1>5, <1>6, <1>7, <1>8 DEF longer

\* What Paths computes are the pairs joined by a path.
LEMMA PathsAreReach ==
  ASSUME NEW rel, rel \subseteq Statements \X Statements
  PROVE  Paths(rel) = Reach(rel)
<1> DEFINE pairs == Statements \X Statements
           Solves(w) == w = [r \in SUBSET pairs |->
                               IF OneStepLonger(r) = r THEN r ELSE w[OneStepLonger(r)]]
           reach == [r \in SUBSET pairs |-> Reach(r)]
           found == CHOOSE w : Solves(w)
<1>1. Solves(reach)
  <2>1. ASSUME NEW r \in SUBSET pairs
        PROVE  reach[r] = IF OneStepLonger(r) = r THEN r ELSE reach[OneStepLonger(r)]
    <3>1. OneStepLonger(r) \in SUBSET pairs /\ Reach(OneStepLonger(r)) = Reach(r)
          /\ (OneStepLonger(r) = r => Reach(r) = r)
      BY JoinedFacts
    <3> QED
      BY <3>1
  <2>2. reach = [r \in SUBSET pairs |-> reach[r]]
    OBVIOUS
  <2> HIDE DEF reach, pairs
  <2> QED
    BY <2>1, <2>2
<1>2. Paths(rel) = found[rel]
  BY DEF Paths
<1>3. Solves(found)
  <2> HIDE DEF Solves
  <2> QED
    BY <1>1
<1> HIDE DEF found
<1>4. \A r \in SUBSET pairs :
        found[r] = IF OneStepLonger(r) = r THEN r ELSE found[OneStepLonger(r)]
  <2> HIDE DEF pairs
  <2> QED
    BY <1>3
<1>5. IsFiniteSet(pairs)
  BY StatementsFinite, FS_Product
<1> DEFINE size(r) == Cardinality(pairs \ r)
           wrong == {r \in SUBSET pairs : found[r] # Reach(r)}
           sizes == {size(r) : r \in wrong}
<1>6. \A r \in SUBSET pairs : IsFiniteSet(pairs \ r) /\ size(r) \in Nat
  BY <1>5, FS_Subset, FS_CardinalityType
<1>7. wrong = {}
  <2> SUFFICES ASSUME wrong # {} PROVE FALSE
    OBVIOUS
  <2>1. sizes \subseteq Nat /\ sizes # {}
    BY <1>6
  <2>2. PICK least \in sizes : \A n \in sizes : least <= n
    <3> HIDE DEF sizes
    <3> QED
      BY <2>1, LeastOf
  <2>3. PICK r \in wrong : least = size(r)
    OBVIOUS
  <2> DEFINE longer == OneStepLonger(r)
  <2>4. /\ r \subseteq longer /\ longer \in SUBSET pairs
        /\ Reach(longer) = Reach(r) /\ (longer = r => Reach(r) = r)
    BY JoinedFacts
  <2>5. longer # r /\ found[r] = found[longer]
    BY <1>4, <2>4
  <2> HIDE DEF longer
  <2>6. longer \in wrong
    BY <2>4, <2>5
  <2>7. size(longer) \in sizes
    BY <2>6
  <2>8. size(longer) < size(r)
    <3>1. pairs \ longer \subseteq pairs \ r /\ pairs \ longer # pairs \ r
      BY <2>4, <2>5
    <3>2. size(longer) <= size(r) /\ size(longer) # size(r)
      BY <1>6, <3>1, FS_Subset
    <3>3. size(longer) \in Nat /\ size(r) \in Nat
      BY <1>6, <2>3, <2>4
    <3> HIDE DEF size
    <3> QED
      BY <3>2, <3>3
  <2> QED
    <3>1. size(longer) \in Nat /\ size(r) \in Nat /\ size(r) <= size(longer)
      BY <1>6, <2>2, <2>3, <2>4, <2>7
    <3> HIDE DEF size
    <3> QED
      BY <2>8, <3>1
<1> QED
  BY <1>2, <1>7
-------------------------------------------------------------------------------
(***************************************************************************)
(* Lists.                                                                  *)
(***************************************************************************)

\* In front of, and in front again.
LEMMA InFrontTransitive ==
  ASSUME NEW list \in Seq(Statements), NEW s, NEW t, NEW u,
         InFront(list, s, t), InFront(list, t, u)
  PROVE  InFront(list, s, u)
<1> SUFFICES ASSUME NEW j \in 1..Len(list), list[j] = u
             PROVE  \E i \in 1..(j - 1) : list[i] = s
  BY DEF InFront
<1>1. PICK i \in 1..(j - 1) : list[i] = t
  BY DEF InFront
<1>2. i \in 1..Len(list)
  OBVIOUS
<1>3. PICK h \in 1..(i - 1) : list[h] = s
  BY <1>1, <1>2 DEF InFront
<1> QED
  BY <1>3

\* An item cannot be in front of itself.
LEMMA InFrontIrreflexive ==
  ASSUME NEW list \in Seq(Statements), NEW s, InFront(list, s, s)
  PROVE  s \notin Range(list)
<1> DEFINE less == {ss \in Nat \X Nat : ss[1] < ss[2]}
           places == {i \in 1..Len(list) : list[i] = s}
<1> SUFFICES ASSUME s \in Range(list) PROVE FALSE
  OBVIOUS
<1>1. places # {} /\ places \subseteq Nat
  BY EmptyFacts DEF Range
<1>2. IsWellFoundedOn(less, Nat)
  BY NatLessThanWellFounded DEF OpToRel
<1> HIDE DEF less
<1>3. PICK i \in places : \A j \in places : ~(<<j, i>> \in less)
  <2> HIDE DEF places
  <2> QED
    BY <1>1, <1>2, WFMin
<1>4. PICK j \in 1..(i - 1) : list[j] = s
  BY DEF InFront
<1>5. j \in places /\ j < i /\ i \in Nat /\ j \in Nat
  BY <1>4
<1> QED
  BY <1>3, <1>5 DEF less

\* A result of a sort has the ends of every edge in order.
LEMMA SortedInFront ==
  ASSUME edges \subseteq Statements \X Statements,
         NEW list \in Seq(Statements), PredecessorsBefore(list), NEW e \in edges
  PROVE  InFront(list, e[1], e[2])
<1> SUFFICES ASSUME NEW j \in 1..Len(list), list[j] = e[2]
             PROVE  \E i \in 1..(j - 1) : list[i] = e[1]
  BY DEF InFront
<1>1. e = <<e[1], e[2]>> /\ e[1] \in Statements
  OBVIOUS
<1>2. e[1] \in Predecessors(list[j])
  BY <1>1 DEF Predecessors
<1> QED
  BY <1>2 DEF PredecessorsBefore

\* A pair is not the empty tuple.
LEMMA PairsNotEmpty == \A A, B : \A e \in A \X B : e # <<>>
<1> SUFFICES ASSUME NEW A, NEW B, NEW a \in A, NEW b \in B PROVE <<a, b>> # <<>>
  OBVIOUS
<1>1. Len(<<a, b>>) = 2 /\ Len(<<>>) = 0
  OBVIOUS
<1> QED
  BY <1>1
-------------------------------------------------------------------------------
(***************************************************************************)
(* The inductive invariant.                                                *)
(***************************************************************************)

ListsMatchBuckets == \A o \in Owners : Range(lists[o]) = {s \in Statements : bucket[s] = o}

\* A section that holds something is part of the program.
SectionsInUse == \A s \in Statements : bucket[s] \in Sections => bucket[bucket[s]] # Null

UsedSections == {s \in Sections : bucket[s] # Null}

\* There is a new section for every repair that is left.
SectionsSuffice == Cardinality(UsedSections) <= repairs

\* Black edges are learnt on the parsed program.
Unrepaired == repairs = 0 =>
  /\ lists = [o \in Owners |-> IF o = Body THEN Text ELSE <<>>]
  /\ bucket = [s \in Statements |-> IF s \in Program THEN Body ELSE Null]

NothingToSort == items = <<>> /\ edges = {} /\ phase = "sorted"

\* What the sorts work on.
Integrating ==
  /\ reorder = <<>> => NothingToSort
  /\ reorder # <<>> =>
       /\ repairs < MaxRepairs
       /\ reorder \in SameLevel
       /\ IsInjective(lists[bucket[reorder[1]]])
       /\ \/ NothingToSort
          \/ items = lists[bucket[reorder[1]]] /\ edges = order \cup {reorder}

\* elementMerge made the members of a section a chain, and nothing takes it away.
SectionChains ==
  \A s \in Sections : \A i \in 1..(Len(lists[s]) - 1) :
    <<lists[s][i], lists[s][i + 1]>> \in order

\* What was decided, the graph still says: of the elements that contain the two
\* statements, some path leads from the first to the second.
Decided ==
  \A r \in required :
    \E s, t \in Statements :
      r[1] \in Leaves(s) /\ r[2] \in Leaves(t) /\ <<s, t>> \in Reach(order)

BodyWhole == UNION {Leaves(s) : s \in Range(lists[Body])} = Program

ProgramInv == /\ OrderTypeOK
              /\ ListsMatchBuckets /\ SectionsInUse /\ SectionsSuffice /\ Unrepaired
              /\ SectionChains /\ ListsRespectOrder /\ Decided /\ BodyWhole

OrderInv == ProgramInv /\ Integrating /\ Sorting /\ QuietInv

\* The program as it is, for the proofs about single steps.
LEMMA ProgramFacts ==
  ASSUME OrderTypeOK
  PROVE  /\ Statements = Program \cup Sections /\ Program \cap Sections = {}
         /\ Body \notin Statements /\ Body # Null /\ Null \notin Statements
         /\ Owners = {Body} \cup Sections /\ Body \in Owners
         /\ lists \in [Owners -> Seq(Statements)]
         /\ bucket \in [Statements -> Owners \cup {Null}]
         /\ order \subseteq Statements \X Statements
         /\ required \subseteq Program \X Program
         /\ MaxRepairs \in Nat /\ repairs \in Nat
         /\ Text \in Seq(Statements) /\ Range(Text) = Program
         /\ IsFiniteSet(Sections) /\ MaxRepairs <= Cardinality(Sections)
<1>1. Text \in Seq(Statements)
  <2>1. Text \in Seq(Program) /\ Program \subseteq Statements
    BY StatementOrderAssumption
  <2> QED
    BY <2>1
<1> QED
  BY <1>1, StatementOrderAssumption, OrderItemsAssumption DEF OrderTypeOK, Owners
-------------------------------------------------------------------------------
(***************************************************************************)
(* The sorts as part of a repair.                                          *)
(***************************************************************************)

\* Sorting starts on a problem as the theorems about the sorts want it.
LEMMA StartSorting ==
  ASSUME NEW now \in {"up", "sorted"}, NEW list \in Seq(Statements),
         NEW rel, rel \subseteq Statements \X Statements,
         now = "sorted" => list = <<>>,
         \A e \in rel : e[2] \in Range(list) => e[1] \in Range(list),
         SoundProblem(list, rel), SetSorts(now, list, rel), SortTypeOK
  PROVE  Sorting' /\ QuietInv'
<1>1. Fresh'
  BY OrderItemsAssumption DEF SetSorts, Fresh, SortTypeOK
<1>2. ProblemOK'
  BY DEF SetSorts, ProblemOK
<1>3. SoundProblem(items, edges)'
  BY DEF SetSorts, SoundProblem, Against, Precedes
<1>4. IsInjective(items)'
  BY DEF SetSorts, SoundProblem
<1>5. (Fresh /\ ProblemOK /\ SoundProblem(items, edges) => Sorting)'
  BY FreshSorting, PTL
<1>6. (Fresh /\ ProblemOK /\ IsInjective(items) => QuietInv)'
  BY FreshQuiet, PTL
<1> QED
  BY <1>1, <1>2, <1>3, <1>4, <1>5, <1>6

\* In a list without repetitions, in front of means at an earlier position.
LEMMA InFrontPrecedes ==
  ASSUME NEW list \in Seq(Statements), IsInjective(list),
         NEW s, NEW t \in Range(list), InFront(list, s, t)
  PROVE  Precedes(list, s, t) /\ s \in Range(list)
<1>1. DOMAIN list = 1..Len(list) /\ Len(list) \in Nat
  OBVIOUS
<1>2. \A i, j \in 1..Len(list) : list[i] = list[j] => i = j
  BY <1>1 DEF IsInjective
<1>3. \A x \in Range(list) : /\ Position(list, x) \in 1..Len(list)
                             /\ list[Position(list, x)] = x
  BY <1>1 DEF Position, Range
<1>4. PICK i \in 1..(Position(list, t) - 1) : list[i] = s
  BY <1>3 DEF InFront
<1>5. i \in 1..Len(list) /\ Position(list, t) \in 1..Len(list)
  BY <1>1, <1>3
<1>6. s \in Range(list)
  BY <1>1, <1>4, <1>5 DEF Range
<1>7. Position(list, s) = i
  BY <1>2, <1>3, <1>4, <1>5, <1>6
<1> QED
  BY <1>1, <1>5, <1>6, <1>7 DEF Precedes

\* The list and the order that integrate gives to the sorts.
LEMMA IntegrateSound ==
  ASSUME ProgramInv, NEW red \in SameLevel, NEW list, list = lists[bucket[red[1]]],
         IsInjective(list), NEW rel, rel = order \cup {red}
  PROVE  /\ list \in Seq(Statements) /\ rel \subseteq Statements \X Statements
         /\ Range(list) = {s \in Statements : bucket[s] = bucket[red[1]]}
         /\ \A e \in rel : e[2] \in Range(list) => e[1] \in Range(list)
         /\ SoundProblem(list, rel)
<1>1. /\ red[1] \in Statements /\ red[2] \in Statements /\ red \in Statements \X Statements
      /\ bucket[red[1]] = bucket[red[2]] /\ bucket[red[1]] # Null
  BY DEF SameLevel
<1>2. bucket[red[1]] \in Owners /\ list \in Seq(Statements)
  BY <1>1, ProgramFacts DEF ProgramInv
<1>3. Range(list) = {s \in Statements : bucket[s] = bucket[red[1]]}
  BY <1>2 DEF ProgramInv, ListsMatchBuckets
<1>4. rel \subseteq Statements \X Statements
  BY <1>1, ProgramFacts DEF ProgramInv
<1>5. ASSUME NEW e \in order, e[2] \in Range(list)
      PROVE  e[1] \in Range(list) /\ Precedes(list, e[1], e[2])
  <2>1. e[1] \in Statements /\ e[2] \in Statements /\ bucket[e[2]] = bucket[red[1]]
    BY <1>3, <1>4, <1>5
  <2>2. bucket[e[1]] = bucket[e[2]] /\ InFront(lists[bucket[e[1]]], e[1], e[2])
    BY DEF ProgramInv, ListsRespectOrder
  <2>3. InFront(list, e[1], e[2])
    BY <2>1, <2>2
  <2> QED
    BY <1>2, <1>5, <2>3, InFrontPrecedes
<1>6. \A e \in rel : e[2] \in Range(list) => e[1] \in Range(list)
  BY <1>1, <1>3, <1>5
<1>7. \A e \in Against(list, rel) : e = red
  BY <1>5 DEF Against
<1> QED
  BY <1>2, <1>3, <1>4, <1>6, <1>7 DEF SoundProblem

\* A step that leaves the program alone.
LEMMA ProgramFrame ==
  ASSUME ProgramInv, UNCHANGED program, reorder' \in {<<>>} \cup (Statements \X Statements)
  PROVE  ProgramInv'
<1>1. /\ lists' = lists /\ bucket' = bucket /\ order' = order /\ required' = required
      /\ blacks' = blacks /\ repairs' = repairs
  BY DEF program
<1>2. OrderTypeOK'
  BY <1>1 DEF ProgramInv, OrderTypeOK
<1>3. \A s : Leaves(s)' = Leaves(s)
  BY <1>1 DEF Leaves
<1>4. ListsMatchBuckets' /\ SectionsInUse' /\ SectionsSuffice' /\ Unrepaired'
  BY <1>1 DEF ProgramInv, ListsMatchBuckets, SectionsInUse, SectionsSuffice, UsedSections,
              Unrepaired
<1>5. SectionChains' /\ ListsRespectOrder'
  BY <1>1 DEF ProgramInv, SectionChains, ListsRespectOrder, InFront
<1>6. Decided' /\ BodyWhole'
  BY <1>1, <1>3 DEF ProgramInv, Decided, BodyWhole
<1> QED
  BY <1>2, <1>4, <1>5, <1>6 DEF ProgramInv

\* A repair starts.
LEMMA IntegrateStep == OrderInv /\ Integrate => OrderInv'
<1> SUFFICES ASSUME OrderInv, Integrate PROVE OrderInv'
  OBVIOUS
<1> USE DEF OrderInv
<1>1. /\ reorder = <<>> /\ repairs < MaxRepairs /\ UNCHANGED program
  BY DEF Integrate
<1>2. PICK red \in SameLevel :
        /\ IsInjective(lists[bucket[red[1]]])
        /\ reorder' = red
        /\ \/ UNCHANGED sortVars
           \/ SetSorts("up", lists[bucket[red[1]]], order \cup {red})
  BY DEF Integrate
<1>3. red \in Statements \X Statements /\ red # <<>>
  <2>1. red \in Statements \X Statements
    BY DEF SameLevel
  <2> QED
    BY <2>1, PairsNotEmpty
<1>4. ProgramInv'
  BY <1>1, <1>2, <1>3, ProgramFrame
<1>5. /\ lists' = lists /\ bucket' = bucket /\ order' = order /\ repairs' = repairs
      /\ SameLevel' = SameLevel
  BY <1>1 DEF program, SameLevel
<1>6. CASE UNCHANGED sortVars
  <2>1. Sorting' /\ QuietInv'
    BY <1>6, PermInvStep, QuietInvStep
  <2>2. NothingToSort'
    BY <1>1, <1>6 DEF Integrating, NothingToSort, sortVars, sorting
  <2>3. Integrating'
    BY <1>1, <1>2, <1>3, <1>5, <2>2 DEF Integrating
  <2> QED
    BY <1>4, <2>1, <2>3
<1>7. CASE SetSorts("up", lists[bucket[red[1]]], order \cup {red})
  <2> DEFINE list == lists[bucket[red[1]]]
             rel == order \cup {red}
  <2>1. /\ list \in Seq(Statements) /\ rel \subseteq Statements \X Statements
        /\ \A e \in rel : e[2] \in Range(list) => e[1] \in Range(list)
        /\ SoundProblem(list, rel)
    BY <1>2, IntegrateSound
  <2>2. SetSorts("up", list, rel) /\ SortTypeOK
    BY <1>7 DEF Sorting, SortInv
  <2>3. items' = list /\ edges' = rel
    BY <1>7 DEF SetSorts
  <2> HIDE DEF list, rel
  <2>4. Sorting' /\ QuietInv'
    BY <2>1, <2>2, StartSorting
  <2>5. Integrating'
    BY <1>1, <1>2, <1>3, <1>5, <2>3 DEF Integrating, list, rel
  <2> QED
    BY <1>4, <2>4, <2>5
<1> QED
  BY <1>2, <1>6, <1>7

\* The sorts run.
LEMMA SortingStep == OrderInv /\ Sort => OrderInv'
<1> SUFFICES ASSUME OrderInv, Sort PROVE OrderInv'
  OBVIOUS
<1> USE DEF OrderInv
<1>1. SortNext /\ UNCHANGED program /\ reorder' = reorder
  BY DEF Sort
<1>2. ProgramInv'
  BY <1>1, ProgramFrame DEF ProgramInv, OrderTypeOK
<1>3. Sorting' /\ QuietInv'
  BY <1>1, PermInvStep, QuietInvStep
<1>4. phase = "sorted" => FALSE
  BY <1>1 DEF SortNext, SortStep, UpItem, UpNeeded, UpInsert, UpDone, DownItemReady,
              DownItemPending, DownStillPending, DownRelease, DownReturn, DownDone
<1>5. /\ lists' = lists /\ bucket' = bucket /\ order' = order /\ repairs' = repairs
      /\ SameLevel' = SameLevel /\ items' = items /\ edges' = edges
  BY <1>1 DEF program, SameLevel, SortNext
<1>6. Integrating'
  BY <1>1, <1>4, <1>5 DEF Integrating, NothingToSort
<1> QED
  BY <1>2, <1>3, <1>6

\* Between two repairs nothing is sorted.
LEMMA BackIdle ==
  ASSUME Back, Sorting
  PROVE  Sorting' /\ QuietInv' /\ Integrating'
<1>1. SetSorts("sorted", <<>>, {}) /\ SortTypeOK /\ reorder' = <<>>
  BY DEF Back, Sorting, SortInv
<1>2. SoundProblem(<<>>, {})
  BY DEF SoundProblem, Against, IsInjective
<1>3. Sorting' /\ QuietInv'
  <2> DEFINE list == <<>>
             rel == {}
             now == "sorted"
  <2>1. /\ now \in {"up", "sorted"} /\ list \in Seq(Statements)
        /\ rel \subseteq Statements \X Statements
        /\ now = "sorted" => list = <<>>
        /\ \A e \in rel : e[2] \in Range(list) => e[1] \in Range(list)
        /\ SoundProblem(list, rel) /\ SetSorts(now, list, rel) /\ SortTypeOK
    BY <1>1, <1>2
  <2> HIDE DEF list, rel, now
  <2> QED
    BY <2>1, StartSorting
<1>4. NothingToSort'
  BY <1>1 DEF SetSorts, NothingToSort
<1> QED
  BY <1>1, <1>3, <1>4 DEF Integrating

\* No candidate passes.
LEMMA RejectStep == OrderInv /\ Reject => OrderInv'
<1> SUFFICES ASSUME OrderInv, Reject PROVE OrderInv'
  OBVIOUS
<1>1. ProgramInv'
  BY ProgramFrame DEF Reject, Back, OrderInv
<1> QED
  BY <1>1, BackIdle DEF Reject, OrderInv

\* The text of the parsed program lists its statements by line number.
LEMMA TextInFront ==
  ASSUME NEW s \in Program, NEW t \in Program, s < t
  PROVE  InFront(Text, s, t)
<1> SUFFICES ASSUME NEW j \in 1..Len(Text), Text[j] = t
             PROVE  \E i \in 1..(j - 1) : Text[i] = s
  BY DEF InFront
<1>1. /\ Text \in Seq(Program) /\ Program \subseteq Nat /\ Range(Text) = Program
      /\ \A i, k \in 1..Len(Text) : i < k => Text[i] < Text[k]
  BY StatementOrderAssumption
<1>2. PICK i \in 1..Len(Text) : Text[i] = s
  BY <1>1, EmptyFacts DEF Range
<1>3. i # j /\ ~(j < i)
  BY <1>1, <1>2
<1>4. i \in 1..(j - 1)
  BY <1>3
<1> QED
  BY <1>2, <1>4

\* And it lists each of them once.
LEMMA TextInjective == IsInjective(Text)
<1>1. /\ Text \in Seq(Program) /\ Program \subseteq Nat
      /\ \A i, k \in 1..Len(Text) : i < k => Text[i] < Text[k]
  BY StatementOrderAssumption
<1>2. DOMAIN Text = 1..Len(Text)
  BY <1>1
<1>3. ASSUME NEW i \in 1..Len(Text), NEW k \in 1..Len(Text), Text[i] = Text[k] PROVE i = k
  <2>1. Text[i] \in Program /\ i \in Nat /\ k \in Nat
    BY <1>1
  <2>0. Text[i] \in Nat
    BY <1>1, <2>1
  <2>2. ~(i < k) /\ ~(k < i)
    BY <1>1, <1>3, <2>0, <2>1
  <2> QED
    BY <2>1, <2>2
<1> QED
  BY <1>2, <1>3 DEF IsInjective

\* A black edge joins two statements of the parsed program.
LEMMA AddBlackEdgeStep == OrderInv /\ AddBlackEdge => OrderInv'
<1> SUFFICES ASSUME OrderInv, AddBlackEdge PROVE OrderInv'
  OBVIOUS
<1> USE DEF OrderInv
<1>1. PICK s, t \in Program :
        /\ s < t
        /\ order' = order \cup {<<s, t>>}
        /\ required' = required \cup {<<s, t>>}
  BY DEF AddBlackEdge
<1>2. /\ reorder = <<>> /\ repairs = 0 /\ blacks < MaxBlackEdges /\ blacks' = blacks + 1
      /\ lists' = lists /\ bucket' = bucket /\ reorder' = reorder /\ repairs' = repairs
      /\ UNCHANGED sortVars
  BY DEF AddBlackEdge
<1>3. s \in Statements /\ t \in Statements
  BY ProgramFacts DEF ProgramInv
<1>4. Sorting' /\ QuietInv'
  BY <1>2, PermInvStep, QuietInvStep
<1>5. Integrating'
  BY <1>2 DEF Integrating, NothingToSort, sortVars, sorting
<1>6. OrderTypeOK'
  <2>1. blacks \in Nat /\ MaxBlackEdges \in Nat /\ blacks + 1 \in 0..MaxBlackEdges
    BY <1>2, StatementOrderAssumption DEF ProgramInv, OrderTypeOK
  <2> QED
    BY <1>1, <1>2, <1>3, <2>1 DEF ProgramInv, OrderTypeOK
<1>7. ListsMatchBuckets' /\ SectionsInUse' /\ SectionsSuffice' /\ Unrepaired'
  BY <1>2 DEF ProgramInv, ListsMatchBuckets, SectionsInUse, SectionsSuffice, UsedSections,
              Unrepaired
<1>8. SectionChains'
  BY <1>1, <1>2 DEF ProgramInv, SectionChains
<1>9. /\ bucket[s] = Body /\ bucket[t] = Body /\ lists[Body] = Text
  BY <1>2, <1>3, ProgramFacts DEF ProgramInv, Unrepaired
<1>10. InFront(Text, s, t)
  BY <1>1, TextInFront
<1>11. ListsRespectOrder'
  <2>1. ASSUME NEW e \in order \cup {<<s, t>>}
        PROVE  /\ bucket[e[1]] = bucket[e[2]] /\ bucket[e[1]] # Null
               /\ InFront(lists[bucket[e[1]]], e[1], e[2])
    <3>1. CASE e \in order
      BY <3>1 DEF ProgramInv, ListsRespectOrder
    <3>2. CASE e = <<s, t>>
      BY <1>9, <1>10, <3>2, ProgramFacts DEF ProgramInv
    <3> QED
      BY <3>1, <3>2
  <2> QED
    BY <1>1, <1>2, <2>1 DEF ListsRespectOrder, InFront
<1>12. \A x : Leaves(x)' = Leaves(x)
  BY <1>2 DEF Leaves
<1>13. Decided'
  <2>1. Reach(order) \subseteq Reach(order')
    BY <1>1, ReachMore
  <2>2. <<s, t>> \in Reach(order')
    <3>1. <<s, t>> \in order' /\ order' \subseteq Statements \X Statements
      BY <1>1, <1>3, ProgramFacts DEF ProgramInv
    <3> QED
      BY <3>1, ReachFacts
  <2>3. s \in Leaves(s) /\ t \in Leaves(t)
    BY DEF Leaves
  <2>4. ASSUME NEW r \in required \cup {<<s, t>>}
        PROVE  \E x, y \in Statements :
                 r[1] \in Leaves(x) /\ r[2] \in Leaves(y) /\ <<x, y>> \in Reach(order')
    <3>1. CASE r \in required
      BY <2>1, <3>1 DEF ProgramInv, Decided
    <3>2. CASE r = <<s, t>>
      BY <1>3, <2>2, <2>3, <3>2
    <3> QED
      BY <3>1, <3>2
  <2> QED
    BY <1>1, <1>12, <2>4 DEF Decided
<1>14. BodyWhole'
  BY <1>2, <1>12 DEF ProgramInv, BodyWhole
<1> QED
  BY <1>4, <1>5, <1>6, <1>7, <1>8, <1>11, <1>13, <1>14 DEF ProgramInv
-------------------------------------------------------------------------------
(***************************************************************************)
(* A list is reordered.                                                    *)
(***************************************************************************)

\* Both results are the list in another order, which respects all edges.
LEMMA ResultFacts ==
  ASSUME OrderInv, Sorted, downResult # items, NEW result \in {upResult, downResult}
  PROVE  /\ reorder \in SameLevel /\ reorder \in Statements \X Statements
         /\ repairs < MaxRepairs
         /\ items = lists[bucket[reorder[1]]] /\ edges = order \cup {reorder}
         /\ items \in Seq(Statements) /\ IsInjective(items)
         /\ edges \subseteq Statements \X Statements
         /\ result \in Seq(Statements) /\ Range(result) = Range(items)
         /\ \A e \in edges : InFront(result, e[1], e[2])
<1> USE DEF OrderInv
<1>1. /\ upResult \in Seq(Statements) /\ downResult \in Seq(Statements)
      /\ items \in Seq(Statements) /\ edges \subseteq Statements \X Statements
      /\ phase = "sorted"
      /\ PredecessorsBefore(upResult) /\ PredecessorsBefore(downResult)
      /\ Range(upResult) = Range(items)
  BY DEF Sorted, Sorting, SortInv, SortTypeOK, InsertedAfterPredecessors, UpKeepsItems
<1>2. Range(downResult) = Range(items)
  BY <1>1, SortingPermutes DEF DownPermutes
<1>3. ~NothingToSort
  <2> SUFFICES ASSUME items = <<>> PROVE FALSE
    BY DEF NothingToSort
  <2>1. Range(downResult) = {}
    BY <1>2, EmptyFacts
  <2>2. downResult # <<>> => downResult[1] \in Range(downResult)
    BY <1>1, EmptyFacts DEF Range
  <2> QED
    BY <2>1, <2>2
<1>4. /\ reorder \in SameLevel /\ repairs < MaxRepairs
      /\ IsInjective(lists[bucket[reorder[1]]])
      /\ items = lists[bucket[reorder[1]]] /\ edges = order \cup {reorder}
  BY <1>3 DEF Integrating, Sorted
<1>5. reorder \in Statements \X Statements
  BY <1>4 DEF SameLevel
<1>6. \A e \in edges : InFront(result, e[1], e[2])
  BY <1>1, SortedInFront
<1> QED
  BY <1>1, <1>2, <1>4, <1>5, <1>6

\* Along the chain of a section, each member is in front of the later ones.
LEMMA ChainInFront ==
  ASSUME NEW list \in Seq(Statements), NEW result \in Seq(Statements),
         \A i \in 1..(Len(list) - 1) : InFront(result, list[i], list[i + 1]),
         NEW i \in 1..Len(list), NEW k \in 1..Len(list), i < k
  PROVE  InFront(result, list[i], list[k])
<1> DEFINE less == {ss \in Nat \X Nat : ss[1] < ss[2]}
           bad == {m \in (i + 1)..Len(list) : ~InFront(result, list[i], list[m])}
<1> SUFFICES ASSUME bad # {} PROVE FALSE
  <2>1. k \in (i + 1)..Len(list)
    OBVIOUS
  <2> QED
    BY <2>1
<1>1. bad \subseteq Nat
  OBVIOUS
<1>2. IsWellFoundedOn(less, Nat)
  BY NatLessThanWellFounded DEF OpToRel
<1> HIDE DEF less
<1>3. PICK m \in bad : \A n \in bad : ~(<<n, m>> \in less)
  <2> HIDE DEF bad
  <2> QED
    BY <1>1, <1>2, WFMin
<1>4. m \in (i + 1)..Len(list) /\ ~InFront(result, list[i], list[m])
  OBVIOUS
<1>5. m - 1 \in 1..(Len(list) - 1) /\ m - 1 + 1 = m
  BY <1>4
<1>6. InFront(result, list[m - 1], list[m])
  BY <1>5
<1>7. CASE m = i + 1
  <2>1. m - 1 = i
    BY <1>7
  <2> QED
    BY <1>4, <1>6, <2>1
<1>8. CASE m # i + 1
  <2>1. m - 1 \in (i + 1)..Len(list) /\ m - 1 < m /\ m - 1 \in Nat /\ m \in Nat
    BY <1>4, <1>8
  <2>2. <<m - 1, m>> \in less
    BY <2>1 DEF less
  <2>3. m - 1 \notin bad
    BY <1>3, <2>2
  <2>4. InFront(result, list[i], list[m - 1])
    BY <2>1, <2>3
  <2> QED
    BY <1>4, <1>6, <2>4, InFrontTransitive
<1> QED
  BY <1>7, <1>8

\* There is nothing to reorder in a section: its members form a chain, and an
\* edge against it would not have let the sort upwards come to its end.
LEMMA SectionsFixed ==
  ASSUME OrderInv, Sorted, downResult # items
  PROVE  bucket[reorder[1]] \notin Sections
<1> DEFINE o == bucket[reorder[1]]
<1> SUFFICES ASSUME o \in Sections PROVE FALSE
  OBVIOUS
<1>0. reorder[1] \in Statements /\ reorder[2] \in Statements /\ bucket[reorder[2]] = o
      /\ reorder[1] # reorder[2] /\ reorder = <<reorder[1], reorder[2]>>
  BY ResultFacts DEF SameLevel
<1>1. /\ items = lists[o] /\ edges = order \cup {reorder}
      /\ items \in Seq(Statements) /\ IsInjective(items)
      /\ upResult \in Seq(Statements) /\ Range(upResult) = Range(items)
      /\ \A e \in edges : InFront(upResult, e[1], e[2])
  BY ResultFacts
<1>2. \A i \in 1..(Len(items) - 1) : InFront(upResult, items[i], items[i + 1])
  <2> SUFFICES ASSUME NEW i \in 1..(Len(items) - 1)
               PROVE  InFront(upResult, items[i], items[i + 1])
    OBVIOUS
  <2>1. <<items[i], items[i + 1]>> \in edges
    BY <1>1 DEF OrderInv, ProgramInv, SectionChains
  <2> QED
    BY <1>1, <2>1
<1>3. Range(items) = {s \in Statements : bucket[s] = o}
  BY <1>1, ProgramFacts DEF OrderInv, ProgramInv, ListsMatchBuckets
<1>4. PredecessorsBefore(items)
  <2> SUFFICES ASSUME NEW i \in 1..Len(items), NEW p \in Predecessors(items[i])
               PROVE  \E j \in 1..(i - 1) : items[j] = p
    BY DEF PredecessorsBefore
  <2>1. <<p, items[i]>> \in edges
    BY DEF Predecessors
  <2>2. CASE <<p, items[i]>> \in order
    <3> DEFINE e == <<p, items[i]>>
    <3>1. /\ bucket[e[1]] = bucket[e[2]]
          /\ InFront(lists[bucket[e[1]]], e[1], e[2])
      BY <2>2 DEF OrderInv, ProgramInv, ListsRespectOrder
    <3>2. items[i] \in Range(items)
      BY <1>1, EmptyFacts DEF Range
    <3>3. InFront(items, p, items[i])
      BY <1>1, <1>3, <3>1, <3>2
    <3> QED
      BY <3>3 DEF InFront
  <2>3. CASE <<p, items[i]>> = reorder
    <3>1. p = reorder[1] /\ items[i] = reorder[2]
      BY <2>3
    <3>2. p \in Range(items)
      BY <1>0, <1>3, <3>1
    <3>3. PICK k \in 1..Len(items) : items[k] = p
      BY <1>1, <3>2, EmptyFacts DEF Range
    <3>4. CASE i < k
      <4>1. InFront(upResult, items[i], items[k])
        BY <1>1, <1>2, <3>4, ChainInFront
      <4>2. InFront(upResult, p, items[i])
        BY <1>1, <2>1
      <4>3. InFront(upResult, p, p)
        BY <1>1, <3>3, <4>1, <4>2, InFrontTransitive
      <4>4. p \notin Range(upResult)
        BY <1>1, <4>3, InFrontIrreflexive
      <4> QED
        BY <1>1, <3>2, <4>4
    <3>5. CASE ~(i < k)
      <4>1. k # i
        BY <1>0, <3>1, <3>3
      <4>2. k \in 1..(i - 1)
        BY <1>1, <3>5, <4>1
      <4> QED
        BY <3>3, <4>2
    <3> QED
      BY <3>4, <3>5
  <2> QED
    BY <1>1, <2>1, <2>2, <2>3
<1> QED
  BY <1>4, QuietSorted DEF OrderInv, Sorted

\* A result replaces the list.
LEMMA ReorderedStep ==
  ASSUME OrderInv, Sorted, downResult # items, NEW result \in {upResult, downResult},
         Reordered(result)
  PROVE  OrderInv'
<1> USE DEF OrderInv
<1> DEFINE o == bucket[reorder[1]]
<1>1. /\ reorder \in SameLevel /\ reorder \in Statements \X Statements
      /\ repairs < MaxRepairs
      /\ items = lists[o] /\ edges = order \cup {reorder}
      /\ edges \subseteq Statements \X Statements
      /\ result \in Seq(Statements) /\ Range(result) = Range(items)
      /\ \A e \in edges : InFront(result, e[1], e[2])
  BY ResultFacts
<1>2. o = Body
  <2>1. o \in Owners \cup {Null} /\ o # Null
    BY <1>1, ProgramFacts DEF ProgramInv, SameLevel
  <2> QED
    BY <2>1, SectionsFixed DEF Owners
<1>3. /\ lists' = [lists EXCEPT ![o] = result]
      /\ order' = order \cup {reorder}
      /\ required' = required \cup (Leaves(reorder[1]) \X Leaves(reorder[2]))
      /\ repairs' = repairs + 1 /\ bucket' = bucket /\ blacks' = blacks
      /\ Back /\ reorder' = <<>>
  BY <1>1 DEF Reordered, Back
<1>4. /\ lists' \in [Owners -> Seq(Statements)]
      /\ \A x \in Owners : lists'[x] = IF x = o THEN result ELSE lists[x]
  BY <1>1, <1>2, <1>3, ProgramFacts DEF ProgramInv
<1>5. Sorting' /\ QuietInv' /\ Integrating'
  BY <1>3, BackIdle
<1>6. \A x : Leaves(x)' = Leaves(x)
  BY <1>3 DEF Leaves
<1>7. \A x \in Statements : Leaves(x) \subseteq Program
  BY DEF Leaves
<1>8. OrderTypeOK'
  <2>1. required' \subseteq Program \X Program
    BY <1>1, <1>3, <1>7, ProgramFacts DEF ProgramInv
  <2>2. repairs' \in 0..MaxRepairs
    BY <1>1, <1>3, ProgramFacts DEF ProgramInv
  <2> QED
    BY <1>1, <1>3, <1>4, <2>1, <2>2 DEF ProgramInv, OrderTypeOK
<1>9. ListsMatchBuckets'
  BY <1>1, <1>2, <1>3, <1>4 DEF ProgramInv, ListsMatchBuckets
<1>10. SectionsInUse' /\ SectionsSuffice' /\ Unrepaired'
  <2>1. repairs' # 0 /\ repairs \in Nat
    BY <1>3, ProgramFacts DEF ProgramInv
  <2>2. UsedSections' = UsedSections
    BY <1>3 DEF UsedSections
  <2>3. Cardinality(UsedSections) <= repairs /\ Cardinality(UsedSections) \in Nat
    <3>1. IsFiniteSet(UsedSections)
      BY FS_Subset, ProgramFacts DEF UsedSections, ProgramInv
    <3> QED
      BY <3>1, FS_CardinalityType DEF ProgramInv, SectionsSuffice
  <2> QED
    BY <1>3, <2>1, <2>2, <2>3 DEF ProgramInv, SectionsInUse, SectionsSuffice, Unrepaired
<1>11. SectionChains'
  <2>1. \A s \in Sections : lists'[s] = lists[s]
    BY <1>2, <1>4, ProgramFacts DEF ProgramInv
  <2> QED
    BY <1>3, <2>1 DEF ProgramInv, SectionChains
<1>12. ListsRespectOrder'
  <2>1. ASSUME NEW e \in order \cup {reorder}
        PROVE  /\ bucket[e[1]] = bucket[e[2]] /\ bucket[e[1]] # Null
               /\ InFront(lists'[bucket[e[1]]], e[1], e[2])
    <3>1. /\ bucket[e[1]] = bucket[e[2]] /\ bucket[e[1]] # Null
          /\ e \in order => InFront(lists[bucket[e[1]]], e[1], e[2])
      BY <1>1 DEF ProgramInv, ListsRespectOrder, SameLevel
    <3>2. e \in Statements \X Statements
      BY <1>1
    <3>3. bucket[e[1]] \in Owners
      BY <3>1, <3>2, ProgramFacts DEF ProgramInv
    <3>4. CASE bucket[e[1]] = o
      BY <1>1, <1>4, <3>1, <3>3, <3>4
    <3>5. CASE bucket[e[1]] # o
      <4>1. e \in order
        BY <3>5
      <4> QED
        BY <1>4, <3>1, <3>3, <3>5, <4>1
    <3> QED
      BY <3>4, <3>5
  <2> QED
    BY <1>3, <2>1 DEF ListsRespectOrder, InFront
<1>13. Decided'
  <2>1. Reach(order) \subseteq Reach(order')
    BY <1>3, ReachMore
  <2>2. <<reorder[1], reorder[2]>> \in Reach(order')
    BY <1>1, <1>3, ReachFacts
  <2>3. ASSUME NEW r \in required \cup (Leaves(reorder[1]) \X Leaves(reorder[2]))
        PROVE  \E x, y \in Statements :
                 r[1] \in Leaves(x) /\ r[2] \in Leaves(y) /\ <<x, y>> \in Reach(order')
    <3>1. CASE r \in required
      BY <2>1, <3>1 DEF ProgramInv, Decided
    <3>2. CASE r \in Leaves(reorder[1]) \X Leaves(reorder[2])
      BY <1>1, <2>2, <3>2
    <3> QED
      BY <3>1, <3>2
  <2> QED
    BY <1>3, <1>6, <2>3 DEF Decided
<1>14. BodyWhole'
  <2>1. Range(lists'[Body]) = Range(lists[Body])
    BY <1>1, <1>2, <1>4, ProgramFacts DEF ProgramInv
  <2> QED
    BY <1>6, <2>1 DEF ProgramInv, BodyWhole
<1> QED
  BY <1>5, <1>8, <1>9, <1>10, <1>11, <1>12, <1>13, <1>14 DEF ProgramInv
-------------------------------------------------------------------------------
(***************************************************************************)
(* A part of the body becomes an atomic section.                           *)
(***************************************************************************)

\* The part, and the list with the section in its place.
TakenOut(list, i, j, section, members, new) ==
  /\ members \in Seq(Statements) /\ Len(members) = j - i + 1
  /\ \A k \in 1..Len(members) : i + k - 1 \in i..j /\ members[k] = list[i + k - 1]
  /\ Range(members) = {list[k] : k \in i..j}
  /\ new \in Seq(Statements) /\ Len(new) = Len(list) - (j - i)
  /\ \A k \in 1..Len(new) :
       new[k] = IF k < i THEN list[k] ELSE IF k = i THEN section ELSE list[k + (j - i)]
  /\ Range(new) = (Range(list) \ Range(members)) \cup {section}

\* It is what SubSeq and AroundSection make of a list without repetitions.
LEMMA AroundFacts ==
  ASSUME NEW list \in Seq(Statements), IsInjective(list),
         NEW i \in 1..Len(list), NEW j \in 1..Len(list), i < j,
         NEW section \in Statements, section \notin Range(list),
         NEW members, members = SubSeq(list, i, j),
         NEW new, new = AroundSection(list, i, j, section)
  PROVE  TakenOut(list, i, j, section, members, new)
<1> DEFINE front == SubSeq(list, 1, i - 1)
           back == SubSeq(list, j + 1, Len(list))
<1>1. /\ Len(list) \in Nat /\ i \in Nat /\ j \in Nat /\ DOMAIN list = 1..Len(list)
      /\ \A k \in 1..Len(list) : list[k] \in Statements
  OBVIOUS
<1>2. /\ members \in Seq(Statements) /\ Len(members) = j - i + 1
      /\ \A k \in 1..Len(members) : members[k] = list[i + k - 1]
  BY <1>1, SubSeqProperties
<1>3. \A k \in 1..Len(members) : i + k - 1 \in i..j
  BY <1>1, <1>2
<1>4. /\ front \in Seq(Statements) /\ Len(front) = i - 1
      /\ \A k \in 1..(i - 1) : front[k] = list[k]
  <2>1. i - 1 - 1 + 1 = i - 1 /\ \A k \in 1..(i - 1) : 1 + k - 1 = k
    BY <1>1
  <2>2. 1 \in 1..(Len(list) + 1) /\ i - 1 \in 0..Len(list)
    BY <1>1
  <2> QED
    BY <1>1, <2>1, <2>2, SubSeqProperties
<1>5. /\ back \in Seq(Statements) /\ Len(back) = Len(list) - j
      /\ \A k \in 1..(Len(list) - j) : back[k] = list[j + k]
  <2>1. /\ Len(list) - (j + 1) + 1 = Len(list) - j
        /\ \A k \in 1..(Len(list) - j) : (j + 1) + k - 1 = j + k
    BY <1>1
  <2>2. /\ j + 1 \in Int /\ Len(list) \in Int
        /\ \A k \in (j + 1)..Len(list) : list[k] \in Statements
        /\ j + 1 <= Len(list) \/ Len(list) - j = 0
    <3> HIDE DEF front, back
    <3>1. \A k \in (j + 1)..Len(list) : k \in 1..Len(list)
      BY <1>1
    <3>2. j <= Len(list)
      OBVIOUS
    <3>3. \A a, b \in Nat : a <= b => (a + 1 <= b \/ b - a = 0)
      OBVIOUS
    <3>4. j + 1 \in Int /\ Len(list) \in Int
      BY <1>1
    <3> QED
      BY <1>1, <3>1, <3>2, <3>3, <3>4
  <2>3. /\ back \in Seq(Statements)
        /\ Len(back) = IF j + 1 <= Len(list) THEN Len(list) - (j + 1) + 1 ELSE 0
        /\ \A k \in 1..(Len(list) - (j + 1) + 1) : back[k] = list[(j + 1) + k - 1]
    BY <2>2, SubSeqProperties
  <2> HIDE DEF back
  <2> QED
    BY <2>1, <2>2, <2>3
<1>6. /\ new \in Seq(Statements) /\ Len(new) = Len(list) - (j - i)
      /\ \A k \in 1..Len(new) :
           new[k] = IF k < i THEN list[k] ELSE IF k = i THEN section ELSE list[k + (j - i)]
  <2> DEFINE fs == front \o <<section>>
  <2>1. new = fs \o back
    BY DEF AroundSection
  <2> HIDE DEF front, back
  <2>2. /\ fs \in Seq(Statements) /\ Len(fs) = i
        /\ \A k \in 1..i : fs[k] = IF k < i THEN list[k] ELSE section
    BY <1>1, <1>4
  <2> HIDE DEF fs
  <2>3. /\ new \in Seq(Statements) /\ Len(new) = i + (Len(list) - j)
        /\ \A k \in 1..Len(new) : new[k] = IF k <= i THEN fs[k] ELSE back[k - i]
    <3>1. /\ fs \o back \in Seq(Statements)
          /\ Len(fs \o back) = Len(fs) + Len(back)
          /\ \A k \in 1..(Len(fs) + Len(back)) :
               (fs \o back)[k] = IF k <= Len(fs) THEN fs[k] ELSE back[k - Len(fs)]
      BY <1>5, <2>2, ConcatProperties
    <3> QED
      BY <1>5, <2>1, <2>2, <3>1
  <2>4. ASSUME NEW k \in 1..Len(new)
        PROVE  new[k] = IF k < i THEN list[k] ELSE IF k = i THEN section ELSE list[k + (j - i)]
    <3>0. k \in Nat /\ k # 0
      BY <1>1, <2>3
    <3>1. CASE k <= i
      <4>1. k \in 1..i /\ new[k] = fs[k]
        BY <1>1, <2>3, <3>0, <3>1
      <4> QED
        BY <1>1, <2>2, <3>0, <3>1, <4>1
    <3>2. CASE ~(k <= i)
      <4>1. k - i \in 1..(Len(list) - j) /\ j + (k - i) = k + (j - i)
        <5>1. k <= i + (Len(list) - j) /\ i < k
          BY <1>1, <2>3, <3>0, <3>2
        <5> QED
          BY <1>1, <3>0, <5>1
      <4>2. back[k - i] = list[k + (j - i)]
        BY <1>5, <4>1
      <4>3. new[k] = back[k - i] /\ ~(k < i) /\ k # i
        BY <1>1, <2>3, <3>0, <3>2
      <4> QED
        BY <4>2, <4>3
    <3> QED
      BY <3>1, <3>2
  <2> QED
    BY <1>1, <2>3, <2>4
<1>7. Range(members) = {list[k] : k \in i..j}
  <2>1. ASSUME NEW x \in Range(members) PROVE x \in {list[k] : k \in i..j}
    <3>1. DOMAIN members = 1..Len(members)
      BY <1>2, EmptyFacts
    <3>2. PICK k \in 1..Len(members) : members[k] = x
      BY <3>1 DEF Range
    <3>3. i + k - 1 \in i..j /\ x = list[i + k - 1]
      BY <1>2, <1>3, <3>2
    <3> QED
      BY <3>3
  <2>2. ASSUME NEW k \in i..j PROVE list[k] \in Range(members)
    <3>1. PICK m : m = k - i + 1
      OBVIOUS
    <3>2. k \in Int /\ i \in Int /\ j \in Int /\ i <= k /\ k <= j
      BY <1>1
    <3>3. m \in 1..(j - i + 1) /\ i + m - 1 = k
      BY <3>1, <3>2
    <3>4. m \in 1..Len(members) /\ members[m] = list[k]
      BY <1>2, <3>3
    <3>5. DOMAIN members = 1..Len(members)
      BY <1>2, EmptyFacts
    <3> QED
      BY <3>4, <3>5 DEF Range
  <2> QED
    BY <2>1, <2>2
<1>8. Range(new) = (Range(list) \ Range(members)) \cup {section}
  <2>1. ASSUME NEW x \in Range(new)
        PROVE  x \in (Range(list) \ Range(members)) \cup {section}
    <3>1. PICK k \in 1..Len(new) : new[k] = x
      BY <1>6, EmptyFacts DEF Range
    <3>2. CASE k = i
      BY <1>6, <3>1, <3>2
    <3>3. CASE k # i
      <4>1. PICK h \in 1..Len(list) : x = list[h] /\ ~(h \in i..j)
        <5>1. CASE k < i
          <6>1. k \in 1..Len(list) /\ ~(k \in i..j)
            BY <1>1, <5>1
          <6> QED
            BY <1>6, <3>1, <5>1, <6>1
        <5>2. CASE ~(k < i)
          <6>1. k + (j - i) \in 1..Len(list) /\ ~(k + (j - i) \in i..j)
            BY <1>1, <1>6, <3>3, <5>2
          <6> QED
            BY <1>6, <3>1, <3>3, <5>2, <6>1
        <5> QED
          BY <5>1, <5>2
      <4>2. \A m \in i..j : m \in 1..Len(list) /\ m # h
        BY <1>1, <4>1
      <4>3. x \notin Range(members)
        BY <1>1, <1>7, <4>1, <4>2 DEF IsInjective
      <4>4. x \in Range(list)
        BY <1>1, <4>1 DEF Range
      <4> QED
        BY <4>3, <4>4
    <3> QED
      BY <3>2, <3>3
  <2>2. ASSUME NEW x \in Range(list), x \notin Range(members) PROVE x \in Range(new)
    <3>1. PICK h \in 1..Len(list) : list[h] = x
      BY <1>1 DEF Range
    <3>2. ~(h \in i..j)
      BY <1>7, <2>2, <3>1
    <3>3. CASE h < i
      <4>1. h \in 1..Len(new)
        BY <1>1, <1>6, <3>3
      <4> QED
        BY <1>6, <3>1, <3>3, <4>1, EmptyFacts DEF Range
    <3>4. CASE ~(h < i)
      <4>1. /\ h - (j - i) \in 1..Len(new) /\ ~(h - (j - i) < i) /\ h - (j - i) # i
            /\ (h - (j - i)) + (j - i) = h
        BY <1>1, <1>6, <3>2, <3>4
      <4>2. new[h - (j - i)] = list[h]
        BY <1>6, <4>1
      <4> QED
        BY <1>6, <3>1, <4>1, <4>2, EmptyFacts DEF Range
    <3> QED
      BY <3>3, <3>4
  <2>3. section \in Range(new)
    <3>1. i \in 1..Len(new) /\ new[i] = section
      BY <1>1, <1>6
    <3> QED
      BY <1>6, <3>1, EmptyFacts DEF Range
  <2> QED
    BY <2>1, <2>2, <2>3
<1> QED
  BY <1>2, <1>3, <1>6, <1>7, <1>8 DEF TakenOut

\* The section, the part of the body it takes in, and the body around it.
Wraps(section, i, j, members, new) ==
  /\ section \in Sections /\ bucket[section] = Null
  /\ \A s \in Statements : bucket[s] # section
  /\ IsInjective(lists[Body])
  /\ i \in 1..Len(lists[Body]) /\ j \in 1..Len(lists[Body]) /\ i < j
  /\ members = SubSeq(lists[Body], i, j)
  /\ new = AroundSection(lists[Body], i, j, section)
  /\ lists' = [lists EXCEPT ![Body] = new, ![section] = members]
  /\ bucket' = [s \in Statements |->
                  IF s = section THEN Body
                  ELSE IF s \in Range(members) THEN section ELSE bucket[s]]
  /\ order' = ElementMerge(section, members)

\* From outside, a member is seen as the section.
Outer(section, members, s) == IF s \in Range(members) THEN section ELSE s

\* There is a section that was never used.
LEMMA UnusedSection ==
  ASSUME ProgramInv, repairs < MaxRepairs
  PROVE  \E s \in Sections : bucket[s] = Null
<1>1. /\ IsFiniteSet(Sections) /\ MaxRepairs <= Cardinality(Sections)
      /\ MaxRepairs \in Nat /\ repairs \in Nat /\ Cardinality(UsedSections) <= repairs
  BY ProgramFacts DEF ProgramInv, SectionsSuffice
<1>2. Cardinality(Sections) \in Nat /\ Cardinality(UsedSections) \in Nat
  <2>1. IsFiniteSet(UsedSections)
    BY <1>1, FS_Subset DEF UsedSections
  <2> QED
    BY <1>1, <2>1, FS_CardinalityType
<1>3. UsedSections # Sections
  BY <1>1, <1>2
<1> QED
  BY <1>3 DEF UsedSections

\* What MakeAtomic does.
LEMMA MakeAtomicWraps ==
  ASSUME OrderInv, MakeAtomic
  PROVE  \E section, i, j, members, new : Wraps(section, i, j, members, new)
<1> DEFINE section == CHOOSE s \in Sections : bucket[s] = Null
           owner == bucket[reorder[1]]
<1> USE DEF OrderInv
<1>1. /\ Sorted /\ ~InAtomicSection(reorder[1])
      /\ \E i, j \in 1..Len(lists[owner]) :
           /\ i < j
           /\ lists' = [lists EXCEPT ![owner] = AroundSection(lists[owner], i, j, section),
                                     ![section] = SubSeq(lists[owner], i, j)]
           /\ bucket' = [s \in Statements |->
                           IF s = section THEN owner
                           ELSE IF s \in Range(SubSeq(lists[owner], i, j)) THEN section
                           ELSE bucket[s]]
           /\ order' = ElementMerge(section, SubSeq(lists[owner], i, j))
  BY DEF MakeAtomic
<1>2. reorder \in SameLevel /\ repairs < MaxRepairs /\ IsInjective(lists[owner])
  BY <1>1 DEF Sorted, Integrating
<1>3. owner = Body
  <2>1. reorder[1] \in Statements /\ owner # Null
    BY <1>2 DEF SameLevel
  <2>2. owner \in Owners \cup {Null}
    BY <2>1, ProgramFacts DEF ProgramInv
  <2> QED
    BY <1>1, <2>1, <2>2 DEF Owners, InAtomicSection
<1>4. section \in Sections /\ bucket[section] = Null
  BY <1>2, UnusedSection
<1> HIDE DEF section, owner
<1>5. \A s \in Statements : bucket[s] # section
  BY <1>4 DEF ProgramInv, SectionsInUse
<1>6. PICK i, j \in 1..Len(lists[owner]) :
        /\ i < j
        /\ lists' = [lists EXCEPT ![owner] = AroundSection(lists[owner], i, j, section),
                                  ![section] = SubSeq(lists[owner], i, j)]
        /\ bucket' = [s \in Statements |->
                        IF s = section THEN owner
                        ELSE IF s \in Range(SubSeq(lists[owner], i, j)) THEN section
                        ELSE bucket[s]]
        /\ order' = ElementMerge(section, SubSeq(lists[owner], i, j))
  BY <1>1
<1>7. Wraps(section, i, j, SubSeq(lists[Body], i, j), AroundSection(lists[Body], i, j, section))
  BY <1>2, <1>3, <1>4, <1>5, <1>6 DEF Wraps
<1> QED
  BY <1>7

\* The program before and after.
LEMMA WrapFacts ==
  ASSUME ProgramInv, NEW section, NEW i, NEW j, NEW members, NEW new,
         Wraps(section, i, j, members, new)
  PROVE  /\ section \in Statements /\ section # Body /\ section \notin Range(members)
         /\ lists[Body] \in Seq(Statements) /\ section \notin Range(lists[Body])
         /\ Range(lists[Body]) = {s \in Statements : bucket[s] = Body}
         /\ members \in Seq(Statements) /\ Len(members) = j - i + 1
         /\ \A k \in 1..Len(members) : i + k - 1 \in i..j /\ members[k] = lists[Body][i + k - 1]
         /\ Range(members) = {lists[Body][k] : k \in i..j}
         /\ Range(members) \subseteq Range(lists[Body])
         /\ new \in Seq(Statements) /\ Len(new) = Len(lists[Body]) - (j - i)
         /\ \A k \in 1..Len(new) :
              new[k] = IF k < i THEN lists[Body][k]
                       ELSE IF k = i THEN section ELSE lists[Body][k + (j - i)]
         /\ Range(new) = (Range(lists[Body]) \ Range(members)) \cup {section}
         /\ lists' \in [Owners -> Seq(Statements)]
         /\ lists'[Body] = new /\ lists'[section] = members
         /\ \A o \in Sections : o # section => lists'[o] = lists[o]
         /\ bucket' \in [Statements -> Owners \cup {Null}] /\ bucket'[section] = Body
         /\ \A s \in Range(members) : bucket'[s] = section /\ bucket[s] = Body
         /\ \A s \in Statements :
              s # section /\ s \notin Range(members) => bucket'[s] = bucket[s]
<1> DEFINE list == lists[Body]
<1>1. /\ section \in Sections /\ section \in Statements /\ section # Body
      /\ section \in Owners /\ Body \in Owners /\ Body # Null
  BY ProgramFacts DEF Wraps, ProgramInv
<1>2. list \in Seq(Statements) /\ Range(list) = {s \in Statements : bucket[s] = Body}
  BY <1>1, ProgramFacts DEF ProgramInv, ListsMatchBuckets
<1>3. section \notin Range(list)
  BY <1>1, <1>2 DEF Wraps
<1>4. /\ IsInjective(list) /\ i \in 1..Len(list) /\ j \in 1..Len(list) /\ i < j
      /\ members = SubSeq(list, i, j) /\ new = AroundSection(list, i, j, section)
  BY DEF Wraps
<1>11. /\ lists' = [lists EXCEPT ![Body] = new, ![section] = members]
      /\ bucket' = [s \in Statements |->
                      IF s = section THEN Body
                      ELSE IF s \in Range(members) THEN section ELSE bucket[s]]
  BY DEF Wraps
<1>5. list \in Seq(Statements)
  BY <1>2
<1> HIDE DEF list
<1>6. /\ members \in Seq(Statements) /\ Len(members) = j - i + 1
      /\ \A k \in 1..Len(members) : i + k - 1 \in i..j /\ members[k] = list[i + k - 1]
      /\ Range(members) = {list[k] : k \in i..j}
      /\ new \in Seq(Statements) /\ Len(new) = Len(list) - (j - i)
      /\ \A k \in 1..Len(new) :
           new[k] = IF k < i THEN list[k] ELSE IF k = i THEN section ELSE list[k + (j - i)]
      /\ Range(new) = (Range(list) \ Range(members)) \cup {section}
  <2>1. TakenOut(list, i, j, section, members, new)
    BY <1>1, <1>3, <1>4, <1>5, AroundFacts
  <2> QED
    BY <2>1 DEF TakenOut
<1>7. Range(members) \subseteq Range(list)
  <2>1. \A k \in i..j : k \in 1..Len(list)
    BY <1>4
  <2> QED
    BY <1>5, <1>6, <2>1, EmptyFacts DEF Range
<1>8. /\ lists' \in [Owners -> Seq(Statements)]
      /\ lists'[Body] = new /\ lists'[section] = members
      /\ \A o \in Sections : o # section => lists'[o] = lists[o]
  <2>1. lists \in [Owners -> Seq(Statements)] /\ Owners = {Body} \cup Sections
        /\ Body \notin Sections
    BY ProgramFacts DEF ProgramInv
  <2> QED
    BY <1>1, <1>6, <1>11, <2>1
<1>9. /\ bucket' \in [Statements -> Owners \cup {Null}] /\ bucket'[section] = Body
      /\ \A s \in Range(members) : bucket'[s] = section /\ bucket[s] = Body
      /\ \A s \in Statements :
           s # section /\ s \notin Range(members) => bucket'[s] = bucket[s]
  <2>1. bucket \in [Statements -> Owners \cup {Null}]
    BY ProgramFacts DEF ProgramInv
  <2> QED
    BY <1>1, <1>2, <1>3, <1>7, <1>11, <2>1
<1>10. section \notin Range(members)
  BY <1>3, <1>7
<1> QED
  BY <1>1, <1>2, <1>3, <1>6, <1>7, <1>8, <1>9, <1>10 DEF list

\* Statements that were in order still are, seen from outside the section.
LEMMA OuterInFront ==
  ASSUME NEW list \in Seq(Statements), IsInjective(list),
         NEW i \in 1..Len(list), NEW j \in 1..Len(list), i < j,
         NEW section, section \notin Range(list), NEW members, NEW new,
         TakenOut(list, i, j, section, members, new),
         NEW s, NEW t \in Range(list), InFront(list, s, t),
         ~(s \in Range(members) /\ t \in Range(members))
  PROVE  InFront(new, Outer(section, members, s), Outer(section, members, t))
<1> DEFINE a == Outer(section, members, s)
           b == Outer(section, members, t)
<1> SUFFICES ASSUME NEW k \in 1..Len(new), new[k] = b
             PROVE  \E h \in 1..(k - 1) : new[h] = a
  BY DEF InFront
<1>1. /\ Len(list) \in Nat /\ i \in Nat /\ j \in Nat /\ i < j /\ DOMAIN list = 1..Len(list)
      /\ \A x, y \in 1..Len(list) : list[x] = list[y] => x = y
  BY DEF IsInjective
<1>2. /\ Range(members) = {list[x] : x \in i..j}
      /\ Len(new) = Len(list) - (j - i)
      /\ \A x \in 1..Len(new) :
           new[x] = IF x < i THEN list[x] ELSE IF x = i THEN section ELSE list[x + (j - i)]
  BY DEF TakenOut
<1>3. PICK q \in 1..Len(list) : list[q] = t
  BY <1>1 DEF Range
<1>4. PICK p \in 1..(q - 1) : list[p] = s
  BY <1>3 DEF InFront
<1>5. p \in 1..Len(list) /\ p < q /\ p \in Nat /\ q \in Nat
  BY <1>1, <1>3, <1>4
<1>6. ASSUME NEW x \in 1..Len(list)
      PROVE  list[x] \in Range(members) <=> x \in i..j
  <2>1. \A y \in i..j : y \in 1..Len(list)
    BY <1>1
  <2> QED
    BY <1>1, <1>2, <1>6, <2>1
<1>7. s \in Range(list) /\ s # section /\ t # section
  BY <1>1, <1>3, <1>4, <1>5 DEF Range
<1>8. /\ s \in Range(members) <=> p \in i..j
      /\ t \in Range(members) <=> q \in i..j
  BY <1>3, <1>4, <1>5, <1>6
<1> DEFINE place(x) == IF x < i THEN x ELSE IF x \in i..j THEN i ELSE x - (j - i)
<1>9. ASSUME NEW x \in 1..Len(list)
      PROVE  /\ place(x) \in 1..Len(new)
             /\ new[place(x)] = IF x \in i..j THEN section ELSE list[x]
  <2>1. x \in Nat /\ x # 0
    BY <1>1
  <2>2. CASE x < i
    <3>1. place(x) = x /\ x \in 1..Len(new) /\ ~(x \in i..j)
      BY <1>1, <1>2, <2>1, <2>2
    <3> QED
      BY <1>2, <2>2, <3>1
  <2>3. CASE x \in i..j
    <3>1. place(x) = i /\ i \in 1..Len(new)
      BY <1>1, <1>2, <2>1, <2>3
    <3> QED
      BY <1>1, <1>2, <2>3, <3>1
  <2>4. CASE ~(x < i) /\ ~(x \in i..j)
    <3>1. /\ place(x) = x - (j - i) /\ x - (j - i) \in 1..Len(new)
          /\ ~(x - (j - i) < i) /\ x - (j - i) # i /\ (x - (j - i)) + (j - i) = x
      BY <1>1, <1>2, <2>1, <2>4
    <3> HIDE DEF place
    <3>2. new[place(x)] = list[(x - (j - i)) + (j - i)]
      BY <1>2, <3>1
    <3> QED
      BY <2>4, <3>1, <3>2
  <2> QED
    BY <2>2, <2>3, <2>4
<1>10. place(p) < place(q) /\ place(p) \in Nat /\ place(q) \in Nat
  <2>1. ~(p \in i..j /\ q \in i..j)
    BY <1>8
  <2> QED
    BY <1>1, <1>5, <2>1
<1>11. ASSUME NEW x \in 1..Len(new), NEW y \in 1..Len(new), new[x] = new[y]
       PROVE  x = y
  <2> DEFINE from(z) == IF z <= i THEN z ELSE z + (j - i)
  <2>1. ASSUME NEW z \in 1..Len(new)
        PROVE  /\ from(z) \in 1..Len(list)
               /\ new[z] = IF z = i THEN section ELSE list[from(z)]
    <3>1. z \in Nat /\ z # 0
      BY <1>1, <1>2
    <3>2. from(z) \in 1..Len(list)
      BY <1>1, <1>2, <3>1
    <3>3. CASE z < i
      BY <1>1, <1>2, <3>1, <3>3
    <3>4. CASE z = i
      <4>1. from(z) = i /\ ~(z < i) /\ i \in 1..Len(list)
        BY <1>1, <3>4
      <4> QED
        BY <1>2, <3>4, <4>1
    <3>5. CASE ~(z < i) /\ z # i
      <4>1. from(z) = z + (j - i)
        BY <1>1, <3>1, <3>5
      <4> QED
        BY <1>2, <3>2, <3>5, <4>1
    <3> QED
      BY <3>2, <3>3, <3>4, <3>5
  <2>2. \A z \in 1..Len(list) : list[z] # section
    BY <1>1 DEF Range
  <2>3. x \in Nat /\ y \in Nat
    BY <1>1, <1>2
  <2>4. CASE x = i \/ y = i
    BY <1>11, <2>1, <2>2, <2>4
  <2>5. CASE x # i /\ y # i
    <3>1. from(x) = from(y)
      <4> HIDE DEF from
      <4>1. list[from(x)] = list[from(y)]
        BY <1>11, <2>1, <2>5
      <4> QED
        BY <1>1, <2>1, <4>1
    <3> QED
      BY <1>1, <2>3, <2>5, <3>1
  <2> QED
    BY <2>4, <2>5
<1>12. new[place(p)] = a /\ new[place(q)] = b
  <2> HIDE DEF place
  <2> QED
    BY <1>3, <1>4, <1>5, <1>8, <1>9 DEF Outer
<1>13. place(q) = k
  <2> HIDE DEF place, a, b
  <2> QED
    BY <1>3, <1>9, <1>11, <1>12
<1>14. place(p) \in 1..(k - 1)
  <2>1. place(p) \in 1..Len(new)
    BY <1>5, <1>9
  <2> HIDE DEF place
  <2> QED
    BY <1>2, <1>10, <1>13, <2>1
<1> QED
  BY <1>12, <1>14

\* A path leads forward in a list.
LEMMA PathInFront ==
  ASSUME OrderTypeOK, ListsRespectOrder, NEW s, NEW t, <<s, t>> \in Reach(order)
  PROVE  /\ s \in Statements /\ t \in Statements
         /\ bucket[s] = bucket[t] /\ bucket[s] \in Owners
         /\ InFront(lists[bucket[s]], s, t)
<1> DEFINE goal == {u \in Statements : /\ bucket[s] = bucket[u] /\ bucket[s] \in Owners
                                       /\ InFront(lists[bucket[s]], s, u)}
<1>1. s \in Statements /\ t \in Statements
  BY DEF Reach
<1>2. ASSUME NEW f \in order, f[1] = s \/ f[1] \in goal PROVE f[2] \in goal
  <2>1. /\ f[1] \in Statements /\ f[2] \in Statements
        /\ bucket[f[1]] = bucket[f[2]] /\ bucket[f[1]] # Null
        /\ InFront(lists[bucket[f[1]]], f[1], f[2])
    BY DEF OrderTypeOK, ListsRespectOrder
  <2>2. bucket[f[1]] \in Owners
    BY <2>1, ProgramFacts
  <2>3. CASE f[1] = s
    BY <2>1, <2>2, <2>3
  <2>4. CASE f[1] \in goal
    <3>1. /\ bucket[s] = bucket[f[1]] /\ bucket[s] \in Owners
          /\ InFront(lists[bucket[s]], s, f[1])
      BY <2>4
    <3>2. lists[bucket[s]] \in Seq(Statements)
      BY <3>1, ProgramFacts
    <3>3. InFront(lists[bucket[s]], s, f[2])
      BY <2>1, <3>1, <3>2, InFrontTransitive
    <3> QED
      BY <2>1, <3>1, <3>3
  <2> QED
    BY <1>2, <2>3, <2>4
<1>3. goal \subseteq Statements
  OBVIOUS
<1>4. t \in goal
  <2> HIDE DEF goal
  <2> QED
    BY <1>2, <1>3, ReachInduction
<1> QED
  BY <1>1, <1>4

\* The edges after elementMerge: the old ones, seen from outside the section,
\* and the chain of its members.
LEMMA WrapEdges ==
  ASSUME ProgramInv, NEW section, NEW i, NEW j, NEW members, NEW new,
         Wraps(section, i, j, members, new)
  PROVE  /\ order' \subseteq Statements \X Statements
         /\ \A f \in order :
              ~(f[1] \in Range(members) /\ f[2] \in Range(members))
                => <<Outer(section, members, f[1]), Outer(section, members, f[2])>> \in order'
         /\ \A k \in 1..(Len(members) - 1) : <<members[k], members[k + 1]>> \in order'
         /\ \A e \in order' :
              \/ \E f \in order :
                   /\ ~(f[1] \in Range(members) /\ f[2] \in Range(members))
                   /\ e = <<Outer(section, members, f[1]), Outer(section, members, f[2])>>
              \/ \E k \in 1..(Len(members) - 1) : e = <<members[k], members[k + 1]>>
<1> DEFINE old == Range(members)
           out(s) == Outer(section, members, s)
<1>1. /\ order \subseteq Statements \X Statements /\ section \in Statements
      /\ members \in Seq(Statements) /\ order' = ElementMerge(section, members)
  BY ProgramFacts, WrapFacts DEF ProgramInv, Wraps
<1>2. order' = {e \in order : e[1] \notin old /\ e[2] \notin old}
                 \cup {<<out(e[1]), out(e[2])>> :
                          e \in {f \in order : f[1] \in old <=> f[2] \notin old}}
                 \cup {<<members[k], members[k + 1]>> : k \in 1..(Len(members) - 1)}
  BY <1>1 DEF ElementMerge, Outer
<1>3. \A e \in order : e = <<e[1], e[2]>> /\ e[1] \in Statements /\ e[2] \in Statements
  BY <1>1
<1>4. \A s : s \notin old => out(s) = s
  BY DEF Outer
<1>5. \A s \in Statements : out(s) \in Statements
  BY <1>1 DEF Outer
<1> HIDE DEF old, out
<1>6. \A k \in 1..(Len(members) - 1) : members[k] \in Statements /\ members[k + 1] \in Statements
  BY <1>1
<1>7. order' \subseteq Statements \X Statements
  <2> SUFFICES ASSUME NEW e \in order' PROVE e \in Statements \X Statements
    OBVIOUS
  <2>1. CASE e \in order
    BY <1>1, <2>1
  <2>2. CASE \E f \in order : e = <<out(f[1]), out(f[2])>>
    BY <1>3, <1>5, <2>2
  <2>3. CASE \E k \in 1..(Len(members) - 1) : e = <<members[k], members[k + 1]>>
    BY <1>6, <2>3
  <2> QED
    BY <1>2, <2>1, <2>2, <2>3
<1>8. ASSUME NEW f \in order, ~(f[1] \in old /\ f[2] \in old)
      PROVE  <<out(f[1]), out(f[2])>> \in order'
  <2>1. CASE f[1] \notin old /\ f[2] \notin old
    <3>1. <<out(f[1]), out(f[2])>> = f
      BY <1>3, <1>4, <2>1
    <3> QED
      BY <1>2, <2>1, <3>1
  <2>2. CASE f[1] \in old <=> f[2] \notin old
    BY <1>2, <2>2
  <2> QED
    BY <1>8, <2>1, <2>2
<1>9. ASSUME NEW e \in order'
      PROVE  \/ \E f \in order :
                  ~(f[1] \in old /\ f[2] \in old) /\ e = <<out(f[1]), out(f[2])>>
             \/ \E k \in 1..(Len(members) - 1) : e = <<members[k], members[k + 1]>>
  <2>1. CASE e \in order /\ e[1] \notin old /\ e[2] \notin old
    <3>1. e = <<out(e[1]), out(e[2])>>
      BY <1>3, <1>4, <2>1
    <3> QED
      BY <2>1, <3>1
  <2>2. CASE \E f \in order : (f[1] \in old <=> f[2] \notin old) /\ e = <<out(f[1]), out(f[2])>>
    BY <2>2
  <2>3. CASE \E k \in 1..(Len(members) - 1) : e = <<members[k], members[k + 1]>>
    BY <2>3
  <2> QED
    BY <1>2, <2>1, <2>2, <2>3
<1>10. \A k \in 1..(Len(members) - 1) : <<members[k], members[k + 1]>> \in order'
  BY <1>2
<1> QED
  BY <1>7, <1>8, <1>9, <1>10 DEF old, out

\* What the elements consist of, before and after.
LEMMA WrapLeaves ==
  ASSUME ProgramInv, NEW section, NEW i, NEW j, NEW members, NEW new,
         Wraps(section, i, j, members, new)
  PROVE  /\ \A u \in Statements : u # section => Leaves(u)' = Leaves(u)
         /\ Leaves(section)' = UNION {Leaves(m) : m \in Range(members)}
<1> DEFINE old == Range(members)
<1>1. /\ section \in Sections /\ section \in Statements /\ section \notin old
      /\ Program \cap Sections = {} /\ Statements = Program \cup Sections
      /\ Body \notin Sections /\ Null \notin Sections
      /\ \A s \in Statements : bucket[s] # section
      /\ bucket'[section] = Body /\ bucket[section] = Null
      /\ old \subseteq Statements
      /\ \A s \in old : bucket'[s] = section /\ bucket[s] = Body
      /\ \A s \in Statements : s # section /\ s \notin old => bucket'[s] = bucket[s]
  <2>1. /\ section \in Statements /\ section \notin old
        /\ old \subseteq Range(lists[Body])
        /\ Range(lists[Body]) = {s \in Statements : bucket[s] = Body}
        /\ bucket'[section] = Body
        /\ \A s \in old : bucket'[s] = section /\ bucket[s] = Body
        /\ \A s \in Statements : s # section /\ s \notin old => bucket'[s] = bucket[s]
    BY WrapFacts
  <2>2. /\ section \in Sections /\ bucket[section] = Null
        /\ \A s \in Statements : bucket[s] # section
    BY DEF Wraps
  <2>3. /\ Program \cap Sections = {} /\ Statements = Program \cup Sections
        /\ Body \notin Sections /\ Null \notin Sections
    BY ProgramFacts DEF ProgramInv
  <2> HIDE DEF old
  <2> QED
    BY <2>1, <2>2, <2>3
<1> HIDE DEF old
<1>2. ASSUME NEW u \in Sections, u # section, NEW t \in Leaves(u)' PROVE t \in Leaves(u)
  <2>1. /\ t \in Program /\ bucket'[t] \in Sections
        /\ \A around \in SUBSET Sections :
             (/\ bucket'[t] \in around
              /\ \A x \in around : bucket'[x] \in Sections => bucket'[x] \in around)
             => u \in around
    BY <1>1, <1>2 DEF Leaves
  <2>2. t \notin old
    <3> SUFFICES ASSUME t \in old PROVE FALSE
      OBVIOUS
    <3>1. {section} \in SUBSET Sections /\ bucket'[t] \in {section}
          /\ \A x \in {section} : bucket'[x] \in Sections => bucket'[x] \in {section}
      BY <1>1
    <3> QED
      BY <1>2, <2>1, <3>1
  <2>3. bucket[t] = bucket'[t]
    BY <1>1, <2>1, <2>2
  <2>4. ASSUME NEW around \in SUBSET Sections, bucket[t] \in around,
               \A x \in around : bucket[x] \in Sections => bucket[x] \in around
        PROVE  u \in around
    <3> DEFINE wider == around \cup {section}
    <3>1. wider \in SUBSET Sections /\ bucket'[t] \in wider
      BY <1>1, <2>3, <2>4
    <3>2. ASSUME NEW x \in wider, bucket'[x] \in Sections PROVE bucket'[x] \in wider
      <4>1. x \in Statements /\ x # section
        BY <1>1, <3>1, <3>2
      <4> QED
        BY <1>1, <2>4, <3>2, <4>1
    <3> HIDE DEF wider
    <3>3. u \in wider
      BY <2>1, <3>1, <3>2
    <3> QED
      BY <1>2, <3>3 DEF wider
  <2> QED
    BY <1>1, <2>1, <2>3, <2>4 DEF Leaves
<1>3. ASSUME NEW u \in Sections, u # section, NEW t \in Leaves(u) PROVE t \in Leaves(u)'
  <2>1. /\ t \in Program /\ bucket[t] \in Sections
        /\ \A around \in SUBSET Sections :
             (/\ bucket[t] \in around
              /\ \A x \in around : bucket[x] \in Sections => bucket[x] \in around)
             => u \in around
    BY <1>1, <1>3 DEF Leaves
  <2>2. t \notin old /\ bucket'[t] = bucket[t]
    BY <1>1, <2>1
  <2>3. ASSUME NEW around \in SUBSET Sections, bucket'[t] \in around,
               \A x \in around : bucket'[x] \in Sections => bucket'[x] \in around
        PROVE  u \in around
    <3> DEFINE inner == around \ {section}
    <3>1. inner \in SUBSET Sections /\ bucket[t] \in inner
      BY <1>1, <2>1, <2>2, <2>3
    <3>2. ASSUME NEW x \in inner, bucket[x] \in Sections PROVE bucket[x] \in inner
      <4>1. x \in Statements /\ x # section /\ x \notin old /\ x \in around
        BY <1>1, <3>1, <3>2
      <4> QED
        BY <1>1, <2>3, <3>2, <4>1
    <3> HIDE DEF inner
    <3>3. u \in inner
      BY <2>1, <3>1, <3>2
    <3> QED
      BY <3>3 DEF inner
  <2> QED
    BY <1>1, <2>1, <2>2, <2>3 DEF Leaves
<1>4. ASSUME NEW u \in Statements, u # section PROVE Leaves(u)' = Leaves(u)
  <2>1. CASE u \in Program
    BY <2>1 DEF Leaves
  <2>2. CASE u \in Sections
    BY <1>2, <1>3, <1>4, <2>2
  <2> QED
    BY <1>1, <2>1, <2>2
<1>5. ASSUME NEW t \in Leaves(section)' PROVE \E m \in old : t \in Leaves(m)
  <2>1. /\ t \in Program /\ bucket'[t] \in Sections
        /\ \A around \in SUBSET Sections :
             (/\ bucket'[t] \in around
              /\ \A x \in around : bucket'[x] \in Sections => bucket'[x] \in around)
             => section \in around
    BY <1>1 DEF Leaves
  <2>2. CASE t \in old
    <3>1. t \in Leaves(t)
      BY <2>1 DEF Leaves
    <3> QED
      BY <2>2, <3>1
  <2>3. CASE t \notin old
    <3> SUFFICES ASSUME \A m \in old : t \notin Leaves(m) PROVE FALSE
      OBVIOUS
    <3> DEFINE around == {u \in Sections : t \in Leaves(u)}
    <3>1. bucket[t] = bucket'[t] /\ bucket[t] \in Sections /\ t \notin Sections
      BY <1>1, <2>1, <2>3
    <3>2. bucket[t] \in around
      BY <1>1, <2>1, <3>1 DEF Leaves
    <3>3. ASSUME NEW x \in around, bucket'[x] \in Sections PROVE bucket'[x] \in around
      <4>1. x \in Statements /\ x \notin old /\ x # section
        BY <1>1, <3>3
      <4>2. bucket'[x] = bucket[x]
        BY <1>1, <4>1
      <4>3. /\ x \in Sections /\ x \notin Program /\ t \in Leaves(x)
            /\ bucket[x] \in Sections /\ bucket[x] \notin Program
        BY <1>1, <3>3, <4>2
      <4>4. t \in Leaves(bucket[x])
        BY <4>3 DEF Leaves
      <4> QED
        BY <4>2, <4>3, <4>4
    <3> HIDE DEF around
    <3>4. section \in around
      <4>1. around \in SUBSET Sections
        BY DEF around
      <4> QED
        BY <2>1, <3>1, <3>2, <3>3, <4>1
    <3>5. section \notin Program /\ t \in Leaves(section)
      BY <1>1, <3>4 DEF around
    <3> DEFINE others == Sections \ {section}
    <3>6. /\ others \in SUBSET Sections /\ bucket[t] \in others
          /\ \A x \in others : bucket[x] \in Sections => bucket[x] \in others
      BY <1>1, <2>1, <3>1
    <3>7. section \in others
      <4> HIDE DEF others
      <4> QED
        BY <3>5, <3>6 DEF Leaves
    <3> QED
      BY <3>7
  <2> QED
    BY <2>2, <2>3
<1>6. ASSUME NEW m \in old, NEW t \in Leaves(m) PROVE t \in Leaves(section)'
  <2>1. m \in Statements /\ m # section /\ bucket'[m] = section
        /\ section \notin Program
    BY <1>1
  <2>2. CASE m \in Program
    <3>1. t = m
      BY <2>2 DEF Leaves
    <3>2. t \in Program /\ bucket'[t] = section /\ section \in Sections
      BY <1>1, <2>1, <2>2, <3>1
    <3> QED
      BY <2>1, <3>2 DEF Leaves
  <2>3. CASE m \in Sections
    <3>1. m \notin Program /\ t \in Leaves(m)'
      BY <1>1, <1>3, <2>1, <2>3
    <3>2. /\ t \in Program /\ bucket'[t] \in Sections
          /\ \A around \in SUBSET Sections :
               (/\ bucket'[t] \in around
                /\ \A x \in around : bucket'[x] \in Sections => bucket'[x] \in around)
               => m \in around
      BY <3>1 DEF Leaves
    <3>3. ASSUME NEW around \in SUBSET Sections, bucket'[t] \in around,
                 \A x \in around : bucket'[x] \in Sections => bucket'[x] \in around
          PROVE  section \in around
      <4>1. m \in around
        BY <3>2, <3>3
      <4> QED
        BY <1>1, <2>1, <3>3, <4>1
    <3> QED
      BY <2>1, <3>2, <3>3 DEF Leaves
  <2> QED
    BY <1>1, <2>1, <2>2, <2>3
<1> QED
  BY <1>4, <1>5, <1>6 DEF old

\* The lists hold what their buckets say, and the section is in use.
LEMMA WrapLists ==
  ASSUME ProgramInv, NEW section, NEW i, NEW j, NEW members, NEW new,
         Wraps(section, i, j, members, new), repairs' = repairs + 1
  PROVE  ListsMatchBuckets' /\ SectionsInUse' /\ SectionsSuffice' /\ Unrepaired'
<1> DEFINE old == Range(members)
           body == Range(lists[Body])
<1>1. /\ section \in Sections /\ bucket[section] = Null
      /\ \A s \in Statements : bucket[s] # section
  BY DEF Wraps
<1>2. /\ section \in Statements /\ section # Body /\ section \notin old /\ section \notin body
      /\ old \subseteq body /\ body = {s \in Statements : bucket[s] = Body}
      /\ Range(new) = (body \ old) \cup {section}
      /\ lists'[Body] = new /\ lists'[section] = members
      /\ \A o \in Sections : o # section => lists'[o] = lists[o]
      /\ bucket'[section] = Body
      /\ \A s \in old : bucket'[s] = section /\ bucket[s] = Body
      /\ \A s \in Statements : s # section /\ s \notin old => bucket'[s] = bucket[s]
  BY WrapFacts
<1>3. /\ Body \notin Sections /\ Null \notin Sections /\ Body # Null /\ Owners = {Body} \cup Sections
      /\ Statements = Program \cup Sections /\ repairs \in Nat
      /\ Sections \subseteq Statements /\ IsFiniteSet(Sections)
  BY ProgramFacts DEF ProgramInv
<1> HIDE DEF old, body
<1>4. ListsMatchBuckets'
  <2>1. ASSUME NEW o \in Owners PROVE Range(lists'[o]) = {s \in Statements : bucket'[s] = o}
    <3>1. CASE o = Body
      BY <1>1, <1>2, <1>3, <3>1
    <3>2. CASE o = section
      <4>1. Range(lists'[o]) = old
        BY <1>2, <3>2 DEF old
      <4> QED
        BY <1>1, <1>2, <1>3, <3>2, <4>1
    <3>3. CASE o \in Sections /\ o # section
      <4>1. Range(lists'[o]) = {s \in Statements : bucket[s] = o}
        BY <1>2, <3>3 DEF ProgramInv, ListsMatchBuckets
      <4> QED
        BY <1>1, <1>2, <1>3, <3>3, <4>1
    <3> QED
      BY <1>3, <3>1, <3>2, <3>3
  <2> QED
    BY <2>1 DEF ListsMatchBuckets
<1>5. SectionsInUse'
  <2>1. ASSUME NEW s \in Statements, bucket'[s] \in Sections PROVE bucket'[bucket'[s]] # Null
    <3>1. CASE bucket'[s] = section
      BY <1>2, <1>3, <3>1
    <3>2. CASE bucket'[s] # section
      <4>1. bucket'[s] = bucket[s]
        BY <1>2, <1>3, <2>1, <3>2
      <4>2. bucket[bucket[s]] # Null
        BY <2>1, <4>1 DEF ProgramInv, SectionsInUse
      <4>3. bucket[s] \in Statements
        BY <1>3, <2>1, <4>1
      <4> QED
        BY <1>1, <1>2, <1>3, <4>1, <4>2, <4>3
    <3> QED
      BY <3>1, <3>2
  <2> QED
    BY <2>1 DEF SectionsInUse
<1>6. SectionsSuffice'
  <2>1. UsedSections' = UsedSections \cup {section}
    <3>1. ASSUME NEW s \in Sections PROVE bucket'[s] # Null <=> (bucket[s] # Null \/ s = section)
      BY <1>1, <1>2, <1>3
    <3> QED
      BY <1>1, <3>1 DEF UsedSections
  <2>2. section \notin UsedSections /\ IsFiniteSet(UsedSections)
    BY <1>1, <1>3, FS_Subset DEF UsedSections
  <2>3. /\ Cardinality(UsedSections \cup {section}) = Cardinality(UsedSections) + 1
        /\ Cardinality(UsedSections) \in Nat
    BY <2>2, FS_AddElement, FS_CardinalityType
  <2>4. Cardinality(UsedSections) <= repairs
    BY DEF ProgramInv, SectionsSuffice
  <2> QED
    BY <1>3, <2>1, <2>3, <2>4 DEF SectionsSuffice
<1>7. Unrepaired'
  BY <1>3 DEF Unrepaired
<1> QED
  BY <1>4, <1>5, <1>6, <1>7

\* The graph after elementMerge agrees with the lists.
LEMMA WrapOrder ==
  ASSUME ProgramInv, NEW section, NEW i, NEW j, NEW members, NEW new,
         Wraps(section, i, j, members, new)
  PROVE  ListsRespectOrder' /\ SectionChains'
<1> DEFINE old == Range(members)
           body == Range(lists[Body])
           out(s) == Outer(section, members, s)
           agree(e) == /\ bucket'[e[1]] = bucket'[e[2]] /\ bucket'[e[1]] # Null
                       /\ InFront(lists'[bucket'[e[1]]], e[1], e[2])
<1>1. /\ section \in Sections /\ bucket[section] = Null
      /\ \A s \in Statements : bucket[s] # section
      /\ IsInjective(lists[Body])
      /\ i \in 1..Len(lists[Body]) /\ j \in 1..Len(lists[Body]) /\ i < j
  BY DEF Wraps
<1>2. /\ section \in Statements /\ section # Body /\ section \notin old /\ section \notin body
      /\ old \subseteq body /\ body = {s \in Statements : bucket[s] = Body}
      /\ lists'[Body] = new /\ lists'[section] = members
      /\ \A o \in Sections : o # section => lists'[o] = lists[o]
      /\ bucket'[section] = Body
      /\ \A s \in old : bucket'[s] = section /\ bucket[s] = Body
      /\ \A s \in Statements : s # section /\ s \notin old => bucket'[s] = bucket[s]
  BY WrapFacts
<1>3. /\ lists[Body] \in Seq(Statements) /\ members \in Seq(Statements)
      /\ Len(members) = j - i + 1
      /\ \A k \in 1..Len(members) : i + k - 1 \in i..j /\ members[k] = lists[Body][i + k - 1]
      /\ TakenOut(lists[Body], i, j, section, members, new)
  BY WrapFacts DEF TakenOut
<1>4. /\ Body \notin Sections /\ Null \notin Sections /\ Body # Null /\ Owners = {Body} \cup Sections
      /\ order \subseteq Statements \X Statements
      /\ bucket \in [Statements -> Owners \cup {Null}]
  BY ProgramFacts DEF ProgramInv
<1>5. ASSUME NEW e \in order
      PROVE  /\ e[1] \in Statements /\ e[2] \in Statements /\ e = <<e[1], e[2]>>
             /\ bucket[e[1]] = bucket[e[2]] /\ bucket[e[1]] # Null
             /\ bucket[e[1]] \in Owners
             /\ InFront(lists[bucket[e[1]]], e[1], e[2])
             /\ e[1] # section /\ e[2] # section
  <2>1. /\ bucket[e[1]] = bucket[e[2]] /\ bucket[e[1]] # Null
        /\ InFront(lists[bucket[e[1]]], e[1], e[2])
    BY DEF ProgramInv, ListsRespectOrder
  <2> QED
    BY <1>1, <1>4, <2>1
<1> HIDE DEF old, body, out
<1>6. ASSUME NEW f \in order, ~(f[1] \in old /\ f[2] \in old)
      PROVE  agree(<<out(f[1]), out(f[2])>>)
  <2>1. CASE bucket[f[1]] = Body
    <3>1. f[1] \in body /\ f[2] \in body /\ InFront(lists[Body], f[1], f[2])
      BY <1>2, <1>5, <2>1
    <3>2. InFront(new, out(f[1]), out(f[2]))
      BY <1>1, <1>2, <1>3, <1>6, <3>1, OuterInFront DEF old, body, out
    <3>3. \A s \in body : bucket'[out(s)] = Body
      BY <1>2 DEF out, old, Outer
    <3> QED
      BY <1>2, <1>4, <3>1, <3>2, <3>3
  <2>2. CASE bucket[f[1]] # Body
    <3>1. f[1] \notin old /\ f[2] \notin old
      BY <1>2, <1>5, <2>2
    <3>2. out(f[1]) = f[1] /\ out(f[2]) = f[2]
      BY <3>1 DEF out, old, Outer
    <3>3. /\ bucket'[f[1]] = bucket[f[1]] /\ bucket'[f[2]] = bucket[f[2]]
          /\ bucket[f[1]] \in Sections /\ bucket[f[1]] # section
      BY <1>1, <1>2, <1>4, <1>5, <2>2, <3>1
    <3> QED
      BY <1>2, <1>5, <3>2, <3>3
  <2> QED
    BY <2>1, <2>2
<1>7. ASSUME NEW k \in 1..(Len(members) - 1) PROVE agree(<<members[k], members[k + 1]>>)
  <2>1. k \in 1..Len(members) /\ k + 1 \in 1..Len(members)
    BY <1>3
  <2>2. members[k] \in old /\ members[k + 1] \in old
    BY <1>3, <2>1, EmptyFacts DEF Range, old
  <2>3. InFront(members, members[k], members[k + 1])
    <3> SUFFICES ASSUME NEW m \in 1..Len(members), members[m] = members[k + 1]
                 PROVE  \E h \in 1..(m - 1) : members[h] = members[k]
      BY DEF InFront
    <3>1. /\ i + m - 1 \in 1..Len(lists[Body]) /\ i + (k + 1) - 1 \in 1..Len(lists[Body])
          /\ lists[Body][i + m - 1] = lists[Body][i + (k + 1) - 1]
      <4>1. i + m - 1 \in i..j /\ i + (k + 1) - 1 \in i..j
        BY <1>3, <2>1
      <4>2. \A x \in i..j : x \in 1..Len(lists[Body])
        BY <1>1
      <4> QED
        BY <1>3, <2>1, <4>1, <4>2
    <3>2. DOMAIN lists[Body] = 1..Len(lists[Body])
      BY <1>3, EmptyFacts
    <3>3. i + m - 1 = i + (k + 1) - 1
      BY <1>1, <3>1, <3>2 DEF IsInjective
    <3>4. m = k + 1
      BY <1>1, <1>3, <2>1, <3>3
    <3> QED
      BY <2>1, <3>4
  <2> QED
    BY <1>2, <1>4, <1>1, <2>2, <2>3
<1>8. \A e \in order' :
        \/ \E f \in order :
             /\ ~(f[1] \in old /\ f[2] \in old)
             /\ e = <<out(f[1]), out(f[2])>>
        \/ \E k \in 1..(Len(members) - 1) : e = <<members[k], members[k + 1]>>
  BY WrapEdges DEF old, out
<1>9. \A e \in order' : agree(e)
  <2> HIDE DEF agree
  <2> QED
    BY <1>6, <1>7, <1>8
<1>10. ListsRespectOrder'
  BY <1>9 DEF ListsRespectOrder, InFront
<1>11. SectionChains'
  <2>1. ASSUME NEW s \in Sections, NEW k \in 1..(Len(lists'[s]) - 1)
        PROVE  <<lists'[s][k], lists'[s][k + 1]>> \in order'
    <3>1. CASE s = section
      BY <1>2, <3>1, WrapEdges
    <3>2. CASE s # section
      <4> DEFINE f == <<lists[s][k], lists[s][k + 1]>>
      <4>1. lists'[s] = lists[s] /\ f \in order
        BY <1>2, <3>2 DEF ProgramInv, SectionChains
      <4>2. /\ lists[s] \in Seq(Statements)
            /\ Range(lists[s]) = {x \in Statements : bucket[x] = s}
        BY <1>4, ProgramFacts DEF ProgramInv, ListsMatchBuckets
      <4>3. k \in 1..Len(lists[s]) /\ k + 1 \in 1..Len(lists[s])
        BY <4>1, <4>2
      <4>4. f[1] \in Range(lists[s]) /\ f[2] \in Range(lists[s])
        BY <4>2, <4>3, EmptyFacts DEF Range
      <4>5. f[1] \notin old /\ f[2] \notin old
        BY <1>2, <1>4, <4>2, <4>4
      <4>6. out(f[1]) = f[1] /\ out(f[2]) = f[2]
        BY <4>5 DEF old, out, Outer
      <4>7. <<out(f[1]), out(f[2])>> \in order'
        <5> HIDE DEF f
        <5> QED
          BY <4>1, <4>5, WrapEdges DEF old, out
      <4> QED
        BY <4>1, <4>6, <4>7
    <3> QED
      BY <3>1, <3>2
  <2> QED
    BY <2>1 DEF SectionChains
<1> QED
  BY <1>10, <1>11

\* No decision is lost: a path within the section is replaced by the chain of its
\* members, and any other one is seen from outside the section.
LEMMA WrapDecided ==
  ASSUME ProgramInv, NEW section, NEW i, NEW j, NEW members, NEW new,
         Wraps(section, i, j, members, new), required' = required
  PROVE  Decided'
<1> DEFINE old == Range(members)
           body == Range(lists[Body])
           out(s) == Outer(section, members, s)
<1>1. /\ section \in Sections /\ bucket[section] = Null
      /\ \A s \in Statements : bucket[s] # section
      /\ IsInjective(lists[Body])
      /\ i \in 1..Len(lists[Body]) /\ j \in 1..Len(lists[Body]) /\ i < j
  BY DEF Wraps
<1>2. /\ section \in Statements /\ section \notin old /\ section \notin body
      /\ old \subseteq body /\ body = {s \in Statements : bucket[s] = Body}
      /\ lists[Body] \in Seq(Statements) /\ members \in Seq(Statements)
      /\ Len(members) = j - i + 1
      /\ \A k \in 1..Len(members) : i + k - 1 \in i..j /\ members[k] = lists[Body][i + k - 1]
      /\ old = {lists[Body][k] : k \in i..j}
  BY WrapFacts
<1>3. /\ order' \subseteq Statements \X Statements
      /\ \A f \in order : ~(f[1] \in old /\ f[2] \in old)
                            => <<out(f[1]), out(f[2])>> \in order'
      /\ \A k \in 1..(Len(members) - 1) : <<members[k], members[k + 1]>> \in order'
  BY WrapEdges
<1>4. /\ \A u \in Statements : u # section => Leaves(u)' = Leaves(u)
      /\ Leaves(section)' = UNION {Leaves(m) : m \in old}
  BY WrapLeaves
<1>5. /\ order \subseteq Statements \X Statements /\ Null \notin Owners
      /\ OrderTypeOK /\ ListsRespectOrder
  BY ProgramFacts DEF ProgramInv
<1> HIDE DEF old, body, out
<1>6. /\ order' \subseteq Reach(order')
      /\ \A s, t, u : <<s, t>> \in Reach(order') /\ <<t, u>> \in Reach(order')
                        => <<s, u>> \in Reach(order')
  BY <1>3, ReachFacts
<1>7. ASSUME NEW x \in 1..Len(members), NEW y \in 1..Len(members), x < y
      PROVE  <<members[x], members[y]>> \in Reach(order')
  <2> DEFINE less == {ss \in Nat \X Nat : ss[1] < ss[2]}
             bad == {m \in (x + 1)..Len(members) : <<members[x], members[m]>> \notin Reach(order')}
  <2> SUFFICES ASSUME bad # {} PROVE FALSE
    <3>1. y \in (x + 1)..Len(members)
      BY <1>2, <1>7
    <3> QED
      BY <3>1
  <2>1. bad \subseteq Nat /\ IsWellFoundedOn(less, Nat)
    BY <1>2, NatLessThanWellFounded DEF OpToRel
  <2> HIDE DEF less
  <2>2. PICK m \in bad : \A n \in bad : ~(<<n, m>> \in less)
    <3> HIDE DEF bad
    <3> QED
      BY <2>1, WFMin
  <2>3. m \in (x + 1)..Len(members) /\ <<members[x], members[m]>> \notin Reach(order')
    OBVIOUS
  <2>4. m - 1 \in 1..(Len(members) - 1) /\ m - 1 + 1 = m
    BY <1>2, <2>3
  <2>5. <<members[m - 1], members[m]>> \in Reach(order')
    BY <1>3, <1>6, <2>4
  <2>6. CASE m = x + 1
    <3>1. m - 1 = x
      BY <1>2, <2>6
    <3> QED
      BY <2>3, <2>5, <3>1
  <2>7. CASE m # x + 1
    <3>1. m - 1 \in (x + 1)..Len(members) /\ m - 1 < m /\ m - 1 \in Nat /\ m \in Nat
      BY <1>2, <2>3, <2>7
    <3>2. <<m - 1, m>> \in less
      BY <3>1 DEF less
    <3>3. <<members[x], members[m - 1]>> \in Reach(order')
      BY <2>2, <3>1, <3>2
    <3> QED
      BY <1>6, <2>3, <2>5, <3>3
  <2> QED
    BY <2>6, <2>7
<1>8. ASSUME NEW s, NEW t, <<s, t>> \in Reach(order)
      PROVE  /\ s \in Statements /\ t \in Statements /\ s # section /\ t # section
             /\ bucket[s] = bucket[t] /\ bucket[s] \in Owners
             /\ InFront(lists[bucket[s]], s, t)
  <2>1. /\ s \in Statements /\ t \in Statements
        /\ bucket[s] = bucket[t] /\ bucket[s] \in Owners
        /\ InFront(lists[bucket[s]], s, t)
    BY <1>5, <1>8, PathInFront
  <2> QED
    BY <1>1, <1>5, <2>1
<1>9. ASSUME NEW s, NEW t, <<s, t>> \in Reach(order), s \in old, t \in old
      PROVE  <<s, t>> \in Reach(order')
  <2>1. PICK q \in i..j : lists[Body][q] = t
    BY <1>2, <1>9
  <2>2. InFront(lists[Body], s, t)
    <3>1. bucket[s] = Body
      BY <1>2, <1>9
    <3> QED
      BY <1>8, <1>9, <3>1
  <2>3. PICK p \in 1..(q - 1) : lists[Body][p] = s
    <3>1. q \in 1..Len(lists[Body])
      BY <1>1
    <3> QED
      BY <2>1, <2>2, <3>1 DEF InFront
  <2>4. PICK h \in i..j : lists[Body][h] = s
    BY <1>2, <1>9
  <2>5. p = h
    <3>1. p \in 1..Len(lists[Body]) /\ h \in 1..Len(lists[Body])
      BY <1>1, <2>1, <2>3
    <3>2. DOMAIN lists[Body] = 1..Len(lists[Body])
      BY <1>2, EmptyFacts
    <3> QED
      BY <1>1, <2>3, <2>4, <3>1, <3>2 DEF IsInjective
  <2>6. /\ h - i + 1 \in 1..Len(members) /\ i + (h - i + 1) - 1 = h
        /\ q - i + 1 \in 1..Len(members) /\ i + (q - i + 1) - 1 = q
        /\ h - i + 1 < q - i + 1
    BY <1>1, <1>2, <2>1, <2>3, <2>4, <2>5
  <2>7. members[h - i + 1] = s /\ members[q - i + 1] = t
    BY <1>2, <2>1, <2>4, <2>6
  <2> QED
    BY <1>7, <2>6, <2>7
<1>10. ASSUME NEW s, NEW t, <<s, t>> \in Reach(order), ~(s \in old /\ t \in old)
       PROVE  <<out(s), out(t)>> \in Reach(order')
  <2> DEFINE goal == {u \in Statements : out(u) = out(s) \/ <<out(s), out(u)>> \in Reach(order')}
  <2>1. ASSUME NEW f \in order, f[1] = s \/ f[1] \in goal PROVE f[2] \in goal
    <3>1. f[1] \in Statements /\ f[2] \in Statements
      BY <1>5
    <3>2. CASE f[1] \in old /\ f[2] \in old
      <4>1. out(f[1]) = out(f[2])
        BY <3>2 DEF out, old, Outer
      <4> QED
        BY <2>1, <3>1, <4>1
    <3>3. CASE ~(f[1] \in old /\ f[2] \in old)
      <4>1. <<out(f[1]), out(f[2])>> \in Reach(order')
        BY <1>3, <1>6, <3>3
      <4> QED
        BY <1>6, <2>1, <3>1, <4>1
    <3> QED
      BY <3>2, <3>3
  <2>2. t \in goal
    <3>1. goal \subseteq Statements
      OBVIOUS
    <3> HIDE DEF goal
    <3> QED
      BY <1>10, <2>1, <3>1, ReachInduction
  <2>3. out(t) # out(s)
    <3>1. s # section /\ t # section
      BY <1>8, <1>10
    <3>2. CASE s \in old \/ t \in old
      BY <1>10, <3>1, <3>2 DEF out, old, Outer
    <3>3. CASE s \notin old /\ t \notin old
      <4>1. out(s) = s /\ out(t) = t
        BY <3>3 DEF out, old, Outer
      <4> SUFFICES ASSUME s = t PROVE FALSE
        BY <4>1
      <4>2. /\ s \in Statements /\ bucket[s] \in Owners
            /\ InFront(lists[bucket[s]], s, s)
        BY <1>8, <1>10
      <4>3. /\ lists[bucket[s]] \in Seq(Statements)
            /\ Range(lists[bucket[s]]) = {x \in Statements : bucket[x] = bucket[s]}
        BY <1>5, <4>2, ProgramFacts DEF ProgramInv, ListsMatchBuckets
      <4> QED
        BY <4>2, <4>3, InFrontIrreflexive
    <3> QED
      BY <3>2, <3>3
  <2> QED
    BY <2>2, <2>3
<1>11. ASSUME NEW s \in Statements, s # section
       PROVE  Leaves(s) \subseteq Leaves(s)' /\ Leaves(s) \subseteq Leaves(out(s))'
  <2>1. CASE s \in old
    <3>1. out(s) = section
      BY <2>1 DEF out, old, Outer
    <3> QED
      BY <1>4, <1>11, <2>1, <3>1
  <2>2. CASE s \notin old
    <3>1. out(s) = s
      BY <2>2 DEF out, old, Outer
    <3> QED
      BY <1>4, <1>11, <3>1
  <2> QED
    BY <2>1, <2>2
<1>12. ASSUME NEW r \in required
       PROVE  \E s, t \in Statements :
                /\ r[1] \in Leaves(s)' /\ r[2] \in Leaves(t)'
                /\ <<s, t>> \in Reach(order')
  <2>1. PICK s, t \in Statements :
          r[1] \in Leaves(s) /\ r[2] \in Leaves(t) /\ <<s, t>> \in Reach(order)
    BY DEF ProgramInv, Decided
  <2>2. s # section /\ t # section
    BY <1>8, <2>1
  <2>3. CASE s \in old /\ t \in old
    BY <1>9, <1>11, <2>1, <2>2, <2>3
  <2>4. CASE ~(s \in old /\ t \in old)
    <3>1. <<out(s), out(t)>> \in Reach(order')
      BY <1>10, <2>1, <2>4
    <3>2. out(s) \in Statements /\ out(t) \in Statements
      BY <1>2 DEF out, old, Outer
    <3>3. r[1] \in Leaves(out(s))' /\ r[2] \in Leaves(out(t))'
      BY <1>11, <2>1, <2>2
    <3> QED
      BY <3>1, <3>2, <3>3
  <2> QED
    BY <2>3, <2>4
<1> QED
  BY <1>12 DEF Decided

\* Every statement is still part of the body.
LEMMA WrapBody ==
  ASSUME ProgramInv, NEW section, NEW i, NEW j, NEW members, NEW new,
         Wraps(section, i, j, members, new)
  PROVE  BodyWhole'
<1>1. /\ Range(lists'[Body]) = (Range(lists[Body]) \ Range(members)) \cup {section}
      /\ Range(members) \subseteq Range(lists[Body]) /\ Range(lists[Body]) \subseteq Statements
      /\ section \notin Range(lists[Body])
  BY WrapFacts
<1>2. /\ \A u \in Statements : u # section => Leaves(u)' = Leaves(u)
      /\ Leaves(section)' = UNION {Leaves(m) : m \in Range(members)}
  BY WrapLeaves
<1>3. UNION {Leaves(s) : s \in Range(lists[Body])} = Program
  BY DEF ProgramInv, BodyWhole
<1>4. \A t : (\E s \in Range(lists'[Body]) : t \in Leaves(s)')
               <=> (\E s \in Range(lists[Body]) : t \in Leaves(s))
  BY <1>1, <1>2
<1> QED
  BY <1>3, <1>4 DEF BodyWhole

\* A part of the list becomes a section.
LEMMA MakeAtomicStep == OrderInv /\ MakeAtomic => OrderInv'
<1> SUFFICES ASSUME OrderInv, MakeAtomic PROVE OrderInv'
  OBVIOUS
<1> USE DEF OrderInv
<1>1. PICK section, i, j, members, new : Wraps(section, i, j, members, new)
  BY MakeAtomicWraps
<1>2. /\ Back /\ repairs' = repairs + 1 /\ required' = required /\ blacks' = blacks
      /\ Sorted
  BY DEF MakeAtomic
<1>3. ListsMatchBuckets' /\ SectionsInUse' /\ SectionsSuffice' /\ Unrepaired'
  BY <1>1, <1>2, WrapLists
<1>4. ListsRespectOrder' /\ SectionChains'
  BY <1>1, WrapOrder
<1>5. Decided' /\ BodyWhole'
  BY <1>1, <1>2, WrapDecided, WrapBody
<1>6. OrderTypeOK'
  <2>1. repairs < MaxRepairs /\ reorder' = <<>>
    BY <1>2 DEF Sorted, Integrating, Back
  <2>2. repairs' \in 0..MaxRepairs
    BY <1>2, <2>1, ProgramFacts DEF ProgramInv
  <2>3. /\ lists' \in [Owners -> Seq(Statements)]
        /\ bucket' \in [Statements -> Owners \cup {Null}]
    BY <1>1, WrapFacts
  <2>4. order' \subseteq Statements \X Statements
    BY <1>1, WrapEdges
  <2> QED
    BY <1>2, <2>1, <2>2, <2>3, <2>4 DEF ProgramInv, OrderTypeOK
<1> QED
  BY <1>2, <1>3, <1>4, <1>5, <1>6, BackIdle DEF ProgramInv
-------------------------------------------------------------------------------
(***************************************************************************)
(* The parsed program.                                                     *)
(***************************************************************************)

\* reduced drops an edge only when what is left still says the same.
LEMMA ReducedSuffices ==
  ASSUME NEW rel, rel \subseteq {e \in Program \X Program : e[1] < e[2]}
  PROVE  rel \subseteq Reach(Reduced(rel))
<1> DEFINE all == Reach(rel)
           span(e) == e[2] - e[1]
           less == {ss \in Nat \X Nat : ss[1] < ss[2]}
           bad == {e \in all : e \notin Reach(Reduced(rel))}
<1>1. Program \subseteq Nat /\ Program \subseteq Statements
  BY StatementOrderAssumption
<1>2. rel \subseteq Statements \X Statements /\ all \subseteq Statements \X Statements
  BY <1>1 DEF Reach
<1>3. rel \subseteq all
  BY <1>2, ReachFacts
<1>4. Paths(rel) = all
  BY <1>2, PathsAreReach
<1>5. ASSUME NEW e \in all
      PROVE  \/ e \in Reduced(rel)
             \/ \E s : <<e[1], s>> \in all /\ <<s, e[2]>> \in all
  <2>1. CASE e \in rel
    BY <1>4, <2>1 DEF Reduced
  <2>2. CASE e \notin rel
    <3>1. e = <<e[1], e[2]>>
      BY <1>2
    <3>2. PICK f \in rel : f[2] = e[2] /\ (f[1] = e[1] \/ <<e[1], f[1]>> \in all)
      BY <1>2, <3>1, ReachLast
    <3>3. f = <<f[1], e[2]>> /\ f \in all
      BY <1>2, <1>3, <3>2
    <3>4. <<e[1], f[1]>> \in all
      BY <2>2, <3>1, <3>2, <3>3
    <3> QED
      BY <3>3, <3>4
  <2> QED
    BY <2>1, <2>2
<1>6. ASSUME NEW e \in all
      PROVE  e[1] \in Nat /\ e[2] \in Nat /\ span(e) \in Nat /\ e = <<e[1], e[2]>> /\ e[1] < e[2]
  <2> DEFINE goal == {u \in Program : e[1] \in Program /\ e[1] < u}
  <2>0. e = <<e[1], e[2]>>
    BY <1>2
  <2>1. ASSUME NEW f \in rel, f[1] = e[1] \/ f[1] \in goal PROVE f[2] \in goal
    <3>1. f[1] \in Program /\ f[2] \in Program /\ f[1] < f[2] /\ f[1] \in Nat /\ f[2] \in Nat
      BY <1>1
    <3>2. CASE f[1] = e[1]
      BY <3>1, <3>2
    <3>3. CASE f[1] \in goal
      <4>1. e[1] \in Nat /\ e[1] \in Program /\ e[1] < f[1]
        BY <1>1, <3>3
      <4> QED
        BY <3>1, <4>1
    <3> QED
      BY <2>1, <3>2, <3>3
  <2>2. goal \subseteq Statements
    BY <1>1
  <2>3. e[2] \in goal
    <3>1. <<e[1], e[2]>> \in Reach(rel)
      BY <2>0
    <3>2. \A u : <<e[1], u>> \in Reach(rel) => u \in goal
      <4> HIDE DEF goal
      <4> QED
        BY <2>1, <2>2, ReachInduction
    <3> QED
      BY <3>1, <3>2
  <2>4. e[1] \in Nat /\ e[2] \in Nat /\ e[1] < e[2]
    BY <1>1, <2>3
  <2>5. \A a, b \in Nat : a < b => b - a \in Nat
    OBVIOUS
  <2> QED
    BY <2>0, <2>4, <2>5
<1>7. Reduced(rel) \subseteq Statements \X Statements
  BY <1>1 DEF Reduced
<1>8. bad = {}
  <2> SUFFICES ASSUME bad # {} PROVE FALSE
    OBVIOUS
  <2> DEFINE spans == {span(e) : e \in bad}
  <2>1. spans \subseteq Nat /\ spans # {}
    BY <1>6
  <2>2. IsWellFoundedOn(less, Nat)
    BY NatLessThanWellFounded DEF OpToRel
  <2> HIDE DEF less
  <2>3. PICK n \in spans : \A m \in spans : ~(<<m, n>> \in less)
    <3> HIDE DEF spans
    <3> QED
      BY <2>1, <2>2, WFMin
  <2>4. PICK e \in bad : span(e) = n
    OBVIOUS
  <2>5. ASSUME NEW d \in all, span(d) < n PROVE d \in Reach(Reduced(rel))
    <3> SUFFICES ASSUME d \in bad PROVE FALSE
      OBVIOUS
    <3>1. span(d) \in spans /\ span(d) \in Nat /\ n \in Nat
      BY <1>6, <2>1
    <3>2. <<span(d), n>> \in less
      BY <2>5, <3>1 DEF less
    <3> HIDE DEF span, spans
    <3> QED
      BY <2>3, <3>1, <3>2
  <2>6. e \in all /\ e \notin Reach(Reduced(rel)) /\ e = <<e[1], e[2]>>
    BY <1>6
  <2>7. CASE e \in Reduced(rel)
    BY <1>7, <2>6, <2>7, ReachFacts
  <2>8. CASE \E s : <<e[1], s>> \in all /\ <<s, e[2]>> \in all
    <3>1. PICK s : <<e[1], s>> \in all /\ <<s, e[2]>> \in all
      BY <2>8
    <3>2. /\ e[1] \in Nat /\ e[2] \in Nat /\ s \in Nat /\ e[1] < s /\ s < e[2]
      BY <1>6, <2>6, <3>1
    <3>3. span(<<e[1], s>>) < n /\ span(<<s, e[2]>>) < n
      BY <2>4, <3>2
    <3>4. <<e[1], s>> \in Reach(Reduced(rel)) /\ <<s, e[2]>> \in Reach(Reduced(rel))
      BY <2>5, <3>1, <3>3
    <3> QED
      BY <1>7, <2>6, <3>4, ReachFacts
  <2> QED
    BY <1>5, <2>6, <2>7, <2>8
<1> QED
  BY <1>3, <1>8

\* The parsed program satisfies the invariant.
LEMMA StartInv == StartOrder => OrderInv
<1> SUFFICES ASSUME StartOrder PROVE OrderInv
  OBVIOUS
<1>1. PICK conflicts \in SUBSET {e \in Program \X Program : e[1] < e[2]} :
        required = conflicts /\ order = Reduced(conflicts)
  BY DEF StartOrder
<1>2. /\ lists = [o \in Owners |-> IF o = Body THEN Text ELSE <<>>]
      /\ bucket = [s \in Statements |-> IF s \in Program THEN Body ELSE Null]
      /\ reorder = <<>> /\ blacks = 0 /\ repairs = 0
      /\ items = <<>> /\ edges = {} /\ phase = "sorted"
  BY DEF StartOrder
<1>3. /\ Statements = Program \cup Sections /\ Program \cap Sections = {}
      /\ Body \notin Statements /\ Body # Null /\ Null \notin Statements
      /\ Text \in Seq(Program) /\ Range(Text) = Program
      /\ MaxBlackEdges \in Nat /\ MaxRepairs \in Nat
  BY StatementOrderAssumption, OrderItemsAssumption
<1>4. order \subseteq conflicts
  BY <1>1 DEF Reduced
<1>5. Text \in Seq(Statements)
  BY <1>3
<1>6. OrderTypeOK
  <2>1. lists \in [Owners -> Seq(Statements)]
    BY <1>2, <1>5
  <2>2. bucket \in [Statements -> Owners \cup {Null}]
    BY <1>2 DEF Owners
  <2>3. order \subseteq Statements \X Statements /\ required \subseteq Program \X Program
    BY <1>1, <1>3, <1>4
  <2> QED
    BY <1>2, <1>3, <2>1, <2>2, <2>3 DEF OrderTypeOK
<1>7. \A s \in Statements : bucket[s] \notin Sections /\ (s \in Program => Leaves(s) = {s})
  BY <1>2, <1>3 DEF Leaves
<1>8. ListsMatchBuckets
  <2>1. ASSUME NEW o \in Owners PROVE Range(lists[o]) = {s \in Statements : bucket[s] = o}
    <3>1. CASE o = Body
      BY <1>2, <1>3, <3>1 DEF Owners
    <3>2. CASE o # Body
      <4>1. lists[o] = <<>> /\ o \in Sections
        BY <1>2, <3>2 DEF Owners
      <4> QED
        BY <1>7, <4>1, EmptyFacts
    <3> QED
      BY <3>1, <3>2
  <2> QED
    BY <2>1 DEF ListsMatchBuckets
<1>9. SectionsInUse /\ Unrepaired
  BY <1>2, <1>7 DEF SectionsInUse, Unrepaired
<1>10. SectionsSuffice
  <2>1. UsedSections = {}
    BY <1>2, <1>3 DEF UsedSections
  <2> QED
    BY <1>2, <2>1, FS_EmptySet DEF SectionsSuffice
<1>11. SectionChains
  <2> SUFFICES ASSUME NEW s \in Sections, NEW i \in 1..(Len(lists[s]) - 1) PROVE FALSE
    BY DEF SectionChains
  <2>1. lists[s] = <<>>
    BY <1>2, <1>3 DEF Owners
  <2>2. Len(lists[s]) = 0
    BY <2>1
  <2> QED
    BY <2>2
<1>12. ListsRespectOrder
  <2>1. ASSUME NEW e \in order
        PROVE  /\ bucket[e[1]] = bucket[e[2]] /\ bucket[e[1]] # Null
               /\ InFront(lists[bucket[e[1]]], e[1], e[2])
    <3>1. e[1] \in Program /\ e[2] \in Program /\ e[1] < e[2]
      BY <1>1, <1>4
    <3>2. bucket[e[1]] = Body /\ bucket[e[2]] = Body /\ lists[Body] = Text
      BY <1>2, <1>3, <3>1 DEF Owners
    <3> QED
      BY <1>3, <3>1, <3>2, TextInFront
  <2> QED
    BY <2>1 DEF ListsRespectOrder
<1>13. Decided
  <2> SUFFICES ASSUME NEW r \in conflicts
               PROVE  \E s, t \in Statements :
                        r[1] \in Leaves(s) /\ r[2] \in Leaves(t) /\ <<s, t>> \in Reach(order)
    BY <1>1 DEF Decided
  <2>1. r \in Reach(order)
    BY <1>1, ReducedSuffices
  <2>2. r[1] \in Program /\ r[2] \in Program /\ r = <<r[1], r[2]>>
    BY <1>1
  <2>3. r[1] \in Leaves(r[1]) /\ r[2] \in Leaves(r[2]) /\ r[1] \in Statements /\ r[2] \in Statements
    BY <1>3, <1>7, <2>2
  <2>4. <<r[1], r[2]>> \in Reach(order)
    BY <2>1, <2>2
  <2> QED
    BY <2>3, <2>4
<1>14. BodyWhole
  <2>1. Range(lists[Body]) = Program
    BY <1>2, <1>3 DEF Owners
  <2> QED
    BY <1>3, <1>7, <2>1 DEF BodyWhole
<1>15. Integrating
  BY <1>2 DEF Integrating, NothingToSort
<1>16. Sorting /\ QuietInv
  <2>1. Fresh
    BY <1>2, OrderItemsAssumption DEF StartOrder, Fresh
  <2>2. ProblemOK /\ SoundProblem(items, edges) /\ IsInjective(items)
    BY <1>2 DEF ProblemOK, SoundProblem, Against, IsInjective
  <2> QED
    BY <2>1, <2>2, FreshSorting, FreshQuiet
<1> QED
  BY <1>6, <1>8, <1>9, <1>10, <1>11, <1>12, <1>13, <1>14, <1>15, <1>16 DEF OrderInv, ProgramInv
-------------------------------------------------------------------------------
(***************************************************************************)
(* The theorems.                                                           *)
(***************************************************************************)

\* Every step of a repair keeps the invariant.
LEMMA OrderInvStep == OrderInv /\ [OrderNext]_orderVars => OrderInv'
<1> SUFFICES ASSUME OrderInv, [OrderNext]_orderVars PROVE OrderInv'
  OBVIOUS
<1>1. CASE AddBlackEdge
  BY <1>1, AddBlackEdgeStep
<1>2. CASE Integrate
  BY <1>2, IntegrateStep
<1>3. CASE Sort
  BY <1>3, SortingStep
<1>4. CASE MoveUp
  BY <1>4, ReorderedStep DEF MoveUp
<1>5. CASE MoveDown
  BY <1>5, ReorderedStep DEF MoveDown
<1>6. CASE MakeAtomic
  BY <1>6, MakeAtomicStep
<1>7. CASE Reject
  BY <1>7, RejectStep
<1>8. CASE UNCHANGED orderVars
  <2>1. UNCHANGED program /\ reorder' = reorder /\ UNCHANGED sortVars
    BY <1>8 DEF orderVars
  <2>2. ProgramInv'
    BY <2>1, ProgramFrame DEF OrderInv, ProgramInv, OrderTypeOK
  <2>3. Sorting' /\ QuietInv'
    BY <2>1, PermInvStep, QuietInvStep DEF OrderInv
  <2>4. Integrating'
    BY <2>1 DEF OrderInv, Integrating, NothingToSort, SameLevel, program, sortVars, sorting
  <2> QED
    BY <2>2, <2>3, <2>4 DEF OrderInv
<1> QED
  BY <1>1, <1>2, <1>3, <1>4, <1>5, <1>6, <1>7, <1>8 DEF OrderNext

\* Whatever is learnt and repaired, the invariant holds (StatementOrder,
\* PartialOrder).
THEOREM OrderInvariant == OrderSpec => []OrderInv
BY StartInv, OrderInvStep, PTL DEF OrderSpec

\* Lists, buckets and edges are what they should be.
THEOREM OrderTypes == OrderSpec => []OrderTypeOK
<1>1. OrderInv => OrderTypeOK
  BY DEF OrderInv, ProgramInv
<1> QED
  BY <1>1, OrderInvariant, PTL

\* The graph and the lists agree, so that no sort throws for an edge across lists
\* (PartialOrder.scala:220).
THEOREM GraphAgrees == OrderSpec => []ListsRespectOrder
<1>1. OrderInv => ListsRespectOrder
  BY DEF OrderInv, ProgramInv
<1> QED
  BY <1>1, OrderInvariant, PTL

\* No repair loses a statement: each list holds what its bucket says, and the body
\* holds all.
THEOREM AllStatementsKept == OrderSpec => []NothingLost
<1>1. OrderInv => NothingLost
  BY DEF OrderInv, ProgramInv, ListsMatchBuckets, BodyWhole, NothingLost
<1> QED
  BY <1>1, OrderInvariant, PTL

\* Whatever reduced, elementMerge and the sorts make of the edges, what was decided
\* stays decided: the graph has a path for it, and a path leads forward.
THEOREM DecisionsStand == OrderSpec => []DependenciesKept
<1>1. ASSUME OrderInv, NEW r \in required
      PROVE  \E s, t \in Statements :
               /\ r[1] \in Leaves(s) /\ r[2] \in Leaves(t)
               /\ bucket[s] = bucket[t]
               /\ InFront(lists[bucket[s]], s, t)
  <2>1. PICK s, t \in Statements :
          r[1] \in Leaves(s) /\ r[2] \in Leaves(t) /\ <<s, t>> \in Reach(order)
    BY <1>1 DEF OrderInv, ProgramInv, Decided
  <2>2. bucket[s] = bucket[t] /\ InFront(lists[bucket[s]], s, t)
    BY <1>1, <2>1, PathInFront DEF OrderInv, ProgramInv
  <2> QED
    BY <2>1, <2>2
<1>2. OrderInv => DependenciesKept
  BY <1>1 DEF DependenciesKept
<1> QED
  BY <1>2, OrderInvariant, PTL

\* A list changes only as the body: there is nothing to reorder in a section.
LEMMA SectionsUntouched ==
  ASSUME OrderInv, [OrderNext]_orderVars, NEW s \in Sections, lists[s] # <<>>
  PROVE  lists'[s] = lists[s]
<1>0. /\ lists \in [Owners -> Seq(Statements)] /\ s \in Owners
      /\ Body \notin Sections /\ s \in Statements
  BY ProgramFacts DEF OrderInv, ProgramInv
<1>1. CASE UNCHANGED lists
  BY <1>1
<1>2. ASSUME NEW result \in {upResult, downResult}, Sorted, downResult # items,
             Reordered(result)
      PROVE  lists'[s] = lists[s]
  <2>1. bucket[reorder[1]] # s
    BY <1>2, SectionsFixed
  <2> QED
    BY <1>0, <1>2, <2>1 DEF Reordered
<1>3. CASE MakeAtomic
  <2>1. PICK section, i, j, members, new : Wraps(section, i, j, members, new)
    BY <1>3, MakeAtomicWraps
  <2>2. \A o \in Sections : o # section => lists'[o] = lists[o]
    BY <2>1, WrapFacts DEF OrderInv
  <2>3. section # s
    <3> SUFFICES ASSUME section = s PROVE FALSE
      OBVIOUS
    <3>1. \A t \in Statements : bucket[t] # s
      BY <2>1 DEF Wraps
    <3>2. Range(lists[s]) = {}
      BY <1>0, <3>1 DEF OrderInv, ProgramInv, ListsMatchBuckets
    <3>3. 1 \in DOMAIN lists[s]
      BY <1>0, EmptyFacts
    <3> QED
      BY <3>2, <3>3 DEF Range
  <2> QED
    BY <2>2, <2>3
<1>4. CASE AddBlackEdge \/ Integrate \/ Sort \/ Reject \/ UNCHANGED orderVars
  BY <1>1, <1>4 DEF AddBlackEdge, Integrate, Sort, Reject, orderVars, program
<1> QED
  BY <1>2, <1>3, <1>4 DEF OrderNext, MoveUp, MoveDown

\* What was made atomic stays as it is.
THEOREM SectionsKept == OrderSpec => SectionsStay
<1>1. OrderInv /\ [OrderNext]_orderVars
        => [\A s \in Sections : lists[s] # <<>> => lists'[s] = lists[s]]_orderVars
  BY SectionsUntouched
<1> QED
  BY <1>1, OrderInvariant, PTL DEF OrderSpec, SectionsStay

\* A repair asks of the sorts only what they can do: integrate gives them a list
\* without repetitions and an order that only the red edge disturbs, so that both
\* sorts bring back all the items and agree on whether anything changed.
THEOREM RepairSorts ==
  OrderSpec => [](SoundProblem(items, edges) /\ DownPermutes /\ SortsAgreeOnChange)
<1>1. OrderInv => SoundProblem(items, edges) /\ DownPermutes /\ SortsAgreeOnChange
  BY SortingPermutes, QuietAgree DEF OrderInv, Sorting
<1> QED
  BY <1>1, OrderInvariant, PTL
-------------------------------------------------------------------------------
(***************************************************************************)
(* First repairs.                                                          *)
(***************************************************************************)

\* Where edges lead there is a path.
LEMMA LeadsReach ==
  ASSUME NEW rel, NEW s \in Statements, NEW t \in Statements
  PROVE  Leads(rel, s, t) <=> <<s, t>> \in Reach(rel)
BY DEF Leads, Reach

\* Without edges there is no path.
LEMMA LeadsNowhere == \A s, t \in Statements : ~Leads({}, s, t)
<1> SUFFICES ASSUME NEW s \in Statements, NEW t \in Statements, Leads({}, s, t) PROVE FALSE
  OBVIOUS
<1> DEFINE nothing == {}
<1>1. nothing \in SUBSET Statements /\ t \notin nothing /\ \A e \in {} : e[2] \in nothing
  OBVIOUS
<1> HIDE DEF nothing
<1> QED
  BY <1>1 DEF Leads

\* The order has no cycle: along its edges one comes forward in a list.
LEMMA OrderAcyclic ==
  ASSUME OrderTypeOK, ListsMatchBuckets, ListsRespectOrder
  PROVE  Acyclic(order)
<1> SUFFICES ASSUME NEW s \in Statements, <<s, s>> \in Reach(order) PROVE FALSE
  BY LeadsReach DEF Acyclic
<1>1. bucket[s] \in Owners /\ InFront(lists[bucket[s]], s, s)
  BY PathInFront
<1>2. lists[bucket[s]] \in Seq(Statements) /\ s \in Range(lists[bucket[s]])
  BY <1>1, ProgramFacts DEF ListsMatchBuckets
<1> QED
  BY <1>1, <1>2, InFrontIrreflexive

\* A path that takes a new edge comes to its start and goes on from its end.
LEMMA ReachNewEdge ==
  ASSUME NEW rel, rel \subseteq Statements \X Statements,
         NEW a \in Statements, NEW b \in Statements, NEW s, NEW t,
         <<s, t>> \in Reach(rel \cup {<<a, b>>})
  PROVE  \/ <<s, t>> \in Reach(rel)
         \/ /\ s = a \/ <<s, a>> \in Reach(rel)
            /\ t = b \/ <<b, t>> \in Reach(rel)
<1> DEFINE goal == {u \in Statements :
                      \/ <<s, u>> \in Reach(rel)
                      \/ /\ s = a \/ <<s, a>> \in Reach(rel)
                         /\ u = b \/ <<b, u>> \in Reach(rel)}
           more == rel \cup {<<a, b>>}
<1>1. s \in Statements /\ t \in Statements
  BY DEF Reach
<1>2. ASSUME NEW f \in more, f[1] = s \/ f[1] \in goal PROVE f[2] \in goal
  <2>1. CASE f \in rel
    <3>1. f = <<f[1], f[2]>> /\ f[2] \in Statements /\ f \in Reach(rel)
      BY <2>1, ReachFacts
    <3>2. <<f[1], f[2]>> \in Reach(rel)
      BY <3>1
    <3>3. CASE f[1] = s
      BY <3>1, <3>2, <3>3
    <3>4. CASE <<s, f[1]>> \in Reach(rel)
      <4>1. <<s, f[2]>> \in Reach(rel)
        BY <3>2, <3>4, ReachFacts
      <4> QED
        BY <3>1, <4>1
    <3>5. CASE /\ s = a \/ <<s, a>> \in Reach(rel)
               /\ f[1] = b \/ <<b, f[1]>> \in Reach(rel)
      <4>1. <<b, f[2]>> \in Reach(rel)
        BY <3>2, <3>5, ReachFacts
      <4> QED
        BY <3>1, <3>5, <4>1
    <3> QED
      BY <1>2, <3>3, <3>4, <3>5
  <2>2. CASE f = <<a, b>>
    <3>1. f[1] = a /\ f[2] = b
      BY <2>2
    <3>2. s = a \/ <<s, a>> \in Reach(rel)
      BY <1>2, <3>1
    <3> QED
      BY <3>1, <3>2
  <2> QED
    BY <2>1, <2>2
<1>3. t \in goal
  <2>1. goal \subseteq Statements
    OBVIOUS
  <2>2. <<s, t>> \in Reach(more)
    OBVIOUS
  <2>3. \A u : <<s, u>> \in Reach(more) => u \in goal
    <3> HIDE DEF goal, more
    <3> QED
      BY <1>2, <2>1, ReachInduction
  <2> QED
    BY <2>2, <2>3
<1> QED
  BY <1>3

\* integrate looks for a path in the other direction before it adds a red edge, so
\* the order stays without cycles.
LEMMA NewEdgeAcyclic ==
  ASSUME NEW rel, rel \subseteq Statements \X Statements, Acyclic(rel),
         NEW a \in Statements, NEW b \in Statements, a # b, <<b, a>> \notin Reach(rel)
  PROVE  Acyclic(rel \cup {<<a, b>>})
<1> SUFFICES ASSUME NEW s \in Statements, <<s, s>> \in Reach(rel \cup {<<a, b>>}) PROVE FALSE
  BY LeadsReach DEF Acyclic
<1>1. <<s, s>> \notin Reach(rel)
  BY LeadsReach DEF Acyclic
<1>2. /\ s = a \/ <<s, a>> \in Reach(rel)
      /\ s = b \/ <<b, s>> \in Reach(rel)
  BY <1>1, ReachNewEdge
<1> QED
  BY <1>2, ReachFacts

\* What reduced leaves has no edge that a path of the others stands for.
LEMMA ReducedIsReduced ==
  ASSUME NEW rel, rel \subseteq Statements \X Statements, NEW e \in Reduced(rel)
  PROVE  ~Leads(Reduced(rel) \ {e}, e[1], e[2])
<1> DEFINE others == Reduced(rel) \ {e}
<1>1. /\ e \in rel /\ e = <<e[1], e[2]>> /\ e[1] \in Statements /\ e[2] \in Statements
      /\ \A s \in Statements : ~(<<e[1], s>> \in Reach(rel) /\ <<s, e[2]>> \in Reach(rel))
  BY PathsAreReach DEF Reduced
<1>2. others \subseteq rel /\ others \subseteq Statements \X Statements
  BY DEF Reduced
<1> HIDE DEF others
<1> SUFFICES ASSUME <<e[1], e[2]>> \in Reach(others) PROVE FALSE
  BY <1>1, LeadsReach DEF others
<1>3. PICK f \in others : f[2] = e[2] /\ (f[1] = e[1] \/ <<e[1], f[1]>> \in Reach(others))
  BY <1>2, ReachLast
<1>4. f = <<f[1], e[2]>> /\ f[1] \in Statements /\ f \in rel
  BY <1>2, <1>3
<1>5. f[1] # e[1]
  BY <1>1, <1>3, <1>4 DEF others
<1>6. <<e[1], f[1]>> \in Reach(rel) /\ <<f[1], e[2]>> \in Reach(rel)
  <2>1. f \in Reach(rel)
    BY <1>4, ReachFacts
  <2> QED
    BY <1>2, <1>3, <1>4, <1>5, <2>1, ReachMore
<1> QED
  BY <1>1, <1>4, <1>6

\* Until the first repair or black edge the order is as reduced left it.
AsReduced ==
  repairs = 0 /\ blacks = 0 => \A e \in order : ~Leads(order \ {e}, e[1], e[2])

\* The red edge was not in the order; the sorts have an order without cycles.
RepairInv == OrderInv /\ Moving /\ AsReduced /\ reorder \notin order

\* Sorting starts without cycles.
LEMMA StartMoving ==
  ASSUME NEW list, NEW rel, NEW now, SetSorts(now, list, rel), Sorting',
         now \in {"up", "sorted"}, now = "sorted" => list = <<>>, Acyclic(rel)
  PROVE  Moving'
<1>1. Fresh' /\ ProblemOK'
  BY DEF Sorting, SortInv, SortTypeOK, ProblemOK, SetSorts, Fresh
<1>2. SoundProblem(items, edges)' /\ Acyclic(edges)'
  BY DEF Sorting, SetSorts, Acyclic, Leads
<1>3. (Fresh /\ ProblemOK /\ SoundProblem(items, edges) /\ Acyclic(edges) => Moving)'
  BY FreshMoving, PTL
<1> QED
  BY <1>1, <1>2, <1>3

\* Nor are there any when nothing is sorted.
LEMMA BackMoving ==
  ASSUME Back, Sorting
  PROVE  Moving' /\ reorder' = <<>>
<1>1. SetSorts("sorted", <<>>, {}) /\ reorder' = <<>> /\ Sorting'
  BY BackIdle DEF Back
<1>2. Acyclic({})
  BY LeadsNowhere DEF Acyclic
<1> QED
  BY <1>1, <1>2, StartMoving

\* Every step of a repair keeps that.
LEMMA RepairInvStep == RepairInv /\ [OrderNext]_orderVars => RepairInv'
<1> SUFFICES ASSUME RepairInv, [OrderNext]_orderVars PROVE RepairInv'
  OBVIOUS
<1> USE DEF RepairInv
<1>1. OrderInv'
  BY OrderInvStep
<1>2. /\ repairs \in Nat /\ blacks \in Nat /\ order \subseteq Statements \X Statements
      /\ order' \subseteq Statements \X Statements /\ <<>> \notin order /\ <<>> \notin order'
  <2>1. /\ order \subseteq Statements \X Statements /\ order' \subseteq Statements \X Statements
        /\ blacks \in Nat /\ repairs \in Nat
    BY <1>1, StatementOrderAssumption DEF OrderInv, ProgramInv, OrderTypeOK
  <2> QED
    BY <2>1, PairsNotEmpty
<1>3. CASE AddBlackEdge
  <2>1. /\ reorder' = <<>> /\ blacks' = blacks + 1 /\ UNCHANGED sortVars
    BY <1>3 DEF AddBlackEdge
  <2>2. Moving'
    BY <2>1, MovingStep
  <2>3. AsReduced'
    BY <1>2, <2>1 DEF AsReduced
  <2> QED
    BY <1>1, <1>2, <2>1, <2>2, <2>3
<1>4. CASE Integrate
  <2>1. UNCHANGED program /\ order' = order /\ repairs' = repairs /\ blacks' = blacks
    BY <1>4 DEF Integrate, program
  <2>2. PICK red \in SameLevel \ Paths(order) :
          /\ reorder' = red
          /\ IF <<red[2], red[1]>> \in Paths(order) THEN UNCHANGED sortVars
             ELSE SetSorts("up", lists[bucket[red[1]]], order \cup {red})
    BY <1>4 DEF Integrate
  <2>3. /\ red = <<red[1], red[2]>> /\ red[1] \in Statements /\ red[2] \in Statements
        /\ red[1] # red[2]
    BY DEF SameLevel
  <2>4. Paths(order) = Reach(order) /\ order \subseteq Reach(order)
    BY <1>2, PathsAreReach, ReachFacts
  <2>5. reorder' \notin order'
    BY <2>1, <2>2, <2>4
  <2>6. AsReduced'
    BY <2>1 DEF AsReduced
  <2>7. Moving'
    <3>1. CASE UNCHANGED sortVars
      BY <3>1, MovingStep
    <3>2. CASE /\ <<red[2], red[1]>> \notin Reach(order)
               /\ SetSorts("up", lists[bucket[red[1]]], order \cup {red})
      <4>1. Acyclic(order)
        BY OrderAcyclic DEF OrderInv, ProgramInv
      <4>2. Acyclic(order \cup {red})
        BY <1>2, <2>3, <3>2, <4>1, NewEdgeAcyclic
      <4>3. Sorting'
        BY <1>1 DEF OrderInv
      <4> QED
        BY <3>2, <4>2, <4>3, StartMoving
    <3> QED
      BY <2>2, <2>4, <3>1, <3>2
  <2> QED
    BY <1>1, <2>5, <2>6, <2>7
<1>5. CASE Sort
  <2>1. SortNext /\ order' = order /\ repairs' = repairs /\ blacks' = blacks /\ reorder' = reorder
    BY <1>5 DEF Sort, program
  <2>2. Moving'
    BY <2>1, MovingStep
  <2> QED
    BY <1>1, <2>1, <2>2 DEF AsReduced
<1>6. CASE MoveUp \/ MoveDown \/ MakeAtomic
  <2>1. Back /\ repairs' = repairs + 1
    BY <1>6 DEF MoveUp, MoveDown, MakeAtomic, Reordered
  <2>2. Moving' /\ reorder' = <<>>
    BY <2>1, BackMoving DEF Moving
  <2>3. AsReduced'
    BY <1>2, <2>1 DEF AsReduced
  <2> QED
    BY <1>1, <1>2, <2>2, <2>3
<1>7. CASE Reject
  <2>1. Back /\ order' = order /\ repairs' = repairs /\ blacks' = blacks
    BY <1>7 DEF Reject, program
  <2>2. Moving' /\ reorder' = <<>>
    BY <2>1, BackMoving DEF Moving
  <2> QED
    BY <1>1, <1>2, <2>1, <2>2 DEF AsReduced
<1>8. CASE UNCHANGED orderVars
  <2>1. /\ UNCHANGED sortVars /\ order' = order /\ repairs' = repairs /\ blacks' = blacks
        /\ reorder' = reorder
    BY <1>8 DEF orderVars, program
  <2>2. Moving'
    BY <2>1, MovingStep
  <2> QED
    BY <1>1, <2>1, <2>2 DEF AsReduced
<1> QED
  BY <1>3, <1>4, <1>5, <1>6, <1>7, <1>8 DEF OrderNext

\* And it holds of the parsed program.
LEMMA RepairInvStart == StartOrder => RepairInv
<1> SUFFICES ASSUME StartOrder PROVE RepairInv
  OBVIOUS
<1>1. OrderInv
  BY StartInv
<1>2. PICK conflicts \in SUBSET {e \in Program \X Program : e[1] < e[2]} :
        order = Reduced(conflicts)
  BY DEF StartOrder
<1>3. conflicts \subseteq Statements \X Statements
  BY StatementOrderAssumption
<1>4. AsReduced
  BY <1>2, <1>3, ReducedIsReduced DEF AsReduced
<1>5. reorder \notin order
  <2>1. order \subseteq Statements \X Statements /\ reorder = <<>>
    BY <1>1 DEF OrderInv, ProgramInv, OrderTypeOK, StartOrder
  <2> QED
    BY <2>1, PairsNotEmpty
<1>6. Moving
  <2>1. Fresh
    BY <1>1, OrderItemsAssumption DEF StartOrder, Fresh
  <2>2. ProblemOK /\ SoundProblem(items, edges)
    BY <1>1 DEF OrderInv, Sorting, SortInv
  <2>3. Acyclic(edges)
    BY LeadsNowhere DEF Acyclic, StartOrder
  <2> QED
    BY <2>1, <2>2, <2>3, FreshMoving
<1> QED
  BY <1>1, <1>4, <1>5, <1>6 DEF RepairInv

\* In a first repair that moves anything, the red edge is the only edge that the list
\* is against, so the others are as reduced left them.
LEMMA FirstIsReduced ==
  ASSUME RepairInv, Sorted, downResult # items, repairs = 0, blacks = 0
  PROVE  FirstRepair
<1> USE DEF RepairInv
<1>1. /\ reorder \in SameLevel /\ reorder \in Statements \X Statements
      /\ items = lists[bucket[reorder[1]]] /\ edges = order \cup {reorder}
      /\ items \in Seq(Statements) /\ IsInjective(items)
  BY ResultFacts
<1>2. ~PredecessorsBefore(items)
  BY QuietSorted DEF Sorted, OrderInv
<1>3. PICK k \in 1..Len(items) : \E p \in Predecessors(items[k]) :
        ~\E j \in 1..(k - 1) : items[j] = p
  BY <1>2 DEF PredecessorsBefore
<1>4. PICK p \in Predecessors(items[k]) : ~\E j \in 1..(k - 1) : items[j] = p
  BY <1>3
<1>5. <<p, items[k]>> \in edges
  BY <1>4 DEF Predecessors
<1>6. ASSUME NEW e \in order, e[2] \in Range(items)
      PROVE  InFront(items, e[1], e[2]) /\ Precedes(items, e[1], e[2])
  <2>1. Range(items) = {s \in Statements : bucket[s] = bucket[reorder[1]]}
    BY <1>1, IntegrateSound DEF OrderInv
  <2>2. bucket[e[2]] = bucket[reorder[1]] /\ bucket[e[1]] = bucket[e[2]]
        /\ InFront(lists[bucket[e[1]]], e[1], e[2])
    BY <1>6, <2>1 DEF OrderInv, ProgramInv, ListsRespectOrder
  <2>3. InFront(items, e[1], e[2])
    BY <1>1, <2>2
  <2> QED
    BY <1>1, <1>6, <2>3, InFrontPrecedes
<1>7. items[k] \in Range(items)
  BY <1>1, EmptyFacts DEF Range
<1>8. <<p, items[k]>> \notin order
  <2> DEFINE e == <<p, items[k]>>
  <2> SUFFICES ASSUME e \in order PROVE FALSE
    OBVIOUS
  <2>1. e[1] = p /\ e[2] = items[k]
    OBVIOUS
  <2> HIDE DEF e
  <2>2. InFront(items, p, items[k])
    BY <1>6, <1>7, <2>1
  <2> QED
    BY <1>4, <2>2 DEF InFront
<1>9. reorder = <<p, items[k]>>
  BY <1>1, <1>5, <1>8
<1>10. reorder \in Disturbed
  <2>1. reorder[1] = p /\ reorder[2] = items[k]
    BY <1>9
  <2>2. ~Precedes(items, p, items[k])
    <3> SUFFICES ASSUME Precedes(items, p, items[k]) PROVE FALSE
      OBVIOUS
    <3>1. /\ DOMAIN items = 1..Len(items) /\ Len(items) \in Nat
          /\ \A i, j \in 1..Len(items) : items[i] = items[j] => i = j
      BY <1>1, EmptyFacts DEF IsInjective
    <3>2. p \in Range(items)
      BY <1>1, <1>7, <2>1, IntegrateSound DEF OrderInv, SameLevel
    <3>3. PICK j \in 1..Len(items) : items[j] = p
      BY <3>1, <3>2 DEF Range
    <3>4. Position(items, p) = j /\ Position(items, items[k]) = k
      BY <3>1, <3>3 DEF Position
    <3>5. j < k
      BY <3>4 DEF Precedes
    <3>6. j \in 1..(k - 1)
      BY <3>1, <3>5
    <3> QED
      BY <1>4, <3>3, <3>6
  <2> QED
    BY <1>1, <1>7, <2>1, <2>2 DEF Disturbed, Against
<1>11. edges \ Disturbed = order
  <2>1. \A e \in order : e \notin Disturbed
    BY <1>6 DEF Disturbed, Against
  <2> QED
    BY <1>1, <1>10, <2>1
<1>12. \A e \in order : ~Leads(order \ {e}, e[1], e[2])
  BY DEF AsReduced
<1> DEFINE old == edges \ Disturbed
<1>13. old = order
  BY <1>11
<1> HIDE DEF old, RepairInv
<1>14. \A e \in old : ~Leads(old \ {e}, e[1], e[2])
  BY <1>12, <1>13
<1> QED
  BY <1>14 DEF FirstRepair, old

\* The list with a section in the place of a part of it has no repetitions, nor
\* has that part.
LEMMA WrapInjective ==
  ASSUME ProgramInv, NEW section, NEW i, NEW j, NEW members, NEW new,
         Wraps(section, i, j, members, new)
  PROVE  IsInjective(new) /\ IsInjective(members)
<1>1. /\ lists[Body] \in Seq(Statements) /\ section \notin Range(lists[Body])
      /\ members \in Seq(Statements) /\ Len(members) = j - i + 1
      /\ \A k \in 1..Len(members) : i + k - 1 \in i..j /\ members[k] = lists[Body][i + k - 1]
      /\ new \in Seq(Statements) /\ Len(new) = Len(lists[Body]) - (j - i)
      /\ \A k \in 1..Len(new) :
           new[k] = IF k < i THEN lists[Body][k]
                    ELSE IF k = i THEN section ELSE lists[Body][k + (j - i)]
  <2>1. /\ lists[Body] \in Seq(Statements) /\ section \notin Range(lists[Body])
        /\ members \in Seq(Statements) /\ Len(members) = j - i + 1
    BY WrapFacts
  <2>2. \A k \in 1..Len(members) : i + k - 1 \in i..j /\ members[k] = lists[Body][i + k - 1]
    BY WrapFacts
  <2>3. /\ new \in Seq(Statements) /\ Len(new) = Len(lists[Body]) - (j - i)
        /\ \A k \in 1..Len(new) :
             new[k] = IF k < i THEN lists[Body][k]
                      ELSE IF k = i THEN section ELSE lists[Body][k + (j - i)]
    BY WrapFacts
  <2> QED
    BY <2>1, <2>2, <2>3
<1> DEFINE list == lists[Body]
<1>2. /\ IsInjective(list) /\ i \in 1..Len(list) /\ j \in 1..Len(list) /\ i < j
  BY DEF Wraps
<1>3. /\ DOMAIN list = 1..Len(list) /\ DOMAIN members = 1..Len(members)
      /\ DOMAIN new = 1..Len(new) /\ Len(list) \in Nat
  BY <1>1, EmptyFacts
<1>4. \A a, b \in 1..Len(list) : list[a] = list[b] => a = b
  BY <1>2, <1>3 DEF IsInjective
<1>5. \A a \in 1..Len(list) : list[a] # section
  BY <1>1, <1>3 DEF Range
<1> HIDE DEF list
<1>6. ASSUME NEW a \in 1..Len(members), NEW b \in 1..Len(members), members[a] = members[b]
      PROVE  a = b
  <2>1. i + a - 1 \in 1..Len(list) /\ i + b - 1 \in 1..Len(list)
    BY <1>1, <1>2, <1>3
  <2>2. list[i + a - 1] = list[i + b - 1]
    BY <1>1, <1>6 DEF list
  <2>3. i + a - 1 = i + b - 1
    BY <1>4, <2>1, <2>2
  <2> QED
    BY <1>2, <1>3, <2>3
<1>7. ASSUME NEW a \in 1..Len(new), NEW b \in 1..Len(new), new[a] = new[b]
      PROVE  a = b
  <2> DEFINE place(k) == IF k < i THEN k ELSE k + (j - i)
  <2>1. ASSUME NEW k \in 1..Len(new), k # i
        PROVE  place(k) \in 1..Len(list) /\ new[k] = list[place(k)]
    <3>1. Len(new) = Len(list) - (j - i)
      BY <1>1 DEF list
    <3>2. place(k) \in 1..Len(list)
      BY <1>2, <1>3, <2>1, <3>1
    <3>3. new[k] = list[place(k)]
      BY <1>1, <2>1 DEF list
    <3> QED
      BY <3>2, <3>3
  <2>2. new[i] = section \/ i \notin 1..Len(new)
    BY <1>1
  <2>3. CASE a = i \/ b = i
    <3> HIDE DEF place
    <3> QED
      BY <1>5, <1>7, <2>1, <2>2, <2>3
  <2>4. CASE a # i /\ b # i
    <3>1. place(a) = place(b)
      <4> HIDE DEF place
      <4> QED
        BY <1>4, <1>7, <2>1, <2>4
    <3> QED
      BY <1>2, <1>3, <2>4, <3>1
  <2> QED
    BY <2>3, <2>4
<1> QED
  BY <1>3, <1>6, <1>7 DEF IsInjective

\* What repeats a statement is the result of sorting upwards, in a repair of an order
\* that is no longer as reduced left it.
LEMMA StepRepeats ==
  ASSUME RepairInv, [OrderNext]_orderVars, NoStatementTwice
  PROVE  NoStatementTwice' \/ (MoveUp /\ (repairs > 0 \/ blacks > 0))
<1> USE DEF RepairInv
<1>0. /\ lists \in [Owners -> Seq(Statements)] /\ Owners = {Body} \cup Sections
      /\ repairs \in Nat /\ blacks \in Nat
  BY ProgramFacts, StatementOrderAssumption DEF OrderInv, ProgramInv, OrderTypeOK
<1>1. CASE UNCHANGED lists
  BY <1>1 DEF NoStatementTwice
<1>2. ASSUME NEW result \in {upResult, downResult}, Reordered(result), IsInjective(result)
      PROVE  NoStatementTwice'
  <2>1. lists' = [lists EXCEPT ![bucket[reorder[1]]] = result]
    BY <1>2 DEF Reordered
  <2>2. \A o \in Owners : lists'[o] = lists[o] \/ lists'[o] = result
    BY <1>0, <2>1
  <2> QED
    BY <1>2, <2>2 DEF NoStatementTwice
<1>3. CASE MoveUp
  <2>1. CASE repairs > 0 \/ blacks > 0
    BY <1>3, <2>1
  <2>2. CASE repairs = 0 /\ blacks = 0
    <3>1. FirstRepair
      BY <1>3, <2>2, FirstIsReduced DEF MoveUp
    <3>2. IsInjective(upResult)
      BY <3>1 DEF Moving, ClimbInv
    <3> QED
      BY <1>2, <1>3, <3>2 DEF MoveUp
  <2> QED
    BY <1>0, <2>1, <2>2
<1>4. CASE MoveDown
  <2>1. IsInjective(downResult)
    BY SortingPermutes DEF Moving, DownPermutes
  <2> QED
    BY <1>2, <1>4, <2>1 DEF MoveDown
<1>5. CASE MakeAtomic
  <2>1. PICK section, i, j, members, new : Wraps(section, i, j, members, new)
    BY <1>5, MakeAtomicWraps
  <2>2. /\ lists'[Body] = new /\ lists'[section] = members
        /\ \A o \in Sections : o # section => lists'[o] = lists[o]
    BY <2>1, WrapFacts DEF OrderInv
  <2>3. IsInjective(new) /\ IsInjective(members)
    BY <2>1, WrapInjective DEF OrderInv
  <2>4. \A o \in Owners : \/ lists'[o] = new \/ lists'[o] = members \/ lists'[o] = lists[o]
    BY <1>0, <2>2
  <2> QED
    BY <2>3, <2>4 DEF NoStatementTwice
<1>6. CASE AddBlackEdge \/ Integrate \/ Sort \/ Reject \/ UNCHANGED orderVars
  BY <1>1, <1>6 DEF AddBlackEdge, Integrate, Sort, Reject, orderVars, program
<1> QED
  BY <1>3, <1>4, <1>5, <1>6 DEF OrderNext

\* Whatever is learnt and repaired.
THEOREM RepairInvariant == OrderSpec => []RepairInv
BY RepairInvStart, RepairInvStep, PTL DEF OrderSpec

\* The order of a program never has a cycle, nor has what the sorts are given, so that
\* PartialOrder.add never throws "this would cause a cycle": integrate looks for a path
\* first, black edges go the way of the text, and elementMerge makes a section
\* of all that stands between two of its members.
THEOREM OrderStaysAcyclic == OrderSpec => [](Acyclic(order) /\ Acyclic(edges))
<1>1. RepairInv => Acyclic(order) /\ Acyclic(edges)
  BY OrderAcyclic DEF RepairInv, OrderInv, ProgramInv, Moving
<1> QED
  BY <1>1, RepairInvariant, PTL

\* So what holds of the sorts holds of them in every repair: the one upwards loses
\* nothing, and in a first repair both move only what they must.
THEOREM RepairsMoveLittle == OrderSpec => [](UpPermutes /\ MovesOnlyWhatItMust)
<1>1. RepairInv => UpPermutes /\ MovesOnlyWhatItMust
  BY MovingPermutes, MovingMoves DEF RepairInv
<1> QED
  BY <1>1, RepairInvariant, PTL

\* Only the result of sorting upwards can repeat a statement, and only once the order is
\* no longer as reduced left it (PartialOrder.scala:219-226).
THEOREM OnlyUpRepeats == OrderSpec => OnlyMoveUpRepeats
<1>1. RepairInv /\ [OrderNext]_orderVars
        => [NoStatementTwice /\ ~NoStatementTwice'
              => MoveUp /\ (repairs > 0 \/ blacks > 0)]_orderVars
  BY StepRepeats
<1> QED
  BY <1>1, RepairInvariant, PTL DEF OrderSpec, OnlyMoveUpRepeats

\* Programs with at most one repair, of a graph without black edges.
FirstOnce == blacks = 0 /\ repairs <= 1 => NoStatementTwice

\* Hence no candidate of such a first repair has a statement twice
\* (PartialOrder.scala:226).
THEOREM FirstRepairOnce == OrderSpec => []FirstOnce
<1>1. StartOrder => FirstOnce
  <2> SUFFICES ASSUME StartOrder, NEW o \in Owners PROVE IsInjective(lists[o])
    BY DEF FirstOnce, NoStatementTwice
  <2>1. lists[o] = Text \/ lists[o] = <<>>
    BY DEF StartOrder
  <2>2. IsInjective(Text)
    BY TextInjective
  <2>3. IsInjective(<<>>)
    BY DEF IsInjective
  <2> QED
    BY <2>1, <2>2, <2>3
<1>2. RepairInv /\ FirstOnce /\ [OrderNext]_orderVars => FirstOnce'
  <2> SUFFICES ASSUME RepairInv, FirstOnce, [OrderNext]_orderVars, blacks' = 0, repairs' <= 1
               PROVE  NoStatementTwice'
    BY DEF FirstOnce
  <2>1. repairs \in Nat /\ blacks \in Nat /\ repairs' \in Nat
    BY RepairInvStep, StatementOrderAssumption
       DEF RepairInv, OrderInv, ProgramInv, OrderTypeOK
  <2>2. /\ repairs' = repairs \/ repairs' = repairs + 1
        /\ blacks' = blacks \/ blacks' = blacks + 1
        /\ MoveUp => repairs' = repairs + 1
    BY DEF OrderNext, AddBlackEdge, Integrate, Sort, MoveUp, MoveDown, MakeAtomic, Reject,
           Reordered, program, orderVars
  <2>3. repairs <= 1 /\ blacks = 0 /\ (MoveUp => ~(repairs > 0))
    BY <2>1, <2>2
  <2>4. NoStatementTwice
    BY <2>3 DEF FirstOnce
  <2> QED
    BY <2>3, <2>4, StepRepeats
<1> QED
  BY <1>1, <1>2, RepairInvariant, PTL DEF OrderSpec
================================================================================
