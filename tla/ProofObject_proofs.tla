------------------------ MODULE ProofObject_proofs ------------------------
(***************************************************************************)
(* Theorems about ProofObject: for every good trace the constructor passes *)
(* its assertions, the program order it makes firm runs forward inside one *)
(* thread, and each suggestion turns round two statements of one thread.   *)
(***************************************************************************)
EXTENDS ProofObject, SequenceTheorems, WellFoundedInduction, TLAPS

Positions == DOMAIN trace
-------------------------------------------------------------------------------
(* Ways.  The recursive function is the one its equation describes, and    *)
(* that is the function of the chained sequences of edges.                 *)

\* The ways of n edges, without recursion.
Chained(p, from) == \A i \in 1..Len(p) :
                       p[i][1] = IF i = 1 THEN from ELSE p[i - 1][2]
Chains(from, edges, n) == {p \in Seq(edges) : Len(p) = n /\ Chained(p, from)}

\* Where a way that starts at from ends.
EndOf(p, from) == IF p = <<>> THEN from ELSE p[Len(p)][2]

Longer(ways, from, edges) ==
  UNION {{Append(way, e) : e \in {e \in edges : e[1] =
             (IF way = <<>> THEN from ELSE way[Len(way)][2])}} : way \in ways}

\* The least number of a set of numbers.
LEMMA LeastOf ==
  ASSUME NEW S, S \subseteq Nat, S # {}
  PROVE  \E least \in S : \A n \in S : least <= n
<1> DEFINE less == {pair \in Nat \X Nat : pair[1] < pair[2]}
<1>1. IsWellFoundedOn(less, Nat)
  BY NatLessThanWellFounded DEF OpToRel
<1>2. PICK least \in S : \A y \in S : <<y, least>> \notin less
  BY <1>1, WFMin
<1>3. ASSUME NEW n \in S PROVE least <= n
  <2>1. ~(n < least)
    BY <1>2
  <2> QED
    BY <2>1
<1> QED
  BY <1>3

\* A chain with one more edge where it ends is a chain.
LEMMA ChainAppended ==
  ASSUME NEW from, NEW edges, NEW p \in Seq(edges), Chained(p, from),
         NEW e \in edges, e[1] = EndOf(p, from)
  PROVE  /\ Append(p, e) \in Seq(edges) /\ Len(Append(p, e)) = Len(p) + 1
         /\ Chained(Append(p, e), from)
         /\ EndOf(Append(p, e), from) = e[2]
<1> DEFINE q == Append(p, e)
<1>1. /\ q \in Seq(edges) /\ q # <<>> /\ Len(q) = Len(p) + 1
      /\ \A i \in 1..Len(p) : q[i] = p[i]
      /\ q[Len(p) + 1] = e
  BY AppendProperties
<1>2. Len(p) \in Nat /\ (p = <<>> <=> Len(p) = 0)
  BY EmptySeq
<1> HIDE DEF q
<1>3. ASSUME NEW i \in 1..Len(q)
      PROVE  q[i][1] = IF i = 1 THEN from ELSE q[i - 1][2]
  <2>1. CASE i \in 1..Len(p)
    <3>1. p[i][1] = IF i = 1 THEN from ELSE p[i - 1][2]
      BY <2>1 DEF Chained
    <3>2. i # 1 => i - 1 \in 1..Len(p)
      BY <2>1, <1>2
    <3> QED
      BY <1>1, <2>1, <3>1, <3>2
  <2>2. CASE i = Len(p) + 1
    <3>1. CASE Len(p) = 0
      BY <1>1, <1>2, <2>2, <3>1 DEF EndOf
    <3>2. CASE Len(p) # 0
      <4>1. i - 1 = Len(p) /\ i # 1 /\ Len(p) \in 1..Len(p)
        BY <2>2, <1>2, <3>2
      <4> QED
        BY <1>1, <1>2, <2>2, <3>2, <4>1 DEF EndOf
    <3> QED
      BY <3>1, <3>2
  <2> QED
    BY <1>1, <1>2, <2>1, <2>2
<1>4. Chained(q, from)
  BY <1>3 DEF Chained
<1>5. EndOf(q, from) = e[2]
  BY <1>1 DEF EndOf
<1> QED
  BY <1>1, <1>4, <1>5 DEF q

\* What precedes an edge of a chain is a chain that ends where the edge starts.
LEMMA ChainPrefix ==
  ASSUME NEW from, NEW edges, NEW p \in Seq(edges), Chained(p, from),
         NEW k \in 1..Len(p)
  PROVE  LET q == SubSeq(p, 1, k - 1)
         IN  /\ q \in Seq(edges) /\ Len(q) = k - 1 /\ Chained(q, from)
             /\ \A i \in 1..(k - 1) : q[i] = p[i]
             /\ EndOf(q, from) = p[k][1]
<1> DEFINE q == SubSeq(p, 1, k - 1)
<1>1. k \in Nat /\ k >= 1 /\ k <= Len(p) /\ Len(p) \in Nat
  OBVIOUS
<1>2. \A i \in 1..(k - 1) : i \in 1..Len(p)
  BY <1>1
<1>5. q \in Seq(edges) /\ Len(q) = k - 1 /\ \A i \in 1..(k - 1) : q[i] = p[i]
  <2>1. /\ q \in Seq(edges)
        /\ Len(q) = (IF 1 <= k - 1 THEN (k - 1) - 1 + 1 ELSE 0)
        /\ \A i \in 1..((k - 1) - 1 + 1) : q[i] = p[1 + i - 1]
    BY <1>1, SubSeqProperties
  <2>2. Len(q) = k - 1
    BY <1>1, <2>1
  <2>3. \A i \in 1..(k - 1) : i \in 1..((k - 1) - 1 + 1) /\ 1 + i - 1 = i
    BY <1>1
  <2> HIDE DEF q
  <2> QED
    BY <2>1, <2>2, <2>3
<1> HIDE DEF q
<1>6. q = <<>> <=> k = 1
  BY <1>1, <1>5, EmptySeq
<1>7. ASSUME NEW i \in 1..Len(q)
      PROVE  q[i][1] = IF i = 1 THEN from ELSE q[i - 1][2]
  <2>1. p[i][1] = IF i = 1 THEN from ELSE p[i - 1][2]
    BY <1>5, <1>2 DEF Chained
  <2>2. i # 1 => i - 1 \in 1..(k - 1)
    BY <1>1, <1>5
  <2> QED
    BY <1>5, <2>1, <2>2
<1>8. EndOf(q, from) = p[k][1]
  <2>1. p[k][1] = IF k = 1 THEN from ELSE p[k - 1][2]
    BY DEF Chained
  <2>2. k # 1 => k - 1 \in 1..(k - 1)
    BY <1>1
  <2> QED
    BY <1>5, <1>6, <2>1, <2>2 DEF EndOf
<1> QED
  BY <1>5, <1>7, <1>8 DEF Chained, q

\* The chains of n edges are those of n - 1 with one more.
LEMMA ChainsGrow ==
  ASSUME NEW from, NEW edges, NEW n \in Nat, n # 0
  PROVE  Chains(from, edges, n) = Longer(Chains(from, edges, n - 1), from, edges)
<1>1. ASSUME NEW p \in Chains(from, edges, n)
      PROVE  p \in Longer(Chains(from, edges, n - 1), from, edges)
  <2>1. p \in Seq(edges) /\ Len(p) = n /\ Chained(p, from)
    BY <1>1 DEF Chains
  <2> DEFINE q == SubSeq(p, 1, n - 1)
  <2>2. n \in 1..Len(p)
    BY <2>1
  <2>3. /\ q \in Seq(edges) /\ Len(q) = n - 1 /\ Chained(q, from)
        /\ \A i \in 1..(n - 1) : q[i] = p[i]
        /\ EndOf(q, from) = p[n][1]
    BY <2>1, <2>2, ChainPrefix
  <2> HIDE DEF q
  <2>4. p[n] \in edges
    BY <2>1, <2>2
  <2>5. p = Append(q, p[n])
    <3> DEFINE r == Append(q, p[n])
    <3>1. /\ r \in Seq(edges) /\ Len(r) = Len(q) + 1
          /\ \A i \in 1..Len(q) : r[i] = q[i]
          /\ r[Len(q) + 1] = p[n]
      BY <2>3, <2>4, AppendProperties
    <3> HIDE DEF r
    <3>2. Len(r) = Len(p)
      BY <2>1, <2>3, <3>1
    <3>3. ASSUME NEW i \in 1..Len(p) PROVE p[i] = r[i]
      <4>1. i \in 1..(n - 1) \/ i = n
        BY <2>1
      <4>2. Len(q) + 1 = n
        BY <2>3
      <4> QED
        BY <2>3, <3>1, <4>1, <4>2
    <3> QED
      BY <2>1, <3>1, <3>2, <3>3, SeqEqual DEF r
  <2>6. q \in Chains(from, edges, n - 1)
    BY <2>3 DEF Chains
  <2>7. p[n][1] = (IF q = <<>> THEN from ELSE q[Len(q)][2])
    BY <2>3 DEF EndOf
  <2> QED
    BY <2>4, <2>5, <2>6, <2>7 DEF Longer
<1>2. ASSUME NEW p \in Longer(Chains(from, edges, n - 1), from, edges)
      PROVE  p \in Chains(from, edges, n)
  <2>1. PICK q \in Chains(from, edges, n - 1), e \in edges :
               e[1] = EndOf(q, from) /\ p = Append(q, e)
    BY <1>2 DEF Longer, EndOf
  <2>2. q \in Seq(edges) /\ Len(q) = n - 1 /\ Chained(q, from)
    BY DEF Chains
  <2>3. p \in Seq(edges) /\ Len(p) = Len(q) + 1 /\ Chained(p, from)
    BY <2>1, <2>2, ChainAppended
  <2>4. Len(p) = n
    BY <2>2, <2>3
  <2> QED
    BY <2>3, <2>4 DEF Chains
<1> QED
  BY <1>1, <1>2

\* The ways are the chains.
LEMMA WaysAreChains ==
  ASSUME NEW from, NEW edges, NEW n \in Nat
  PROVE  Ways(from, edges)[n] = Chains(from, edges, n)
<1> DEFINE Solves(w) == w = [m \in Nat |-> IF m = 0 THEN {<<>>}
                                           ELSE Longer(w[m - 1], from, edges)]
           chains == [m \in Nat |-> Chains(from, edges, m)]
<1>1. Chains(from, edges, 0) = {<<>>}
  <2>1. \A p \in Seq(edges) : Len(p) = 0 <=> p = <<>>
    BY EmptySeq
  <2>2. <<>> \in Seq(edges) /\ Chained(<<>>, from)
    BY DEF Chained
  <2> QED
    BY <2>1, <2>2 DEF Chains
<1>2. Solves(chains)
  <2>1. ASSUME NEW m \in Nat
        PROVE  chains[m] = IF m = 0 THEN {<<>>} ELSE Longer(chains[m - 1], from, edges)
    <3>1. CASE m = 0
      BY <1>1, <3>1
    <3>2. CASE m # 0
      <4>1. m - 1 \in Nat
        BY <3>2
      <4>2. chains[m] = Chains(from, edges, m) /\ chains[m - 1] = Chains(from, edges, m - 1)
        BY <4>1
      <4> QED
        BY <3>2, <4>2, ChainsGrow
    <3> QED
      BY <3>1, <3>2
  <2>2. DOMAIN chains = Nat /\ chains = [m \in Nat |-> chains[m]]
    OBVIOUS
  <2> HIDE DEF chains
  <2> QED
    BY <2>1, <2>2
<1>3. Ways(from, edges) = CHOOSE w : Solves(w)
  BY DEF Ways, Longer
<1> DEFINE ways == Ways(from, edges)
<1>4. Solves(ways)
  <2> HIDE DEF Solves
  <2> QED
    BY <1>2, <1>3
<1>5. ways[0] = {<<>>} /\ \A m \in Nat : m # 0 => ways[m] = Longer(ways[m - 1], from, edges)
  <2> HIDE DEF ways
  <2> QED
    BY <1>4
<1> HIDE DEF ways, Solves, chains
<1> DEFINE wrong == {m \in Nat : ways[m] # Chains(from, edges, m)}
<1>6. wrong = {}
  <2> SUFFICES ASSUME wrong # {} PROVE FALSE
    OBVIOUS
  <2>1. PICK least \in wrong : \A m \in wrong : least <= m
    BY LeastOf
  <2>2. least # 0
    BY <1>1, <1>5
  <2>3. least \in Nat /\ least - 1 \in Nat /\ least - 1 \notin wrong
    BY <2>1, <2>2
  <2>4. ways[least - 1] = Chains(from, edges, least - 1)
    BY <2>3
  <2>5. ways[least] = Chains(from, edges, least)
    BY <2>2, <2>3, <2>4, <1>5, ChainsGrow
  <2> QED
    BY <2>5
<1> QED
  BY <1>6 DEF ways
-------------------------------------------------------------------------------
(* Shortest ways.                                                          *)

Arrives(q, from, to, edges) ==
  q \in Seq(edges) /\ Chained(q, from) /\ EndOf(q, from) = to

\* A shortest way is a way, and no way is shorter; where the search finds none
\* there is none that has at most as many edges as the trace has statements.
LEMMA ShortestFacts ==
  ASSUME NEW from, NEW to, NEW edges, Len(trace) \in Nat
  PROVE  /\ \A p \in ShortestPaths(from, to, edges) :
              /\ Arrives(p, from, to, edges)
              /\ \A q : Arrives(q, from, to, edges) => Len(p) <= Len(q)
         /\ \A q : Arrives(q, from, to, edges) /\ Len(q) <= Len(trace)
                   => ShortestPaths(from, to, edges) # {}
<1> DEFINE arrived(n) == {way \in Ways(from, edges)[n] :
                            (IF way = <<>> THEN from ELSE way[n][2]) = to}
           lengths == {n \in 0 .. Len(trace) : arrived(n) # {}}
           least == {n \in lengths : \A k \in lengths : n <= k}
<1>1. ShortestPaths(from, to, edges) = UNION {arrived(n) : n \in least}
  BY DEF ShortestPaths
<1>2. ASSUME NEW n \in Nat
      PROVE  arrived(n) = {q \in Chains(from, edges, n) : EndOf(q, from) = to}
  <2>1. Ways(from, edges)[n] = Chains(from, edges, n)
    BY WaysAreChains
  <2>2. \A q \in Chains(from, edges, n) : Len(q) = n
    BY DEF Chains
  <2> QED
    BY <2>1, <2>2 DEF EndOf
<1> HIDE DEF arrived
<1>3. ASSUME NEW n \in Nat, NEW q
      PROVE  q \in arrived(n) <=> Arrives(q, from, to, edges) /\ Len(q) = n
  BY <1>2 DEF Chains, Arrives
<1>4. lengths \subseteq Nat
  OBVIOUS
<1>5. ASSUME NEW p \in ShortestPaths(from, to, edges)
      PROVE  /\ Arrives(p, from, to, edges)
             /\ \A q : Arrives(q, from, to, edges) => Len(p) <= Len(q)
  <2>1. PICK n \in least : p \in arrived(n)
    BY <1>1
  <2>2. n \in 0 .. Len(trace) /\ n \in Nat /\ \A k \in lengths : n <= k
    BY <1>4
  <2>3. Arrives(p, from, to, edges) /\ Len(p) = n
    BY <1>3, <2>1, <2>2
  <2>4. ASSUME NEW q, Arrives(q, from, to, edges), ~(n <= Len(q)) PROVE FALSE
    <3>1. Len(q) \in Nat
      BY <2>4 DEF Arrives
    <3>2. Len(q) \in 0 .. Len(trace)
      BY <2>2, <2>4, <3>1
    <3>3. q \in arrived(Len(q))
      BY <1>3, <2>4, <3>1
    <3>4. Len(q) \in lengths
      BY <3>2, <3>3
    <3> QED
      BY <2>2, <2>4, <3>4
  <2> QED
    BY <2>3, <2>4
<1>6. ASSUME NEW q, Arrives(q, from, to, edges), Len(q) <= Len(trace)
      PROVE  ShortestPaths(from, to, edges) # {}
  <2>1. Len(q) \in Nat
    BY <1>6 DEF Arrives
  <2>2. Len(q) \in 0 .. Len(trace)
    BY <1>6, <2>1
  <2>3. q \in arrived(Len(q))
    BY <1>3, <1>6, <2>1
  <2>4. lengths # {}
    BY <2>2, <2>3
  <2>5. PICK n \in lengths : \A k \in lengths : n <= k
    <3> HIDE DEF lengths
    <3> QED
      BY <1>4, <2>4, LeastOf
  <2>6. n \in least /\ arrived(n) # {}
    BY <2>5
  <2> QED
    BY <1>1, <2>6
<1> QED
  BY <1>5, <1>6
-------------------------------------------------------------------------------
(* The graph.                                                              *)

Colours == {"Dotted", "Black", "Red", "Green", "Blue", "RedDotted"}
Edges == Positions \X Positions \X Colours
Forward(e) == e[1] < e[2] /\ Thread(e[1]) = Thread(e[2])

\* The program order of the trace is in the graph, dotted or black.
OrderInGraph ==
  \A i \in Positions, j \in Positions :
    i < j /\ Thread(i) = Thread(j) => <<i, j, "Dotted">> \in graph \/ <<i, j, "Black">> \in graph

\* Program order runs forward in one thread, from a write to the assumption
\* that waits for it, and suggestions back in one thread.
EdgesRight ==
  \A e \in graph :
    /\ e[3] \in {"Dotted", "Black"} => Forward(e)
    /\ e[3] = "Blue" => e[1] < e[2] /\ trace[e[1]].kind = "write" /\ trace[e[2]].kind = "assume"
    /\ e[3] = "RedDotted" => e[1] > e[2] /\ Thread(e[1]) = Thread(e[2])

\* Each loop visits edges of its own colour.
TodoRight ==
  /\ phase \in {"cycles", "transitive", "cover", "done"}
  /\ phase = "cycles" => todo \subseteq Coloured({"Blue"})
  /\ phase = "transitive" => \A e \in todo : e[3] = "Green"
  /\ phase = "cover" => \A e \in todo : e \in Edges /\ e[3] \in {"Red", "Green"}

GraphInv ==
  /\ trace \in Seq(Event)
  /\ graph \subseteq Edges
  /\ OrderInGraph
  /\ EdgesRight
  /\ TodoRight

\* The positions of a trace are its numbers.
LEMMA TraceFacts ==
  ASSUME trace \in Seq(Event)
  PROVE  /\ Len(trace) \in Nat /\ Positions = 1..Len(trace) /\ Positions \subseteq Nat
         /\ \A i \in Positions : Thread(i) \in Nat
<1>1. Len(trace) \in Nat /\ Positions = 1..Len(trace)
  BY DEF Positions
<1>2. ASSUME NEW i \in Positions PROVE Thread(i) \in Nat
  <2>1. trace[i] \in Event
    BY <1>1
  <2> QED
    BY <2>1 DEF Thread, Event
<1> QED
  BY <1>1, <1>2

\* The initial edges.
LEMMA DependenciesAre ==
  ASSUME trace \in Seq(Event), NEW statements, statements \subseteq Positions,
         NEW colour, NEW e \in Dependencies(statements, colour)
  PROVE  /\ e = <<e[1], e[2], colour>> /\ e[1] \in Positions /\ e[2] \in statements
         /\ e[1] < e[2] /\ trace[e[1]].kind = "write"
<1>1. PICK i \in statements :
        \E v \in UsedVariables(i) : e \in FindDependency(i, v, colour)
  BY DEF Dependencies
<1>2. PICK j \in 1 .. i - 1 : ChangedVariables(j) # {} /\ e = <<j, i, colour>>
  BY <1>1 DEF FindDependency
<1>3. i \in Nat /\ i <= Len(trace) /\ Len(trace) \in Nat
  BY TraceFacts
<1>4. j \in Positions /\ j < i
  BY <1>2, <1>3, TraceFacts
<1>5. trace[j].kind = "write"
  BY <1>2 DEF ChangedVariables
<1> QED
  BY <1>2, <1>4, <1>5

LEMMA GreenType ==
  ASSUME trace \in Seq(Event), NEW e \in Green
  PROVE  e \in Edges /\ e[3] = "Green"
<1>1. PICK red \in Red :
        \/ \E c \in WritesBefore(red[1]) : e = <<c, red[1], "Green">>
        \/ \E c \in WritesAfter(red[2]) : e = <<red[2], c, "Green">>
  BY DEF Green
<1>2. OfKind("assert") \subseteq Positions
  BY DEF OfKind, Positions
<1>3. red[1] \in Positions /\ red[2] \in Positions
  BY <1>2, DependenciesAre DEF Red
<1>4. Len(trace) \in Nat /\ Positions = 1..Len(trace)
  BY TraceFacts
<1>5. WritesBefore(red[1]) \subseteq Positions
  <2>1. WritesBefore(red[1]) \subseteq 1 .. red[1] - 1
    BY DEF WritesBefore
  <2> QED
    BY <1>3, <1>4, <2>1
<1>6. WritesAfter(red[2]) \subseteq Positions
  <2>1. WritesAfter(red[2]) \subseteq red[2] + 1 .. Len(trace)
    BY DEF WritesAfter
  <2> QED
    BY <1>3, <1>4, <2>1
<1> QED
  BY <1>1, <1>3, <1>5, <1>6 DEF Edges, Colours

\* The graph the constructor starts from.
LEMMA GraphInit ==
  ASSUME Init
  PROVE  GraphInv
<1>1. trace \in Seq(Event)
  BY TracesAssumption DEF Init
<1>2. /\ graph = Dotted \cup Red \cup Green \cup Blue /\ todo = Blue /\ phase = "cycles"
  BY DEF Init
<1>3. Len(trace) \in Nat /\ Positions = 1..Len(trace)
  BY <1>1, TraceFacts
<1>4. ASSUME NEW e
      PROVE  e \in Dotted <=> \E i \in Positions, j \in Positions :
               e = <<i, j, "Dotted">> /\ i < j /\ Thread(i) = Thread(j)
  <2>1. e \in Dotted <=> \E i \in Positions : \E j \in i + 1 .. Len(trace) :
                           e = <<i, j, "Dotted">> /\ Thread(j) = Thread(i)
    BY DEF Dotted, Positions
  <2>2. \A i \in Positions : \A j : j \in i + 1 .. Len(trace) <=> j \in Positions /\ i < j
    BY <1>3
  <2> QED
    BY <2>1, <2>2
<1>5. OfKind("assert") \subseteq Positions /\ OfKind("assume") \subseteq Positions
  BY DEF OfKind, Positions
<1>6. ASSUME NEW e \in Red PROVE e \in Edges /\ e[3] = "Red"
  <2>1. /\ e = <<e[1], e[2], "Red">> /\ e[1] \in Positions /\ e[2] \in Positions
    BY <1>1, <1>5, DependenciesAre DEF Red
  <2> QED
    BY <2>1 DEF Edges, Colours
<1>7. ASSUME NEW e \in Blue
      PROVE  /\ e \in Edges /\ e[3] = "Blue" /\ e[1] < e[2]
             /\ trace[e[1]].kind = "write" /\ trace[e[2]].kind = "assume"
  <2> DEFINE waits == {i \in OfKind("assume") : oneOnly => Thread(i) \in AssertionThreads}
  <2>1. waits \subseteq Positions /\ waits \subseteq OfKind("assume") /\ e \in Dependencies(waits, "Blue")
    BY <1>5 DEF Blue
  <2> HIDE DEF waits
  <2>2. /\ e = <<e[1], e[2], "Blue">> /\ e[1] \in Positions /\ e[2] \in waits
        /\ e[1] < e[2] /\ trace[e[1]].kind = "write"
    BY <1>1, <2>1, DependenciesAre
  <2>3. e[2] \in Positions /\ trace[e[2]].kind = "assume"
    BY <2>1, <2>2 DEF OfKind
  <2> QED
    BY <2>2, <2>3 DEF Edges, Colours
<1>8. ASSUME NEW e \in Dotted PROVE e \in Edges /\ e[3] = "Dotted" /\ Forward(e)
  BY <1>4 DEF Edges, Colours, Forward
<1>9. ASSUME NEW e \in Green PROVE e \in Edges /\ e[3] = "Green"
  BY <1>1, GreenType
<1>10. graph \subseteq Edges
  BY <1>2, <1>6, <1>7, <1>8, <1>9
<1>11. OrderInGraph
  BY <1>2, <1>4 DEF OrderInGraph
<1>12. EdgesRight
  <2> SUFFICES ASSUME NEW e \in graph
               PROVE  /\ e[3] \in {"Dotted", "Black"} => Forward(e)
                      /\ e[3] = "Blue" => /\ e[1] < e[2] /\ trace[e[1]].kind = "write"
                                          /\ trace[e[2]].kind = "assume"
                      /\ e[3] = "RedDotted" => e[1] > e[2] /\ Thread(e[1]) = Thread(e[2])
    BY DEF EdgesRight
  <2> QED
    BY <1>2, <1>6, <1>7, <1>8, <1>9
<1>13. TodoRight
  <2>1. todo \subseteq Coloured({"Blue"})
    BY <1>2, <1>7 DEF Coloured
  <2> QED
    BY <1>2, <2>1 DEF TodoRight
<1> QED
  BY <1>1, <1>10, <1>11, <1>12, <1>13 DEF GraphInv
-------------------------------------------------------------------------------
(* Steps.                                                                  *)

\* To make pairs black that run forward in one thread keeps the order of the
\* trace in the graph, and all edges but dotted ones.
LEMMA BlackStep ==
  ASSUME trace \in Seq(Event), graph \subseteq Edges, OrderInGraph, EdgesRight,
         NEW pairs,
         \A p \in pairs : p = <<p[1], p[2]>> /\ p[1] \in Positions /\ p[2] \in Positions
                          /\ p[1] < p[2] /\ Thread(p[1]) = Thread(p[2]),
         trace' = trace, graph' = MakeBlack(pairs)
  PROVE  /\ (graph \subseteq Edges)' /\ OrderInGraph' /\ EdgesRight'
         /\ \A e \in graph : e[3] # "Dotted" => e \in graph'
<1>1. ASSUME NEW e \in graph'
      PROVE  \/ e \in graph
             \/ e \in Edges /\ e[3] = "Black" /\ Forward(e)
  <2>1. e \in graph \/ \E p \in pairs : e = <<p[1], p[2], "Black">>
    BY DEF MakeBlack
  <2>2. ASSUME NEW p \in pairs, e = <<p[1], p[2], "Black">>
        PROVE  e \in Edges /\ e[3] = "Black" /\ Forward(e)
    BY <2>2 DEF Edges, Colours, Forward
  <2> QED
    BY <2>1, <2>2
<1>2. graph' \subseteq Edges'
  BY <1>1 DEF Edges, Positions
<1>3. OrderInGraph'
  <2>1. ASSUME NEW i \in Positions, NEW j \in Positions, i < j, Thread(i) = Thread(j)
        PROVE  <<i, j, "Dotted">> \in graph' \/ <<i, j, "Black">> \in graph'
    <3>1. <<i, j, "Dotted">> \in graph \/ <<i, j, "Black">> \in graph
      BY <2>1 DEF OrderInGraph
    <3>2. CASE \E p \in pairs : <<i, j, "Dotted">> = <<p[1], p[2], "Dotted">>
      <4>1. PICK p \in pairs : i = p[1] /\ j = p[2]
        BY <3>2
      <4> QED
        BY <4>1 DEF MakeBlack
    <3>3. CASE ~\E p \in pairs : <<i, j, "Dotted">> = <<p[1], p[2], "Dotted">>
      <4>1. \A p \in pairs : <<i, j, "Black">> # <<p[1], p[2], "Dotted">>
        OBVIOUS
      <4> QED
        BY <3>1, <3>3, <4>1 DEF MakeBlack
    <3> QED
      BY <3>2, <3>3
  <2>2. Positions' = Positions /\ \A i : Thread(i)' = Thread(i)
    BY DEF Positions, Thread
  <2> QED
    BY <2>1, <2>2 DEF OrderInGraph
<1>4. EdgesRight'
  <2> SUFFICES ASSUME NEW e \in graph'
               PROVE  /\ e[3] \in {"Dotted", "Black"} => Forward(e)
                      /\ e[3] = "Blue" => /\ e[1] < e[2] /\ trace[e[1]].kind = "write"
                                          /\ trace[e[2]].kind = "assume"
                      /\ e[3] = "RedDotted" => e[1] > e[2] /\ Thread(e[1]) = Thread(e[2])
    BY DEF EdgesRight, Forward, Thread
  <2> QED
    BY <1>1 DEF EdgesRight
<1>5. ASSUME NEW e \in graph, e[3] # "Dotted" PROVE e \in graph'
  <2>1. \A p \in pairs : e # <<p[1], p[2], "Dotted">>
    BY <1>5
  <2> QED
    BY <2>1 DEF MakeBlack
<1> QED
  BY <1>2, <1>3, <1>4, <1>5

\* An edge of the graph.
LEMMA EdgeFacts ==
  ASSUME trace \in Seq(Event), graph \subseteq Edges, NEW e \in graph
  PROVE  /\ e = <<e[1], e[2], e[3]>> /\ e[1] \in Positions /\ e[2] \in Positions
         /\ e[1] \in Nat /\ e[2] \in Nat
BY TraceFacts DEF Edges

\* The last statement of a thread that has one.
LEMMA LastFacts ==
  ASSUME trace \in Seq(Event), NEW k \in Positions
  PROVE  /\ LastOf(Thread(k)) \in Positions /\ Thread(LastOf(Thread(k))) = Thread(k)
         /\ \A j \in Positions : Thread(j) = Thread(k) => j <= LastOf(Thread(k))
<1> DEFINE Last(x) == x \in Positions /\ Thread(x) = Thread(k)
                      /\ \A j \in x + 1 .. Len(trace) : Thread(j) # Thread(k)
           below == {Len(trace) - i : i \in {i \in Positions : Thread(i) = Thread(k)}}
<1>1. Len(trace) \in Nat /\ Positions = 1..Len(trace)
  BY TraceFacts
<1>2. below \subseteq Nat /\ below # {}
  BY <1>1
<1>3. PICK least \in below : \A n \in below : least <= n
  <2> HIDE DEF below
  <2> QED
    BY <1>2, LeastOf
<1>4. PICK i \in Positions : Thread(i) = Thread(k) /\ least = Len(trace) - i
  BY <1>3
<1>5. ASSUME NEW j \in i + 1 .. Len(trace), Thread(j) = Thread(k) PROVE FALSE
  <2>1. j \in Positions /\ j > i
    BY <1>1
  <2>2. Len(trace) - j \in below
    BY <1>5, <2>1
  <2>3. i \in Nat /\ j \in Nat
    BY <1>1
  <2> HIDE DEF below
  <2>4. Len(trace) - i <= Len(trace) - j
    BY <1>3, <1>4, <2>2
  <2> QED
    BY <1>1, <2>1, <2>3, <2>4
<1>6. Last(i)
  <2> HIDE DEF below
  <2>1. \A j \in i + 1 .. Len(trace) : Thread(j) # Thread(k)
    BY <1>5
  <2> QED
    BY <1>4, <2>1
<1>7. LastOf(Thread(k)) = CHOOSE x : Last(x)
  BY DEF LastOf, Positions
<1> HIDE DEF Last
<1>8. Last(LastOf(Thread(k)))
  BY <1>6, <1>7
<1> DEFINE last == LastOf(Thread(k))
<1> HIDE DEF last
<1>9. /\ last \in Positions /\ Thread(last) = Thread(k)
      /\ \A j \in last + 1 .. Len(trace) : Thread(j) # Thread(k)
  BY <1>8 DEF Last, last
<1>10. ASSUME NEW j \in Positions, Thread(j) = Thread(k) PROVE j <= last
  <2>1. ~(j \in last + 1 .. Len(trace))
    BY <1>9, <1>10
  <2> QED
    BY <1>1, <1>9, <2>1
<1> QED
  BY <1>9, <1>10 DEF last

\* A way whose edges run forward never returns before its start.
LEMMA NeverBefore ==
  ASSUME NEW from \in Nat, NEW edges, NEW p \in Seq(edges), Chained(p, from),
         \A e \in edges : e[1] \in Nat /\ e[2] \in Nat /\ e[1] < e[2]
  PROVE  \A i \in 1..Len(p) : from <= p[i][1]
<1> DEFINE early == {i \in 1..Len(p) : ~(from <= p[i][1])}
<1> SUFFICES ASSUME early # {} PROVE FALSE
  OBVIOUS
<1>1. early \subseteq Nat
  OBVIOUS
<1>2. PICK i \in early : \A n \in early : i <= n
  <2> HIDE DEF early
  <2> QED
    BY <1>1, LeastOf
<1>3. i \in 1..Len(p) /\ ~(from <= p[i][1]) /\ Len(p) \in Nat /\ p[i] \in edges
  OBVIOUS
<1>4. p[i][1] = IF i = 1 THEN from ELSE p[i - 1][2]
  BY <1>3 DEF Chained
<1>5. i # 1
  BY <1>3, <1>4
<1>6. i - 1 \in 1..Len(p) /\ i - 1 \notin early
  BY <1>2, <1>3, <1>5
<1>7. from <= p[i - 1][1] /\ p[i - 1] \in edges
  BY <1>6
<1> QED
  BY <1>3, <1>4, <1>5, <1>7

BackEdges(blue) ==
  {e \in Coloured({"Dotted", "Black", "Blue"}) :
     Thread(e[2]) \in {Thread(blue[1]), Thread(blue[2])}}

\* A way back crosses from the thread that waits to the other one, never the
\* other way: from where it would leave the thread it is to reach, the program
\* order is a shorter way to the end of that thread.
LEMMA WayBackCrosses ==
  ASSUME trace \in Seq(Event), graph \subseteq Edges, OrderInGraph, EdgesRight,
         NEW blue \in graph, blue[3] = "Blue",
         NEW p \in WayBack(blue), NEW other \in Range(p), Crosses(other)
  PROVE  /\ other \in graph /\ other[3] = "Blue"
         /\ Thread(other[2]) = Thread(blue[1]) /\ Thread(other[1]) = Thread(blue[2])
         /\ blue[2] <= other[1]
<1> DEFINE from == blue[2]
           home == Thread(blue[1])
           last == LastOf(home)
           edges == BackEdges(blue)
<1>1. Len(trace) \in Nat
  BY TraceFacts
<1>2. blue[1] \in Positions /\ blue[2] \in Positions /\ from \in Nat
  BY EdgeFacts
<1>3. /\ Arrives(p, from, last, edges)
      /\ \A q : Arrives(q, from, last, edges) => Len(p) <= Len(q)
  BY <1>1, ShortestFacts DEF WayBack, BackEdges
<1>4. ASSUME NEW e \in edges
      PROVE  /\ e \in graph /\ e[1] \in Positions /\ e[2] \in Positions
             /\ e[1] \in Nat /\ e[2] \in Nat /\ e[1] < e[2]
             /\ Thread(e[2]) \in {home, Thread(from)}
             /\ e[3] # "Blue" => Thread(e[1]) = Thread(e[2])
  <2>1. /\ e \in graph /\ e[3] \in {"Dotted", "Black", "Blue"}
        /\ Thread(e[2]) \in {home, Thread(from)}
    BY DEF BackEdges, Coloured
  <2>2. /\ e[1] \in Positions /\ e[2] \in Positions /\ e[1] \in Nat /\ e[2] \in Nat
    BY <2>1, EdgeFacts
  <2>3. /\ e[3] \in {"Dotted", "Black"} => Forward(e)
        /\ e[3] = "Blue" => e[1] < e[2]
    BY <2>1 DEF EdgesRight
  <2> QED
    BY <2>1, <2>2, <2>3 DEF Forward
<1>5. /\ last \in Positions /\ Thread(last) = home
      /\ \A j \in Positions : Thread(j) = home => j <= last
  BY <1>2, LastFacts
<1> HIDE DEF edges, last
<1>6. p \in Seq(edges) /\ Chained(p, from) /\ EndOf(p, from) = last /\ Len(p) \in Nat
  BY <1>3 DEF Arrives
<1>7. PICK i \in 1..Len(p) : other = p[i]
  BY <1>6 DEF Range
<1>8. other \in edges
  BY <1>6, <1>7
<1>9. from <= other[1]
  BY <1>2, <1>4, <1>6, <1>7, NeverBefore
<1>10. Thread(other[1]) \in {home, Thread(from)}
  <2>1. other[1] = IF i = 1 THEN from ELSE p[i - 1][2]
    BY <1>6, <1>7 DEF Chained
  <2>2. CASE i = 1
    BY <2>1, <2>2
  <2>3. CASE i # 1
    <3>1. i - 1 \in 1..Len(p)
      BY <2>3, <1>6
    <3>2. p[i - 1] \in edges
      BY <3>1, <1>6
    <3> QED
      BY <1>4, <2>1, <2>3, <3>2
  <2> QED
    BY <2>2, <2>3
<1>11. other \in graph /\ other[3] = "Blue"
  BY <1>4, <1>8 DEF Crosses
<1>12. ASSUME Thread(other[1]) = home PROVE FALSE
  <2> DEFINE q == SubSeq(p, 1, i - 1)
             u == other[1]
  <2>1. q \in Seq(edges) /\ Len(q) = i - 1 /\ Chained(q, from) /\ EndOf(q, from) = u
    BY <1>6, <1>7, ChainPrefix
  <2> HIDE DEF q
  <2>2. u \in Positions /\ u \in Nat /\ last \in Nat
    BY <1>4, <1>5, <1>8, TraceFacts
  <2>3. Thread(other[2]) # home
    BY <1>12 DEF Crosses
  <2>4. CASE u = last
    <3>1. Arrives(q, from, last, edges)
      BY <2>1, <2>4 DEF Arrives
    <3>2. Len(p) <= Len(q)
      BY <1>3, <3>1 DEF edges, last
    <3> QED
      BY <1>6, <2>1, <3>2
  <2>5. CASE u # last
    <3>1. u < last
      BY <1>5, <1>12, <2>2, <2>5
    <3>2. PICK colour \in {"Dotted", "Black"} : <<u, last, colour>> \in graph
      BY <1>5, <1>12, <2>2, <3>1 DEF OrderInGraph
    <3> DEFINE e == <<u, last, colour>>
    <3>3. e \in edges /\ e[1] = EndOf(q, from) /\ e[2] = last
      BY <1>5, <2>1, <3>2 DEF edges, BackEdges, Coloured
    <3> HIDE DEF e
    <3>4. Arrives(Append(q, e), from, last, edges) /\ Len(Append(q, e)) = Len(q) + 1
      BY <2>1, <3>3, ChainAppended DEF Arrives
    <3>5. Len(p) <= i
      <4>1. Len(p) <= Len(Append(q, e))
        BY <1>3, <3>4 DEF edges, last
      <4> QED
        BY <2>1, <3>4, <4>1
    <3>6. i = Len(p) /\ p # <<>>
      BY <1>6, <3>5
    <3>7. EndOf(p, from) = other[2]
      BY <1>7, <3>6 DEF EndOf
    <3> QED
      BY <1>5, <1>6, <2>3, <3>7
  <2> QED
    BY <2>4, <2>5
<1>13. Thread(other[1]) = Thread(from) /\ Thread(other[2]) = home
  BY <1>4, <1>8, <1>10, <1>12 DEF Crosses
<1> QED
  BY <1>9, <1>11, <1>13
\* The deadlock step passes its assertion; what it makes black runs forward.
LEMMA CycleStep ==
  ASSUME GraphInv, FindCycle
  PROVE  GraphInv'
<1>1. PICK blue \in todo :
        /\ todo' = todo \ {blue}
        /\ \/ WayBack(blue) = {} /\ UNCHANGED <<graph, phase>>
           \/ \E p \in WayBack(blue) :
                LET others == {e \in Range(p) : e[3] = "Blue" /\ Crosses(e)}
                IN  /\ graph' = MakeBlack(UNION {KeepBoth(blue, e) : e \in others})
                    /\ phase' = IF \A e \in others : /\ Thread(e[2]) = Thread(blue[1])
                                                     /\ Thread(e[1]) = Thread(blue[2])
                                THEN phase ELSE "failed"
  BY DEF FindCycle
<1>2. /\ trace' = trace /\ phase = "cycles" /\ trace \in Seq(Event)
      /\ graph \subseteq Edges /\ OrderInGraph /\ EdgesRight
      /\ todo \subseteq Coloured({"Blue"})
  BY DEF FindCycle, GraphInv, TodoRight
<1>3. blue \in graph /\ blue[3] = "Blue"
  BY <1>2 DEF Coloured
<1>4. CASE UNCHANGED <<graph, phase>>
  <2>1. todo' \subseteq Coloured({"Blue"})'
    BY <1>1, <1>2, <1>4 DEF Coloured
  <2>2. TodoRight'
    BY <1>2, <1>4, <2>1 DEF TodoRight
  <2> QED
    BY <1>2, <1>4, <2>2
       DEF GraphInv, Edges, Positions, OrderInGraph, EdgesRight, Forward, Thread
<1>5. ASSUME NEW p \in WayBack(blue),
             graph' = MakeBlack(UNION {KeepBoth(blue, e) : e \in
                                  {e \in Range(p) : e[3] = "Blue" /\ Crosses(e)}}),
             phase' = IF \A e \in {e \in Range(p) : e[3] = "Blue" /\ Crosses(e)} :
                           /\ Thread(e[2]) = Thread(blue[1])
                           /\ Thread(e[1]) = Thread(blue[2])
                      THEN phase ELSE "failed"
      PROVE  GraphInv'
  <2> DEFINE others == {e \in Range(p) : e[3] = "Blue" /\ Crosses(e)}
             pairs == UNION {KeepBoth(blue, e) : e \in others}
  <2>1. ASSUME NEW other \in others
        PROVE  /\ other \in graph /\ other[3] = "Blue"
               /\ Thread(other[2]) = Thread(blue[1]) /\ Thread(other[1]) = Thread(blue[2])
               /\ blue[2] <= other[1]
    BY <1>2, <1>3, WayBackCrosses
  <2>2. ASSUME NEW other \in others, NEW q \in KeepBoth(blue, other)
        PROVE  /\ q = <<q[1], q[2]>> /\ q[1] \in Positions /\ q[2] \in Positions
               /\ q[1] < q[2] /\ Thread(q[1]) = Thread(q[2])
    <3>1. q = <<blue[1], other[2]>> \/ q = <<blue[2], other[1]>>
      BY DEF KeepBoth
    <3>2. /\ blue[1] \in Positions /\ blue[2] \in Positions
          /\ blue[1] \in Nat /\ blue[2] \in Nat
          /\ other[1] \in Positions /\ other[2] \in Positions
          /\ other[1] \in Nat /\ other[2] \in Nat
      BY <1>2, <1>3, <2>1, EdgeFacts
    <3>3. /\ blue[1] < blue[2] /\ trace[blue[2]].kind = "assume"
          /\ other[1] < other[2] /\ trace[other[1]].kind = "write"
      BY <1>2, <1>3, <2>1 DEF EdgesRight
    <3>4. blue[2] < other[1]
      <4>1. blue[2] # other[1]
        BY <3>3
      <4> QED
        BY <2>1, <3>2, <4>1
    <3>5. blue[1] < other[2]
      BY <3>2, <3>3, <3>4
    <3>6. CASE q = <<blue[1], other[2]>>
      BY <2>1, <3>2, <3>5, <3>6
    <3>7. CASE q = <<blue[2], other[1]>>
      BY <2>1, <3>2, <3>4, <3>7
    <3> QED
      BY <3>1, <3>6, <3>7
  <2>3. \A q \in pairs : q = <<q[1], q[2]>> /\ q[1] \in Positions /\ q[2] \in Positions
                         /\ q[1] < q[2] /\ Thread(q[1]) = Thread(q[2])
    BY <2>2
  <2>4. graph' = MakeBlack(pairs)
    BY <1>5
  <2>5. phase' = "cycles"
    <3>1. \A e \in others : Thread(e[2]) = Thread(blue[1]) /\ Thread(e[1]) = Thread(blue[2])
      BY <2>1
    <3> QED
      BY <1>2, <1>5, <3>1
  <2> HIDE DEF pairs
  <2>6. /\ (graph \subseteq Edges)' /\ OrderInGraph' /\ EdgesRight'
        /\ \A e \in graph : e[3] # "Dotted" => e \in graph'
    BY <1>2, <2>3, <2>4, BlackStep
  <2>7. todo' \subseteq Coloured({"Blue"})'
    BY <1>1, <1>2, <2>6 DEF Coloured
  <2>8. TodoRight'
    BY <2>5, <2>7 DEF TodoRight
  <2> QED
    BY <1>2, <2>6, <2>8 DEF GraphInv
<1> QED
  BY <1>1, <1>4, <1>5

\* Only green edges are removed.
LEMMA TransitiveStep ==
  ASSUME GraphInv, RemoveTransitive
  PROVE  GraphInv'
<1>1. PICK e \in todo : /\ todo' = todo \ {e}
                        /\ graph' = graph \/ graph' = graph \ {e}
  BY DEF RemoveTransitive
<1>2. /\ trace' = trace /\ phase = "transitive" /\ phase' = phase /\ e[3] = "Green"
      /\ trace \in Seq(Event) /\ graph \subseteq Edges /\ OrderInGraph /\ EdgesRight
      /\ \A x \in todo : x[3] = "Green"
  BY <1>1 DEF RemoveTransitive, GraphInv, TodoRight
<1>3. graph' \subseteq graph /\ \A x \in graph : x[3] # "Green" => x \in graph'
  BY <1>1, <1>2
<1>4. Positions' = Positions /\ \A i : Thread(i)' = Thread(i)
  BY <1>2 DEF Positions, Thread
<1>5. OrderInGraph'
  <2>1. ASSUME NEW i \in Positions, NEW j \in Positions, i < j, Thread(i) = Thread(j)
        PROVE  <<i, j, "Dotted">> \in graph' \/ <<i, j, "Black">> \in graph'
    <3>1. <<i, j, "Dotted">> \in graph \/ <<i, j, "Black">> \in graph
      BY <1>2, <2>1 DEF OrderInGraph
    <3> QED
      BY <1>3, <3>1
  <2> QED
    BY <1>4, <2>1 DEF OrderInGraph
<1>6. EdgesRight'
  BY <1>2, <1>3, <1>4 DEF EdgesRight, Forward
<1>7. TodoRight'
  BY <1>1, <1>2 DEF TodoRight
<1>8. graph' \subseteq Edges'
  BY <1>2, <1>3, <1>4 DEF Edges
<1> QED
  BY <1>2, <1>5, <1>6, <1>7, <1>8 DEF GraphInv

\* Ways of one edge more, of two and of three.
WayOf(n, from, to, edges) == \E q : Arrives(q, from, to, edges) /\ Len(q) = n

LEMMA OneMore ==
  ASSUME NEW n \in Nat, NEW from, NEW edges, NEW e \in edges, WayOf(n, from, e[1], edges)
  PROVE  WayOf(n + 1, from, e[2], edges)
<1>1. PICK q : Arrives(q, from, e[1], edges) /\ Len(q) = n
  BY DEF WayOf
<1>2. q \in Seq(edges) /\ Chained(q, from) /\ e[1] = EndOf(q, from)
  BY <1>1 DEF Arrives
<1>3. /\ Append(q, e) \in Seq(edges) /\ Len(Append(q, e)) = Len(q) + 1
      /\ Chained(Append(q, e), from) /\ EndOf(Append(q, e), from) = e[2]
  BY <1>2, ChainAppended
<1>4. Arrives(Append(q, e), from, e[2], edges) /\ Len(Append(q, e)) = n + 1
  BY <1>1, <1>3 DEF Arrives
<1> QED
  BY <1>4 DEF WayOf

LEMMA TwoEdges ==
  ASSUME NEW edges, NEW a \in edges, NEW b \in edges, a[2] = b[1]
  PROVE  WayOf(2, a[1], b[2], edges)
<1>1. Arrives(<<>>, a[1], a[1], edges) /\ Len(<<>>) = 0
  BY DEF Arrives, Chained, EndOf
<1>2. WayOf(0, a[1], a[1], edges)
  BY <1>1 DEF WayOf
<1>3. WayOf(0 + 1, a[1], a[2], edges)
  BY <1>2, OneMore
<1>4. WayOf(1, a[1], b[1], edges)
  BY <1>3
<1>5. WayOf(1 + 1, a[1], b[2], edges)
  BY <1>4, OneMore
<1> QED
  BY <1>5

LEMMA ThreeEdges ==
  ASSUME NEW edges, NEW a \in edges, NEW b \in edges, NEW c \in edges,
         a[2] = b[1], b[2] = c[1]
  PROVE  WayOf(3, a[1], c[2], edges)
<1>1. WayOf(2, a[1], c[1], edges)
  BY TwoEdges
<1>2. WayOf(2 + 1, a[1], c[2], edges)
  BY <1>1, OneMore
<1> QED
  BY <1>2

\* What is suggested for an edge without a way goes back in one thread: if what
\* is awaited were not above the write read from, there would be a way.
LEMMA SuggestedGoBack ==
  ASSUME trace \in Seq(Event), graph \subseteq Edges, OrderInGraph, EdgesRight,
         NEW edge \in Edges,
         ShortestPaths(edge[1], edge[2], Coloured({"Dotted", "Black", "Blue"})) = {},
         NEW s \in SuggestReordering(edge)
  PROVE  s \in Edges /\ s[3] = "RedDotted" /\ s[1] > s[2] /\ Thread(s[1]) = Thread(s[2])
<1> DEFINE from == edge[1]
           to == edge[2]
           edges == Coloured({"Dotted", "Black", "Blue"})
<1>1. from \in Positions /\ to \in Positions
  BY DEF Edges
<1>2. Len(trace) \in Nat /\ Positions = 1..Len(trace) /\ Positions \subseteq Nat
  BY TraceFacts
<1>3. \/ \E x \in Positions : \E above \in Awaited(x, from) :
           Thread(x) = Thread(to) /\ x < to /\ s = <<from, above, "RedDotted">>
      \/ \E x \in Positions : Thread(x) = Thread(to) /\ x > to /\ s = <<x, to, "RedDotted">>
  BY DEF SuggestReordering, Positions
<1>4. ASSUME NEW x \in Positions, NEW above \in Awaited(x, from),
             Thread(x) = Thread(to), x < to, s = <<from, above, "RedDotted">>
      PROVE  above \in Positions /\ from > above /\ Thread(from) = Thread(above)
  <2>1. PICK blue \in graph : /\ blue[3] = "Blue" /\ blue[1] = above /\ blue[2] = x
                              /\ Thread(above) = Thread(from)
    BY DEF Awaited, Coloured
  <2>2. above \in Positions /\ above \in Nat /\ above < x /\ blue \in edges
    BY <2>1, EdgeFacts DEF EdgesRight, Coloured
  <2>3. x \in Nat /\ from \in Nat /\ to \in Nat
    BY <1>1, <1>2
  <2>4. PICK last \in edges : last[1] = x /\ last[2] = to
    <3>1. <<x, to, "Dotted">> \in graph \/ <<x, to, "Black">> \in graph
      BY <1>1, <1>4 DEF OrderInGraph
    <3>2. <<x, to, "Dotted">> \in edges \/ <<x, to, "Black">> \in edges
      BY <3>1 DEF Coloured
    <3> HIDE DEF edges
    <3> QED
      BY <3>2
  <2>5. ASSUME ~(from > above) PROVE FALSE
    <3>1. from = above \/ from < above
      BY <2>2, <2>3, <2>5
    <3>2. ASSUME NEW q, Arrives(q, from, to, edges), Len(q) <= Len(trace) PROVE FALSE
      BY <1>2, <3>2, ShortestFacts
    <3>3. CASE from = above
      <4>1. PICK q : Arrives(q, blue[1], last[2], edges) /\ Len(q) = 2
        <5> HIDE DEF edges
        <5>1. blue \in edges /\ blue[2] = last[1]
          BY <2>1, <2>2, <2>4
        <5> QED
          BY <5>1, TwoEdges DEF WayOf
      <4>2. Len(trace) >= 2
        BY <1>1, <1>2, <1>4, <2>2, <2>3
      <4>3. Len(q) <= Len(trace)
        BY <1>2, <4>1, <4>2
      <4> HIDE DEF edges
      <4> QED
        BY <2>1, <2>4, <3>2, <3>3, <4>1, <4>3
    <3>4. CASE from < above
      <4>1. PICK first \in edges : first[1] = from /\ first[2] = above
        <5>1. <<from, above, "Dotted">> \in graph \/ <<from, above, "Black">> \in graph
          BY <1>1, <2>1, <2>2, <3>4 DEF OrderInGraph
        <5>2. <<from, above, "Dotted">> \in edges \/ <<from, above, "Black">> \in edges
          BY <5>1 DEF Coloured
        <5> HIDE DEF edges
        <5> QED
          BY <5>2
      <4>2. PICK q : Arrives(q, first[1], last[2], edges) /\ Len(q) = 3
        <5> HIDE DEF edges
        <5>1. blue \in edges /\ first[2] = blue[1] /\ blue[2] = last[1]
          BY <2>1, <2>2, <2>4, <4>1
        <5> QED
          BY <5>1, ThreeEdges DEF WayOf
      <4>3. Len(trace) >= 3
        BY <1>1, <1>2, <1>4, <2>2, <2>3, <3>4
      <4>4. Len(q) <= Len(trace)
        BY <1>2, <4>2, <4>3
      <4> HIDE DEF edges
      <4> QED
        BY <2>4, <3>2, <4>1, <4>2, <4>4
    <3> QED
      BY <3>1, <3>3, <3>4
  <2> QED
    BY <2>1, <2>2, <2>5
<1>5. ASSUME NEW x \in Positions, NEW above \in Awaited(x, from),
             Thread(x) = Thread(to), x < to, s = <<from, above, "RedDotted">>
      PROVE  s \in Edges /\ s[3] = "RedDotted" /\ s[1] > s[2] /\ Thread(s[1]) = Thread(s[2])
  <2>1. above \in Positions /\ from > above /\ Thread(from) = Thread(above)
    BY <1>4, <1>5
  <2> QED
    BY <1>1, <1>5, <2>1 DEF Edges, Colours
<1>6. ASSUME NEW x \in Positions, Thread(x) = Thread(to), x > to, s = <<x, to, "RedDotted">>
      PROVE  s \in Edges /\ s[3] = "RedDotted" /\ s[1] > s[2] /\ Thread(s[1]) = Thread(s[2])
  BY <1>1, <1>6 DEF Edges, Colours
<1> QED
  BY <1>3, <1>5, <1>6
\* What covers an edge becomes black, or what would cover it is suggested.
LEMMA CoverStep ==
  ASSUME GraphInv, Cover
  PROVE  GraphInv'
<1>1. /\ trace' = trace /\ phase = "cover" /\ phase' = phase /\ todo' \subseteq todo
      /\ trace \in Seq(Event) /\ graph \subseteq Edges /\ OrderInGraph /\ EdgesRight
      /\ \A e \in todo : e \in Edges /\ e[3] \in {"Red", "Green"}
  BY DEF Cover, GraphInv, TodoRight
<1>2. Positions' = Positions /\ \A i : Thread(i)' = Thread(i)
  BY <1>1 DEF Positions, Thread
<1>3. TodoRight'
  BY <1>1, <1>2 DEF TodoRight, Edges
<1>4. PICK edge \in todo :
        LET paths == ShortestPaths(edge[1], edge[2], Coloured({"Dotted", "Black", "Blue"}))
        IN  \/ graph' = graph
            \/ paths = {} /\ graph' = graph \cup SuggestReordering(edge)
            \/ \E p \in paths :
                 graph' = MakeBlack({<<e[1], e[2]>> : e \in {e \in Range(p) : e[3] = "Dotted"}})
  BY DEF Cover
<1> DEFINE edges == Coloured({"Dotted", "Black", "Blue"})
           paths == ShortestPaths(edge[1], edge[2], edges)
<1>5. CASE graph' = graph
  BY <1>1, <1>2, <1>3, <1>5 DEF GraphInv, Edges, OrderInGraph, EdgesRight, Forward
<1>6. CASE paths = {} /\ graph' = graph \cup SuggestReordering(edge)
  <2>1. edge \in Edges
    BY <1>1
  <2>2. ASSUME NEW s \in SuggestReordering(edge)
        PROVE  s \in Edges /\ s[3] = "RedDotted" /\ s[1] > s[2] /\ Thread(s[1]) = Thread(s[2])
    BY <1>1, <1>6, <2>1, <2>2, SuggestedGoBack
  <2>3. graph' \subseteq Edges'
    BY <1>1, <1>2, <1>6, <2>2 DEF Edges
  <2>4. OrderInGraph'
    BY <1>1, <1>2, <1>6 DEF OrderInGraph
  <2>5. EdgesRight'
    <3> SUFFICES ASSUME NEW e \in graph'
                 PROVE  /\ e[3] \in {"Dotted", "Black"} => Forward(e)
                        /\ e[3] = "Blue" => /\ e[1] < e[2] /\ trace[e[1]].kind = "write"
                                            /\ trace[e[2]].kind = "assume"
                        /\ e[3] = "RedDotted" => e[1] > e[2] /\ Thread(e[1]) = Thread(e[2])
      BY <1>1, <1>2 DEF EdgesRight, Forward
    <3>1. CASE e \in graph
      BY <1>1, <3>1 DEF EdgesRight
    <3>2. CASE e \in SuggestReordering(edge)
      BY <2>2, <3>2
    <3> QED
      BY <1>6, <3>1, <3>2
  <2> QED
    BY <1>1, <1>3, <2>3, <2>4, <2>5 DEF GraphInv
<1>7. ASSUME NEW p \in paths,
             graph' = MakeBlack({<<e[1], e[2]>> : e \in {e \in Range(p) : e[3] = "Dotted"}})
      PROVE  GraphInv'
  <2> DEFINE pairs == {<<e[1], e[2]>> : e \in {e \in Range(p) : e[3] = "Dotted"}}
  <2>1. p \in Seq(edges)
    BY <1>1, TraceFacts, ShortestFacts DEF Arrives
  <2>2. Range(p) \subseteq graph
    <3>1. edges \subseteq graph
      BY DEF Coloured
    <3> HIDE DEF edges
    <3>2. ASSUME NEW e \in Range(p) PROVE e \in edges
      <4>1. PICK i \in 1..Len(p) : e = p[i]
        BY <2>1 DEF Range
      <4> QED
        BY <2>1, <4>1
    <3> QED
      BY <3>1, <3>2
  <2>3. ASSUME NEW q \in pairs
        PROVE  q = <<q[1], q[2]>> /\ q[1] \in Positions /\ q[2] \in Positions
               /\ q[1] < q[2] /\ Thread(q[1]) = Thread(q[2])
    <3>1. PICK e \in graph : e[3] = "Dotted" /\ q = <<e[1], e[2]>>
      BY <2>2
    <3>2. e[1] \in Positions /\ e[2] \in Positions /\ Forward(e)
      BY <1>1, <3>1, EdgeFacts DEF EdgesRight
    <3> QED
      BY <3>1, <3>2 DEF Forward
  <2>4. graph' = MakeBlack(pairs)
    BY <1>7
  <2> HIDE DEF pairs
  <2>5. (graph \subseteq Edges)' /\ OrderInGraph' /\ EdgesRight'
    BY <1>1, <2>3, <2>4, BlackStep
  <2> QED
    BY <1>1, <1>3, <2>5 DEF GraphInv
<1> QED
  BY <1>4, <1>5, <1>6, <1>7

\* Each loop starts with edges of its colour.
LEMMA PhaseStep ==
  ASSUME GraphInv, NextPhase
  PROVE  GraphInv'
<1>1. /\ trace' = trace /\ graph' = graph
      /\ trace \in Seq(Event) /\ graph \subseteq Edges /\ OrderInGraph /\ EdgesRight
  BY DEF NextPhase, GraphInv
<1>2. Positions' = Positions /\ \A i : Thread(i)' = Thread(i)
  BY <1>1 DEF Positions, Thread
<1>3. (graph \subseteq Edges)' /\ OrderInGraph' /\ EdgesRight'
  BY <1>1, <1>2 DEF Edges, OrderInGraph, EdgesRight, Forward
<1>4. TodoRight'
  <2>1. CASE phase' = "transitive" /\ todo' = Coloured({"Green"})
    BY <2>1 DEF TodoRight, Coloured
  <2>2. CASE phase' = "cover" /\ todo' = Coloured({"Red", "Green"})
    BY <1>1, <1>2, <2>2 DEF TodoRight, Coloured, Edges
  <2>3. CASE phase' = "done"
    BY <2>3 DEF TodoRight
  <2> QED
    BY <2>1, <2>2, <2>3 DEF NextPhase
<1> QED
  BY <1>1, <1>3, <1>4 DEF GraphInv

LEMMA GraphAlways == Spec => []GraphInv
<1>1. Init => GraphInv
  BY GraphInit
<1>2. GraphInv /\ [Next]_vars => GraphInv'
  <2> SUFFICES ASSUME GraphInv, [Next]_vars PROVE GraphInv'
    OBVIOUS
  <2>1. CASE FindCycle
    BY <2>1, CycleStep
  <2>2. CASE RemoveTransitive
    BY <2>2, TransitiveStep
  <2>3. CASE Cover
    BY <2>3, CoverStep
  <2>4. CASE NextPhase
    BY <2>4, PhaseStep
  <2>5. CASE UNCHANGED vars
    BY <2>5 DEF vars, GraphInv, Edges, Positions, OrderInGraph, EdgesRight, Forward,
                Thread, TodoRight, Coloured
  <2> QED
    BY <2>1, <2>2, <2>3, <2>4, <2>5 DEF Next, Finished
<1> QED
  BY <1>1, <1>2, PTL DEF Spec
-------------------------------------------------------------------------------
(* Theorems.                                                               *)

\* Of every good trace, of whatever length and threads: the assertion about the
\* other blue edge of a deadlock cycle never fails, and black edges run forward
\* in the trace inside one thread (ProofObject.scala:108-131).
THEOREM BlackInside == Spec => []BlackWithinThread
<1>1. GraphInv => BlackWithinThread
  <2> SUFFICES ASSUME GraphInv PROVE BlackWithinThread
    OBVIOUS
  <2>1. phase # "failed"
    BY DEF GraphInv, TodoRight
  <2>2. ASSUME NEW b \in black PROVE b[1] < b[2] /\ Thread(b[1]) = Thread(b[2])
    <3>1. PICK e \in graph : e[3] = "Black" /\ b = <<e[1], e[2]>>
      BY DEF black, Coloured
    <3>2. Forward(e)
      BY <3>1 DEF GraphInv, EdgesRight
    <3> QED
      BY <3>1, <3>2 DEF Forward
  <2> QED
    BY <2>1, <2>2 DEF BlackWithinThread
<1> QED
  BY <1>1, GraphAlways, PTL

\* Of every good trace: a suggestion asks to turn round two statements of one
\* thread, the first of which the trace has after the second
\* (ProofObject.scala:236-259).
THEOREM SuggestionsTurnRound == Spec => []SuggestionsGoBack
<1>1. GraphInv => SuggestionsGoBack
  <2> SUFFICES ASSUME GraphInv, NEW s \in suggestedReorderings
               PROVE  s[1] > s[2] /\ Thread(s[1]) = Thread(s[2])
    BY DEF SuggestionsGoBack
  <2>1. PICK e \in graph : e[3] = "RedDotted" /\ s = <<e[1], e[2]>>
    BY DEF suggestedReorderings, Coloured
  <2> QED
    BY <2>1 DEF GraphInv, EdgesRight
<1> QED
  BY <1>1, GraphAlways, PTL
================================================================================
