----------------------------- MODULE MCOrderItems -----------------------------
(* Instances of OrderItems for TLC: the list is the program's own, 1 2 3 ... *)
EXTENDS OrderItems

CONSTANT Size

List == [i \in 1..Size |-> i]
Listed == 1..Size
Forward == {e \in Listed \X Listed : e[1] < e[2]}

\* What PartialOrder.reduced leaves: no edge that a longer path stands for.
Reduced(rel) == \A e \in rel : e \notin Paths(rel \ {e})

\* One new edge between items that old edges do not order.
WithNewEdge(olds) ==
  {<<List, old \cup {new}>> : <<old, new>> \in
     {on \in olds \X (Listed \X Listed) :
        on[2][1] # on[2][2] /\ on[2] \notin Paths(on[1])
                            /\ <<on[2][2], on[2][1]>> \notin Paths(on[1])}}

\* The first repair of a program: its order was just reduced.
FirstRepairs == WithNewEdge({old \in SUBSET Forward : Reduced(old)})

\* A later repair of a list of four: edges were added since, in the list's order.
Four == SubSeq(List, 1, 4)
LaterRepairs ==
  {<<Four, p[2]>> : p \in {q \in WithNewEdge(SUBSET {e \in Forward : e[2] <= 4}) :
                             q[2] \subseteq (1..4) \X (1..4)}}

Repairs == FirstRepairs \cup LaterRepairs

\* They are what the proofs about the sorts assume of a problem.
ASSUME RepairsSound == \A p \in Repairs : SoundProblem(p[1], p[2]) /\ Acyclic(p[2])

\* Every layout of four items; the fifth shares the bucket of the first ones or not.
SomeLayouts ==
  {f \in [Listed -> 1..Buckets] : f[Size] = 1} \cup {[i \in Listed |-> IF i > 3 THEN 2 ELSE 1]}
===============================================================================
