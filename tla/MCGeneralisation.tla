-------------------------- MODULE MCGeneralisation --------------------------
(* Instances of Generalisation for TLC. *)
EXTENDS Generalisation

CONSTANTS x, y, Length, ThreadCount

SomeThreads == 1..ThreadCount
Variables == {x, y}

\* A statement reads x, or writes x or y, or copies x to y: <<uses, changes>>.
Accesses == {<<{x}, {}>>, <<{}, {x}>>, <<{}, {y}>>, <<{x}, {y}>>}

\* Threads are numbered in the order in which they appear.
Schedules ==
  {s \in [1..Length -> SomeThreads] :
     \A i \in 1..Length : s[i] <= Cardinality({s[j] : j \in 1..(i - 1)}) + 1}

Interleavings ==
  {[i \in 1..Length |-> [thread |-> s[i], uses |-> a[i][1], changes |-> a[i][2]]] :
     s \in Schedules, a \in [1..Length -> Accesses]}
===============================================================================
