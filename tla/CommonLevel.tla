----------------------------- MODULE CommonLevel -----------------------------
(***************************************************************************)
(* The tree of program structures, and where two statements of a thread    *)
(* meet in it (Structure.getSameLevel).  A statement of a trace is located *)
(* by its structure and the calls it was reached through, the latest first.*)
(***************************************************************************)
EXTENDS Integers, Sequences, FiniteSets

CONSTANTS
  Structures,  \* functions, loops, conditionals and statements, calls among them
  Kind,        \* the kind of each
  Parent,      \* the structure around each; Root for a function
  ElseBranch,  \* what is directly in the second branch of a conditional
  Root,        \* the program
  NoLevel      \* the answer None
-------------------------------------------------------------------------------
GetParent(located) ==
  LET s == located[1]
      calledFrom == located[2]
  IN  IF Kind[s] = "function" /\ calledFrom # <<>>
      THEN <<Head(calledFrom), Tail(calledFrom)>>
      ELSE <<Parent[s], calledFrom>>

\* The located structure itself and all around it, inside out, with the root.
Around(located) ==
  LET up[n \in Nat] ==
        IF n = 0 THEN <<located>>
        ELSE LET before == up[n - 1]
                 last == before[Len(before)]
             IN  IF last[1] = Root THEN before ELSE Append(before, GetParent(last))
  IN  up[2 * Cardinality(Structures)]

IsStatement(s) == s # Root /\ Kind[s] \in {"statement", "call"}

\* findCommandParent: the first structure around s2 that is also around s1; the
\* statements around s1, its calls among them, do not count.
CommonParents(s1, s2) ==
  LET first  == {Around(s1)[n][1] : n \in DOMAIN Around(s1)} \ {Root}
      second == Around(s2)
      common == {n \in DOMAIN second : /\ second[n][1] \in first
                                       /\ ~IsStatement(second[n][1])}
  IN  {second[n][1] : n \in {n \in common : \A k \in common : n <= k}}

\* The located structure directly inside the parent.
Below(located, parent) ==
  LET around == Around(located)
      below  == {n \in 1 .. Len(around) - 1 : around[n + 1][1] = parent}
  IN  around[CHOOSE n \in below : \A k \in below : n <= k]

\* In two branches of a conditional it is the conditional that is at one level.
OtherBranches(e1, e2) ==
  /\ Parent[e1[1]] \in Structures /\ Kind[Parent[e1[1]]] = "if"
  /\ Parent[e2[1]] = Parent[e1[1]]
  /\ (e1[1] \in ElseBranch) # (e2[1] \in ElseBranch)

\* The structures that stand for two statements at their common level.
SameLevel(s1, s2) ==
  LET parents == CommonParents(s1, s2)
      e1 == Below(s1, CHOOSE p \in parents : TRUE)
      e2 == Below(s2, CHOOSE p \in parents : TRUE)
      level == IF OtherBranches(e1, e2) THEN <<GetParent(e1), GetParent(e2)>>
               ELSE <<e1, e2>>
  IN  IF parents = {} \/ level[1] = level[2] THEN NoLevel
      ELSE <<level[1][1], level[2][1]>>
===============================================================================
