-------------------------- MODULE MC_TaintedValues --------------------------
(***************************************************************************)
(* XSSTaintedValues with two variables, the four atoms that the engine     *)
(* itself uses and the things that a statement on them needs: two that     *)
(* are referred to and two new ones.                                       *)
(***************************************************************************)
EXTENDS XSSTaintedValues

\* Which thing holds a value makes no difference, only which variables share one:
\* states that differ in nothing else are one state (as with symmetric things).
MCView ==
    <<[a \in Atoms |-> heap[a].tainted],
      [x \in Vars |-> IF values[x] \in Things THEN <<heap[values[x]]>> ELSE <<values[x]>>],
      {s \in SUBSET Vars : \A x, y \in s : values[x] = values[y]},
      scope, source, secret, kind>>
=============================================================================
