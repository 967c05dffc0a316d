--------------------------- MODULE MC_TaintedNodes ---------------------------
(***************************************************************************)
(* XSSTaintedNodes with two text nodes, two documents and two variables:   *)
(* a node may move between documents, be split and be cloned, with one     *)
(* tainted and one plain string at hand.                                   *)
(***************************************************************************)
EXTENDS XSSTaintedNodes, TLC

MCSymmetry == Permutations(Nodes) \cup Permutations(Docs) \cup Permutations(Vars)
=============================================================================
