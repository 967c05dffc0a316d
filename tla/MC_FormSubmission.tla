------------------------- MODULE MC_FormSubmission -------------------------
(***************************************************************************)
(* XSSFormSubmission on small instances for TLC.  Foreign actions and      *)
(* requests are model values that may be exchanged for each other.         *)
(***************************************************************************)
EXTENDS XSSFormSubmission, TLC

Symmetry == Permutations(Foreign) \cup Permutations(Requests)

\* No action and no invariant looks at the history variable left.
View == <<submitting, building, mDeferSubmission, mGeneratingSubmit, content, frames,
          inFlight, crashed, lastSent>>
=============================================================================
