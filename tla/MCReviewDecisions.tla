--------------------------- MODULE MCReviewDecisions ---------------------------
(* The instance of ReviewDecisions that TLC checks. *)
EXTENDS ReviewDecisions, TLC

(* Threads, revisions and the values that pass their checks are interchangeable. *)
Symmetry ==
    Permutations(Workers) \cup Permutations(Revisions) \cup Permutations(Values \ {Broken})
================================================================================
