------------------------ MODULE MCChangesetPublication ------------------------
(* The instance of ChangesetPublication that TLC checks. *)
EXTENDS ChangesetPublication, TLC

(* Threads are interchangeable, and so are change sets that pass the rules. *)
Symmetry == Permutations(Workers) \cup Permutations(Passing)
================================================================================
