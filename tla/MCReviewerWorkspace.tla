-------------------------- MODULE MCReviewerWorkspace --------------------------
(* The instance of ReviewerWorkspace that TLC checks. *)
EXTENDS ReviewerWorkspace, TLC

CONSTANTS v1, v2, bad

(* A parse finds one of two contents. *)
MCExtracted == {[semantics |-> v1, evidence |-> v1], [semantics |-> v2, evidence |-> v1]}

(* An edit that changes a field or leaves it as it was; those a command makes  *)
(* include one that breaks the schema.                                         *)
MCClientEdits == {[semantics |-> v1]}

(* Revisions are interchangeable. *)
Symmetry == Permutations(Revisions)
================================================================================
