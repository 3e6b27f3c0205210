---------------------------- MODULE MCSnapshotExport ----------------------------
(* The instance of SnapshotExport that TLC checks. *)
EXTENDS SnapshotExport, TLC

MCClauses == {"a"}

(* The clause has a path that is drawn and one that is not: a store that keeps   *)
(* no order may answer either first.                                            *)
MCMappings == {[clauses |-> {"a"}, drawable |-> {"a"}, undrawable |-> {"a"}]}

(* Publishers are interchangeable. *)
Symmetry == Permutations(Publishers)
================================================================================
