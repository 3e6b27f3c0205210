---------------------------- MODULE SnapshotLineage ----------------------------
(***************************************************************************)
(* What the graph store promises of its snapshots (publisher/snapshot.py): *)
(* a published snapshot never changes, and each new one supersedes the     *)
(* head and takes its place, so that the snapshots form one chain.         *)
(*                                                                         *)
(* The chain is promised to publishers that take turns.  From the moment   *)
(* two of them are at work at once only immutability is left, and this     *)
(* specification says so: it is what the code can keep, not what its       *)
(* documentation hopes for.                                                *)
(***************************************************************************)
CONSTANTS
    Ids,            \* snapshot ids
    None            \* no snapshot

VARIABLES
    head,           \* the id of the current snapshot, or None
    lineage,        \* the snapshots: id and the id it superseded
    concurrent      \* two publishers have been at work at once

vars == <<head, lineage, concurrent>>

Init ==
    /\ head = None
    /\ lineage = {}
    /\ concurrent = FALSE

(* A publisher at work alone adds a snapshot at the head of the chain. *)
Publish ==
    /\ ~concurrent
    /\ head' \in Ids
    /\ \A s \in lineage : s.id # head'
    /\ lineage' = lineage \cup {[id |-> head', superseded |-> head]}
    /\ UNCHANGED concurrent

PublishersMeet ==
    /\ concurrent' = TRUE
    /\ UNCHANGED <<head, lineage>>

(* After that a snapshot may supersede any other, and any may be the head. *)
PublishUnordered ==
    /\ concurrent
    /\ lineage \subseteq lineage'
    /\ UNCHANGED concurrent

Next ==
    \/ Publish
    \/ PublishersMeet
    \/ PublishUnordered

Spec == Init /\ [][Next]_vars
================================================================================
