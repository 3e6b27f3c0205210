------------------------- MODULE ChangesetPublication -------------------------
(***************************************************************************)
(* Graph change sets from proposal to published snapshot: the validate,    *)
(* approve and publish operations of the compliance_graph service over     *)
(* its two stores, the graph_changesets table and the graph database.      *)
(*                                                                         *)
(* Validate and publish are HTTP endpoints that run on the threads of the  *)
(* service's pool, approve runs in the reviewer's tool.  None of them      *)
(* holds a transaction across statements: each reads the change set,       *)
(* decides, and calls update_status, which reads the change set again and  *)
(* then writes it back whole.  Publishing also touches the graph database, *)
(* in two transactions (one reads the head, one writes the snapshot), and  *)
(* records the snapshot in the table only after the second has committed.  *)
(*                                                                         *)
(*   pc         next step of the thread                                    *)
(*   "head"     publish: read the graph's head and compare                 *)
(*   "begin"    publish: open the write transaction, read the head in it   *)
(*   "swap"     publish: find the head pointers to delete                  *)
(*   "commit"   publish: the new pointer and the snapshot become visible   *)
(*   "merge"    update_status: read the change set again                   *)
(*   "write"    update_status: write it back                               *)
(*                                                                         *)
(* The graph database is external.  It is modelled as its driver's         *)
(* transactions promise: what a transaction wrote becomes visible at       *)
(* commit, all at once, and a read sees what is committed (read committed, *)
(* its only isolation level).  Deleting a node already gone does nothing.  *)
(***************************************************************************)
EXTENDS Naturals, FiniteSets

CONSTANTS
    Changesets,     \* ids of change sets
    Passing,        \* those whose proposed graph satisfies every constraint rule
    Workers,        \* threads and tools that issue operations
    None,           \* Python's None
    MaxRequests     \* bound: operations ever started

ASSUME PassingAssumption == Passing \subseteq Changesets

VARIABLES
    changeset,      \* graph_changesets: the committed payload of each row
    heads,          \* the GraphHead pointers: snapshot ids
    snapshots,      \* the committed snapshots
    nextId,         \* the next fresh snapshot id
    pc,             \* where each thread stands
    target,         \* the change set a thread works on
    patch,          \* status and link the thread hands to update_status
    merged,         \* the payload update_status is about to write
    tx,             \* the write transaction of a publishing thread
    requests,       \* operations started
    approvals,      \* history variable: change sets whose approval was committed
    overlapped,     \* history variable: change sets two operations worked on at once
    publishersMet   \* history variable: two publish operations ran at once

threadVars == <<pc, target, patch, merged, tx>>
ghostVars == <<approvals, overlapped, publishersMet>>
vars == <<changeset, heads, snapshots, nextId, threadVars, requests, ghostVars>>

--------------------------------------------------------------------------------

Statuses == {"draft", "validated", "approved", "published", "rejected"}

SnapshotIds == Nat

Payloads == [status : Statuses,
             base_snapshot_id : SnapshotIds \cup {None},
             published_snapshot_id : SnapshotIds \cup {None}]

ASSUME NoneAssumption == None \notin Nat /\ None \notin Payloads

Snapshots == [id : SnapshotIds, superseded : SnapshotIds \cup {None}, by : Changesets]

Patches == [status : Statuses, link : SnapshotIds \cup {None}]

Transactions == [id : SnapshotIds, superseded : SnapshotIds \cup {None},
                 matched : SUBSET SnapshotIds]

Steps == {"idle", "head", "begin", "swap", "commit", "merge", "write"}

PublishSteps == {"head", "begin", "swap", "commit"}

(* The answer of a head query: LIMIT 1 picks one pointer when there are more. *)
HeadAnswers == IF heads = {} THEN {None} ELSE heads


(* Mutant: the report's own verdict becomes the status. *)
ResolveStatusIsVerdict(c, current) ==
    IF c \notin Passing THEN "fail"
    ELSE IF current = "draft" THEN "validated" ELSE current

(* Mutant: a passing report sends every change set back to validated. *)
ResolveStatusRestarts(c, current) ==
    IF c \notin Passing THEN "rejected" ELSE "validated"

(* Where the constraint report of a change set sends it from its status. *)
ResolveStatusAfterValidation(c, current) ==
    IF c \notin Passing THEN "rejected"
    ELSE IF current = "draft" THEN "validated" ELSE current


(* Mutant: the link is the graph's head at the time, not the snapshot made. *)
MergePatchLinksHead(existing, p) ==
    [existing EXCEPT !.status = p.status,
                     !.published_snapshot_id =
                         IF p.link # None THEN CHOOSE h \in heads : TRUE ELSE @]

MergePatch(existing, p) ==
    [existing EXCEPT !.status = p.status,
                     !.published_snapshot_id = IF p.link # None THEN p.link ELSE @]

(* GET /v1/graph/snapshots/{id} follows superseded_snapshot_id from a snapshot *)
(* until there is none.  It asks the graph once per step; a committed snapshot *)
(* never changes, so all steps may as well be taken in one state.              *)
Superseded(id) ==
    IF \E s \in snapshots : s.id = id THEN (CHOOSE s \in snapshots : s.id = id).superseded
    ELSE None

(* Where the walk from a snapshot stands after each of its first steps. *)
Cursor(id) ==
    LET cursor[n \in 0..Cardinality(snapshots)] ==
            IF n = 0 THEN id ELSE Superseded(cursor[n - 1])
    IN  cursor

GetSnapshot(id) == {Cursor(id)[n] : n \in DOMAIN Cursor(id)} \ {None}

WorkingOn(c) == {w \in Workers : pc[w] # "idle" /\ target[w] = c}

(* A thread that publishes, up to and including its update of the table. *)
Publishing(w) ==
    \/ pc[w] \in PublishSteps
    \/ pc[w] \in {"merge", "write"} /\ patch[w].link # None

--------------------------------------------------------------------------------

Init ==
    /\ changeset = [c \in Changesets |-> None]
    /\ heads = {}
    /\ snapshots = {}
    /\ nextId = 0
    /\ pc = [w \in Workers |-> "idle"]
    /\ target = [w \in Workers |-> None]
    /\ patch = [w \in Workers |-> None]
    /\ merged = [w \in Workers |-> None]
    /\ tx = [w \in Workers |-> None]
    /\ requests = 0
    /\ approvals = {}
    /\ overlapped = {}
    /\ publishersMet = FALSE

(* A draft built by the graph mapping agent is stored.  The caller names the   *)
(* base: a head it has read, or none.                                          *)
Create(c, base) ==
    /\ changeset[c] = None
    /\ changeset' = [changeset EXCEPT ![c] =
                        [status |-> "draft",
                         base_snapshot_id |-> base,
                         published_snapshot_id |-> None]]
    /\ UNCHANGED <<heads, snapshots, nextId, threadVars, requests, ghostVars>>

(* An operation on c begins: its thread has made the first read. *)
Start(w, c) ==
    /\ pc[w] = "idle"
    /\ requests < MaxRequests
    /\ requests' = requests + 1
    /\ changeset[c] # None
    /\ target' = [target EXCEPT ![w] = c]
    /\ overlapped' = IF WorkingOn(c) # {} THEN overlapped \cup {c} ELSE overlapped
    /\ UNCHANGED <<changeset, heads, snapshots, nextId, merged, tx, approvals>>

(* validate: the report is computed from the payload just read. *)
ValidateRead(w, c) ==
    /\ Start(w, c)
    /\ patch' = [patch EXCEPT ![w] =
                    [status |-> ResolveStatusAfterValidation(c, changeset[c].status),
                     link |-> None]]
    /\ pc' = [pc EXCEPT ![w] = "merge"]
    /\ UNCHANGED publishersMet


(* Mutant: a draft can be approved without having been validated. *)
ApproveReadFromDraft(w, c) ==
    /\ Start(w, c)
    /\ changeset[c].status \in {"draft", "validated"}
    /\ patch' = [patch EXCEPT ![w] = [status |-> "approved", link |-> None]]
    /\ pc' = [pc EXCEPT ![w] = "merge"]
    /\ UNCHANGED publishersMet

(* approve: only a validated change set; otherwise an error and no change. *)
ApproveRead(w, c) ==
    /\ Start(w, c)
    /\ changeset[c].status = "validated"
    /\ patch' = [patch EXCEPT ![w] = [status |-> "approved", link |-> None]]
    /\ pc' = [pc EXCEPT ![w] = "merge"]
    /\ UNCHANGED publishersMet

(* publish: approved, and the rules hold when they are run again; otherwise   *)
(* 409 and no change.                                                         *)
PublishRead(w, c) ==
    /\ Start(w, c)
    /\ changeset[c].status = "approved"
    /\ c \in Passing
    /\ pc' = [pc EXCEPT ![w] = "head"]
    /\ publishersMet' = (publishersMet \/ \E v \in Workers : Publishing(v))
    /\ UNCHANGED patch

(* The thread answers its client and forgets what it read. *)
Finish(w) ==
    /\ pc' = [pc EXCEPT ![w] = "idle"]
    /\ target' = [target EXCEPT ![w] = None]
    /\ patch' = [patch EXCEPT ![w] = None]
    /\ merged' = [merged EXCEPT ![w] = None]
    /\ tx' = [tx EXCEPT ![w] = None]


(* Mutant: the base is not compared with the head. *)
HeadReadUnchecked(w) ==
    /\ pc[w] = "head"
    /\ pc' = [pc EXCEPT ![w] = "begin"]
    /\ UNCHANGED <<changeset, heads, snapshots, nextId, target, patch, merged, tx,
                   requests, ghostVars>>

(* The head is still the base of the change set.  The base is never rewritten, *)
(* so reading it here is reading the copy the thread holds.                    *)
HeadRead(w) ==
    /\ pc[w] = "head"
    /\ changeset[target[w]].base_snapshot_id \in HeadAnswers
    /\ pc' = [pc EXCEPT ![w] = "begin"]
    /\ UNCHANGED <<changeset, heads, snapshots, nextId, target, patch, merged, tx,
                   requests, ghostVars>>

(* The head has moved: 409, and the graph is untouched. *)
HeadMoved(w) ==
    /\ pc[w] = "head"
    /\ \E h \in HeadAnswers : h # changeset[target[w]].base_snapshot_id
    /\ Finish(w)
    /\ UNCHANGED <<changeset, heads, snapshots, nextId, requests, ghostVars>>

(* The write transaction opens with a fresh id and reads the head it supersedes. *)
TxBegin(w) ==
    /\ pc[w] = "begin"
    /\ \E h \in HeadAnswers :
        tx' = [tx EXCEPT ![w] = [id |-> nextId, superseded |-> h, matched |-> {}]]
    /\ nextId' = nextId + 1
    /\ pc' = [pc EXCEPT ![w] = "swap"]
    /\ UNCHANGED <<changeset, heads, snapshots, target, patch, merged, requests, ghostVars>>


(* Mutant: the old pointers are left in place. *)
TxSwapKeepsPointers(w) ==
    /\ pc[w] = "swap"
    /\ pc' = [pc EXCEPT ![w] = "commit"]
    /\ UNCHANGED <<changeset, heads, snapshots, nextId, target, patch, merged, tx,
                   requests, ghostVars>>

(* It matches the head pointers it will delete. *)
TxSwap(w) ==
    /\ pc[w] = "swap"
    /\ tx' = [tx EXCEPT ![w].matched = heads]
    /\ pc' = [pc EXCEPT ![w] = "commit"]
    /\ UNCHANGED <<changeset, heads, snapshots, nextId, target, patch, merged,
                   requests, ghostVars>>


(* Mutant: the head to supersede is read after the new pointer is created. *)
TxCommitReadsLate(w) ==
    /\ pc[w] = "commit"
    /\ heads' = (heads \ tx[w].matched) \cup {tx[w].id}
    /\ snapshots' = snapshots \cup
            {[id |-> tx[w].id, superseded |-> tx[w].id, by |-> target[w]]}
    /\ patch' = [patch EXCEPT ![w] = [status |-> "published", link |-> tx[w].id]]
    /\ pc' = [pc EXCEPT ![w] = "merge"]
    /\ UNCHANGED <<changeset, nextId, target, merged, tx, requests, ghostVars>>

(* It commits: the snapshot and its pointer appear, the matched pointers go. *)
TxCommit(w) ==
    /\ pc[w] = "commit"
    /\ heads' = (heads \ tx[w].matched) \cup {tx[w].id}
    /\ snapshots' = snapshots \cup
            {[id |-> tx[w].id, superseded |-> tx[w].superseded, by |-> target[w]]}
    /\ patch' = [patch EXCEPT ![w] = [status |-> "published", link |-> tx[w].id]]
    /\ pc' = [pc EXCEPT ![w] = "merge"]
    /\ UNCHANGED <<changeset, nextId, target, merged, tx, requests, ghostVars>>

(* update_status reads the change set again and merges the patch into it. *)
UpdateRead(w) ==
    /\ pc[w] = "merge"
    /\ merged' = [merged EXCEPT ![w] = MergePatch(changeset[target[w]], patch[w])]
    /\ pc' = [pc EXCEPT ![w] = "write"]
    /\ UNCHANGED <<changeset, heads, snapshots, nextId, target, patch, tx,
                   requests, ghostVars>>

(* It writes the merged payload back and commits. *)
UpdateWrite(w) ==
    /\ pc[w] = "write"
    /\ changeset' = [changeset EXCEPT ![target[w]] = merged[w]]
    /\ approvals' = IF patch[w].status = "approved"
                    THEN approvals \cup {target[w]} ELSE approvals
    /\ Finish(w)
    /\ UNCHANGED <<heads, snapshots, nextId, requests, overlapped, publishersMet>>

(* The operation dies between two steps: a restart, a dropped connection, a   *)
(* locked database file.  An open transaction rolls back; what was committed  *)
(* stays.                                                                     *)
Fail(w) ==
    /\ pc[w] # "idle"
    /\ Finish(w)
    /\ UNCHANGED <<changeset, heads, snapshots, nextId, requests, ghostVars>>

Next ==
    \/ \E c \in Changesets, base \in heads \cup {None} : Create(c, base)
    \/ \E w \in Workers, c \in Changesets : ValidateRead(w, c)
    \/ \E w \in Workers, c \in Changesets : ApproveRead(w, c)
    \/ \E w \in Workers, c \in Changesets : PublishRead(w, c)
    \/ \E w \in Workers : HeadRead(w)
    \/ \E w \in Workers : HeadMoved(w)
    \/ \E w \in Workers : TxBegin(w)
    \/ \E w \in Workers : TxSwap(w)
    \/ \E w \in Workers : TxCommit(w)
    \/ \E w \in Workers : UpdateRead(w)
    \/ \E w \in Workers : UpdateWrite(w)
    \/ \E w \in Workers : Fail(w)

Spec == Init /\ [][Next]_vars

--------------------------------------------------------------------------------

(* Every variable holds a value of its kind, and a thread past a step has what *)
(* the step read.                                                              *)
TypeOK ==
    /\ changeset \in [Changesets -> Payloads \cup {None}]
    /\ heads \subseteq SnapshotIds
    /\ snapshots \subseteq Snapshots
    /\ nextId \in Nat
    /\ pc \in [Workers -> Steps]
    /\ target \in [Workers -> Changesets \cup {None}]
    /\ patch \in [Workers -> Patches \cup {None}]
    /\ merged \in [Workers -> Payloads \cup {None}]
    /\ tx \in [Workers -> Transactions \cup {None}]
    /\ requests \in Nat
    /\ approvals \subseteq Changesets
    /\ overlapped \subseteq Changesets
    /\ publishersMet \in BOOLEAN
    /\ \A w \in Workers :
        /\ pc[w] # "idle" => target[w] \in Changesets /\ changeset[target[w]] \in Payloads
        /\ pc[w] \in {"merge", "write"} => patch[w] \in Patches
        /\ pc[w] = "write" => merged[w] \in Payloads
        /\ pc[w] \in {"swap", "commit"} => tx[w] \in Transactions

(* Whatever operations race or die, a snapshot comes from a change set that    *)
(* satisfies the rules and that a reviewer approved: there is no path that     *)
(* publishes a rejected or an unreviewed one.                                  *)
OnlyApprovedPublished ==
    /\ \A s \in snapshots : s.by \in Passing /\ s.by \in approvals
    /\ \A c \in Changesets : changeset[c] # None =>
        /\ changeset[c].status \in {"approved", "published"} => c \in approvals
        /\ changeset[c].status \in {"validated", "approved", "published"} => c \in Passing

(* The snapshot a change set links to exists and was built from it: the        *)
(* provenance chain never leads to another change set's snapshot.              *)
LinkIsOwnSnapshot ==
    \A c \in Changesets : changeset[c] # None =>
        /\ changeset[c].published_snapshot_id # None =>
            \E s \in snapshots : s.id = changeset[c].published_snapshot_id /\ s.by = c
        /\ changeset[c].status = "published" => \E s \in snapshots : s.by = c

(* Where no two operations worked on a change set at once, once it is          *)
(* published it stays published and keeps its link.                            *)
SerialPublishedIsFinal ==
    [][\A c \in Changesets :
          changeset[c] # None /\ changeset[c].status = "published" /\ c \notin overlapped
            => changeset'[c] = changeset[c]]_vars

(* Where no two publish operations ran at once, the snapshots form one chain   *)
(* with one head, and each was built on the base its change set was proposed   *)
(* for (section 5.7, optimistic concurrency).  A publish that is sent again    *)
(* after a crash or a lost answer therefore adds no second snapshot.           *)
SerialLineage ==
    ~publishersMet =>
        /\ Cardinality(heads) <= 1
        /\ \A s \in snapshots : s.superseded = changeset[s.by].base_snapshot_id
        /\ \A s, t \in snapshots : s.superseded = t.superseded => s = t
        /\ \A s \in snapshots :
            s.id \in heads <=> ~\E t \in snapshots : t.superseded = s.id

(* The lineage of a snapshot is answered: whatever publishers raced, the walk  *)
(* ends before it has seen a snapshot twice, and it meets committed snapshots  *)
(* only.  Where publishers took turns the head's lineage is every snapshot.    *)
LineageIsAnswered ==
    /\ \A s \in snapshots :
        /\ Cursor(s.id)[Cardinality(snapshots)] = None
        /\ GetSnapshot(s.id) \subseteq {t.id : t \in snapshots}
    /\ ~publishersMet =>
        \A h \in heads : GetSnapshot(h) = {t.id : t \in snapshots}

(* The two stores and the threads implement the lineage the graph store        *)
(* promises: a step that publishes puts one snapshot at the head of the chain  *)
(* for as long as publishers take turns, and every other step leaves the       *)
(* snapshots and the head alone.                                               *)
Lineage == INSTANCE SnapshotLineage WITH
    Ids <- SnapshotIds,
    head <- IF heads = {} THEN None ELSE CHOOSE h \in heads : TRUE,
    lineage <- {[id |-> s.id, superseded |-> s.superseded] : s \in snapshots},
    concurrent <- publishersMet

ImplementsLineage == Lineage!Spec

(* publisher.py: the link from a change set to its snapshot is persisted, so   *)
(* that provenance can be resolved later.                                      *)
EverySnapshotLinked ==
    \A s \in snapshots : WorkingOn(s.by) = {} =>
        /\ changeset[s.by].status = "published"
        /\ changeset[s.by].published_snapshot_id # None
================================================================================
