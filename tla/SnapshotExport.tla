---------------------------- MODULE SnapshotExport ----------------------------
(***************************************************************************)
(* The export of a published snapshot and the view of one of its proof     *)
(* paths (GET /v1/graph/snapshots/{id}/export and .../proof-path-view of   *)
(* compliance_graph), while documents are parsed again, reviewers decide   *)
(* and other change sets are published.                                    *)
(*                                                                         *)
(* An export takes the clauses of the change sets that name the snapshot   *)
(* and puts each through two gates.  The first reads the clause's latest   *)
(* revision and asks for an approved one; the second, the provenance       *)
(* chain, reads the latest revision once more, the log of agent calls and  *)
(* the change sets.  No transaction spans these reads, and a clause that   *)
(* fails either gate is left out without an error.  The gates read three   *)
(* times: the revision, the revision again, and the log with the change    *)
(* sets.  (The log is read first and only grows, so that both may as well  *)
(* be read at once, or the chain be given up where the log is read.)       *)
(*                                                                         *)
(* A view starts from the graph instead: it takes a path of the clause in  *)
(* the snapshot, whether a change set names that snapshot or not, and      *)
(* joins it with the clause's latest revision, which may be another one    *)
(* than was mapped.  It is drawn if that revision is accepted and the path *)
(* is complete.                                                            *)
(*                                                                         *)
(* Parsing, decisions and proposals are whole operations here; the modules *)
(* ParsePipeline, ReviewDecisions and ChangesetPublication take them       *)
(* apart.  Publishers overlap: each compares the base with the head, then  *)
(* commits the snapshot, then records it in the change set, and may die    *)
(* in between.  An update of a change set, a validation or an approval     *)
(* too, writes what it has read some time before over a publication.       *)
(*                                                                         *)
(* The links of the chain that every stored revision has are left out: its *)
(* document is registered and never deleted, its report carries the run id *)
(* and the clause it is about, and its change set holds a node for it.     *)
(***************************************************************************)
EXTENDS Naturals, Sequences, FiniteSets, FiniteSetsExt

CONSTANTS
    Clauses,        \* ids of clauses
    Mappings,       \* what the graph mapping tool can map clauses to
    Publishers,     \* threads that publish change sets
    Exports,        \* requests for an export or a view
    None,           \* Python's None
    MaxRevisions,   \* bound: revisions of all clauses together
    MaxDecisions,   \* bound: decisions ever made
    MaxChangesets,  \* bound: change sets ever proposed
    MaxSnapshots,   \* bound: snapshots ever committed
    MaxOverwrites   \* bound: updates ever written over a later one

VARIABLES
    revisions,      \* obligation_revisions: for each clause, oldest first
    decisions,      \* decisions made so far
    logged,         \* agent_call_log: clauses with a call the database has taken
    changesets,     \* graph_changesets: the rows in the order of their creation,
                    \* which is the order SQLite scans the table in
    copies,         \* what the requests that have read a row may still write to it
    overwrites,     \* updates written over a later one so far
    graph,          \* what each snapshot was made of, in the order of their commits
    heads,          \* the snapshots a head pointer names; 0 for none
    publisher,      \* what each publisher is about
    export,         \* what each request has read and answered so far
    since,          \* history variable: the statuses seen since an export began
    callsAtStart,   \* history variable: the logged clauses when it began
    unread,         \* history variable: clauses whose calls it failed to read
    lapsed,         \* history variable: clauses it could not have found published
    overwritten,    \* history variable: rows an earlier update was written over
    publishersMet   \* history variable: two publishers were at work at once

recordVars == <<revisions, decisions, logged>>
tableVars == <<changesets, copies, overwrites, overwritten>>
storeVars == <<graph, heads, publisher, publishersMet>>
graphVars == <<tableVars, storeVars>>
requestVars == <<export, since, callsAtStart, unread, lapsed>>
vars == <<recordVars, graphVars, requestVars>>

--------------------------------------------------------------------------------

Statuses == {"pending", "accepted", "edited", "rejected", "escalated"}

(* Mutant: an edited record does not count as reviewed. *)
ApprovedIsAccepted == {"accepted"}

Approved == {"accepted", "edited"}

Revision == [status : Statuses, revision_history : BOOLEAN]

(* A mapping gives obligations of some clauses, and finds paths for them that  *)
(* can be drawn, or that cannot: incomplete ones, or of ids of other tools.    *)
Mapping == [clauses : SUBSET Clauses, drawable : SUBSET Clauses, undrawable : SUBSET Clauses]

ASSUME MappingsAssumption ==
    /\ Mappings \subseteq Mapping
    /\ \A m \in Mappings : m.drawable \cup m.undrawable \subseteq m.clauses

(* What an update rewrites of a change set: whether its status is "published", *)
(* and the snapshot it names.                                                  *)
Publication == [published : BOOLEAN, published_snapshot_id : (Nat \ {0}) \cup {None}]

Unpublished == [published |-> FALSE, published_snapshot_id |-> None]

Changeset == [content : Mapping, base_snapshot_id : Nat, publication : Publication]

Publishing == [row : Nat, heads : SUBSET Nat, snapshot : (Nat \ {0}) \cup {None}]

ASSUME NoneAssumption == None \notin Nat \cup Clauses \cup Revision \cup Publishing

Export == [form : {"bundle", "view"}, snapshot : Nat \ {0},
           todo : SUBSET Clauses, reading : Clauses \cup {None}, status : Statuses \cup {None},
           decided : BOOLEAN,
           included : SUBSET [clause : Clauses, review_status : Statuses],
           excluded : SUBSET Clauses]

(* The last of list_revisions_for_clause. *)
Latest(c) == IF revisions[c] = <<>> THEN None ELSE revisions[c][Len(revisions[c])]

SourceClauseIds(k) == changesets[k].content.clauses

SnapshotOf(k) == changesets[k].publication.published_snapshot_id

PublishedRows == {k \in DOMAIN changesets : changesets[k].publication.published}

RowsOfClause(c) == {k \in PublishedRows : c \in SourceClauseIds(k)}

(* find_published_by_clause_id: the last row of a scan in creation order. *)
FindPublishedByClauseId(c) == IF RowsOfClause(c) = {} THEN None ELSE Max(RowsOfClause(c))

(* The clauses of list_published_by_snapshot. *)
ClausesOfSnapshot(s) ==
    UNION {SourceClauseIds(k) : k \in {l \in PublishedRows : SnapshotOf(l) = s}}

(* The chain finds a published change set, and that names a snapshot. *)
LinkResolves(c) ==
    /\ FindPublishedByClauseId(c) # None
    /\ SnapshotOf(FindPublishedByClauseId(c)) # None

Unlinked == {c \in Clauses : ~LinkResolves(c)}

Active(e) == export[e] # None /\ (export[e].todo # {} \/ export[e].reading # None)

(* The number of revisions in the table. *)
Stored == MapThenSumSet(LAMBDA c : Len(revisions[c]), Clauses)

(* What the exports under way could see of clause c from now on. *)
Observed(c, status) ==
    [e \in Exports |-> IF Active(e) THEN since[e] \cup {<<c, status>>} ELSE since[e]]

--------------------------------------------------------------------------------

Init ==
    /\ revisions = [c \in Clauses |-> <<>>]
    /\ decisions = 0
    /\ logged = {}
    /\ changesets = <<>>
    /\ copies = <<>>
    /\ overwrites = 0
    /\ graph = <<>>
    /\ heads = {0}
    /\ publisher = [p \in Publishers |-> None]
    /\ export = [e \in Exports |-> None]
    /\ since = [e \in Exports |-> {}]
    /\ callsAtStart = [e \in Exports |-> {}]
    /\ unread = [e \in Exports |-> {}]
    /\ lapsed = [e \in Exports |-> {}]
    /\ overwritten = {}
    /\ publishersMet = FALSE

(* A document is parsed, for the first time or again: the agent's call is      *)
(* logged when the database takes it, and a pending revision is stored.        *)
Parse(c) ==
    /\ Stored < MaxRevisions
    /\ logged' \in {logged, logged \cup {c}}
    /\ revisions' = [revisions EXCEPT ![c] =
                        Append(@, [status |-> "pending", revision_history |-> FALSE])]
    /\ since' = Observed(c, "pending")
    /\ UNCHANGED <<decisions, graphVars, export, callsAtStart, unread, lapsed>>

(* A reviewer decides on a revision, not necessarily the latest. *)
Decide(c, i, status) ==
    /\ decisions < MaxDecisions
    /\ decisions' = decisions + 1
    /\ i \in DOMAIN revisions[c]
    /\ status # "pending"
    /\ revisions[c][i].status = "escalated" => status \notin {"accepted", "edited"}
    /\ revisions' = [revisions EXCEPT ![c][i] = [status |-> status, revision_history |-> TRUE]]
    /\ since' = IF i = Len(revisions[c]) THEN Observed(c, status) ELSE since
    /\ UNCHANGED <<logged, graphVars, export, callsAtStart, unread, lapsed>>

(* A tool maps approved obligations to a change set, on a head it has read.  It *)
(* may be published from now on: the graph is valid and a reviewer approves.    *)
Propose(mapping, base) ==
    /\ Len(changesets) < MaxChangesets
    /\ \A c \in mapping.clauses :
        \E i \in DOMAIN revisions[c] : revisions[c][i].status \in Approved
    /\ changesets' = Append(changesets,
            [content |-> mapping, base_snapshot_id |-> base, publication |-> Unpublished])
    /\ copies' = Append(copies, {Unpublished})
    /\ UNCHANGED <<recordVars, overwrites, overwritten, storeVars, requestVars>>

(* A row is written.  A request that updates it has read its status at some    *)
(* moment and its payload at a later one: it may now hold this payload, with   *)
(* any status the row has ever had.                                            *)
Write(k, new) ==
    /\ changesets' = [changesets EXCEPT ![k].publication = new]
    /\ copies' = [copies EXCEPT ![k] = @ \cup
            {[published |-> old.published,
              published_snapshot_id |-> new.published_snapshot_id] : old \in @ \cup {new}}]

(* Mutant: a change set is published whatever its base is. *)
HeadCheckSkipped(p, k) ==
    /\ publisher[p] = None
    /\ ~changesets[k].publication.published
    /\ publisher' = [publisher EXCEPT ![p] = [row |-> k, heads |-> heads, snapshot |-> None]]
    /\ publishersMet' = (publishersMet \/ \E q \in Publishers : publisher[q] # None)
    /\ UNCHANGED <<recordVars, tableVars, graph, heads, requestVars>>

(* A publisher takes up an approved change set whose base is a head.  (A row    *)
(* that was ever published has a base that is no head any more, so that its     *)
(* status may as well be read when the head is.)                                *)
HeadCheck(p, k) ==
    /\ publisher[p] = None
    /\ ~changesets[k].publication.published
    /\ changesets[k].base_snapshot_id \in heads
    /\ publisher' = [publisher EXCEPT ![p] = [row |-> k, heads |-> heads, snapshot |-> None]]
    /\ publishersMet' = (publishersMet \/ \E q \in Publishers : publisher[q] # None)
    /\ UNCHANGED <<recordVars, tableVars, graph, heads, requestVars>>

(* It commits the snapshot, whatever the head is now.  A head pointer that      *)
(* appeared after its transaction looked for the old ones stays.                *)
CommitSnapshot(p) ==
    /\ publisher[p] # None
    /\ publisher[p].snapshot = None
    /\ Len(graph) < MaxSnapshots
    /\ graph' = Append(graph, changesets[publisher[p].row].content)
    /\ \E kept \in SUBSET (heads \ publisher[p].heads) : heads' = kept \cup {Len(graph')}
    /\ publisher' = [publisher EXCEPT ![p].snapshot = Len(graph')]
    /\ UNCHANGED <<recordVars, tableVars, publishersMet, requestVars>>

(* Mutant: the superseded snapshot is recorded. *)
LinkSnapshotToBase(p) ==
    /\ publisher[p] # None
    /\ publisher[p].snapshot # None
    /\ Write(publisher[p].row, [published |-> TRUE,
            published_snapshot_id |-> changesets[publisher[p].row].base_snapshot_id])
    /\ publisher' = [publisher EXCEPT ![p] = None]
    /\ UNCHANGED <<recordVars, overwrites, overwritten, graph, heads, publishersMet, requestVars>>

(* It records the snapshot in the change set's row. *)
LinkSnapshot(p) ==
    /\ publisher[p] # None
    /\ publisher[p].snapshot # None
    /\ Write(publisher[p].row,
             [published |-> TRUE, published_snapshot_id |-> publisher[p].snapshot])
    /\ publisher' = [publisher EXCEPT ![p] = None]
    /\ UNCHANGED <<recordVars, overwrites, overwritten, graph, heads, publishersMet, requestVars>>

(* It dies before it does. *)
PublisherDies(p) ==
    /\ publisher[p] # None
    /\ publisher' = [publisher EXCEPT ![p] = None]
    /\ UNCHANGED <<recordVars, tableVars, graph, heads, publishersMet, requestVars>>

(* A validation or an approval writes what it read before the row was written   *)
(* last: the status goes back, and the payload.                                 *)
Overwrite(k) ==
    /\ overwrites < MaxOverwrites
    /\ overwrites' = overwrites + 1
    /\ \E old \in copies[k] \ {changesets[k].publication} : Write(k, old)
    /\ overwritten' = overwritten \cup {k}
    /\ lapsed' = [e \in Exports |-> IF Active(e) THEN lapsed[e] \cup Unlinked' ELSE lapsed[e]]
    /\ UNCHANGED <<recordVars, storeVars, export, since, callsAtStart, unread>>

(* An export of snapshot s begins: it lists the change sets that name s. *)
StartExport(e, s) ==
    /\ export[e] = None
    /\ export' = [export EXCEPT ![e] =
            [form |-> "bundle", snapshot |-> s, todo |-> ClausesOfSnapshot(s), reading |-> None,
             status |-> None, decided |-> FALSE, included |-> {}, excluded |-> {}]]
    /\ since' = [since EXCEPT ![e] = {<<c, Latest(c).status>> : c \in ClausesOfSnapshot(s)}]
    /\ callsAtStart' = [callsAtStart EXCEPT ![e] = logged]
    /\ lapsed' = [lapsed EXCEPT ![e] = Unlinked]
    /\ UNCHANGED <<recordVars, graphVars, unread>>

(* The first gate: the clause's latest revision is approved, or it is left out. *)
ReviewGate(e, c) ==
    /\ export[e] # None /\ export[e].form = "bundle" /\ export[e].reading = None
    /\ c \in export[e].todo
    /\ IF Latest(c).status \in Approved
       THEN export' = [export EXCEPT ![e].todo = @ \ {c},
                                     ![e].reading = c,
                                     ![e].status = Latest(c).status]
       ELSE export' = [export EXCEPT ![e].todo = @ \ {c},
                                     ![e].excluded = @ \cup {c}]
    /\ UNCHANGED <<recordVars, graphVars, since, callsAtStart, unread, lapsed>>

(* The second gate finds the reviewer's decision on the latest revision, or    *)
(* leaves the clause out.                                                      *)
ReadDecision(e) ==
    /\ export[e] # None /\ export[e].reading # None /\ ~export[e].decided
    /\ LET c == export[e].reading
       IN  IF Latest(c).revision_history
           THEN export' = [export EXCEPT ![e].decided = TRUE]
           ELSE export' = [export EXCEPT ![e].reading = None, ![e].status = None,
                                         ![e].excluded = @ \cup {c}]
    /\ UNCHANGED <<recordVars, graphVars, since, callsAtStart, unread, lapsed>>

(* The obligation of the answer, or the clause among those left out.           *)
Conclude(e, status, calls) ==
    LET c == export[e].reading
        x == [export[e] EXCEPT !.reading = None, !.status = None, !.decided = FALSE]
    IN  IF c \in calls /\ LinkResolves(c)
        THEN [x EXCEPT !.included = @ \cup {[clause |-> c, review_status |-> status]}]
        ELSE [x EXCEPT !.excluded = @ \cup {c}]

(* The calls found, or none if the log cannot be read: the error is swallowed. *)
ReadLog(e, calls) ==
    \/ calls = logged /\ UNCHANGED unread
    \/ calls = {} /\ unread' = [unread EXCEPT ![e] = @ \cup {export[e].reading}]

(* Mutant: the status is read again for the answer. *)
ProvenanceGateRereads(e) ==
    /\ export[e] # None /\ export[e].reading # None /\ export[e].decided
    /\ \E calls \in {logged, {}} :
        /\ ReadLog(e, calls)
        /\ export' = [export EXCEPT ![e] = Conclude(e, Latest(export[e].reading).status, calls)]
    /\ UNCHANGED <<recordVars, graphVars, since, callsAtStart, lapsed>>

(* It finds the rest of the chain, or leaves the clause out.  The answer gives *)
(* the status that the first gate has read.                                    *)
ProvenanceGate(e) ==
    /\ export[e] # None /\ export[e].reading # None /\ export[e].decided
    /\ \E calls \in {logged, {}} :
        /\ ReadLog(e, calls)
        /\ export' = [export EXCEPT ![e] = Conclude(e, export[e].status, calls)]
    /\ UNCHANGED <<recordVars, graphVars, since, callsAtStart, lapsed>>

(* The rows of a proof-path query: each path of the snapshot, with the status   *)
(* of the clause's latest revision, whichever revision was mapped.              *)
RunProofPathQuery(s) ==
    {[clause |-> c, review_status |-> Latest(c).status, drawable |-> TRUE] :
        c \in graph[s].drawable} \cup
    {[clause |-> c, review_status |-> Latest(c).status, drawable |-> FALSE] :
        c \in graph[s].undrawable}

(* A view draws accepted records only; an edited one is not found. *)
Draws(row) == row.review_status = "accepted" /\ row.drawable

(* A view of the path of clause c in snapshot s: the first of its rows, in an   *)
(* order the stores do not share, is drawn, or nothing is found.  The paths     *)
(* never change, so that the view reads one thing that does.                    *)
View(e, s, c) ==
    /\ export[e] = None
    /\ c \in graph[s].clauses
    /\ \E drawn \in {{row} : row \in {r \in RunProofPathQuery(s) : r.clause = c}} \cup
                    {rows \in {{}} : \A r \in RunProofPathQuery(s) : r.clause # c} :
        /\ export' = [export EXCEPT ![e] =
                [form |-> "view", snapshot |-> s, todo |-> {}, reading |-> None,
                 status |-> None, decided |-> FALSE,
                 included |-> {[clause |-> c, review_status |-> r.review_status] :
                                    r \in {row \in drawn : Draws(row)}},
                 excluded |-> IF \E row \in drawn : Draws(row) THEN {} ELSE {c}]]
    /\ since' = [since EXCEPT ![e] = {<<c, Latest(c).status>>}]
    /\ UNCHANGED <<recordVars, graphVars, callsAtStart, unread, lapsed>>

Next ==
    \/ \E c \in Clauses : Parse(c)
    \/ \E c \in Clauses, i \in 1..MaxRevisions, status \in Statuses : Decide(c, i, status)
    \/ \E mapping \in Mappings, base \in 0..Len(graph) : Propose(mapping, base)
    \/ \E p \in Publishers, k \in DOMAIN changesets : HeadCheck(p, k)
    \/ \E p \in Publishers : CommitSnapshot(p)
    \/ \E p \in Publishers : LinkSnapshot(p)
    \/ \E p \in Publishers : PublisherDies(p)
    \/ \E k \in DOMAIN changesets : Overwrite(k)
    \/ \E e \in Exports, s \in 1..Len(graph) : StartExport(e, s)
    \/ \E e \in Exports, c \in Clauses : ReviewGate(e, c)
    \/ \E e \in Exports : ReadDecision(e)
    \/ \E e \in Exports : ProvenanceGate(e)
    \/ \E e \in Exports, s \in 1..Len(graph), c \in Clauses : View(e, s, c)

Spec == Init /\ [][Next]_vars

--------------------------------------------------------------------------------

(* Every variable holds a value of its kind, and a clause an export works on   *)
(* has been parsed.                                                            *)
TypeOK ==
    /\ revisions \in [Clauses -> Seq(Revision)]
    /\ decisions \in Nat
    /\ logged \subseteq Clauses
    /\ changesets \in Seq(Changeset)
    /\ copies \in Seq(SUBSET Publication) /\ Len(copies) = Len(changesets)
    /\ overwrites \in Nat
    /\ graph \in Seq(Mapping)
    /\ heads \subseteq Nat
    /\ publisher \in [Publishers -> Publishing \cup {None}]
    /\ export \in [Exports -> Export \cup {None}]
    /\ since \in [Exports -> SUBSET (Clauses \X Statuses)]
    /\ \A ghost \in {callsAtStart, unread, lapsed} : ghost \in [Exports -> SUBSET Clauses]
    /\ overwritten \subseteq DOMAIN changesets
    /\ publishersMet \in BOOLEAN
    /\ \A e \in Exports : export[e] # None =>
        /\ \A c \in export[e].todo : Latest(c) # None
        /\ export[e].reading # None =>
            export[e].status \in Statuses /\ Latest(export[e].reading) # None

(* What an export includes was true at some moment of the request: the clause  *)
(* is one the snapshot was made of, and the status it is given is an approved  *)
(* one (section 2.5) that its latest revision had since the export began.      *)
(* What a view shows is a complete path of the snapshot, whose clause was      *)
(* accepted when it was asked (section 5.11).                                  *)
AnswersWereApproved ==
    \A e \in Exports : export[e] # None =>
        \A o \in export[e].included :
            /\ <<o.clause, o.review_status>> \in since[e]
            /\ IF export[e].form = "bundle"
               THEN /\ o.clause \in graph[export[e].snapshot].clauses
                    /\ o.review_status \in {"accepted", "edited"}
               ELSE /\ o.clause \in graph[export[e].snapshot].drawable
                    /\ o.review_status = "accepted"

(* A clause is left out for a reason only.  At some moment of the request its  *)
(* latest revision was not approved; or its call was not logged when it began, *)
(* or the log could not be read; or it could not be found published at some    *)
(* moment, which takes an update written over the publication of a change set  *)
(* that names it.  For a view: it was not accepted, or a path of it cannot be  *)
(* drawn, or it has none.  Otherwise the silent gates drop nothing, whatever   *)
(* is parsed, decided and published while they read.                           *)
LeftOutForAReason ==
    \A e \in Exports : export[e] # None =>
        \A c \in export[e].excluded :
            \/ \E status \in Statuses \ {"accepted"} :
                    /\ status = "edited" => export[e].form = "view"
                    /\ <<c, status>> \in since[e]
            \/ /\ export[e].form = "bundle"
               /\ \/ c \notin callsAtStart[e]
                  \/ c \in unread[e]
                  \/ c \in lapsed[e] /\ \E k \in overwritten : c \in SourceClauseIds(k)
            \/ /\ export[e].form = "view"
               /\ \/ c \in graph[export[e].snapshot].undrawable
                  \/ c \notin graph[export[e].snapshot].drawable

(* Where publishers take turns, the change set the provenance chain of a       *)
(* clause names is the one that was published last, although the rows are      *)
(* searched in the order of creation: none can be proposed on a head that does *)
(* not exist yet.  (An overwritten one may name none.)                         *)
SerialChainNamesLatest ==
    \A c \in Clauses : ~publishersMet /\ LinkResolves(c) =>
        \A k \in RowsOfClause(c) :
            SnapshotOf(k) # None => SnapshotOf(k) <= SnapshotOf(FindPublishedByClauseId(c))
================================================================================
