--------------------------- MODULE ReviewerWorkspace ---------------------------
(***************************************************************************)
(* Reviewers at the command line and clients over HTTP, who decide on the  *)
(* same obligation revisions.                                              *)
(*                                                                         *)
(* A reviewer's command (reviewer_ui/cli.py) reads the latest revision of  *)
(* a clause, renders its panes from that copy, builds the edit and its     *)
(* diff from it as well, and hands the decision to the handler the service *)
(* uses, without the service.  A client's request reaches the same handler *)
(* through the middleware.  The handler is that of ReviewDecisions, all of *)
(* its steps included; each client and each command is one of its threads. *)
(***************************************************************************)
EXTENDS Naturals, Sequences

CONSTANTS
    Revisions,      \* ids of the obligation revisions of one clause
    Clients,        \* clients of the service, with one request at a time
    Reviewers,      \* commands at work
    Values,         \* what an editable field can hold
    Broken,         \* the value that fails its check
    None,           \* Python's None
    Extracted,      \* the contents the parser makes of the clause
    ClientEdits,    \* the edits that clients send
    MaxDecisions,   \* bound: history entries ever built
    Window,         \* window_seconds, in ticks
    MaxRequests     \* max_requests in a window

ASSUME ThreadsAssumption == Clients \cap Reviewers = {}

(* The limit is 120 requests unless the service is given another. *)
ASSUME LimitsAssumption == Window \in Nat /\ MaxRequests \in Nat \ {0}

VARIABLES
    store, pc, req, entry, payload, staged, clock,  \* see ReviewDecisions
    origin, applied, overlapped,
    hits, passed, silent,                           \* see RequestMiddleware
    order,          \* the revisions in the order they were stored
    session         \* what each command has rendered, and the diff it announces

Reviews == INSTANCE ReviewDecisions WITH Workers <- Clients \cup Reviewers

Middleware == INSTANCE RequestMiddleware

reviewsVars == <<store, pc, req, entry, payload, staged, clock, origin, applied, overlapped>>
middlewareVars == <<hits, passed, silent>>
vars == <<reviewsVars, middlewareVars, order, session>>

--------------------------------------------------------------------------------

Sessions == [rev : Revisions, seen : Reviews!Records,
             since : SUBSET [rev : Revisions, entry : Reviews!Entries],
             submitted : BOOLEAN, preview : Reviews!Diffs \cup {None}]

ASSUME ValuesAssumption ==
    Broken \in Values /\ None \notin Reviews!Contents \cup Reviews!Records

ASSUME EditsAssumption ==
    Extracted \subseteq Reviews!Contents /\ ClientEdits \subseteq Reviews!Patches

(* The editor has one input per field of the semantics. *)
FieldEdits == [{"semantics"} -> Values]

(* Mutant: the diff that is announced is against what the parser extracted. *)
BuildEditPayloadFromOrigin(s, fieldEdits) ==
    [edits |-> fieldEdits, diff_preview |-> Reviews!ComputeDiff(origin[s.rev], fieldEdits)]

(* build_edit_payload: the edits, and their diff against the copy rendered. *)
BuildEditPayload(s, fieldEdits) ==
    [edits |-> fieldEdits, diff_preview |-> Reviews!ComputeDiff(s.seen.content, fieldEdits)]

--------------------------------------------------------------------------------

Init ==
    /\ Reviews!Init
    /\ Middleware!Init
    /\ order = <<>>
    /\ session = [r \in Reviewers |-> None]

(* The clause is parsed, once more or for the first time. *)
Parse(rev, content) ==
    /\ Reviews!CreateRevision(rev, content)
    /\ order' = Append(order, rev)
    /\ UNCHANGED <<middlewareVars, session>>

(* A client's decision passes the middleware and is taken up by a thread.  A   *)
(* client that got no answer may send it again: its key is not remembered.     *)
Post(c, rev, action, edits) ==
    /\ Middleware!PassOn(c)
    /\ Reviews!Submit(c, rev, action, edits)
    /\ UNCHANGED <<order, session>>

(* A client's query, which needs no key. *)
Query(c) ==
    /\ Middleware!PassOn(c)
    /\ UNCHANGED <<reviewsVars, order, session>>

(* The middleware answers for the endpoint. *)
TurnAway(c) ==
    /\ Middleware!RateLimited(c) \/ Middleware!MissingIdempotencyKey(c)
    /\ UNCHANGED <<reviewsVars, order, session>>

Tick ==
    /\ Middleware!Tick
    /\ UNCHANGED <<reviewsVars, order, session>>

(* Mutant: the panes are rendered from the first revision of the list. *)
OpenFirst(r) ==
    /\ session[r] = None
    /\ order # <<>>
    /\ session' = [session EXCEPT ![r] =
                    [rev |-> order[Len(order)], seen |-> store[order[1]],
                     since |-> applied,
                     submitted |-> FALSE, preview |-> None]]
    /\ UNCHANGED <<reviewsVars, middlewareVars, order>>

(* A command reads the latest revision and renders the source, the fields, the *)
(* stored report (that of the content the revision was stored with) and the    *)
(* history; the report counts as viewed.                                       *)
Open(r) ==
    /\ session[r] = None
    /\ order # <<>>
    /\ LET latest == order[Len(order)]
       IN  session' = [session EXCEPT ![r] =
                [rev |-> latest, seen |-> store[latest], since |-> applied,
                 submitted |-> FALSE, preview |-> None]]
    /\ UNCHANGED <<reviewsVars, middlewareVars, order>>

(* The command submits an edit, having announced its diff; it submits once. *)
SubmitEdit(r, fieldEdits) ==
    /\ session[r] # None
    /\ ~session[r].submitted
    /\ LET payloadAndPreview == BuildEditPayload(session[r], fieldEdits)
       IN  /\ Reviews!Submit(r, session[r].rev, "edit", payloadAndPreview.edits)
           /\ session' = [session EXCEPT ![r].submitted = TRUE,
                                         ![r].preview = payloadAndPreview.diff_preview]
    /\ UNCHANGED <<middlewareVars, order>>

(* The command submits another decision. *)
SubmitAction(r, action) ==
    /\ session[r] # None
    /\ ~session[r].submitted
    /\ Reviews!Submit(r, session[r].rev, action, None)
    /\ session' = [session EXCEPT ![r].submitted = TRUE]
    /\ UNCHANGED <<middlewareVars, order>>

(* The command ends: it was asked to show only, its decision is answered, or   *)
(* an error ends it before it has submitted one.                               *)
Leave(r) ==
    /\ session[r] # None
    /\ pc[r] = "idle"
    /\ session' = [session EXCEPT ![r] = None]
    /\ UNCHANGED <<reviewsVars, middlewareVars, order>>

(* A thread or a command takes the handler's next step. *)
Handle(w) ==
    /\ \/ Reviews!ServiceRefuse(w)
       \/ Reviews!ServiceRead(w)
       \/ Reviews!RepoRead(w)
       \/ Reviews!RepoRefuse(w)
       \/ Reviews!RepoWrite(w)
       \/ Reviews!Answer(w)
       \/ Reviews!Fail(w)
    /\ UNCHANGED <<middlewareVars, order, session>>

Next ==
    \/ \E rev \in Revisions, content \in Extracted : Parse(rev, content)
    \/ \E c \in Clients, rev \in Revisions, action \in Reviews!Actions \ {"edit"} :
            Post(c, rev, action, None)
    \/ \E c \in Clients, rev \in Revisions, edits \in ClientEdits :
            Post(c, rev, "edit", edits)
    \/ \E c \in Clients : Query(c)
    \/ \E c \in Clients : TurnAway(c)
    \/ Tick
    \/ \E r \in Reviewers : Open(r)
    \/ \E r \in Reviewers, fieldEdits \in FieldEdits : SubmitEdit(r, fieldEdits)
    \/ \E r \in Reviewers, action \in Reviews!Actions \ {"edit"} : SubmitAction(r, action)
    \/ \E r \in Reviewers : Leave(r)
    \/ \E w \in Clients \cup Reviewers : Handle(w)

Spec == Init /\ [][Next]_vars

--------------------------------------------------------------------------------

(* Every variable holds a value of its kind, and a revision is listed once. *)
TypeOK ==
    /\ Reviews!TypeOK
    /\ Middleware!TypeOK
    /\ order \in Seq(Revisions)
    /\ \A rev \in Revisions : store[rev] # None <=> \E i \in DOMAIN order : order[i] = rev
    /\ session \in [Reviewers -> Sessions \cup {None}]

(* The report a reviewer is shown is that of the content the revision was      *)
(* stored with; decisions never bring it up to date.  It is about other        *)
(* content than the fields beside it only where the history beside them names  *)
(* an edit: never silently, whatever decisions overlapped (section 6.3).       *)
StaleFindingsAreVisible ==
    \A r \in Reviewers : session[r] # None =>
        LET seen == session[r].seen
        IN  seen.content # origin[session[r].rev] =>
                \E i \in DOMAIN seen.history : seen.history[i].action = "edit"

(* The diff a command announces is the one its entry carries, or else another  *)
(* decision on the revision was committed after its panes were rendered        *)
(* (section 6.2; field_editor.py: the two can never silently diverge).         *)
PreviewIsRecorded ==
    \A r \in Reviewers :
        session[r] # None /\ session[r].preview # None /\ entry[r] # None =>
            \/ entry[r].diff = session[r].preview
            \/ \E d \in applied \ session[r].since : d.rev = session[r].rev

(* The middleware keeps its word before these endpoints. *)
RateLimitHolds == Middleware!RateLimitHolds
================================================================================
