---------------------------- MODULE ReviewDecisions ----------------------------
(***************************************************************************)
(* Reviewer decisions on obligation revisions: POST /v1/reviews/{id}/      *)
(* decisions of the clause_parser service.                                 *)
(*                                                                         *)
(* The endpoint is a plain function, so the web framework runs each        *)
(* request on a thread of its pool, with a database session of its own.    *)
(* A SELECT holds no transaction open and every write commits at once:     *)
(* requests interleave between any two statements.  A decision reads the   *)
(* revision three times (handler, service, repository) and then replaces   *)
(* the whole stored proposal, its history included, with what it made of   *)
(* the copies it read.                                                     *)
(*                                                                         *)
(*   Submit       the request arrives; the handler's own read (404) and    *)
(*                the checks made before the service's read                *)
(*   ServiceRead  the service reads the revision, applies its rules and    *)
(*                builds the history entry and the edited proposal         *)
(*   RepoRead     the repository reads it again and builds the new record  *)
(*   RepoWrite    the record is replaced and committed                     *)
(*   Answer       the handler returns and the client is answered: 200      *)
(*   Fail         the request dies (restart, a locked database file, a     *)
(*                lost connection): before the commit it leaves nothing,   *)
(*                after it a decision nobody was told of                   *)
(*                                                                         *)
(* The proposal is abstracted to two fields, one for each of the groups a  *)
(* reviewer may edit.  A Broken evidence value is one the evidence replay  *)
(* does not find in the document, a Broken semantics value one the schema  *)
(* rejects.                                                                *)
(***************************************************************************)
EXTENDS Naturals, Sequences, FiniteSets

CONSTANTS
    Revisions,      \* ids of obligation revisions
    Workers,        \* threads of the service's pool
    Values,         \* what an editable field can hold
    Broken,         \* the value that fails its check
    None,           \* Python's None
    MaxDecisions    \* bound: history entries ever built

ASSUME BrokenAssumption == Broken \in Values

VARIABLES
    store,          \* obligation_revisions: the committed proposal of each row
    pc,             \* where each thread stands
    req,            \* the request a thread serves
    entry,          \* the history entry the service has built
    payload,        \* updated_proposal_payload: the edited proposal, or None
    staged,         \* the record the repository is about to write
    clock,          \* the time stamped on the latest entry
    origin,         \* history variable: each row's content when it was created
    applied,        \* history variable: the decisions committed
    overlapped      \* history variable: rows that two requests served at once

threadVars == <<pc, req, entry, payload, staged>>
vars == <<store, pc, req, entry, payload, staged, clock, origin, applied, overlapped>>

--------------------------------------------------------------------------------

(* The groups of a proposal a reviewer can edit. *)
EDITABLE_GROUPS == {"semantics", "evidence"}

Actions == {"accept", "edit", "reject", "escalate"}

Statuses == {"pending", "accepted", "edited", "rejected", "escalated"}


(* Mutant: the action's name is stored as the status. *)
StatusIsAction(action) == action

StatusOf(action) ==
    CASE action = "accept"   -> "accepted"
      [] action = "edit"     -> "edited"
      [] action = "reject"   -> "rejected"
      [] action = "escalate" -> "escalated"

Contents == [EDITABLE_GROUPS -> Values]

(* What `edits` can be when it is not null.  The empty patch stands for edits *)
(* that name no editable group: it is truthy, and it changes nothing.         *)
Patches == UNION {[groups -> Values] : groups \in SUBSET EDITABLE_GROUPS}

Diffs == UNION {[groups -> [old : Values, new : Values]] :
                    groups \in SUBSET EDITABLE_GROUPS}

Entries == [ts : Nat, action : Actions, diff : Diffs]

Records == [status : Statuses, content : Contents, history : Seq(Entries)]

Requests == [rev : Revisions, action : Actions, edits : Patches \cup {None}]

ASSUME NoneAssumption == None \notin Contents /\ None \notin Records

Faithful(content) == content["evidence"] # Broken

SchemaValid(content) == content["semantics"] # Broken

--------------------------------------------------------------------------------

NoDiff == [g \in {} |-> [old |-> Broken, new |-> Broken]]


(* Mutant: old and new are swapped in the diff. *)
ComputeDiffSwapped(original, edits) ==
    [g \in {h \in DOMAIN edits : original[h] # edits[h]} |->
        [old |-> edits[g], new |-> original[g]]]

ComputeDiff(original, edits) ==
    [g \in {h \in DOMAIN edits : original[h] # edits[h]} |->
        [old |-> original[g], new |-> edits[g]]]

ApplyEdits(original, edits) ==
    [g \in EDITABLE_GROUPS |-> IF g \in DOMAIN edits THEN edits[g] ELSE original[g]]


(* Mutant: an escalated record is kept from accept but not from edit. *)
PresentableForEdit(record, action) ==
    record.status = "escalated" => action # "accept"

Presentable(record, action) ==
    record.status = "escalated" => action \notin {"accept", "edit"}


(* Mutant: an edit is applied without validating the edited version. *)
EditAllowedUnchecked(record, q) ==
    q.action = "edit" => q.edits # None

EditAllowed(record, q) ==
    q.action = "edit" =>
        /\ q.edits # None
        /\ Faithful(ApplyEdits(record.content, q.edits))


(* Mutant: only decisions that accept the record are put in its history. *)
DecidedRecordsAcceptance(existing, updated, e) ==
    [status  |-> StatusOf(e.action),
     content |-> IF updated # None THEN updated ELSE existing.content,
     history |-> IF e.action \in {"accept", "edit"}
                 THEN Append(existing.history, e) ELSE existing.history]

(* Mutant: the history of an edit is taken from the edited proposal, which *)
(* the client may have truncated.                                          *)
DecidedFromPayload(existing, updated, e) ==
    [status  |-> StatusOf(e.action),
     content |-> IF updated # None THEN updated ELSE existing.content,
     history |-> IF updated # None THEN <<e>> ELSE Append(existing.history, e)]

(* The record apply_decision writes.  The history is that of the record just  *)
(* read; the other fields come from the edited proposal when there is one.    *)
Decided(existing, updated, e) ==
    [status  |-> StatusOf(e.action),
     content |-> IF updated # None THEN updated ELSE existing.content,
     history |-> Append(existing.history, e)]

(* The thread has a request that has yet to commit its decision. *)
Serving(w) == pc[w] \notin {"idle", "answer"}

InFlight(r) == {w \in Workers : Serving(w) /\ req[w].rev = r}

--------------------------------------------------------------------------------

Init ==
    /\ store = [r \in Revisions |-> None]
    /\ pc = [w \in Workers |-> "idle"]
    /\ req = [w \in Workers |-> None]
    /\ entry = [w \in Workers |-> None]
    /\ payload = [w \in Workers |-> None]
    /\ staged = [w \in Workers |-> None]
    /\ clock = 0
    /\ origin = [r \in Revisions |-> None]
    /\ applied = {}
    /\ overlapped = {}

(* The parse pipeline adds a revision.  Its proposal has passed the schema and *)
(* the evidence hash check, and the extraction step copies the evidence from   *)
(* the document, so the pipeline's routing leaves it pending.                  *)
CreateRevision(r, content) ==
    /\ store[r] = None
    /\ SchemaValid(content)
    /\ Faithful(content)
    /\ store' = [store EXCEPT ![r] =
                    [status |-> "pending", content |-> content, history |-> <<>>]]
    /\ origin' = [origin EXCEPT ![r] = content]
    /\ UNCHANGED <<threadVars, clock, applied, overlapped>>

(* A request reaches a thread and passes the checks that come before the       *)
(* service reads the row.  An unknown revision, an unknown action or an empty  *)
(* rationale is refused here and leaves no trace.                              *)
Submit(w, r, action, edits) ==
    /\ pc[w] = "idle"
    /\ clock + Cardinality({v \in Workers : Serving(v)}) < MaxDecisions
    /\ store[r] # None
    /\ pc' = [pc EXCEPT ![w] = "service"]
    /\ req' = [req EXCEPT ![w] = [rev |-> r, action |-> action, edits |-> edits]]
    /\ overlapped' = IF InFlight(r) # {} THEN overlapped \cup {r} ELSE overlapped
    /\ UNCHANGED <<store, entry, payload, staged, clock, origin, applied>>

(* Nothing the thread has read or built is used again. *)
Forget(w) ==
    /\ req' = [req EXCEPT ![w] = None]
    /\ entry' = [entry EXCEPT ![w] = None]
    /\ payload' = [payload EXCEPT ![w] = None]
    /\ staged' = [staged EXCEPT ![w] = None]

(* The request is over. *)
Finish(w) ==
    /\ pc' = [pc EXCEPT ![w] = "idle"]
    /\ Forget(w)

(* The service's read finds an escalated record, missing edits or an edit that *)
(* breaks the evidence: 400 or 422, nothing changes.                           *)
ServiceRefuse(w) ==
    /\ pc[w] = "service"
    /\ \/ ~Presentable(store[req[w].rev], req[w].action)
       \/ ~EditAllowed(store[req[w].rev], req[w])
    /\ Finish(w)
    /\ UNCHANGED <<store, clock, origin, applied, overlapped>>

(* The service's read allows the decision: the entry is stamped, and an edit   *)
(* is applied to the copy just read.                                           *)
ServiceRead(w) ==
    LET q == req[w]
        record == store[q.rev]
    IN  /\ pc[w] = "service"
        /\ Presentable(record, q.action)
        /\ EditAllowed(record, q)
        /\ clock' = clock + 1
        /\ entry' = [entry EXCEPT ![w] =
                        [ts |-> clock + 1,
                         action |-> q.action,
                         diff |-> IF q.action = "edit"
                                  THEN ComputeDiff(record.content, q.edits)
                                  ELSE NoDiff]]
        /\ payload' = [payload EXCEPT ![w] =
                        IF q.action = "edit"
                        THEN ApplyEdits(record.content, q.edits)
                        ELSE None]
        /\ pc' = [pc EXCEPT ![w] = "repo"]
        /\ UNCHANGED <<store, req, staged, origin, applied, overlapped>>


(* Mutant: the record is committed before the request can still fail. *)
RepoReadCommitsEarly(w) ==
    LET base == Decided(store[req[w].rev], payload[w], entry[w])
    IN  /\ pc[w] = "repo"
        /\ SchemaValid(base.content)
        /\ staged' = [staged EXCEPT ![w] = base]
        /\ store' = [store EXCEPT ![req[w].rev] = base]
        /\ pc' = [pc EXCEPT ![w] = "write"]
        /\ UNCHANGED <<req, entry, payload, clock, origin, applied, overlapped>>

(* The repository reads the row once more and builds the record to write. *)
RepoRead(w) ==
    LET base == Decided(store[req[w].rev], payload[w], entry[w])
    IN  /\ pc[w] = "repo"
        /\ SchemaValid(base.content)
        /\ staged' = [staged EXCEPT ![w] = base]
        /\ pc' = [pc EXCEPT ![w] = "write"]
        /\ UNCHANGED <<store, req, entry, payload, clock, origin, applied, overlapped>>

(* The record to write does not conform to the schema: nothing is written. *)
RepoRefuse(w) ==
    /\ pc[w] = "repo"
    /\ ~SchemaValid(Decided(store[req[w].rev], payload[w], entry[w]).content)
    /\ Finish(w)
    /\ UNCHANGED <<store, clock, origin, applied, overlapped>>

(* The row is replaced whole, and the transaction commits.  The client has not *)
(* heard of it yet.                                                            *)
RepoWrite(w) ==
    /\ pc[w] = "write"
    /\ store' = [store EXCEPT ![req[w].rev] = staged[w]]
    /\ applied' = applied \cup {[rev |-> req[w].rev, entry |-> entry[w]]}
    /\ pc' = [pc EXCEPT ![w] = "answer"]
    /\ Forget(w)
    /\ UNCHANGED <<clock, origin, overlapped>>

(* The handler returns the updated proposal: 200. *)
Answer(w) ==
    /\ pc[w] = "answer"
    /\ Finish(w)
    /\ UNCHANGED <<store, clock, origin, applied, overlapped>>

(* The request ends without an answer: the process restarts, a statement      *)
(* raises, the connection is lost.  What it has committed stays.              *)
Fail(w) ==
    /\ pc[w] # "idle"
    /\ Finish(w)
    /\ UNCHANGED <<store, clock, origin, applied, overlapped>>

Next ==
    \/ \E r \in Revisions, content \in Contents : CreateRevision(r, content)
    \/ \E w \in Workers, r \in Revisions, action \in Actions \ {"edit"} :
            Submit(w, r, action, None)
    \/ \E w \in Workers, r \in Revisions, edits \in Patches \cup {None} :
            Submit(w, r, "edit", edits)
    \/ \E w \in Workers : ServiceRefuse(w)
    \/ \E w \in Workers : ServiceRead(w)
    \/ \E w \in Workers : RepoRead(w)
    \/ \E w \in Workers : RepoRefuse(w)
    \/ \E w \in Workers : RepoWrite(w)
    \/ \E w \in Workers : Answer(w)
    \/ \E w \in Workers : Fail(w)

Spec == Init /\ [][Next]_vars

--------------------------------------------------------------------------------

(* Every variable holds a value of its kind, and a thread past a step has what *)
(* the step built.                                                             *)
TypeOK ==
    /\ store \in [Revisions -> Records \cup {None}]
    /\ pc \in [Workers -> {"idle", "service", "repo", "write", "answer"}]
    /\ req \in [Workers -> Requests \cup {None}]
    /\ entry \in [Workers -> Entries \cup {None}]
    /\ payload \in [Workers -> Contents \cup {None}]
    /\ staged \in [Workers -> Records \cup {None}]
    /\ clock \in Nat
    /\ origin \in [Revisions -> Contents \cup {None}]
    /\ applied \subseteq [rev : Revisions, entry : Entries]
    /\ overlapped \subseteq Revisions
    /\ \A w \in Workers :
        /\ Serving(w) => req[w] \in Requests /\ store[req[w].rev] \in Records
        /\ pc[w] \in {"repo", "write"} => entry[w] \in Entries
        /\ pc[w] = "write" => staged[w] \in Records

(* A stored status is the one its last history entry decided, and only an     *)
(* untouched record is pending: no path accepts a record without recording    *)
(* who decided it, whatever requests race (section 2.2, invariant 4).         *)
StatusFollowsHistory ==
    \A r \in Revisions : store[r] # None =>
        LET n == Len(store[r].history)
        IN  store[r].status =
                IF n = 0 THEN "pending" ELSE StatusOf(store[r].history[n].action)

(* Every committed proposal replays its evidence and conforms to the schema,  *)
(* even when the edit was checked against one copy and written over another.  *)
ContentAlwaysReplays ==
    \A r \in Revisions : store[r] # None =>
        /\ Faithful(store[r].content)
        /\ SchemaValid(store[r].content)

(* A history holds only decisions that a request built and committed for that *)
(* very revision, none of them twice: races may lose entries but never forge  *)
(* one.  A request that died before its answer may leave an entry its client  *)
(* was never told of, a request that died before its commit never does.       *)
HistoryIsGenuine ==
    \A r \in Revisions : store[r] # None =>
        LET h == store[r].history
        IN  /\ \A i \in DOMAIN h : [rev |-> r, entry |-> h[i]] \in applied
            /\ \A i, j \in DOMAIN h : i # j => h[i].ts # h[j].ts

(* Where no two requests were served on a revision at once, its history holds *)
(* every committed decision, the acknowledged ones among them, in the order   *)
(* of their timestamps.                                                       *)
SerialHistoryComplete ==
    \A r \in Revisions \ overlapped : store[r] # None =>
        LET h == store[r].history
        IN  /\ \A d \in applied : d.rev = r => \E i \in DOMAIN h : h[i] = d.entry
            /\ \A i, j \in DOMAIN h : i < j => h[i].ts < h[j].ts

(* Where no two requests overlapped, the diffs of the history account for the *)
(* content: each field holds what the last diff that names it says, or what   *)
(* the parser extracted (section 6.2: edits are captured as diffs).           *)
SerialContentExplained ==
    \A r \in Revisions \ overlapped : store[r] # None =>
        \A g \in EDITABLE_GROUPS :
            LET h == store[r].history
                touching == {i \in DOMAIN h : g \in DOMAIN h[i].diff}
            IN  IF touching = {}
                THEN store[r].content[g] = origin[r][g]
                ELSE \E i \in touching :
                        /\ \A j \in touching : j <= i
                        /\ store[r].content[g] = h[i].diff[g].new

(* Where no two requests overlapped, no accept or edit directly follows an    *)
(* escalation: an escalated record is not presentable for either.             *)
SerialEscalationHolds ==
    \A r \in Revisions \ overlapped : store[r] # None =>
        LET h == store[r].history
        IN  \A i \in DOMAIN h : i + 1 \in DOMAIN h /\ h[i].action = "escalate" =>
                h[i+1].action \notin {"accept", "edit"}

(* The repository's docstring: a decision can never drop a prior history      *)
(* entry, only ever add one.                                                  *)
HistoryAppendOnly ==
    [][\A r \in Revisions : store[r] # None =>
          /\ Len(store[r].history) <= Len(store'[r].history)
          /\ \A i \in DOMAIN store[r].history :
                store'[r].history[i] = store[r].history[i]]_vars
================================================================================
