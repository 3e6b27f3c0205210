------------------------ MODULE ReviewerWorkspaceProofs ------------------------
(***************************************************************************)
(* Proofs about ReviewerWorkspace, for every set of clients, of commands   *)
(* and of revisions, every value and every bound.  What a decision does to *)
(* a revision is proved in ReviewDecisionsProofs, whose lemmas are         *)
(* instantiated here with the clients and the commands as its threads.     *)
(***************************************************************************)
EXTENDS ReviewerWorkspace, FiniteSetTheorems, TLAPS

Lemmas == INSTANCE ReviewDecisionsProofs WITH Workers <- Clients \cup Reviewers

USE ThreadsAssumption, LimitsAssumption, EditsAssumption, ValuesAssumption

Threads == Clients \cup Reviewers

--------------------------------------------------------------------------------
(* The inductive invariant. *)

(* A record with other content than was extracted names an edit. *)
Visible(record, rev) ==
    record.content # origin[rev] =>
        \E i \in DOMAIN record.history : record.history[i].action = "edit"

(* That holds of what is stored and of what is about to be written, and an     *)
(* edited proposal goes with the entry of an edit.                             *)
EditsAreVisible ==
    /\ \A rev \in Revisions : store[rev] # None => Visible(store[rev], rev)
    /\ \A w \in Threads :
        /\ pc[w] = "write" => Visible(staged[w], req[w].rev)
        /\ pc[w] = "repo" /\ payload[w] # None => entry[w].action = "edit"
        /\ pc[w] \in {"idle", "service", "answer"} => entry[w] = None

(* Another decision was committed since the panes of a command were rendered. *)
Overtaken(r) == \E d \in applied \ session[r].since : d.rev = session[r].rev

(* What a command has rendered is what is stored, unless it was overtaken; so   *)
(* is what its diff is against.                                                *)
Rendered(r) ==
    /\ store[session[r].rev] # None
    /\ Visible(session[r].seen, session[r].rev)
    /\ session[r].since \subseteq applied
    /\ store[session[r].rev].content = session[r].seen.content \/ Overtaken(r)

Announced(r) ==
    session[r].preview # None =>
        /\ session[r].submitted
        /\ pc[r] = "service" =>
            /\ req[r].rev = session[r].rev /\ req[r].action = "edit"
            /\ session[r].preview = Lemmas!ComputeDiff(session[r].seen.content, req[r].edits)
        /\ entry[r] # None => entry[r].diff = session[r].preview \/ Overtaken(r)

WorkspaceIInv ==
    /\ TypeOK
    /\ Lemmas!GenuineIInv
    /\ EditsAreVisible
    /\ \A r \in Reviewers : session[r] # None => Rendered(r) /\ Announced(r)

--------------------------------------------------------------------------------
(* The handler of this module and the one of the lemmas are the same. *)

LEMMA SameKinds ==
    /\ Reviews!Records = Lemmas!Records /\ Reviews!Contents = Lemmas!Contents
    /\ Reviews!Entries = Lemmas!Entries /\ Reviews!Patches = Lemmas!Patches
    /\ Reviews!Diffs = Lemmas!Diffs /\ Reviews!Actions = Lemmas!Actions
    /\ Reviews!Requests = Lemmas!Requests
    /\ Reviews!TypeOK <=> Lemmas!TypeOK
    /\ Broken \in Values /\ None \notin Lemmas!Contents /\ None \notin Lemmas!Records
BY DEF Reviews!TypeOK, Lemmas!TypeOK, Reviews!Serving, Lemmas!Serving,
       Reviews!Records, Lemmas!Records,
       Reviews!Contents, Lemmas!Contents, Reviews!Statuses, Lemmas!Statuses,
       Reviews!Entries, Lemmas!Entries, Reviews!Diffs, Lemmas!Diffs,
       Reviews!Actions, Lemmas!Actions, Reviews!Requests, Lemmas!Requests,
       Reviews!Patches, Lemmas!Patches, Reviews!EDITABLE_GROUPS, Lemmas!EDITABLE_GROUPS

LEMMA SameOperators ==
    /\ \A c, p : Reviews!ComputeDiff(c, p) = Lemmas!ComputeDiff(c, p)
    /\ \A c, p : Reviews!ApplyEdits(c, p) = Lemmas!ApplyEdits(c, p)
    /\ \A a : Reviews!StatusOf(a) = Lemmas!StatusOf(a)
    /\ \A x, u, e : Reviews!Decided(x, u, e) = Lemmas!Decided(x, u, e)
    /\ \A x : Reviews!Faithful(x) = Lemmas!Faithful(x)
    /\ \A x : Reviews!SchemaValid(x) = Lemmas!SchemaValid(x)
    /\ \A x, a : Reviews!Presentable(x, a) = Lemmas!Presentable(x, a)
    /\ \A x, q : Reviews!EditAllowed(x, q) = Lemmas!EditAllowed(x, q)
    /\ \A w : Reviews!Forget(w) <=> Lemmas!Forget(w)
    /\ \A w : Reviews!Finish(w) <=> Lemmas!Finish(w)
    /\ \A r : Reviews!InFlight(r) = Lemmas!InFlight(r)
    /\ Reviews!NoDiff = Lemmas!NoDiff
BY DEF Reviews!ComputeDiff, Lemmas!ComputeDiff, Reviews!ApplyEdits, Lemmas!ApplyEdits,
       Reviews!StatusOf, Lemmas!StatusOf, Reviews!Decided, Lemmas!Decided,
       Reviews!Faithful, Lemmas!Faithful, Reviews!SchemaValid, Lemmas!SchemaValid,
       Reviews!Presentable, Lemmas!Presentable, Reviews!EditAllowed, Lemmas!EditAllowed,
       Reviews!Forget, Lemmas!Forget, Reviews!Finish, Lemmas!Finish,
       Reviews!Serving, Lemmas!Serving, Reviews!InFlight, Lemmas!InFlight,
       Reviews!NoDiff, Lemmas!NoDiff, Reviews!EDITABLE_GROUPS, Lemmas!EDITABLE_GROUPS

LEMMA SameActions ==
    /\ \A r, c : Reviews!CreateRevision(r, c) <=> Lemmas!CreateRevision(r, c)
    /\ \A w, r, a, p : Reviews!Submit(w, r, a, p) <=> Lemmas!Submit(w, r, a, p)
    /\ \A w : Reviews!ServiceRefuse(w) <=> Lemmas!ServiceRefuse(w)
    /\ \A w : Reviews!ServiceRead(w) <=> Lemmas!ServiceRead(w)
    /\ \A w : Reviews!RepoRead(w) <=> Lemmas!RepoRead(w)
    /\ \A w : Reviews!RepoRefuse(w) <=> Lemmas!RepoRefuse(w)
    /\ \A w : Reviews!RepoWrite(w) <=> Lemmas!RepoWrite(w)
    /\ \A w : Reviews!Answer(w) <=> Lemmas!Answer(w)
    /\ \A w : Reviews!Fail(w) <=> Lemmas!Fail(w)
<1>1. \A r, c : Reviews!CreateRevision(r, c) <=> Lemmas!CreateRevision(r, c)
  BY SameOperators DEF Reviews!CreateRevision, Lemmas!CreateRevision, Reviews!threadVars, Lemmas!threadVars
<1>2. \A w, r, a, p : Reviews!Submit(w, r, a, p) <=> Lemmas!Submit(w, r, a, p)
  <2> SUFFICES ASSUME NEW w, NEW r, NEW a, NEW p
               PROVE  Reviews!Submit(w, r, a, p) <=> Lemmas!Submit(w, r, a, p)
    OBVIOUS
  <2>1. \A S : Reviews!Cardinality(S) = Lemmas!Cardinality(S)
    BY DEF Reviews!Cardinality, Lemmas!Cardinality
  <2>2. Reviews!InFlight(r) = Lemmas!InFlight(r)
    BY SameOperators
  <2> QED
    BY <2>1, <2>2 DEF Reviews!Submit, Lemmas!Submit, Reviews!Serving, Lemmas!Serving
<1>3. \A w : Reviews!ServiceRefuse(w) <=> Lemmas!ServiceRefuse(w)
  BY SameOperators DEF Reviews!ServiceRefuse, Lemmas!ServiceRefuse, Reviews!threadVars, Lemmas!threadVars
<1>4. \A w : Reviews!ServiceRead(w) <=> Lemmas!ServiceRead(w)
  BY SameOperators DEF Reviews!ServiceRead, Lemmas!ServiceRead, Reviews!threadVars, Lemmas!threadVars
<1>5. \A w : Reviews!RepoRead(w) <=> Lemmas!RepoRead(w)
  BY SameOperators DEF Reviews!RepoRead, Lemmas!RepoRead, Reviews!threadVars, Lemmas!threadVars
<1>6. \A w : Reviews!RepoRefuse(w) <=> Lemmas!RepoRefuse(w)
  BY SameOperators DEF Reviews!RepoRefuse, Lemmas!RepoRefuse, Reviews!threadVars, Lemmas!threadVars
<1>7. \A w : Reviews!RepoWrite(w) <=> Lemmas!RepoWrite(w)
  BY SameOperators DEF Reviews!RepoWrite, Lemmas!RepoWrite, Reviews!threadVars, Lemmas!threadVars
<1>8. \A w : Reviews!Fail(w) <=> Lemmas!Fail(w)
  BY SameOperators DEF Reviews!Fail, Lemmas!Fail, Reviews!threadVars, Lemmas!threadVars
<1>9. \A w : Reviews!Answer(w) <=> Lemmas!Answer(w)
  BY SameOperators DEF Reviews!Answer, Lemmas!Answer, Reviews!threadVars, Lemmas!threadVars
<1> QED
  BY <1>1, <1>2, <1>3, <1>4, <1>5, <1>6, <1>7, <1>8, <1>9

(* Every step of the workspace is one of the handler's, or leaves what the     *)
(* handler works on as it was.                                                 *)
LEMMA StepOfHandler ==
    ASSUME TypeOK, [Next]_vars
    PROVE  [Lemmas!Next]_(Lemmas!vars)
<1>2. ASSUME NEW rev \in Revisions, NEW content \in Extracted, Parse(rev, content)
      PROVE  Lemmas!Next
  BY <1>2, SameActions, SameKinds DEF Parse, Lemmas!Next
<1>3. ASSUME NEW w \in Threads, NEW rev \in Revisions, NEW action \in Reviews!Actions \ {"edit"},
             Reviews!Submit(w, rev, action, None)
      PROVE  Lemmas!Next
  BY <1>3, SameActions, SameKinds DEF Threads, Lemmas!Next
<1>4. ASSUME NEW w \in Threads, NEW rev \in Revisions, NEW edits \in Reviews!Patches,
             Reviews!Submit(w, rev, "edit", edits)
      PROVE  Lemmas!Next
  BY <1>4, SameActions, SameKinds DEF Threads, Lemmas!Next
<1>5. ASSUME NEW w \in Threads, Handle(w)
      PROVE  Lemmas!Next
  BY <1>5, SameActions DEF Threads, Handle, Lemmas!Next
<1>6. ASSUME UNCHANGED reviewsVars
      PROVE  [Lemmas!Next]_(Lemmas!vars)
  BY <1>6 DEF Lemmas!vars, reviewsVars
<1>7. FieldEdits \subseteq Reviews!Patches
  BY DEF FieldEdits, Reviews!Patches, Reviews!EDITABLE_GROUPS
<1>8. \A r \in Reviewers : session[r] # None => session[r].rev \in Revisions
  BY DEF TypeOK, Sessions
<1>9. ASSUME NEW r \in Reviewers, NEW fieldEdits \in FieldEdits, SubmitEdit(r, fieldEdits)
      PROVE  Lemmas!Next
  <2>1. session[r] # None /\ Reviews!Submit(r, session[r].rev, "edit", fieldEdits)
    BY <1>9 DEF SubmitEdit, BuildEditPayload
  <2> QED
    BY <1>4, <1>7, <1>8, <2>1 DEF Threads
<1>10. ASSUME NEW r \in Reviewers, NEW action \in Reviews!Actions \ {"edit"},
              SubmitAction(r, action)
       PROVE  Lemmas!Next
  BY <1>3, <1>8, <1>10 DEF SubmitAction, Threads
<1>11. ASSUME NEW c \in Clients, NEW rev \in Revisions,
              NEW action \in Reviews!Actions \ {"edit"}, Post(c, rev, action, None)
       PROVE  Lemmas!Next
  BY <1>3, <1>11 DEF Post, Threads
<1>12. ASSUME NEW c \in Clients, NEW rev \in Revisions, NEW edits \in ClientEdits,
              Post(c, rev, "edit", edits)
       PROVE  Lemmas!Next
  BY <1>4, <1>12 DEF Post, Threads
<1>13. ASSUME \/ \E c \in Clients : Query(c) \/ TurnAway(c)
              \/ Tick
              \/ \E r \in Reviewers : Open(r) \/ Leave(r)
              \/ UNCHANGED vars
       PROVE  UNCHANGED reviewsVars
  BY <1>13 DEF Query, TurnAway, Tick, Open, Leave, vars
<1> QED
  BY <1>2, <1>5, <1>6, <1>9, <1>10, <1>11, <1>12, <1>13 DEF Next, Threads

--------------------------------------------------------------------------------
(* What a step of the handler does to its thread, and to what is stored. *)

Same(v) ==
    /\ pc'[v] = pc[v] /\ req'[v] = req[v] /\ entry'[v] = entry[v]
    /\ payload'[v] = payload[v] /\ staged'[v] = staged[v]

Forgets(w) == pc'[w] \in {"idle", "answer"} /\ entry'[w] = None

Ends(w) == Forgets(w) /\ UNCHANGED <<store, applied>>

Reads(w) ==
    /\ pc[w] = "service" /\ pc'[w] = "repo" /\ req'[w] = req[w]
    /\ entry'[w].action = req[w].action
    /\ req[w].action = "edit" =>
        entry'[w].diff = Lemmas!ComputeDiff(store[req[w].rev].content, req[w].edits)
    /\ req[w].action # "edit" => payload'[w] = None
    /\ UNCHANGED <<store, applied>>

Stages(w) ==
    /\ pc[w] = "repo" /\ pc'[w] = "write" /\ req'[w] = req[w] /\ entry'[w] = entry[w]
    /\ staged'[w] = Lemmas!Decided(store[req[w].rev], payload[w], entry[w])
    /\ UNCHANGED <<store, applied>>

Writes(w) ==
    /\ pc[w] = "write" /\ Forgets(w)
    /\ store' = [store EXCEPT ![req[w].rev] = staged[w]]
    /\ applied' = applied \cup {[rev |-> req[w].rev, entry |-> entry[w]]}

LEMMA FinishEffect ==
    ASSUME Lemmas!TypeOK, NEW w \in Threads, Lemmas!Finish(w)
    PROVE  Forgets(w) /\ \A v \in Threads : v # w => Same(v)
BY DEF Lemmas!Finish, Lemmas!Forget, Lemmas!TypeOK, Threads, Forgets, Same

LEMMA HandleEffect ==
    ASSUME Lemmas!TypeOK, NEW w \in Threads, Handle(w)
    PROVE  /\ Ends(w) \/ Reads(w) \/ Stages(w) \/ Writes(w)
           /\ \A v \in Threads : v # w => Same(v)
           /\ UNCHANGED <<origin, middlewareVars, order, session>>
<1>0. UNCHANGED <<middlewareVars, order, session>>
  BY DEF Handle
<1>1. ASSUME \/ Lemmas!ServiceRefuse(w) \/ Lemmas!RepoRefuse(w)
             \/ Lemmas!Answer(w) \/ Lemmas!Fail(w)
      PROVE  Ends(w) /\ (\A v \in Threads : v # w => Same(v)) /\ UNCHANGED origin
  BY <1>1, FinishEffect DEF Lemmas!ServiceRefuse, Lemmas!RepoRefuse, Lemmas!Answer, Lemmas!Fail,
     Ends
<1>2. ASSUME Lemmas!ServiceRead(w)
      PROVE  Reads(w) /\ (\A v \in Threads : v # w => Same(v)) /\ UNCHANGED origin
  BY <1>2 DEF Lemmas!ServiceRead, Lemmas!TypeOK, Threads, Reads, Same
<1>3. ASSUME Lemmas!RepoRead(w)
      PROVE  Stages(w) /\ (\A v \in Threads : v # w => Same(v)) /\ UNCHANGED origin
  BY <1>3 DEF Lemmas!RepoRead, Lemmas!TypeOK, Threads, Stages, Same
<1>4. ASSUME Lemmas!RepoWrite(w)
      PROVE  Writes(w) /\ (\A v \in Threads : v # w => Same(v)) /\ UNCHANGED origin
  BY <1>4 DEF Lemmas!RepoWrite, Lemmas!Forget, Lemmas!TypeOK, Threads, Forgets, Writes, Same
<1> QED
  BY <1>0, <1>1, <1>2, <1>3, <1>4, SameActions DEF Handle

LEMMA SubmitEffect ==
    ASSUME Lemmas!TypeOK, NEW w \in Threads, NEW rev, NEW action, NEW edits,
           Reviews!Submit(w, rev, action, edits)
    PROVE  /\ pc[w] = "idle" /\ pc'[w] = "service" /\ entry'[w] = entry[w]
           /\ req'[w] = [rev |-> rev, action |-> action, edits |-> edits]
           /\ \A v \in Threads : v # w => Same(v)
           /\ UNCHANGED <<store, applied, origin>>
<1>1. Lemmas!Submit(w, rev, action, edits)
  BY SameActions
<1> QED
  BY <1>1 DEF Lemmas!Submit, Lemmas!TypeOK, Threads, Same

LEMMA CreateEffect ==
    ASSUME Lemmas!TypeOK, NEW rev \in Revisions, NEW content \in Extracted,
           Parse(rev, content)
    PROVE  /\ store[rev] = None
           /\ store'[rev].content = content /\ origin'[rev] = content
           /\ store'[rev] # None
           /\ \A s \in Revisions : s # rev => store'[s] = store[s] /\ origin'[s] = origin[s]
           /\ \A v \in Threads : Same(v)
           /\ UNCHANGED <<applied, middlewareVars, session>>
           /\ order' = Append(order, rev)
<1> DEFINE record == [status |-> "pending", content |-> content, history |-> <<>>]
<1>1. Lemmas!CreateRevision(rev, content)
  BY SameActions DEF Parse
<1>2. record \in Lemmas!Records /\ record.content = content
  BY SameKinds DEF Lemmas!Records, Lemmas!Statuses
<1>3. /\ store[rev] = None /\ store' = [store EXCEPT ![rev] = record]
      /\ origin' = [origin EXCEPT ![rev] = content]
      /\ UNCHANGED <<pc, req, entry, payload, staged, applied>>
  BY <1>1 DEF Lemmas!CreateRevision, Lemmas!threadVars
<1> HIDE DEF record
<1> QED
  BY <1>2, <1>3, SameKinds DEF Parse, Lemmas!TypeOK, Same

--------------------------------------------------------------------------------
(* Type correctness. *)

(* The smaller of two numbers. *)
LEMMA PairMin ==
    ASSUME NEW a \in Nat, NEW b \in Nat
    PROVE  /\ Middleware!Min({a, b}) \in Nat
           /\ Middleware!Min({a, b}) <= a /\ Middleware!Min({a, b}) <= b
<1>1. \E x \in {a, b} : \A y \in {a, b} : x <= y
  OBVIOUS
<1>2. Middleware!Min({a, b}) \in {a, b} /\ \A y \in {a, b} : Middleware!Min({a, b}) <= y
  BY <1>1, Zenon DEF Middleware!Min
<1> QED
  BY <1>2

(* A client's counts stay below the limit, and its silence below the window's end. *)
LEMMA MiddlewareTypeNext ==
    ASSUME Middleware!TypeOK, [Middleware!Next]_(middlewareVars)
    PROVE  Middleware!TypeOK'
<1>1. ASSUME NEW counts \in Middleware!Counts
      PROVE  Middleware!Count(counts) \in Middleware!Counts
  <2>1. 0 \in Middleware!Ages /\ counts[0] + 1 \in Nat
    BY DEF Middleware!Counts, Middleware!Ages
  <2>2. Middleware!Min({counts[0] + 1, MaxRequests}) \in 0..MaxRequests
    BY <2>1, PairMin
  <2> QED
    BY <2>2 DEF Middleware!Count, Middleware!Counts
<1>2. ASSUME NEW counts \in Middleware!Counts
      PROVE  Middleware!Older(counts) \in Middleware!Counts
  BY DEF Middleware!Older, Middleware!Counts, Middleware!Ages
<1>3. ASSUME NEW c \in Clients, Middleware!Arrive(c)
      PROVE  /\ hits' \in [Clients -> Middleware!Counts]
             /\ silent' \in [Clients -> 0..(Window + 1)]
  BY <1>1, <1>3 DEF Middleware!Arrive, Middleware!TypeOK
<1>4. ASSUME NEW c \in Clients,
             Middleware!RateLimited(c) \/ Middleware!MissingIdempotencyKey(c)
      PROVE  Middleware!TypeOK'
  BY <1>3, <1>4
     DEF Middleware!RateLimited, Middleware!MissingIdempotencyKey, Middleware!TypeOK
<1>5. ASSUME NEW c \in Clients, Middleware!PassOn(c)
      PROVE  Middleware!TypeOK'
  <2>1. passed' \in [Clients -> Middleware!Counts]
    BY <1>1, <1>5 DEF Middleware!PassOn, Middleware!TypeOK
  <2> QED
    BY <1>3, <1>5, <2>1 DEF Middleware!PassOn, Middleware!TypeOK
<1>6. ASSUME Middleware!Tick
      PROVE  Middleware!TypeOK'
  <2>1. \A c \in Clients :
            Middleware!Min({silent[c] + 1, Window + 1}) \in 0..(Window + 1)
    <3> TAKE c \in Clients
    <3>1. silent[c] + 1 \in Nat /\ Window + 1 \in Nat
      BY DEF Middleware!TypeOK
    <3> QED
      BY <3>1, PairMin
  <2>2. silent' \in [Clients -> 0..(Window + 1)]
    BY <1>6, <2>1 DEF Middleware!Tick
  <2>3. hits' \in [Clients -> Middleware!Counts] /\ passed' \in [Clients -> Middleware!Counts]
    BY <1>2, <1>6 DEF Middleware!Tick, Middleware!TypeOK
  <2> QED
    BY <2>2, <2>3 DEF Middleware!TypeOK
<1>7. ASSUME UNCHANGED middlewareVars
      PROVE  Middleware!TypeOK'
  BY <1>7 DEF middlewareVars, Middleware!TypeOK
<1> QED
  BY <1>4, <1>5, <1>6, <1>7 DEF Middleware!Next

LEMMA StepOfMiddleware ==
    ASSUME [Next]_vars
    PROVE  [Middleware!Next]_(middlewareVars)
<1>1. ASSUME NEW c \in Clients, Middleware!PassOn(c)
      PROVE  Middleware!Next
  BY <1>1 DEF Middleware!Next
<1>2. ASSUME NEW c \in Clients, TurnAway(c)
      PROVE  Middleware!Next
  BY <1>2 DEF TurnAway, Middleware!Next
<1>3. ASSUME Tick
      PROVE  Middleware!Next
  BY <1>3 DEF Tick, Middleware!Next
<1>4. ASSUME \/ \E rev \in Revisions, content \in Extracted : Parse(rev, content)
             \/ \E r \in Reviewers : Open(r) \/ Leave(r)
             \/ \E r \in Reviewers, fieldEdits \in FieldEdits : SubmitEdit(r, fieldEdits)
             \/ \E r \in Reviewers, action \in Reviews!Actions \ {"edit"} :
                    SubmitAction(r, action)
             \/ \E w \in Clients \cup Reviewers : Handle(w)
             \/ UNCHANGED vars
      PROVE  UNCHANGED middlewareVars
  BY <1>4 DEF Parse, Open, Leave, SubmitEdit, SubmitAction, Handle, vars
<1> QED
  BY <1>1, <1>2, <1>3, <1>4 DEF Next, Post, Query

LEMMA TypesAgreeNext == Reviews!TypeOK' <=> Lemmas!TypeOK'
BY SameKinds DEF Reviews!TypeOK, Lemmas!TypeOK, Reviews!Serving, Lemmas!Serving

(* The revisions that are stored and those that are listed. *)
Listed(rev) == \E i \in DOMAIN order : order[i] = rev

OrderOK ==
    /\ order \in Seq(Revisions)
    /\ \A rev \in Revisions : store[rev] # None <=> Listed(rev)

LEMMA TypeInit == Init => TypeOK /\ Lemmas!Init
<1> SUFFICES ASSUME Init
             PROVE  TypeOK /\ Lemmas!Init
  OBVIOUS
<1>1. Lemmas!Init
  BY DEF Init, Reviews!Init, Lemmas!Init
<1>2. Reviews!TypeOK
  BY <1>1, Lemmas!TypeInit, SameKinds
<1>3. Middleware!TypeOK
  BY DEF Init, Middleware!Init, Middleware!TypeOK, Middleware!Counts, Middleware!Ages
<1>4. order \in Seq(Revisions) /\ \A rev \in Revisions : store[rev] = None
  BY DEF Init, Reviews!Init
<1>5. DOMAIN order = {} /\ session \in [Reviewers -> Sessions \cup {None}]
  BY DEF Init
<1> QED
  BY <1>1, <1>2, <1>3, <1>4, <1>5 DEF TypeOK

(* A command that submits: its session is as it was but for the diff announced. *)
Submits(r, diff) ==
    /\ session'[r].rev = session[r].rev /\ session'[r].seen = session[r].seen
    /\ session'[r].since = session[r].since
    /\ session'[r].submitted /\ session'[r].preview = diff
    /\ \A q \in Reviewers : q # r => session'[q] = session[q]
    /\ session' \in [Reviewers -> Sessions \cup {None}]

LEMMA SessionUpdates ==
    ASSUME session \in [Reviewers -> Sessions \cup {None}], NEW r \in Reviewers,
           session[r] \in Sessions, NEW diff \in Reviews!Diffs \cup {None},
           \/ session' = [session EXCEPT ![r].submitted = TRUE, ![r].preview = diff]
           \/ /\ session' = [session EXCEPT ![r].submitted = TRUE]
              /\ diff = session[r].preview
    PROVE  Submits(r, diff)
<1>1. CASE session' = [session EXCEPT ![r].submitted = TRUE, ![r].preview = diff]
  <2> DEFINE next == [[session[r] EXCEPT !.submitted = TRUE] EXCEPT !.preview = diff]
  <2>1. next \in Sessions
    BY DEF Sessions
  <2>2. /\ next.rev = session[r].rev /\ next.seen = session[r].seen
        /\ next.since = session[r].since /\ next.submitted /\ next.preview = diff
    BY DEF Sessions
  <2>3. session' = [session EXCEPT ![r] = next]
    BY <1>1
  <2> HIDE DEF next
  <2> QED
    BY <2>1, <2>2, <2>3 DEF Submits
<1>2. CASE session' = [session EXCEPT ![r].submitted = TRUE] /\ diff = session[r].preview
  <2> DEFINE next == [session[r] EXCEPT !.submitted = TRUE]
  <2>1. next \in Sessions
    BY DEF Sessions
  <2>2. /\ next.rev = session[r].rev /\ next.seen = session[r].seen
        /\ next.since = session[r].since /\ next.submitted
        /\ next.preview = session[r].preview
    BY DEF Sessions
  <2>3. session' = [session EXCEPT ![r] = next]
    BY <1>2
  <2> HIDE DEF next
  <2> QED
    BY <1>2, <2>1, <2>2, <2>3 DEF Submits
<1> QED
  BY <1>1, <1>2

(* A command that opens has the latest revision before it. *)
LEMMA OpenType ==
    ASSUME TypeOK, NEW r \in Reviewers, Open(r)
    PROVE  \E latest \in Revisions :
            /\ store[latest] \in Reviews!Records
            /\ session[r] = None
            /\ session' = [session EXCEPT ![r] =
                    [rev |-> latest, seen |-> store[latest], since |-> applied,
                     submitted |-> FALSE, preview |-> None]]
            /\ UNCHANGED <<reviewsVars, middlewareVars, order>>
            /\ session' \in [Reviewers -> Sessions \cup {None}]
<1> DEFINE latest == order[Len(order)]
<1>1. Len(order) \in DOMAIN order /\ latest \in Revisions
  BY DEF TypeOK, Open
<1>2. store[latest] # None
  BY <1>1 DEF TypeOK
<1>3. store[latest] \in Reviews!Records
  BY <1>1, <1>2 DEF TypeOK, Reviews!TypeOK
<1>4. applied \in SUBSET [rev : Revisions, entry : Reviews!Entries]
  BY DEF TypeOK, Reviews!TypeOK
<1> HIDE DEF latest
<1>5. [rev |-> latest, seen |-> store[latest], since |-> applied,
       submitted |-> FALSE, preview |-> None] \in Sessions
  BY <1>1, <1>3, <1>4 DEF Sessions
<1>6. /\ session[r] = None
      /\ session' = [session EXCEPT ![r] =
                [rev |-> latest, seen |-> store[latest], since |-> applied,
                 submitted |-> FALSE, preview |-> None]]
      /\ UNCHANGED <<reviewsVars, middlewareVars, order>>
  BY DEF Open, latest
<1>7. session' \in [Reviewers -> Sessions \cup {None}]
  BY <1>5, <1>6 DEF TypeOK
<1> QED
  BY <1>1, <1>3, <1>6, <1>7

LEMMA EditEffect ==
    ASSUME TypeOK, NEW r \in Reviewers, NEW fieldEdits \in FieldEdits,
           SubmitEdit(r, fieldEdits)
    PROVE  /\ session[r] \in Sessions /\ session[r] # None /\ ~session[r].submitted
           /\ Reviews!Submit(r, session[r].rev, "edit", fieldEdits)
           /\ Submits(r, Lemmas!ComputeDiff(session[r].seen.content, fieldEdits))
           /\ UNCHANGED <<middlewareVars, order>>
<1> DEFINE diff == Lemmas!ComputeDiff(session[r].seen.content, fieldEdits)
<1>1. session[r] \in Sessions /\ session[r] # None /\ ~session[r].submitted
  BY DEF TypeOK, SubmitEdit
<1>2. fieldEdits \in Lemmas!Patches
  BY DEF FieldEdits, Lemmas!Patches, Lemmas!EDITABLE_GROUPS
<1>3. session[r].seen.content \in Lemmas!Contents
  BY <1>1, SameKinds DEF Sessions, Lemmas!Records
<1>4. diff \in Reviews!Diffs
  BY <1>2, <1>3, Lemmas!ComputeDiffType, SameKinds
<1>5. Reviews!ComputeDiff(session[r].seen.content, fieldEdits) = diff
  BY SameOperators
<1> HIDE DEF diff
<1>6. /\ Reviews!Submit(r, session[r].rev, "edit", fieldEdits)
      /\ session' = [session EXCEPT ![r].submitted = TRUE, ![r].preview = diff]
      /\ UNCHANGED <<middlewareVars, order>>
  BY <1>5 DEF SubmitEdit, BuildEditPayload
<1>7. Submits(r, diff)
  BY <1>1, <1>4, <1>6, SessionUpdates DEF TypeOK
<1> QED
  BY <1>1, <1>6, <1>7 DEF diff

LEMMA ActionEffect ==
    ASSUME TypeOK, NEW r \in Reviewers, NEW action \in Reviews!Actions \ {"edit"},
           SubmitAction(r, action)
    PROVE  /\ session[r] \in Sessions /\ session[r] # None /\ ~session[r].submitted
           /\ Reviews!Submit(r, session[r].rev, action, None)
           /\ Submits(r, session[r].preview)
           /\ UNCHANGED <<middlewareVars, order>>
<1>1. session[r] \in Sessions /\ session[r] # None /\ ~session[r].submitted
  BY DEF TypeOK, SubmitAction
<1>2. session[r].preview \in Reviews!Diffs \cup {None}
  BY <1>1 DEF Sessions
<1>3. /\ Reviews!Submit(r, session[r].rev, action, None)
      /\ session' = [session EXCEPT ![r].submitted = TRUE]
      /\ UNCHANGED <<middlewareVars, order>>
  BY DEF SubmitAction
<1>4. Submits(r, session[r].preview)
  BY <1>1, <1>2, <1>3, SessionUpdates DEF TypeOK
<1> QED
  BY <1>1, <1>3, <1>4

LEMMA TypeNext == TypeOK /\ [Next]_vars => TypeOK'
<1> SUFFICES ASSUME TypeOK, [Next]_vars
             PROVE  TypeOK'
  OBVIOUS
<1>1. Lemmas!TypeOK
  BY SameKinds DEF TypeOK
<1>2. Reviews!TypeOK'
  BY <1>1, StepOfHandler, Lemmas!TypeNext, SameKinds, TypesAgreeNext
<1>3. Middleware!TypeOK'
  BY StepOfMiddleware, MiddlewareTypeNext DEF TypeOK
<1>4. OrderOK /\ session \in [Reviewers -> Sessions \cup {None}]
  BY DEF TypeOK, OrderOK, Listed
<1> DEFINE Goal == OrderOK' /\ session' \in [Reviewers -> Sessions \cup {None}]
<1>5. SUFFICES Goal
  BY <1>2, <1>3 DEF TypeOK, OrderOK, Listed
<1>6. ASSUME NEW rev \in Revisions, NEW content \in Extracted, Parse(rev, content)
      PROVE  Goal
  <2>1. order' = Append(order, rev) /\ session' = session
    BY <1>1, <1>6, CreateEffect
  <2>2. order' \in Seq(Revisions)
    BY <1>4, <2>1 DEF OrderOK
  <2>3. ASSUME NEW s \in Revisions
        PROVE  Listed(s)' <=> s = rev \/ Listed(s)
    BY <1>4, <2>1 DEF Listed, OrderOK
  <2>4. \A s \in Revisions : store'[s] # None <=> s = rev \/ store[s] # None
    BY <1>1, <1>6, CreateEffect
  <2> QED
    BY <1>4, <2>1, <2>2, <2>3, <2>4 DEF OrderOK
<1>7. ASSUME UNCHANGED <<store, order>>, session' \in [Reviewers -> Sessions \cup {None}]
      PROVE  Goal
  BY <1>4, <1>7 DEF OrderOK, Listed
<1>8. ASSUME NEW w \in Threads, Handle(w)
      PROVE  Goal
  <2>1. order' = order /\ session' = session
    BY <1>1, <1>8, HandleEffect
  <2>2. CASE UNCHANGED store
    BY <1>4, <1>7, <2>1, <2>2
  <2>3. CASE Writes(w)
    <3>1. /\ req[w].rev \in Revisions /\ store[req[w].rev] # None
          /\ staged[w] # None
      BY <1>1, <2>3, SameKinds DEF Writes, Lemmas!TypeOK, Lemmas!Serving,
         Lemmas!Requests, Threads
    <3>2. \A s \in Revisions : store'[s] # None <=> store[s] # None
      BY <1>1, <2>3, <3>1 DEF Writes, Lemmas!TypeOK
    <3> QED
      BY <1>4, <2>1, <3>2 DEF OrderOK, Listed
  <2> QED
    BY <1>1, <1>8, <2>2, <2>3, HandleEffect DEF Ends, Reads, Stages
<1>9. ASSUME NEW c \in Clients, NEW rev, NEW action, NEW edits, Post(c, rev, action, edits)
      PROVE  Goal
  <2>1. UNCHANGED <<store, order, session>>
    BY <1>1, <1>9, SubmitEffect DEF Post, Threads
  <2> QED
    BY <1>4, <1>7, <2>1
<1>10. ASSUME \/ \E c \in Clients : Query(c) \/ TurnAway(c)
              \/ Tick
              \/ UNCHANGED vars
       PROVE  Goal
  BY <1>4, <1>7, <1>10 DEF Query, TurnAway, Tick, vars, reviewsVars
<1>11. ASSUME NEW r \in Reviewers, Open(r)
       PROVE  Goal
  <2>1. UNCHANGED <<store, order>> /\ session' \in [Reviewers -> Sessions \cup {None}]
    BY <1>11, OpenType DEF reviewsVars
  <2> QED
    BY <1>7, <2>1
<1>12. ASSUME NEW r \in Reviewers, Leave(r)
       PROVE  Goal
  BY <1>4, <1>7, <1>12 DEF Leave, reviewsVars
<1>13. ASSUME NEW r \in Reviewers, NEW fieldEdits \in FieldEdits, SubmitEdit(r, fieldEdits)
       PROVE  Goal
  <2>1. order' = order /\ session' \in [Reviewers -> Sessions \cup {None}]
    BY <1>13, EditEffect DEF Submits
  <2>2. UNCHANGED store
    BY <1>1, <1>13, EditEffect, SubmitEffect DEF Threads
  <2> QED
    BY <1>7, <2>1, <2>2
<1>14. ASSUME NEW r \in Reviewers, NEW action \in Reviews!Actions \ {"edit"},
              SubmitAction(r, action)
       PROVE  Goal
  <2>1. order' = order /\ session' \in [Reviewers -> Sessions \cup {None}]
    BY <1>14, ActionEffect DEF Submits
  <2>2. UNCHANGED store
    BY <1>1, <1>14, ActionEffect, SubmitEffect DEF Threads
  <2> QED
    BY <1>7, <2>1, <2>2
<1> HIDE DEF Goal
<1> QED
  BY <1>6, <1>8, <1>9, <1>10, <1>11, <1>12, <1>13, <1>14 DEF Next, Threads

(* Every variable of the workspace always holds a value of its kind, and a     *)
(* revision is listed exactly when it is stored.                               *)
THEOREM TypeCorrect == Spec => []TypeOK
BY TypeInit, TypeNext, PTL DEF Spec

--------------------------------------------------------------------------------
(* What is rendered, and what is announced. *)

LEMMA TypedParts ==
    ASSUME WorkspaceIInv
    PROVE  /\ TypeOK /\ Lemmas!TypeOK /\ EditsAreVisible
           /\ \A w \in Threads : pc[w] \in {"repo", "write"} =>
                \A d \in applied : d.entry.ts # entry[w].ts
           /\ \A r \in Reviewers : session[r] # None =>
                session[r] \in Sessions /\ Rendered(r) /\ Announced(r)
BY DEF WorkspaceIInv, Lemmas!GenuineIInv, Lemmas!FreshEntries, Lemmas!Busy, TypeOK, Threads

LEMMA VisibleHandle ==
    ASSUME WorkspaceIInv, NEW w \in Threads, Handle(w)
    PROVE  EditsAreVisible'
<1>1. Lemmas!TypeOK /\ EditsAreVisible
  BY TypedParts
<1>2. origin' = origin /\ \A v \in Threads : v # w => Same(v)
  BY <1>1, HandleEffect
<1> DEFINE ThreadOK(v) ==
            /\ pc'[v] = "write" => Visible(staged[v], req[v].rev)'
            /\ pc'[v] = "repo" /\ payload'[v] # None => entry'[v].action = "edit"
            /\ pc'[v] \in {"idle", "service", "answer"} => entry'[v] = None
<1>3. \A v \in Threads : v # w => ThreadOK(v)
  BY <1>1, <1>2 DEF EditsAreVisible, Same, Visible
<1>4. ASSUME UNCHANGED store, ThreadOK(w)
      PROVE  EditsAreVisible'
  BY <1>1, <1>2, <1>3, <1>4 DEF EditsAreVisible, Visible
<1>5. CASE Ends(w)
  BY <1>4, <1>5 DEF Ends, Forgets
<1>6. CASE Reads(w)
  BY <1>4, <1>6 DEF Reads
<1>7. CASE Stages(w)
  <2> DEFINE existing == store[req[w].rev]
  <2>1. /\ existing \in Lemmas!Records /\ entry[w] \in Lemmas!Entries
        /\ payload[w] \in Lemmas!Contents \cup {None}
        /\ req[w].rev \in Revisions
    BY <1>1, <1>7 DEF Stages, Lemmas!TypeOK, Lemmas!Serving,
         Lemmas!Requests, Threads
  <2>2. /\ staged'[w].history = Append(existing.history, entry[w])
        /\ staged'[w].content = IF payload[w] # None THEN payload[w] ELSE existing.content
    BY <1>7, <2>1 DEF Stages, Lemmas!Decided
  <2>3. existing.history \in Seq(Lemmas!Entries)
    BY <2>1 DEF Lemmas!Records
  <2>4. existing # None
    BY <2>1, SameKinds
  <2>5. /\ Visible(existing, req[w].rev)
        /\ payload[w] # None => entry[w].action = "edit"
    BY <1>1, <1>7, <2>1, <2>4 DEF EditsAreVisible, Stages
  <2> DEFINE h == existing.history
  <2>6. ASSUME NEW hist \in Seq(Lemmas!Entries)
        PROVE  /\ \A i \in DOMAIN hist : i \in DOMAIN Append(hist, entry[w])
                                       /\ Append(hist, entry[w])[i] = hist[i]
               /\ Len(hist) + 1 \in DOMAIN Append(hist, entry[w])
               /\ Append(hist, entry[w])[Len(hist) + 1] = entry[w]
    BY <2>1
  <2> HIDE DEF existing, h
  <2>7. staged'[w].content # origin[req[w].rev] =>
            \E i \in DOMAIN staged'[w].history : staged'[w].history[i].action = "edit"
    <3>1. CASE payload[w] # None
      <4>1. staged'[w].history[Len(h) + 1].action = "edit"
            /\ Len(h) + 1 \in DOMAIN staged'[w].history
        BY <2>2, <2>3, <2>5, <2>6, <3>1 DEF h
      <4> QED
        BY <4>1
    <3>2. CASE payload[w] = None
      <4>1. ASSUME staged'[w].content # origin[req[w].rev]
            PROVE  \E i \in DOMAIN h : h[i].action = "edit"
        BY <2>2, <2>5, <3>2, <4>1 DEF Visible, h
      <4> QED
        BY <2>2, <2>3, <2>6, <3>2, <4>1 DEF h
    <3> QED
      BY <3>1, <3>2
  <2> QED
    BY <1>2, <1>4, <1>7, <2>7 DEF Stages, Visible
<1>8. CASE Writes(w)
  <2>1. Visible(staged[w], req[w].rev) /\ req[w].rev \in Revisions
    BY <1>1, <1>8 DEF Writes, EditsAreVisible, Lemmas!TypeOK, Lemmas!Serving,
         Lemmas!Requests, Threads
  <2>2. \A rev \in Revisions :
            store'[rev] = IF rev = req[w].rev THEN staged[w] ELSE store[rev]
    BY <1>1, <1>8 DEF Writes, Lemmas!TypeOK
  <2>3. \A rev \in Revisions : store'[rev] # None => Visible(store[rev], rev)'
    BY <1>1, <1>2, <2>1, <2>2 DEF EditsAreVisible, Visible
  <2>4. ThreadOK(w)
    BY <1>8 DEF Writes, Forgets
  <2> QED
    BY <1>3, <2>3, <2>4 DEF EditsAreVisible
<1> QED
  BY <1>1, <1>5, <1>6, <1>7, <1>8, HandleEffect

(* A step that stores nothing and moves one idle thread at most. *)
LEMMA VisibleSubmit ==
    ASSUME WorkspaceIInv, NEW w \in Threads, NEW rev, NEW action, NEW edits,
           Reviews!Submit(w, rev, action, edits)
    PROVE  EditsAreVisible'
<1>1. Lemmas!TypeOK /\ EditsAreVisible
  BY TypedParts
<1>2. /\ pc[w] = "idle" /\ pc'[w] = "service" /\ entry'[w] = entry[w]
      /\ \A v \in Threads : v # w => Same(v)
      /\ UNCHANGED <<store, origin>>
  BY <1>1, SubmitEffect
<1> QED
  BY <1>1, <1>2 DEF EditsAreVisible, Same, Visible

LEMMA VisibleParse ==
    ASSUME WorkspaceIInv, NEW rev \in Revisions, NEW content \in Extracted,
           Parse(rev, content)
    PROVE  EditsAreVisible'
<1>1. Lemmas!TypeOK /\ EditsAreVisible
  BY TypedParts
<1>2. /\ store[rev] = None /\ store'[rev].content = origin'[rev]
      /\ \A s \in Revisions : s # rev => store'[s] = store[s] /\ origin'[s] = origin[s]
      /\ \A v \in Threads : Same(v)
  BY <1>1, CreateEffect
<1>3. \A v \in Threads : pc[v] = "write" => req[v].rev \in Revisions /\ req[v].rev # rev
  BY <1>1, <1>2, SameKinds DEF Lemmas!TypeOK, Lemmas!Serving,
      Lemmas!Requests, Threads
<1> QED
  BY <1>1, <1>2, <1>3 DEF EditsAreVisible, Same, Visible

LEMMA VisibleNext ==
    ASSUME WorkspaceIInv, [Next]_vars
    PROVE  EditsAreVisible'
<1>1. TypeOK /\ EditsAreVisible
  BY TypedParts
<1>2. ASSUME UNCHANGED reviewsVars
      PROVE  EditsAreVisible'
  BY <1>1, <1>2 DEF reviewsVars, EditsAreVisible, Visible
<1>3. ASSUME NEW c \in Clients, NEW rev, NEW action, NEW edits, Post(c, rev, action, edits)
      PROVE  EditsAreVisible'
  BY <1>3, VisibleSubmit DEF Post, Threads
<1>4. ASSUME NEW r \in Reviewers, NEW fieldEdits \in FieldEdits, SubmitEdit(r, fieldEdits)
      PROVE  EditsAreVisible'
  BY <1>1, <1>4, EditEffect, VisibleSubmit DEF Threads
<1>5. ASSUME NEW r \in Reviewers, NEW action \in Reviews!Actions \ {"edit"},
             SubmitAction(r, action)
      PROVE  EditsAreVisible'
  BY <1>1, <1>5, ActionEffect, VisibleSubmit DEF Threads
<1>6. ASSUME \/ \E c \in Clients : Query(c) \/ TurnAway(c)
             \/ Tick
             \/ \E r \in Reviewers : Open(r) \/ Leave(r)
             \/ UNCHANGED vars
      PROVE  EditsAreVisible'
  BY <1>2, <1>6 DEF Query, TurnAway, Tick, Open, Leave, vars
<1> QED
  BY <1>3, <1>4, <1>5, <1>6, VisibleHandle, VisibleParse DEF Next, Threads

SessionsOK == \A r \in Reviewers : session[r] # None => Rendered(r) /\ Announced(r)

(* A session is as good as it was after a step that only adds decisions, and   *)
(* leaves its thread and the content of its revision alone.                    *)
LEMMA SessionStays ==
    ASSUME NEW r \in Reviewers, Rendered(r), Announced(r), session'[r] = session[r],
           Same(r), applied \subseteq applied',
           store'[session[r].rev] # None, origin'[session[r].rev] = origin[session[r].rev],
           store'[session[r].rev].content = store[session[r].rev].content
    PROVE  Rendered(r)' /\ Announced(r)'
<1>1. Overtaken(r) => Overtaken(r)'
  BY DEF Overtaken
<1>2. Rendered(r)'
  BY <1>1 DEF Rendered, Visible
<1>3. Announced(r)'
  BY <1>1 DEF Announced, Same
<1> QED
  BY <1>2, <1>3

LEMMA RenderedHandle ==
    ASSUME WorkspaceIInv, NEW w \in Threads, Handle(w), NEW r \in Reviewers,
           session'[r] # None
    PROVE  Rendered(r)' /\ Announced(r)'
<1>1. /\ origin' = origin /\ session' = session
      /\ \A v \in Threads : v # w => Same(v)
      /\ Ends(w) \/ Reads(w) \/ Stages(w) \/ Writes(w)
  BY TypedParts, HandleEffect
<1>2. session[r] \in Sessions /\ Rendered(r) /\ Announced(r) /\ session[r].rev \in Revisions
  BY <1>1, TypedParts DEF Sessions
<1>3. applied \subseteq applied'
  BY <1>1 DEF Ends, Reads, Stages, Writes
<1>4. Overtaken(r) => Overtaken(r)'
  BY <1>1, <1>3 DEF Overtaken
<1>5. Rendered(r)'
  <2>1. CASE UNCHANGED store
    BY <1>1, <1>2, <1>3, <1>4, <2>1 DEF Rendered, Visible
  <2>2. CASE Writes(w)
    <3>1. /\ req[w].rev \in Revisions /\ staged[w] # None /\ store \in [Revisions -> Lemmas!Records \cup {None}]
      BY <2>2, TypedParts, SameKinds DEF Writes, Lemmas!TypeOK, Lemmas!Serving,
         Lemmas!Requests, Threads
    <3>2. CASE req[w].rev = session[r].rev
      <4> DEFINE d == [rev |-> req[w].rev, entry |-> entry[w]]
      <4>1. d \in applied' /\ d.rev = session[r].rev
        BY <2>2, <3>2 DEF Writes
      <4>2. d \notin applied
        BY <2>2, TypedParts DEF Writes
      <4>3. Overtaken(r)'
        BY <1>1, <1>2, <4>1, <4>2 DEF Overtaken, Rendered
      <4>4. store'[session[r].rev] # None
        BY <2>2, <3>1, <3>2 DEF Writes
      <4> QED
        BY <1>1, <1>2, <1>3, <4>3, <4>4 DEF Rendered, Visible
    <3>3. CASE req[w].rev # session[r].rev
      <4>1. store'[session[r].rev] = store[session[r].rev]
        BY <1>2, <2>2, <3>1, <3>3 DEF Writes
      <4> QED
        BY <1>1, <1>2, <1>3, <1>4, <4>1 DEF Rendered, Visible
    <3> QED
      BY <3>2, <3>3
  <2> QED
    BY <1>1, <2>1, <2>2 DEF Ends, Reads, Stages
<1>6. CASE r # w
  BY <1>1, <1>2, <1>4, <1>5, <1>6 DEF Announced, Same, Threads
<1>7. CASE r = w
  <2>1. CASE Ends(w) \/ Writes(w)
    BY <1>1, <1>2, <1>5, <1>7, <2>1 DEF Ends, Writes, Forgets, Announced
  <2>2. CASE Stages(w)
    BY <1>1, <1>2, <1>4, <1>5, <1>7, <2>2 DEF Stages, Announced
  <2>3. CASE Reads(w)
    <3>1. ASSUME session[r].preview # None
          PROVE  entry'[r].diff = session[r].preview \/ Overtaken(r)
      <4>1. /\ req[r].rev = session[r].rev /\ req[r].action = "edit"
            /\ session[r].preview = Lemmas!ComputeDiff(session[r].seen.content, req[r].edits)
            /\ entry'[r].diff = Lemmas!ComputeDiff(store[session[r].rev].content, req[r].edits)
        BY <1>2, <1>7, <2>3, <3>1 DEF Reads, Announced
      <4> QED
        BY <1>2, <4>1 DEF Rendered
    <3> QED
      BY <1>1, <1>2, <1>4, <1>5, <1>7, <2>3, <3>1 DEF Reads, Announced
  <2> QED
    BY <1>1, <2>1, <2>2, <2>3
<1> QED
  BY <1>5, <1>6, <1>7

LEMMA RenderedNext ==
    ASSUME WorkspaceIInv, [Next]_vars
    PROVE  SessionsOK'
<1>1. TypeOK /\ Lemmas!TypeOK /\ EditsAreVisible
  BY TypedParts
<1>2. ASSUME NEW r \in Reviewers, session[r] # None
      PROVE  /\ session[r] \in Sessions /\ Rendered(r) /\ Announced(r)
             /\ session[r].rev \in Revisions
  BY <1>2, TypedParts DEF Sessions
<1>3. ASSUME UNCHANGED reviewsVars, NEW r \in Reviewers, session'[r] = session[r],
             session'[r] # None
      PROVE  Rendered(r)' /\ Announced(r)'
  BY <1>2, <1>3, SessionStays DEF reviewsVars, Same, Rendered
<1>4. ASSUME NEW w \in Threads, NEW rev, NEW action, NEW edits,
             Reviews!Submit(w, rev, action, edits),
             NEW r \in Reviewers, r # w, session'[r] = session[r], session'[r] # None
      PROVE  Rendered(r)' /\ Announced(r)'
  <2>1. Same(r) /\ UNCHANGED <<store, applied, origin>>
    BY <1>1, <1>4, SubmitEffect DEF Threads
  <2> QED
    BY <1>2, <1>4, <2>1, SessionStays DEF Rendered
<1>5. ASSUME NEW rev \in Revisions, NEW content \in Extracted, Parse(rev, content)
      PROVE  SessionsOK'
  <2> SUFFICES ASSUME NEW r \in Reviewers, session'[r] # None
               PROVE  Rendered(r)' /\ Announced(r)'
    BY DEF SessionsOK
  <2>1. /\ store[rev] = None /\ applied' = applied /\ session' = session
        /\ \A s \in Revisions : s # rev => store'[s] = store[s] /\ origin'[s] = origin[s]
        /\ Same(r)
    BY <1>1, <1>5, CreateEffect DEF Threads
  <2>2. session[r].rev # rev /\ store[session[r].rev] # None
    BY <1>2, <2>1 DEF Rendered
  <2> QED
    BY <1>2, <2>1, <2>2, SessionStays
<1>6. ASSUME NEW c \in Clients, NEW rev, NEW action, NEW edits, Post(c, rev, action, edits)
      PROVE  SessionsOK'
  BY <1>4, <1>6 DEF Post, Threads, SessionsOK
<1>7. ASSUME NEW p \in Reviewers, NEW fieldEdits \in FieldEdits, SubmitEdit(p, fieldEdits)
      PROVE  SessionsOK'
  <2> SUFFICES ASSUME NEW r \in Reviewers, session'[r] # None
               PROVE  Rendered(r)' /\ Announced(r)'
    BY DEF SessionsOK
  <2>1. /\ session[p] # None /\ Reviews!Submit(p, session[p].rev, "edit", fieldEdits)
        /\ Submits(p, Lemmas!ComputeDiff(session[p].seen.content, fieldEdits))
    BY <1>1, <1>7, EditEffect
  <2>2. CASE r # p
    BY <1>4, <2>1, <2>2 DEF Submits, Threads
  <2>3. CASE r = p
    <3>1. /\ pc[p] = "idle" /\ entry'[p] = entry[p]
          /\ req'[p] = [rev |-> session[p].rev, action |-> "edit", edits |-> fieldEdits]
          /\ UNCHANGED <<store, applied, origin>>
      BY <1>1, <2>1, SubmitEffect DEF Threads
    <3>2. entry'[p] = None
      BY <1>1, <3>1 DEF EditsAreVisible, Threads
    <3>3. Rendered(p)'
      BY <1>2, <2>1, <3>1 DEF Rendered, Overtaken, Visible, Submits
    <3>4. Announced(p)'
      BY <2>1, <3>1, <3>2 DEF Announced, Submits
    <3> QED
      BY <2>3, <3>3, <3>4
  <2> QED
    BY <2>2, <2>3
<1>8. ASSUME NEW p \in Reviewers, NEW action \in Reviews!Actions \ {"edit"},
             SubmitAction(p, action)
      PROVE  SessionsOK'
  <2> SUFFICES ASSUME NEW r \in Reviewers, session'[r] # None
               PROVE  Rendered(r)' /\ Announced(r)'
    BY DEF SessionsOK
  <2>1. /\ session[p] # None /\ Reviews!Submit(p, session[p].rev, action, None)
        /\ ~session[p].submitted /\ Submits(p, session[p].preview)
    BY <1>1, <1>8, ActionEffect
  <2>2. CASE r # p
    BY <1>4, <2>1, <2>2 DEF Submits, Threads
  <2>3. CASE r = p
    <3>1. UNCHANGED <<store, applied, origin>>
      BY <1>1, <2>1, SubmitEffect DEF Threads
    <3>2. session'[p].preview = None
      BY <1>2, <2>1 DEF Announced, Submits
    <3>3. Rendered(p)'
      BY <1>2, <2>1, <3>1 DEF Rendered, Overtaken, Visible, Submits
    <3> QED
      BY <2>3, <3>2, <3>3 DEF Announced
  <2> QED
    BY <2>2, <2>3
<1>9. ASSUME NEW p \in Reviewers, Open(p)
      PROVE  SessionsOK'
  <2> SUFFICES ASSUME NEW r \in Reviewers, session'[r] # None
               PROVE  Rendered(r)' /\ Announced(r)'
    BY DEF SessionsOK
  <2>1. PICK latest \in Revisions :
            /\ store[latest] \in Reviews!Records
            /\ session' = [session EXCEPT ![p] =
                    [rev |-> latest, seen |-> store[latest], since |-> applied,
                     submitted |-> FALSE, preview |-> None]]
            /\ UNCHANGED <<reviewsVars, middlewareVars, order>>
    BY <1>1, <1>9, OpenType
  <2>2. CASE r # p
    BY <1>1, <1>3, <2>1, <2>2 DEF TypeOK
  <2>3. CASE r = p
    <3>1. store[latest] # None /\ Visible(store[latest], latest)
      BY <1>1, <2>1, SameKinds DEF EditsAreVisible
    <3>2. session'[p] = [rev |-> latest, seen |-> store[latest], since |-> applied,
                         submitted |-> FALSE, preview |-> None]
      BY <1>1, <2>1 DEF TypeOK
    <3>3. Rendered(p)'
      BY <2>1, <3>1, <3>2 DEF Rendered, Visible, reviewsVars
    <3>4. Announced(p)'
      BY <3>2 DEF Announced
    <3> QED
      BY <2>3, <3>3, <3>4
  <2> QED
    BY <2>2, <2>3
<1>10. ASSUME NEW p \in Reviewers, Leave(p)
       PROVE  SessionsOK'
  <2> SUFFICES ASSUME NEW r \in Reviewers, session'[r] # None
               PROVE  Rendered(r)' /\ Announced(r)'
    BY DEF SessionsOK
  <2>1. session'[r] = session[r]
    BY <1>1, <1>10 DEF Leave, TypeOK
  <2> QED
    BY <1>3, <1>10, <2>1 DEF Leave
<1>11. ASSUME NEW w \in Threads, Handle(w)
       PROVE  SessionsOK'
  BY <1>11, RenderedHandle DEF SessionsOK
<1>12. ASSUME \/ \E c \in Clients : Query(c) \/ TurnAway(c)
              \/ Tick
              \/ UNCHANGED vars
       PROVE  SessionsOK'
  BY <1>3, <1>12 DEF Query, TurnAway, Tick, vars, SessionsOK
<1> QED
  BY <1>5, <1>6, <1>7, <1>8, <1>9, <1>10, <1>11, <1>12 DEF Next, Threads

LEMMA WorkspaceInit == Init => WorkspaceIInv
<1> SUFFICES ASSUME Init
             PROVE  WorkspaceIInv
  OBVIOUS
<1>1. TypeOK /\ Lemmas!Init
  BY TypeInit
<1>2. Lemmas!GenuineIInv
  BY <1>1, SameKinds
     DEF TypeOK, Lemmas!Init, Lemmas!GenuineIInv, Lemmas!HistoryIsGenuine, Lemmas!FreshEntries,
         Lemmas!StagedExtends, Lemmas!Busy
<1>3. EditsAreVisible
  BY <1>1 DEF Lemmas!Init, EditsAreVisible, Threads
<1>4. \A r \in Reviewers : session[r] = None
  BY DEF Init
<1> QED
  BY <1>1, <1>2, <1>3, <1>4 DEF WorkspaceIInv

LEMMA WorkspaceNext == WorkspaceIInv /\ [Next]_vars => WorkspaceIInv'
<1> SUFFICES ASSUME WorkspaceIInv, [Next]_vars
             PROVE  WorkspaceIInv'
  OBVIOUS
<1>1. TypeOK'
  BY TypedParts, TypeNext
<1>2. Lemmas!GenuineIInv'
  BY TypedParts, StepOfHandler, Lemmas!GenuineNext, SameKinds DEF WorkspaceIInv
<1> QED
  BY <1>1, <1>2, VisibleNext, RenderedNext DEF WorkspaceIInv, SessionsOK

LEMMA WorkspaceInvariant == Spec => []WorkspaceIInv
BY WorkspaceInit, WorkspaceNext, PTL DEF Spec

(* Where the fields a reviewer sees are not those the stored report is about,  *)
(* the history beside them names an edit, whatever decisions overlapped        *)
(* (cli.py renders all three from one read).                                   *)
THEOREM StaleFindingsAreVisibleAlways == Spec => []StaleFindingsAreVisible
<1>1. WorkspaceIInv => StaleFindingsAreVisible
  BY TypedParts DEF StaleFindingsAreVisible, Rendered, Visible
<1> QED
  BY <1>1, WorkspaceInvariant, PTL

(* The diff a command announces is the one the service stamps on the entry, or *)
(* else another decision on the revision was committed since it was            *)
(* rendered (field_editor.py build_edit_payload, review_service.py).           *)
THEOREM PreviewIsRecordedAlways == Spec => []PreviewIsRecorded
<1>1. WorkspaceIInv => PreviewIsRecorded
  BY TypedParts DEF PreviewIsRecorded, Announced, Overtaken
<1> QED
  BY <1>1, WorkspaceInvariant, PTL

LEMMA SameNext == [Lemmas!Next]_(Lemmas!vars) => [Reviews!Next]_(Reviews!vars)
<1>1. Lemmas!vars' = Lemmas!vars => Reviews!vars' = Reviews!vars
  BY DEF Lemmas!vars, Reviews!vars, Lemmas!threadVars, Reviews!threadVars
<1>2. Lemmas!Next => Reviews!Next
  BY SameActions, SameKinds DEF Lemmas!Next, Reviews!Next
<1> QED
  BY <1>1, <1>2

(* The clients and the commands together keep to the handler's specification:  *)
(* whatever ReviewDecisions promises holds of them, the commands, which        *)
(* call it without the service, among its threads (reviewer_ui/cli.py).        *)
THEOREM ImplementsReviewDecisions == Spec => Reviews!Spec
<1>1. Init => Reviews!Init
  BY DEF Init
<1>2. TypeOK /\ [Next]_vars => [Reviews!Next]_(Reviews!vars)
  BY StepOfHandler, SameNext
<1> QED
  BY <1>1, <1>2, TypeCorrect, PTL DEF Spec, Reviews!Spec

(* So the promises about a revision hold with commands at work on it as well:  *)
(* a record is explained by its history, the history holds genuine entries     *)
(* only, the content replays its evidence, and a record that no two requests   *)
(* touched at once has lost nothing and kept its escalation.                   *)
THEOREM ReviewsArePromised ==
    Spec => [](/\ Lemmas!StatusFollowsHistory
               /\ Lemmas!ContentAlwaysReplays
               /\ Lemmas!HistoryIsGenuine
               /\ Lemmas!SerialHistoryComplete
               /\ Lemmas!SerialContentExplained
               /\ Lemmas!SerialEscalationHolds)
<1>1. Init => Lemmas!Init
  BY TypeInit
<1>2. TypeOK /\ [Next]_vars => [Lemmas!Next]_(Lemmas!vars)
  BY StepOfHandler
<1>3. Spec => Lemmas!Spec
  BY <1>1, <1>2, TypeCorrect, PTL DEF Spec, Lemmas!Spec
<1>4. Broken \in Values
  BY SameKinds
<1>5. None \notin Lemmas!Contents /\ None \notin Lemmas!Records
  BY SameKinds
<1>6. Lemmas!Spec => []Lemmas!StatusFollowsHistory
  BY <1>4, <1>5, Lemmas!StatusFollowsHistoryAlways, PTL
<1>7. Lemmas!Spec => []Lemmas!HistoryIsGenuine
  BY <1>4, <1>5, Lemmas!HistoryIsGenuineAlways, PTL
<1>8. Lemmas!Spec => []Lemmas!SerialHistoryComplete
  BY <1>4, <1>5, Lemmas!SerialHistoryIsComplete, PTL
<1>9. Lemmas!Spec => []Lemmas!SerialContentExplained
  BY <1>4, <1>5, Lemmas!SerialContentIsExplained, PTL
<1>10. Lemmas!Spec => []Lemmas!SerialEscalationHolds
  BY <1>4, <1>5, Lemmas!SerialEscalationIsKept, PTL
<1>11. Lemmas!Spec => []Lemmas!ContentAlwaysReplays
  BY <1>4, <1>5, Lemmas!ContentReplaysAlways, PTL
<1> QED
  BY <1>3, <1>6, <1>7, <1>8, <1>9, <1>10, <1>11, PTL

--------------------------------------------------------------------------------
(* The rate limit. *)

LEMMA SameCardinality == \A S : Middleware!Cardinality(S) = Cardinality(S)
BY Zenon DEF Middleware!Cardinality, Cardinality

(* What is counted is finite, and there is no less of it where every age counts *)
(* for as much.                                                                 *)
LEMMA CountedIsFinite ==
    ASSUME NEW counts
    PROVE  IsFiniteSet(Middleware!Counted(counts)) /\ Middleware!Total(counts) \in Nat
<1>1. IsFiniteSet(Middleware!Ages) /\ IsFiniteSet(1..MaxRequests)
  BY FS_Interval DEF Middleware!Ages
<1>2. IsFiniteSet(Middleware!Ages \X (1..MaxRequests))
  BY <1>1, FS_Product
<1>3. Middleware!Counted(counts) \in SUBSET (Middleware!Ages \X (1..MaxRequests))
  BY DEF Middleware!Counted
<1>4. IsFiniteSet(Middleware!Counted(counts))
  BY <1>2, <1>3, FS_Subset
<1> QED
  BY <1>4, FS_CardinalityType, SameCardinality DEF Middleware!Total

LEMMA TotalGrows ==
    ASSUME NEW fewer \in Middleware!Counts, NEW counts \in Middleware!Counts,
           \A a \in Middleware!Ages : fewer[a] <= counts[a]
    PROVE  Middleware!Total(fewer) <= Middleware!Total(counts)
<1>1. Middleware!Counted(fewer) \in SUBSET Middleware!Counted(counts)
  BY DEF Middleware!Counted, Middleware!Counts, Middleware!Ages
<1> QED
  BY <1>1, CountedIsFinite, FS_Subset, SameCardinality DEF Middleware!Total

(* One request more is counted at most once. *)
LEMMA TotalOfCount ==
    ASSUME NEW counts \in Middleware!Counts
    PROVE  Middleware!Total(Middleware!Count(counts)) <= Middleware!Total(counts) + 1
<1> DEFINE next == Middleware!Min({counts[0] + 1, MaxRequests})
           grown == Middleware!Counted(counts) \cup {<<0, next>>}
<1>1. 0 \in Middleware!Ages /\ counts[0] \in Nat
  BY DEF Middleware!Counts, Middleware!Ages
<1>2. next \in Nat /\ next <= counts[0] + 1
  BY <1>1, PairMin
<1>3. Middleware!Counted(Middleware!Count(counts)) \in SUBSET grown
  <2>1. Middleware!Count(counts) = [counts EXCEPT ![0] = next]
    BY DEF Middleware!Count
  <2> HIDE DEF next
  <2>2. SUFFICES ASSUME NEW a \in Middleware!Ages, NEW i \in 1..MaxRequests,
                        i <= [counts EXCEPT ![0] = next][a]
                 PROVE  i <= counts[a] \/ (a = 0 /\ i = next)
    BY <2>1 DEF Middleware!Counted
  <2> QED
    BY <1>1, <1>2, <2>2 DEF Middleware!Counts, Middleware!Ages
<1> HIDE DEF next
<1>4. /\ IsFiniteSet(grown)
      /\ Cardinality(grown) <= Cardinality(Middleware!Counted(counts)) + 1
  <2> DEFINE old == Middleware!Counted(counts)
  <2>1. IsFiniteSet(old) /\ Cardinality(old) \in Nat
    BY CountedIsFinite, FS_CardinalityType
  <2> HIDE DEF old
  <2>2. IsFiniteSet(old \cup {<<0, next>>})
    BY <2>1, FS_AddElement
  <2>3. Cardinality(old \cup {<<0, next>>}) <= Cardinality(old) + 1
    <3> DEFINE slot == <<0, next>>
    <3> HIDE DEF slot
    <3>1. Cardinality(old \cup {slot}) =
            IF slot \in old THEN Cardinality(old) ELSE Cardinality(old) + 1
      BY <2>1, FS_AddElement
    <3>2. Cardinality(old \cup {slot}) <= Cardinality(old) + 1
      BY <2>1, <3>1
    <3> QED
      BY <3>2 DEF slot
  <2> QED
    BY <2>2, <2>3 DEF old
<1>5. Cardinality(Middleware!Counted(Middleware!Count(counts))) <= Cardinality(grown)
  BY <1>3, <1>4, FS_Subset
<1>6. /\ Cardinality(grown) \in Nat
      /\ Cardinality(Middleware!Counted(counts)) \in Nat
      /\ Cardinality(Middleware!Counted(Middleware!Count(counts))) \in Nat
  BY <1>4, CountedIsFinite, FS_CardinalityType
<1> HIDE DEF grown
<1> QED
  BY <1>4, <1>5, <1>6, SameCardinality DEF Middleware!Total

(* A tick counts nothing anew: what is counted after it was counted before, at *)
(* the age before.                                                             *)
LEMMA TotalOfOlder ==
    ASSUME NEW counts \in Middleware!Counts
    PROVE  Middleware!Total(Middleware!Older(counts)) <= Middleware!Total(counts)
<1> DEFINE after == Middleware!Counted(Middleware!Older(counts))
           before == Middleware!Counted(counts)
           younger == [slot \in after |-> <<slot[1] - 1, slot[2]>>]
<1>1. ASSUME NEW slot \in after
      PROVE  \E a \in Int, i \in Int : slot = <<a, i>> /\ <<a - 1, i>> \in before
  <2>1. /\ slot \in Middleware!Ages \X (1..MaxRequests)
        /\ slot[2] <= Middleware!Older(counts)[slot[1]]
    BY DEF Middleware!Counted
  <2>2. PICK a \in Middleware!Ages, i \in 1..MaxRequests : slot = <<a, i>>
    BY <2>1
  <2>3. i <= Middleware!Older(counts)[a]
    BY <2>1, <2>2
  <2>4. a # 0 /\ i <= counts[a - 1] /\ a - 1 \in Middleware!Ages
    BY <2>3 DEF Middleware!Older, Middleware!Ages, Middleware!Counts
  <2>5. <<a - 1, i>> \in before
    BY <2>4 DEF Middleware!Counted
  <2>6. a \in Int /\ i \in Int
    BY DEF Middleware!Ages
  <2> HIDE DEF before
  <2> QED
    BY <2>2, <2>5, <2>6
<1> HIDE DEF after, before
<1>2. younger \in [after -> before]
  <2>1. ASSUME NEW slot \in after
        PROVE  <<slot[1] - 1, slot[2]>> \in before
    <3>1. PICK a \in Int, i \in Int : slot = <<a, i>> /\ <<a - 1, i>> \in before
      BY <1>1
    <3>2. slot[1] = a /\ slot[2] = i
      BY <3>1
    <3> QED
      BY <3>1, <3>2
  <2> QED
    BY <2>1
<1>3. ASSUME NEW one \in after, NEW other \in after, younger[one] = younger[other]
      PROVE  one = other
  <2>1. PICK a \in Int, i \in Int : one = <<a, i>> /\ <<a - 1, i>> \in before
    BY <1>1
  <2>2. PICK b \in Int, j \in Int : other = <<b, j>> /\ <<b - 1, j>> \in before
    BY <1>1
  <2>3. <<a - 1, i>> = <<b - 1, j>>
    BY <1>3, <2>1, <2>2
  <2>4. a = b /\ i = j
    BY <2>3
  <2> QED
    BY <2>1, <2>2, <2>4
<1> HIDE DEF younger
<1>4. younger \in Injection(after, before)
  BY <1>2, <1>3 DEF Injection, IsInjective
<1>5. IsFiniteSet(before)
  BY CountedIsFinite DEF before
<1>6. Cardinality(after) <= Cardinality(before)
  BY <1>4, <1>5, FS_Injection
<1> QED
  BY <1>6, SameCardinality DEF Middleware!Total, after, before

(* One of the two is it; a count that grows by one keeps its order to another.  *)
LEMMA SmallerOf ==
    ASSUME NEW a \in Nat, NEW b \in Nat
    PROVE  Middleware!Min({a, b}) = a \/ Middleware!Min({a, b}) = b
<1>1. \E x \in {a, b} : \A y \in {a, b} : x <= y
  OBVIOUS
<1>2. Middleware!Min({a, b}) \in {a, b}
  BY <1>1, Zenon DEF Middleware!Min
<1> QED
  BY <1>2

LEMMA CountKeepsOrder ==
    ASSUME NEW fewer \in Middleware!Counts, NEW counts \in Middleware!Counts,
           \A a \in Middleware!Ages : fewer[a] <= counts[a]
    PROVE  \A a \in Middleware!Ages :
                Middleware!Count(fewer)[a] <= Middleware!Count(counts)[a]
<1>1. 0 \in Middleware!Ages /\ fewer[0] \in Nat /\ counts[0] \in Nat /\ fewer[0] <= counts[0]
  BY DEF Middleware!Counts, Middleware!Ages
<1>2. Middleware!Min({fewer[0] + 1, MaxRequests}) <= Middleware!Min({counts[0] + 1, MaxRequests})
  <2>1. /\ Middleware!Min({fewer[0] + 1, MaxRequests}) \in Nat
        /\ Middleware!Min({fewer[0] + 1, MaxRequests}) <= fewer[0] + 1
        /\ Middleware!Min({fewer[0] + 1, MaxRequests}) <= MaxRequests
    BY <1>1, PairMin
  <2>2. Middleware!Min({counts[0] + 1, MaxRequests}) \in {counts[0] + 1, MaxRequests}
    BY <1>1, SmallerOf
  <2> QED
    BY <1>1, <2>1, <2>2
<1> QED
  BY <1>1, <1>2 DEF Middleware!Count, Middleware!Counts

(* What was let through is among what is counted, and there is nothing to       *)
(* count from the time a client is silent.                                      *)
LimitIInv ==
    /\ Middleware!TypeOK
    /\ \A c \in Clients :
        /\ \A a \in Middleware!Ages : passed[c][a] <= hits[c][a]
        /\ Middleware!Total(passed[c]) <= MaxRequests
        /\ \A a \in Middleware!Ages : a < silent[c] => hits[c][a] = 0

LEMMA TotalOfNothing ==
    ASSUME NEW counts, \A a \in Middleware!Ages : counts[a] = 0
    PROVE  Middleware!Total(counts) = 0
<1>1. Middleware!Counted(counts) = {}
  BY DEF Middleware!Counted
<1> QED
  BY <1>1, FS_EmptySet, SameCardinality DEF Middleware!Total

LEMMA LimitInit == Init => LimitIInv
<1> SUFFICES ASSUME Init
             PROVE  LimitIInv
  OBVIOUS
<1>1. Middleware!TypeOK
  BY TypeInit DEF TypeOK
<1>2. \A c \in Clients, a \in Middleware!Ages : hits[c][a] = 0 /\ passed[c][a] = 0
  BY DEF Init, Middleware!Init
<1>3. \A c \in Clients : Middleware!Total(passed[c]) = 0
  BY <1>2, TotalOfNothing
<1> QED
  BY <1>1, <1>2, <1>3 DEF LimitIInv

(* What a request that arrives does to the counts of its client. *)
LEMMA ArriveEffect ==
    ASSUME LimitIInv, NEW c \in Clients, Middleware!Arrive(c)
    PROVE  /\ \A d \in Clients : d # c => hits'[d] = hits[d] /\ silent'[d] = silent[d]
           /\ \A a \in Middleware!Ages : hits[c][a] <= hits'[c][a]
           /\ hits'[c] = Middleware!Count(hits[c]) /\ silent'[c] = 0
<1>1. hits[c] \in Middleware!Counts /\ 0 \in Middleware!Ages
  BY DEF LimitIInv, Middleware!TypeOK, Middleware!Ages
<1>2. hits'[c] = Middleware!Count(hits[c])
  BY DEF Middleware!Arrive, LimitIInv, Middleware!TypeOK
<1>3. hits[c][0] \in Nat /\ hits[c][0] <= MaxRequests
  BY <1>1 DEF Middleware!Counts
<1>4. hits[c][0] <= Middleware!Min({hits[c][0] + 1, MaxRequests})
  BY <1>3, SmallerOf
<1>5. \A a \in Middleware!Ages : hits[c][a] <= hits'[c][a]
  BY <1>1, <1>2, <1>4 DEF Middleware!Count, Middleware!Counts
<1> QED
  BY <1>2, <1>5 DEF Middleware!Arrive, LimitIInv, Middleware!TypeOK

LEMMA LimitNext ==
    ASSUME LimitIInv, [Middleware!Next]_(middlewareVars)
    PROVE  LimitIInv'
<1> DEFINE ClientOK(c) ==
            /\ \A a \in Middleware!Ages : passed[c][a] <= hits[c][a]
            /\ Middleware!Total(passed[c]) <= MaxRequests
            /\ \A a \in Middleware!Ages : a < silent[c] => hits[c][a] = 0
<1>1. Middleware!TypeOK /\ Middleware!TypeOK'
  BY MiddlewareTypeNext DEF LimitIInv
<1>2. \A c \in Clients : ClientOK(c)
  BY DEF LimitIInv
<1>3. ASSUME NEW c \in Clients
      PROVE  /\ hits[c] \in Middleware!Counts /\ passed[c] \in Middleware!Counts
             /\ hits'[c] \in Middleware!Counts /\ passed'[c] \in Middleware!Counts
             /\ \A a \in Middleware!Ages :
                    {hits[c][a], passed[c][a], hits'[c][a], passed'[c][a]} \subseteq Nat
             /\ silent[c] \in 0..(Window + 1) /\ silent'[c] \in 0..(Window + 1)
  BY <1>1 DEF Middleware!TypeOK, Middleware!Counts
<1>4. ASSUME NEW c \in Clients, Middleware!Arrive(c), UNCHANGED passed
      PROVE  \A d \in Clients : ClientOK(d)'
  <2> TAKE d \in Clients
  <2>1. CASE d # c
    BY <1>2, <1>4, <2>1, ArriveEffect
  <2>2. CASE d = c
    BY <1>2, <1>3, <1>4, <2>2, ArriveEffect DEF Middleware!Ages
  <2> QED
    BY <2>1, <2>2
<1>5. ASSUME NEW c \in Clients, Middleware!PassOn(c)
      PROVE  \A d \in Clients : ClientOK(d)'
  <2>1. /\ passed'[c] = Middleware!Count(passed[c])
        /\ \A d \in Clients : d # c => passed'[d] = passed[d]
        /\ Middleware!Arrive(c) /\ Middleware!WithinRate(c)
    BY <1>1, <1>5 DEF Middleware!PassOn, Middleware!TypeOK
  <2> TAKE d \in Clients
  <2>2. CASE d # c
    BY <1>2, <2>1, <2>2, ArriveEffect
  <2>3. CASE d = c
    <3>1. \A a \in Middleware!Ages : passed'[c][a] <= hits'[c][a]
      BY <1>2, <1>3, <2>1, ArriveEffect, CountKeepsOrder
    <3>2. Middleware!Total(passed'[c]) <= Middleware!Total(passed[c]) + 1
      BY <1>3, <2>1, TotalOfCount
    <3>3. Middleware!Total(passed[c]) <= Middleware!Total(hits[c])
      BY <1>2, <1>3, TotalGrows
    <3>4. Middleware!Total(hits[c]) + 1 <= MaxRequests
      BY <2>1 DEF Middleware!WithinRate
    <3>5. Middleware!Total(passed'[c]) <= MaxRequests
      BY <3>2, <3>3, <3>4, CountedIsFinite
    <3> QED
      BY <1>3, <2>1, <2>3, <3>1, <3>5, ArriveEffect DEF Middleware!Ages
  <2> QED
    BY <2>2, <2>3
<1>6. ASSUME Middleware!Tick
      PROVE  \A d \in Clients : ClientOK(d)'
  <2> TAKE d \in Clients
  <2>1. /\ hits'[d] = Middleware!Older(hits[d]) /\ passed'[d] = Middleware!Older(passed[d])
        /\ silent'[d] = Middleware!Min({silent[d] + 1, Window + 1})
    BY <1>6 DEF Middleware!Tick
  <2>2. silent'[d] <= silent[d] + 1
    BY <1>3, <2>1, PairMin
  <2>3. ASSUME NEW a \in Middleware!Ages, a # 0
        PROVE  /\ a - 1 \in Middleware!Ages
               /\ hits'[d][a] = hits[d][a - 1] /\ passed'[d][a] = passed[d][a - 1]
    BY <2>1, <2>3 DEF Middleware!Older, Middleware!Ages
  <2>4. hits'[d][0] = 0 /\ passed'[d][0] = 0
    BY <2>1 DEF Middleware!Older, Middleware!Ages
  <2>5. Middleware!Total(passed'[d]) <= MaxRequests
    BY <1>2, <1>3, <2>1, TotalOfOlder, CountedIsFinite
  <2>6. ASSUME NEW a \in Middleware!Ages
        PROVE  passed'[d][a] <= hits'[d][a] /\ (a < silent'[d] => hits'[d][a] = 0)
    <3>1. CASE a = 0
      BY <2>4, <3>1
    <3>2. CASE a # 0
      BY <1>2, <1>3, <2>2, <2>3, <3>2 DEF Middleware!Ages
    <3> QED
      BY <3>1, <3>2
  <2> QED
    BY <2>5, <2>6
<1>7. ASSUME UNCHANGED middlewareVars
      PROVE  \A d \in Clients : ClientOK(d)'
  BY <1>2, <1>7 DEF middlewareVars
<1>8. \A d \in Clients : ClientOK(d)'
  BY <1>4, <1>5, <1>6, <1>7
     DEF Middleware!Next, Middleware!RateLimited, Middleware!MissingIdempotencyKey
<1> QED
  BY <1>1, <1>8 DEF LimitIInv

THEOREM LimitInvariant == Spec => []LimitIInv
<1>1. LimitIInv /\ [Next]_vars => LimitIInv'
  BY StepOfMiddleware, LimitNext
<1> QED
  BY <1>1, LimitInit, PTL DEF Spec

(* A client's requests that were let through never exceed the limit of the     *)
(* window, and the limiter, which counts the requests it refuses as well,      *)
(* never refuses one that was silent for longer than the window, on any limit, *)
(* window and set of clients (shared_contracts/py/middleware.py check).        *)
THEOREM RateLimitHoldsAlways == Spec => RateLimitHolds
<1>1. LimitIInv => \A c \in Clients : Middleware!Total(passed[c]) <= MaxRequests
  BY DEF LimitIInv
<1>2. ASSUME LimitIInv, NEW c \in Clients, Middleware!RateLimited(c)
      PROVE  silent[c] <= Window
  <2>1. SUFFICES ASSUME ~(silent[c] <= Window)
                 PROVE  FALSE
    OBVIOUS
  <2>2. silent[c] \in 0..(Window + 1)
    BY <1>2 DEF LimitIInv, Middleware!TypeOK
  <2>3. \A a \in Middleware!Ages : hits[c][a] = 0
    BY <1>2, <2>1, <2>2 DEF LimitIInv, Middleware!Ages
  <2>4. Middleware!Total(hits[c]) = 0
    BY <2>3, TotalOfNothing
  <2> QED
    BY <1>2, <2>4 DEF Middleware!RateLimited, Middleware!WithinRate
<1>3. LimitIInv /\ [Next]_vars
        => [\A c \in Clients : Middleware!RateLimited(c) => silent[c] <= Window]_(Middleware!vars)
  BY <1>2
<1> QED
  BY <1>1, <1>3, LimitInvariant, PTL DEF Spec, RateLimitHolds, Middleware!RateLimitHolds
================================================================================
