------------------------- MODULE ReviewDecisionsProofs -------------------------
(***************************************************************************)
(* Proofs about ReviewDecisions, for every set of revisions, threads and   *)
(* values and every bound on the number of decisions.                      *)
(***************************************************************************)
EXTENDS ReviewDecisions, TLAPS

USE BrokenAssumption, NoneAssumption

--------------------------------------------------------------------------------
(* What the operators return. *)

(* Every action has a status. *)
LEMMA StatusOfType ==
    ASSUME NEW action \in Actions
    PROVE  StatusOf(action) \in Statuses
BY DEF StatusOf, Actions, Statuses

(* An edit of a proposal is a proposal. *)
LEMMA ApplyEditsType ==
    ASSUME NEW c \in Contents, NEW edits \in Patches
    PROVE  ApplyEdits(c, edits) \in Contents
BY DEF ApplyEdits, Contents, Patches, EDITABLE_GROUPS

(* A diff maps some of the editable groups to their old and new values. *)
LEMMA ComputeDiffType ==
    ASSUME NEW c \in Contents, NEW edits \in Patches
    PROVE  ComputeDiff(c, edits) \in Diffs
<1> DEFINE changed == {h \in DOMAIN edits : c[h] # edits[h]}
<1>1. DOMAIN edits \subseteq EDITABLE_GROUPS /\ \A g \in DOMAIN edits : edits[g] \in Values
  BY DEF Patches
<1>2. changed \in SUBSET EDITABLE_GROUPS
  BY <1>1
<1>3. \A g \in changed : [old |-> c[g], new |-> edits[g]] \in [old : Values, new : Values]
  BY <1>1, <1>2 DEF Contents
<1>4. ComputeDiff(c, edits) \in [changed -> [old : Values, new : Values]]
  BY <1>3 DEF ComputeDiff
<1> QED
  BY <1>2, <1>4 DEF Diffs

LEMMA NoDiffType == NoDiff \in Diffs
<1>1. NoDiff \in [{} -> [old : Values, new : Values]]
  BY DEF NoDiff
<1>2. {} \in SUBSET EDITABLE_GROUPS
  OBVIOUS
<1> QED
  BY <1>1, <1>2 DEF Diffs

(* What apply_decision writes is a record whose last entry is the new one. *)
LEMMA DecidedType ==
    ASSUME NEW existing \in Records, NEW updated \in Contents \cup {None},
           NEW e \in Entries
    PROVE  /\ Decided(existing, updated, e) \in Records
           /\ Decided(existing, updated, e).status = StatusOf(e.action)
           /\ Decided(existing, updated, e).content \in {existing.content, updated}
           /\ Decided(existing, updated, e).history = Append(existing.history, e)
<1>1. e.action \in Actions
  BY DEF Entries
<1>2. StatusOf(e.action) \in Statuses
  BY <1>1, StatusOfType
<1>3. Append(existing.history, e) \in Seq(Entries)
  BY DEF Records
<1> QED
  BY <1>2, <1>3 DEF Decided, Records

--------------------------------------------------------------------------------
(* Type correctness. *)

LEMMA TypeInit == Init => TypeOK
BY DEF Init, TypeOK, Serving

(* A thread that is done with its request leaves the thread variables typed. *)
LEMMA TypeForget ==
    ASSUME TypeOK, NEW w \in Workers, Forget(w),
           NEW at \in {"idle", "answer"}, pc' = [pc EXCEPT ![w] = at],
           UNCHANGED <<clock, origin, overlapped>>,
           store' \in [Revisions -> Records \cup {None}],
           \A r \in Revisions : store[r] \in Records => store'[r] \in Records,
           applied' \subseteq [rev : Revisions, entry : Entries]
    PROVE  TypeOK'
<1>1. \A v \in Workers : Serving(v)' =>
        /\ v # w
        /\ pc'[v] = pc[v] /\ req'[v] = req[v] /\ entry'[v] = entry[v]
        /\ staged'[v] = staged[v]
  BY DEF Forget, Serving, TypeOK
<1>2. \A v \in Workers : Serving(v)' =>
        req'[v] \in Requests /\ store'[req'[v].rev] \in Records
  BY <1>1 DEF TypeOK, Serving, Requests
<1>3. /\ pc' \in [Workers -> {"idle", "service", "repo", "write", "answer"}]
      /\ req' \in [Workers -> Requests \cup {None}]
      /\ entry' \in [Workers -> Entries \cup {None}]
      /\ payload' \in [Workers -> Contents \cup {None}]
      /\ staged' \in [Workers -> Records \cup {None}]
  BY DEF TypeOK, Forget
<1>4. \A v \in Workers :
        /\ pc'[v] \in {"repo", "write"} => entry'[v] \in Entries
        /\ pc'[v] = "write" => staged'[v] \in Records
  BY <1>1 DEF TypeOK, Serving
<1> QED
  BY <1>2, <1>3, <1>4 DEF TypeOK, Serving

LEMMA TypeNext == TypeOK /\ [Next]_vars => TypeOK'
<1> SUFFICES ASSUME TypeOK, [Next]_vars
             PROVE  TypeOK'
  OBVIOUS
<1>1. ASSUME NEW r \in Revisions, NEW content \in Contents, CreateRevision(r, content)
      PROVE  TypeOK'
  <2>1. [status |-> "pending", content |-> content, history |-> <<>>] \in Records
    BY DEF Records, Statuses
  <2>2. store' \in [Revisions -> Records \cup {None}]
    BY <1>1, <2>1 DEF TypeOK, CreateRevision
  <2>3. origin' \in [Revisions -> Contents \cup {None}]
    BY <1>1 DEF TypeOK, CreateRevision
  <2>4. \A s \in Revisions : store[s] \in Records => store'[s] \in Records
    BY <1>1, <2>1 DEF TypeOK, CreateRevision
  <2>5. UNCHANGED <<pc, req, entry, payload, staged, clock, applied, overlapped>>
    BY <1>1 DEF CreateRevision, threadVars
  <2>6. \A w \in Workers : Serving(w) => store'[req[w].rev] \in Records
    BY <2>4 DEF TypeOK, Serving, Requests
  <2> QED
    BY <2>2, <2>3, <2>5, <2>6 DEF TypeOK, Serving
<1>2. ASSUME NEW w \in Workers, NEW r \in Revisions, NEW action \in Actions,
             NEW edits \in Patches \cup {None}, Submit(w, r, action, edits)
      PROVE  TypeOK'
  <2>1. [rev |-> r, action |-> action, edits |-> edits] \in Requests
    BY DEF Requests
  <2>2. req' \in [Workers -> Requests \cup {None}] /\ req'[w].rev = r /\ req'[w] \in Requests
    BY <1>2, <2>1 DEF TypeOK, Submit
  <2>3. store[r] \in Records
    BY <1>2 DEF TypeOK, Submit
  <2>4. pc' \in [Workers -> {"idle", "service", "repo", "write", "answer"}]
    BY <1>2 DEF TypeOK, Submit
  <2>5. \A v \in Workers : v # w => pc'[v] = pc[v] /\ req'[v] = req[v]
    BY <1>2 DEF TypeOK, Submit
  <2>6. pc'[w] = "service"
    BY <1>2 DEF TypeOK, Submit
  <2>7. overlapped' \subseteq Revisions
    BY <1>2 DEF TypeOK, Submit
  <2> QED
    BY <1>2, <2>2, <2>3, <2>4, <2>5, <2>6, <2>7 DEF TypeOK, Submit, Serving
<1>3. ASSUME NEW w \in Workers, ServiceRefuse(w) \/ RepoRefuse(w) \/ Answer(w) \/ Fail(w)
      PROVE  TypeOK'
  <2>1. Finish(w) /\ UNCHANGED <<store, clock, origin, applied, overlapped>>
    BY <1>3 DEF ServiceRefuse, RepoRefuse, Answer, Fail
  <2> QED
    BY <2>1, TypeForget DEF TypeOK, Finish
<1>4. ASSUME NEW w \in Workers, ServiceRead(w)
      PROVE  TypeOK'
  <2> DEFINE q == req[w]
             record == store[q.rev]
  <2>1. q \in Requests /\ record \in Records /\ pc[w] = "service"
    BY <1>4 DEF TypeOK, Serving, ServiceRead
  <2>2. record.content \in Contents /\ q.action \in Actions
    BY <2>1 DEF Records, Requests
  <2>3. q.action = "edit" => q.edits \in Patches
    BY <1>4, <2>1 DEF ServiceRead, EditAllowed, Requests
  <2>4. q.action = "edit" => /\ ComputeDiff(record.content, q.edits) \in Diffs
                             /\ ApplyEdits(record.content, q.edits) \in Contents
    BY <2>2, <2>3, ComputeDiffType, ApplyEditsType
  <2>5. entry'[w] \in Entries /\ entry' \in [Workers -> Entries \cup {None}]
    BY <1>4, <2>2, <2>4, NoDiffType DEF ServiceRead, TypeOK, Entries
  <2>6. payload' \in [Workers -> Contents \cup {None}]
    BY <1>4, <2>4 DEF ServiceRead, TypeOK
  <2>7. /\ pc' \in [Workers -> {"idle", "service", "repo", "write", "answer"}]
        /\ pc'[w] = "repo"
        /\ \A v \in Workers : v # w => pc'[v] = pc[v] /\ entry'[v] = entry[v]
    BY <1>4 DEF ServiceRead, TypeOK
  <2>8. clock' \in Nat /\ UNCHANGED <<store, req, staged, origin, applied, overlapped>>
    BY <1>4 DEF ServiceRead, TypeOK
  <2> QED
    BY <2>1, <2>5, <2>6, <2>7, <2>8 DEF TypeOK, Serving
<1>5. ASSUME NEW w \in Workers, RepoRead(w)
      PROVE  TypeOK'
  <2> DEFINE base == Decided(store[req[w].rev], payload[w], entry[w])
  <2>1. base \in Records
    BY <1>5, DecidedType DEF RepoRead, TypeOK, Serving
  <2> HIDE DEF base
  <2>2. /\ staged' = [staged EXCEPT ![w] = base]
        /\ pc' = [pc EXCEPT ![w] = "write"]
        /\ pc[w] = "repo"
        /\ UNCHANGED <<store, req, entry, payload, clock, origin, applied, overlapped>>
    BY <1>5 DEF RepoRead, base
  <2> QED
    BY <2>1, <2>2 DEF TypeOK, Serving
<1>6. ASSUME NEW w \in Workers, RepoWrite(w)
      PROVE  TypeOK'
  <2>1. staged[w] \in Records /\ req[w].rev \in Revisions /\ entry[w] \in Entries
    BY <1>6 DEF RepoWrite, TypeOK, Serving, Requests
  <2>2. store' \in [Revisions -> Records \cup {None}]
    BY <1>6, <2>1 DEF RepoWrite, TypeOK
  <2>3. \A r \in Revisions : store[r] \in Records => store'[r] \in Records
    BY <1>6, <2>1 DEF RepoWrite, TypeOK
  <2>4. applied' \subseteq [rev : Revisions, entry : Entries]
    BY <1>6, <2>1 DEF RepoWrite, TypeOK
  <2>5. /\ Forget(w) /\ pc' = [pc EXCEPT ![w] = "answer"]
        /\ UNCHANGED <<clock, origin, overlapped>>
    BY <1>6 DEF RepoWrite
  <2> QED
    BY <2>2, <2>3, <2>4, <2>5, TypeForget
<1>7. CASE UNCHANGED vars
  BY <1>7 DEF vars, TypeOK, Serving
<1> QED
  BY <1>1, <1>2, <1>3, <1>4, <1>5, <1>6, <1>7 DEF Next, Actions

(* Every reachable state is well typed. *)
THEOREM TypeCorrect == Spec => []TypeOK
<1>1. Init => TypeOK
  BY TypeInit
<1>2. TypeOK /\ [Next]_vars => TypeOK'
  BY TypeNext
<1> QED
  BY <1>1, <1>2, PTL DEF Spec

--------------------------------------------------------------------------------
(* The status of a record is what the last entry of its history decided. *)

StatusMatches(record) ==
    record.status =
        IF Len(record.history) = 0 THEN "pending"
        ELSE StatusOf(record.history[Len(record.history)].action)

(* A record about to be written already has the status of its last entry. *)
StagedStatusMatches ==
    \A w \in Workers : pc[w] = "write" => StatusMatches(staged[w])

StatusIInv == TypeOK /\ StatusFollowsHistory /\ StagedStatusMatches

(* What apply_decision builds has the status of the entry it appends. *)
LEMMA DecidedStatus ==
    ASSUME NEW existing \in Records, NEW updated \in Contents \cup {None},
           NEW e \in Entries
    PROVE  StatusMatches(Decided(existing, updated, e))
<1> DEFINE d == Decided(existing, updated, e)
<1>1. d.status = StatusOf(e.action) /\ d.history = Append(existing.history, e)
  BY DecidedType
<1>2. existing.history \in Seq(Entries)
  BY DEF Records
<1>3. /\ Len(d.history) = Len(existing.history) + 1
      /\ Len(existing.history) \in Nat
      /\ d.history[Len(d.history)] = e
  BY <1>1, <1>2
<1> QED
  BY <1>1, <1>3 DEF StatusMatches

LEMMA StatusNext == StatusIInv /\ [Next]_vars => StatusIInv'
<1> SUFFICES ASSUME StatusIInv, [Next]_vars
             PROVE  StatusIInv'
  OBVIOUS
<1>1. TypeOK /\ TypeOK'
  BY TypeNext DEF StatusIInv
<1>2. \A r \in Revisions : store[r] # None => StatusMatches(store[r])
  BY DEF StatusIInv, StatusFollowsHistory, StatusMatches
<1>3. SUFFICES /\ \A r \in Revisions : store'[r] # None => StatusMatches(store'[r])
               /\ \A w \in Workers : pc'[w] = "write" => StatusMatches(staged'[w])
  BY <1>1 DEF StatusIInv, StatusFollowsHistory, StatusMatches, StagedStatusMatches
<1>4. \A w \in Workers : pc[w] = "write" => StatusMatches(staged[w])
  BY DEF StatusIInv, StagedStatusMatches
<1>5. ASSUME NEW r \in Revisions, NEW content \in Contents, CreateRevision(r, content)
      PROVE  /\ \A s \in Revisions : store'[s] # None => StatusMatches(store'[s])
             /\ \A w \in Workers : pc'[w] = "write" => StatusMatches(staged'[w])
  <2>1. StatusMatches([status |-> "pending", content |-> content, history |-> <<>>])
    BY DEF StatusMatches
  <2>2. store' = [store EXCEPT ![r] =
                    [status |-> "pending", content |-> content, history |-> <<>>]]
    BY <1>5 DEF CreateRevision
  <2>3. \A s \in Revisions : s # r => store'[s] = store[s]
    BY <1>1, <2>2 DEF TypeOK
  <2>4. store'[r] = [status |-> "pending", content |-> content, history |-> <<>>]
    BY <1>1, <2>2 DEF TypeOK
  <2> QED
    BY <1>2, <1>4, <1>5, <2>1, <2>3, <2>4 DEF CreateRevision, threadVars
<1>6. ASSUME NEW w \in Workers, NEW r \in Revisions, NEW action \in Actions,
             NEW edits \in Patches \cup {None}, Submit(w, r, action, edits)
      PROVE  /\ \A s \in Revisions : store'[s] # None => StatusMatches(store'[s])
             /\ \A v \in Workers : pc'[v] = "write" => StatusMatches(staged'[v])
  BY <1>1, <1>2, <1>4, <1>6 DEF Submit, TypeOK
<1>7. ASSUME NEW w \in Workers, \/ ServiceRefuse(w) \/ RepoRefuse(w) \/ Fail(w) \/ ServiceRead(w)
                               \/ Answer(w)
      PROVE  /\ \A s \in Revisions : store'[s] # None => StatusMatches(store'[s])
             /\ \A v \in Workers : pc'[v] = "write" => StatusMatches(staged'[v])
  <2>1. store' = store
    BY <1>7 DEF ServiceRefuse, RepoRefuse, Fail, ServiceRead, Answer
  <2>2. \A v \in Workers : pc'[v] = "write" => pc[v] = "write" /\ staged'[v] = staged[v]
    BY <1>1, <1>7 DEF ServiceRefuse, RepoRefuse, Fail, ServiceRead, Answer, Finish,
                         Forget, TypeOK
  <2> QED
    BY <1>2, <1>4, <2>1, <2>2
<1>8. ASSUME NEW w \in Workers, RepoRead(w)
      PROVE  /\ \A s \in Revisions : store'[s] # None => StatusMatches(store'[s])
             /\ \A v \in Workers : pc'[v] = "write" => StatusMatches(staged'[v])
  <2>1. StatusMatches(Decided(store[req[w].rev], payload[w], entry[w]))
    BY <1>1, <1>8, DecidedStatus DEF RepoRead, TypeOK, Serving
  <2>2. /\ store' = store
        /\ staged'[w] = Decided(store[req[w].rev], payload[w], entry[w])
        /\ \A v \in Workers : v # w => pc'[v] = pc[v] /\ staged'[v] = staged[v]
    BY <1>1, <1>8 DEF RepoRead, TypeOK
  <2> QED
    BY <1>2, <1>4, <2>1, <2>2
<1>9. ASSUME NEW w \in Workers, RepoWrite(w)
      PROVE  /\ \A s \in Revisions : store'[s] # None => StatusMatches(store'[s])
             /\ \A v \in Workers : pc'[v] = "write" => StatusMatches(staged'[v])
  <2>1. StatusMatches(staged[w])
    BY <1>4, <1>9 DEF RepoWrite
  <2>2. \A s \in Revisions : store'[s] = IF s = req[w].rev THEN staged[w] ELSE store[s]
    BY <1>1, <1>9 DEF RepoWrite, TypeOK
  <2>3. \A v \in Workers : pc'[v] = "write" => pc[v] = "write" /\ staged'[v] = staged[v]
    BY <1>1, <1>9 DEF RepoWrite, Forget, TypeOK
  <2> QED
    BY <1>2, <1>4, <2>1, <2>2, <2>3
<1>10. CASE UNCHANGED vars
  BY <1>2, <1>4, <1>10 DEF vars, threadVars
<1> QED
  BY <1>3, <1>5, <1>6, <1>7, <1>8, <1>9, <1>10 DEF Next, Actions

(* Under any interleaving, a stored status is the one the last history entry   *)
(* decided: nothing is accepted without a recorded decision.                   *)
THEOREM StatusFollowsHistoryAlways == Spec => []StatusFollowsHistory
<1>1. Init => StatusIInv
  BY TypeInit DEF Init, StatusIInv, StatusFollowsHistory, StagedStatusMatches
<1>2. StatusIInv /\ [Next]_vars => StatusIInv'
  BY StatusNext
<1>3. StatusIInv => StatusFollowsHistory
  BY DEF StatusIInv
<1> QED
  BY <1>1, <1>2, <1>3, PTL DEF Spec

--------------------------------------------------------------------------------
(* Every committed proposal replays its evidence and fits the schema. *)

Sound(content) == Faithful(content) /\ SchemaValid(content)

(* An edited proposal on its way was checked against the document, and a       *)
(* record about to be written was checked against the schema as well.          *)
InFlightContent ==
    \A w \in Workers :
        /\ pc[w] \in {"repo", "write"} /\ payload[w] # None => Faithful(payload[w])
        /\ pc[w] = "write" => Sound(staged[w].content)

ContentIInv == TypeOK /\ ContentAlwaysReplays /\ InFlightContent

LEMMA ContentNext == ContentIInv /\ [Next]_vars => ContentIInv'
<1> SUFFICES ASSUME ContentIInv, [Next]_vars
             PROVE  ContentIInv'
  OBVIOUS
<1>1. TypeOK /\ TypeOK'
  BY TypeNext DEF ContentIInv
<1>2. \A r \in Revisions : store[r] # None => Sound(store[r].content)
  BY DEF ContentIInv, ContentAlwaysReplays, Sound
<1>3. InFlightContent
  BY DEF ContentIInv
<1>4. SUFFICES /\ \A r \in Revisions : store'[r] # None => Sound(store'[r].content)
               /\ InFlightContent'
  BY <1>1 DEF ContentIInv, ContentAlwaysReplays, Sound, Faithful, SchemaValid
<1>5. ASSUME NEW r \in Revisions, NEW content \in Contents, CreateRevision(r, content)
      PROVE  /\ \A s \in Revisions : store'[s] # None => Sound(store'[s].content)
             /\ InFlightContent'
  <2>1. /\ Sound(content)
        /\ store' = [store EXCEPT ![r] =
                        [status |-> "pending", content |-> content, history |-> <<>>]]
    BY <1>5 DEF CreateRevision, Sound
  <2>2. \A s \in Revisions : s # r => store'[s] = store[s]
    BY <1>1, <2>1 DEF TypeOK
  <2>3. store'[r].content = content
    BY <1>1, <2>1 DEF TypeOK
  <2> QED
    BY <1>2, <1>3, <1>5, <2>1, <2>2, <2>3
    DEF CreateRevision, threadVars, InFlightContent, Sound, Faithful, SchemaValid
<1>6. ASSUME NEW w \in Workers, NEW r \in Revisions, NEW action \in Actions,
             NEW edits \in Patches \cup {None}, Submit(w, r, action, edits)
      PROVE  /\ \A s \in Revisions : store'[s] # None => Sound(store'[s].content)
             /\ InFlightContent'
  BY <1>1, <1>2, <1>3, <1>6 DEF Submit, TypeOK, InFlightContent, Sound, Faithful, SchemaValid
<1>7. ASSUME NEW w \in Workers, ServiceRefuse(w) \/ RepoRefuse(w) \/ Fail(w) \/ Answer(w)
      PROVE  /\ \A s \in Revisions : store'[s] # None => Sound(store'[s].content)
             /\ InFlightContent'
  <2>1. store' = store
    BY <1>7 DEF ServiceRefuse, RepoRefuse, Fail, Answer
  <2>2. \A v \in Workers : pc'[v] \in {"repo", "write"} =>
            pc'[v] = pc[v] /\ payload'[v] = payload[v] /\ staged'[v] = staged[v]
    BY <1>1, <1>7 DEF ServiceRefuse, RepoRefuse, Fail, Answer, Finish, Forget, TypeOK
  <2> QED
    BY <1>2, <1>3, <2>1, <2>2 DEF InFlightContent, Sound, Faithful, SchemaValid
<1>8. ASSUME NEW w \in Workers, ServiceRead(w)
      PROVE  /\ \A s \in Revisions : store'[s] # None => Sound(store'[s].content)
             /\ InFlightContent'
  <2>1. payload'[w] # None => Faithful(payload'[w])
    BY <1>1, <1>8 DEF ServiceRead, EditAllowed, TypeOK
  <2>2. /\ store' = store
        /\ pc'[w] = "repo"
        /\ \A v \in Workers : v # w => pc'[v] = pc[v] /\ payload'[v] = payload[v]
        /\ staged' = staged
    BY <1>1, <1>8 DEF ServiceRead, TypeOK
  <2> QED
    BY <1>2, <1>3, <2>1, <2>2 DEF InFlightContent, Sound, Faithful, SchemaValid
<1>9. ASSUME NEW w \in Workers, RepoRead(w)
      PROVE  /\ \A s \in Revisions : store'[s] # None => Sound(store'[s].content)
             /\ InFlightContent'
  <2> DEFINE existing == store[req[w].rev]
             base == Decided(existing, payload[w], entry[w])
  <2>1. existing \in Records /\ req[w].rev \in Revisions
    BY <1>1, <1>9 DEF RepoRead, TypeOK, Serving, Requests
  <2>2. base.content = IF payload[w] # None THEN payload[w] ELSE existing.content
    BY DEF Decided
  <2>3. payload[w] # None => Faithful(payload[w])
    BY <1>3, <1>9 DEF RepoRead, InFlightContent
  <2>4. existing # None => Faithful(existing.content)
    BY <1>2, <2>1 DEF Sound
  <2>5. existing # None
    BY <2>1
  <2>6. Sound(base.content)
    BY <1>9, <2>2, <2>3, <2>4, <2>5 DEF RepoRead, Sound, Faithful
  <2>7. /\ store' = store
        /\ staged'[w] = base
        /\ \A v \in Workers : v # w => pc'[v] = pc[v] /\ staged'[v] = staged[v]
        /\ payload' = payload
        /\ pc[w] = "repo"
    BY <1>1, <1>9 DEF RepoRead, TypeOK
  <2> HIDE DEF base, existing
  <2> QED
    BY <1>2, <1>3, <2>6, <2>7 DEF InFlightContent, Sound, Faithful, SchemaValid
<1>10. ASSUME NEW w \in Workers, RepoWrite(w)
       PROVE  /\ \A s \in Revisions : store'[s] # None => Sound(store'[s].content)
              /\ InFlightContent'
  <2>1. Sound(staged[w].content)
    BY <1>3, <1>10 DEF RepoWrite, InFlightContent
  <2>2. \A s \in Revisions : store'[s] = IF s = req[w].rev THEN staged[w] ELSE store[s]
    BY <1>1, <1>10 DEF RepoWrite, TypeOK
  <2>3. \A v \in Workers : pc'[v] \in {"repo", "write"} =>
            pc'[v] = pc[v] /\ payload'[v] = payload[v] /\ staged'[v] = staged[v]
    BY <1>1, <1>10 DEF RepoWrite, Forget, TypeOK
  <2>4. \A s \in Revisions : store'[s] # None => Sound(store'[s].content)
    BY <1>2, <2>1, <2>2
  <2> QED
    BY <1>3, <2>3, <2>4 DEF InFlightContent, Sound, Faithful, SchemaValid
<1>11. CASE UNCHANGED vars
  BY <1>2, <1>3, <1>11 DEF vars, threadVars, InFlightContent, Sound, Faithful, SchemaValid
<1> QED
  BY <1>4, <1>5, <1>6, <1>7, <1>8, <1>9, <1>10, <1>11 DEF Next, Actions

(* Under any interleaving, every committed proposal replays its evidence and   *)
(* conforms to the schema.                                                     *)
THEOREM ContentReplaysAlways == Spec => []ContentAlwaysReplays
<1>1. Init => ContentIInv
  BY TypeInit DEF Init, ContentIInv, ContentAlwaysReplays, InFlightContent
<1>2. ContentIInv /\ [Next]_vars => ContentIInv'
  BY ContentNext
<1>3. ContentIInv => ContentAlwaysReplays
  BY DEF ContentIInv
<1> QED
  BY <1>1, <1>2, <1>3, PTL DEF Spec

--------------------------------------------------------------------------------
(* What holds of a revision as long as its requests did not overlap.  The      *)
(* invariant relates the copies a thread holds to the row they were read from: *)
(* a thread that is alone on a revision holds copies that are still current.   *)

CompleteOK(h, decisions) ==
    /\ \A d \in decisions : \E i \in DOMAIN h : h[i] = d.entry
    /\ \A i, j \in DOMAIN h : i < j => h[i].ts < h[j].ts

ExplainedOK(h, content, first) ==
    \A g \in EDITABLE_GROUPS :
        LET touching == {i \in DOMAIN h : g \in DOMAIN h[i].diff}
        IN  IF touching = {}
            THEN content[g] = first[g]
            ELSE \E i \in touching :
                    /\ \A j \in touching : j <= i
                    /\ content[g] = h[i].diff[g].new

EscalationOK(h) ==
    \A i \in DOMAIN h : i + 1 \in DOMAIN h /\ h[i].action = "escalate" =>
        h[i+1].action \notin {"accept", "edit"}

RecordOK(record, decisions, first) ==
    /\ CompleteOK(record.history, decisions)
    /\ ExplainedOK(record.history, record.content, first)
    /\ EscalationOK(record.history)

(* A diff says how one content becomes another. *)
Explains(diff, old, new) ==
    \A g \in EDITABLE_GROUPS :
        new[g] = IF g \in DOMAIN diff THEN diff[g].new ELSE old[g]

DecisionsOn(r) == {d \in applied : d.rev = r}

(* What makes an entry and an edited proposal fit the record they are for. *)
Fits(record, updated, e) ==
    /\ \A i \in DOMAIN record.history : record.history[i].ts < e.ts
    /\ e.action \in {"accept", "edit"} => record.status # "escalated"
    /\ Explains(e.diff, record.content,
                IF updated # None THEN updated ELSE record.content)

Alone ==
    \A v, w \in Workers :
        /\ Serving(v) /\ Serving(w)
        /\ req[v].rev = req[w].rev
        /\ req[v].rev \notin overlapped
        => v = w

Stamped ==
    /\ \A w \in Workers :
        /\ pc[w] \in {"repo", "write"} => entry[w].ts <= clock
        /\ pc[w] = "write" =>
            \A i \in DOMAIN staged[w].history : staged[w].history[i].ts <= clock
    /\ \A r \in Revisions : store[r] # None =>
            \A i \in DOMAIN store[r].history : store[r].history[i].ts <= clock

CopiesCurrent ==
    \A w \in Workers : pc[w] \in {"repo", "write"} /\ req[w].rev \notin overlapped =>
        /\ Fits(store[req[w].rev], payload[w], entry[w])
        /\ pc[w] = "write" =>
            staged[w] = Decided(store[req[w].rev], payload[w], entry[w])

AppliedToRecords == \A d \in applied : store[d.rev] # None

RecordsOK ==
    \A r \in Revisions \ overlapped : store[r] # None =>
        RecordOK(store[r], DecisionsOn(r), origin[r])

SerialParts == Alone /\ Stamped /\ CopiesCurrent /\ AppliedToRecords /\ RecordsOK

SerialIInv == StatusIInv /\ SerialParts

(* Appending an entry adds one position, and leaves the others as they were. *)
LEMMA AppendFacts ==
    ASSUME NEW h \in Seq(Entries), NEW e \in Entries
    PROVE  LET n == Len(h)  k == Append(h, e)
           IN  /\ n \in Nat
               /\ DOMAIN h = 1..n /\ DOMAIN k = 1..(n + 1)
               /\ \A i \in 1..n : k[i] = h[i]
               /\ k[n + 1] = e
OBVIOUS

(* A fitting decision keeps the record in order. *)
LEMMA RecordStep ==
    ASSUME NEW record \in Records, NEW updated \in Contents \cup {None}, NEW e \in Entries,
           NEW decisions, NEW r, NEW first,
           RecordOK(record, decisions, first),
           StatusMatches(record),
           Fits(record, updated, e)
    PROVE  RecordOK(Decided(record, updated, e),
                    decisions \cup {[rev |-> r, entry |-> e]}, first)
<1> DEFINE h == record.history
           n == Len(h)
           d == Decided(record, updated, e)
           k == Append(h, e)
<1>1. h \in Seq(Entries) /\ d.history = k
  BY DecidedType DEF Records
<1>2. /\ n \in Nat
      /\ DOMAIN h = 1..n /\ DOMAIN k = 1..(n + 1)
      /\ \A i \in 1..n : k[i] = h[i]
      /\ k[n + 1] = e
  BY <1>1, AppendFacts
<1>3. d.content = IF updated # None THEN updated ELSE record.content
  BY DEF Decided
<1>4. \A i \in 1..n : h[i] \in Entries /\ h[i].ts \in Nat
  <2>1. \A i \in 1..n : h[i] \in Entries
    BY <1>1
  <2>2. \A x \in Entries : x.ts \in Nat
    BY DEF Entries
  <2> QED
    BY <2>1, <2>2
<1>5. e.ts \in Nat
  BY DEF Entries
<1> HIDE DEF k, d
<1>6. CompleteOK(k, decisions \cup {[rev |-> r, entry |-> e]})
  <2>1. CompleteOK(h, decisions)
    BY DEF RecordOK
  <2>2. \A i \in 1..n : h[i].ts < e.ts
    BY <1>2 DEF Fits
  <2>3. \A x \in decisions \cup {[rev |-> r, entry |-> e]} :
            \E i \in DOMAIN k : k[i] = x.entry
    <3>1. ASSUME NEW x \in decisions
          PROVE  \E i \in DOMAIN k : k[i] = x.entry
      BY <1>2, <2>1 DEF CompleteOK
    <3>2. n + 1 \in DOMAIN k /\ k[n + 1] = [rev |-> r, entry |-> e].entry
      BY <1>2
    <3> QED
      BY <3>1, <3>2
  <2>4. ASSUME NEW i \in DOMAIN k, NEW j \in DOMAIN k, i < j
        PROVE  k[i].ts < k[j].ts
    <3>1. CASE j = n + 1
      BY <1>2, <2>2, <2>4, <3>1
    <3>2. CASE j \in 1..n
      <4>1. i \in 1..n
        BY <1>2, <2>4, <3>2
      <4> QED
        BY <1>2, <2>1, <2>4, <3>2, <4>1 DEF CompleteOK
    <3> QED
      BY <1>2, <3>1, <3>2
  <2> QED
    BY <2>3, <2>4 DEF CompleteOK
<1>7. ExplainedOK(k, d.content, first)
  <2> SUFFICES ASSUME NEW g \in EDITABLE_GROUPS
               PROVE  LET touching == {i \in DOMAIN k : g \in DOMAIN k[i].diff}
                      IN  IF touching = {}
                          THEN d.content[g] = first[g]
                          ELSE \E i \in touching :
                                  /\ \A j \in touching : j <= i
                                  /\ d.content[g] = k[i].diff[g].new
    BY DEF ExplainedOK
  <2> DEFINE before == {i \in DOMAIN h : g \in DOMAIN h[i].diff}
             after == {i \in DOMAIN k : g \in DOMAIN k[i].diff}
  <2>1. IF before = {}
        THEN record.content[g] = first[g]
        ELSE \E i \in before : /\ \A j \in before : j <= i
                               /\ record.content[g] = h[i].diff[g].new
    BY DEF RecordOK, ExplainedOK
  <2>2. d.content[g] = IF g \in DOMAIN e.diff THEN e.diff[g].new ELSE record.content[g]
    BY <1>3 DEF Fits, Explains
  <2>3. CASE g \in DOMAIN e.diff
    <3>1. n + 1 \in after /\ \A j \in after : j <= n + 1
      BY <1>2, <2>3
    <3>2. d.content[g] = k[n + 1].diff[g].new
      BY <1>2, <2>2, <2>3
    <3> QED
      BY <3>1, <3>2
  <2>4. CASE g \notin DOMAIN e.diff
    <3>1. after = before
      BY <1>2, <2>4
    <3>2. \A i \in before : k[i] = h[i]
      BY <1>2
    <3> HIDE DEF before, after
    <3>3. d.content[g] = record.content[g]
      BY <2>2, <2>4
    <3> QED
      BY <2>1, <3>1, <3>2, <3>3 DEF after
  <2> QED
    BY <2>3, <2>4
<1>8. EscalationOK(k)
  <2> SUFFICES ASSUME NEW i \in DOMAIN k, i + 1 \in DOMAIN k, k[i].action = "escalate"
               PROVE  k[i+1].action \notin {"accept", "edit"}
    BY DEF EscalationOK
  <2>1. i \in 1..n
    BY <1>2
  <2>2. CASE i = n
    <3>1. record.status = StatusOf("escalate")
      BY <1>2, <2>1, <2>2 DEF StatusMatches
    <3>2. record.status = "escalated"
      BY <3>1 DEF StatusOf
    <3> QED
      BY <1>2, <2>2, <3>2 DEF Fits
  <2>3. CASE i # n
    <3>1. i + 1 \in 1..n
      BY <1>2, <2>1, <2>3
    <3>2. h[i].action = "escalate" /\ k[i+1] = h[i+1]
      BY <1>2, <2>1, <3>1
    <3> QED
      BY <1>2, <2>1, <3>1, <3>2 DEF RecordOK, EscalationOK
  <2> QED
    BY <2>2, <2>3
<1> QED
  BY <1>1, <1>6, <1>7, <1>8 DEF RecordOK, d

(* One lemma per action: it keeps what holds of the revisions in sequence. *)

LEMMA SerialCreate ==
    ASSUME TypeOK, SerialParts,
           NEW r \in Revisions, NEW content \in Contents, CreateRevision(r, content)
    PROVE  SerialParts'
<1> DEFINE new == [status |-> "pending", content |-> content, history |-> <<>>]
<1>1. /\ store[r] = None
      /\ store'[r] = new
      /\ origin'[r] = content
      /\ \A s \in Revisions : s # r => store'[s] = store[s] /\ origin'[s] = origin[s]
      /\ pc' = pc /\ req' = req /\ entry' = entry /\ payload' = payload
      /\ staged' = staged /\ clock' = clock /\ applied' = applied
      /\ overlapped' = overlapped
  BY DEF CreateRevision, threadVars, TypeOK
<1>2. new.history = <<>> /\ new.content = content /\ DOMAIN new.history = {}
  OBVIOUS
<1> HIDE DEF new
<1>3. Alone'
  BY <1>1 DEF SerialParts, Alone, Serving
<1>4. Stamped'
  BY <1>1, <1>2 DEF SerialParts, Stamped, Serving
<1>5. \A w \in Workers : pc[w] \in {"repo", "write"} =>
          req[w].rev \in Revisions /\ req[w].rev # r
  BY <1>1, NoneAssumption DEF TypeOK, Serving, Requests
<1>6. CopiesCurrent'
  BY <1>1, <1>5 DEF SerialParts, CopiesCurrent
<1>7. \A d \in applied : d.rev \in Revisions /\ d.rev # r
  BY <1>1 DEF SerialParts, AppliedToRecords, TypeOK
<1>8. AppliedToRecords'
  BY <1>1, <1>7 DEF SerialParts, AppliedToRecords
<1>9. \A s \in Revisions : DecisionsOn(s)' = DecisionsOn(s)
  BY <1>1 DEF DecisionsOn
<1>10. DecisionsOn(r) = {}
  BY <1>7 DEF DecisionsOn
<1>11. RecordOK(new, {}, content)
  BY <1>2 DEF RecordOK, CompleteOK, ExplainedOK, EscalationOK
<1>12. \A s \in Revisions \ overlapped : store[s] # None =>
           RecordOK(store[s], DecisionsOn(s), origin[s])
  BY DEF SerialParts, RecordsOK
<1>13. \A s \in Revisions \ overlapped' : store'[s] # None =>
           RecordOK(store'[s], DecisionsOn(s)', origin'[s])
  BY <1>1, <1>9, <1>10, <1>11, <1>12
<1>14. RecordsOK'
  BY <1>13 DEF RecordsOK
<1> QED
  BY <1>3, <1>4, <1>6, <1>8, <1>14 DEF SerialParts

LEMMA SerialSubmit ==
    ASSUME TypeOK, SerialParts,
           NEW w \in Workers, NEW r \in Revisions, NEW action \in Actions,
           NEW edits \in Patches \cup {None}, Submit(w, r, action, edits)
    PROVE  SerialParts'
<1>1. /\ pc[w] = "idle"
      /\ pc'[w] = "service" /\ req'[w].rev = r
      /\ \A v \in Workers : v # w => pc'[v] = pc[v] /\ req'[v] = req[v]
      /\ store' = store /\ entry' = entry /\ payload' = payload /\ staged' = staged
      /\ clock' = clock /\ origin' = origin /\ applied' = applied
      /\ overlapped \subseteq overlapped'
      /\ InFlight(r) # {} => r \in overlapped'
  BY DEF Submit, TypeOK
<1>2. \A v \in Workers : Serving(v) /\ req[v].rev = r => r \in overlapped'
  BY <1>1 DEF InFlight
<1>3. Alone'
  BY <1>1, <1>2 DEF SerialParts, Alone, Serving
<1>4. Stamped'
  BY <1>1 DEF SerialParts, Stamped
<1>5. CopiesCurrent'
  BY <1>1 DEF SerialParts, CopiesCurrent
<1>6. AppliedToRecords'
  BY <1>1 DEF SerialParts, AppliedToRecords
<1>7. RecordsOK'
  BY <1>1 DEF SerialParts, RecordsOK, DecisionsOn
<1> QED
  BY <1>3, <1>4, <1>5, <1>6, <1>7 DEF SerialParts

(* A request that ends without a write. *)
LEMMA SerialEnd ==
    ASSUME TypeOK, SerialParts, NEW w \in Workers,
           ServiceRefuse(w) \/ RepoRefuse(w) \/ Fail(w) \/ Answer(w)
    PROVE  SerialParts'
<1>1. /\ store' = store /\ clock' = clock /\ origin' = origin
      /\ applied' = applied /\ overlapped' = overlapped
  BY DEF ServiceRefuse, RepoRefuse, Fail, Answer
<1>2. \A v \in Workers : Serving(v)' =>
          /\ pc'[v] = pc[v] /\ req'[v] = req[v] /\ entry'[v] = entry[v]
          /\ payload'[v] = payload[v] /\ staged'[v] = staged[v]
  BY DEF ServiceRefuse, RepoRefuse, Fail, Answer, Finish, Forget, Serving, TypeOK
<1>3. Alone'
  BY <1>1, <1>2 DEF SerialParts, Alone, Serving
<1>4. Stamped'
  BY <1>1, <1>2 DEF SerialParts, Stamped, Serving
<1>5. CopiesCurrent'
  BY <1>1, <1>2 DEF SerialParts, CopiesCurrent, Serving
<1>6. AppliedToRecords'
  BY <1>1 DEF SerialParts, AppliedToRecords
<1>7. RecordsOK'
  BY <1>1 DEF SerialParts, RecordsOK, DecisionsOn
<1> QED
  BY <1>3, <1>4, <1>5, <1>6, <1>7 DEF SerialParts

(* The entry the service builds fits the record it read. *)
LEMMA SerialServiceRead ==
    ASSUME TypeOK, SerialParts, NEW w \in Workers, ServiceRead(w)
    PROVE  SerialParts'
<1> DEFINE q == req[w]
           record == store[q.rev]
<1>1. /\ pc[w] = "service" /\ pc'[w] = "repo"
      /\ \A v \in Workers : v # w =>
            /\ pc'[v] = pc[v] /\ entry'[v] = entry[v] /\ payload'[v] = payload[v]
      /\ store' = store /\ req' = req /\ staged' = staged /\ origin' = origin
      /\ applied' = applied /\ overlapped' = overlapped
      /\ clock' = clock + 1 /\ clock \in Nat
  BY DEF ServiceRead, TypeOK
<1>2. /\ q \in Requests /\ q.rev \in Revisions /\ record \in Records
      /\ record # None
  BY NoneAssumption DEF ServiceRead, TypeOK, Serving, Requests
<1>3. /\ entry'[w].ts = clock + 1
      /\ entry'[w].action = q.action
      /\ entry'[w].diff = IF q.action = "edit"
                          THEN ComputeDiff(record.content, q.edits) ELSE NoDiff
      /\ payload'[w] = IF q.action = "edit"
                       THEN ApplyEdits(record.content, q.edits) ELSE None
      /\ Presentable(record, q.action)
      /\ EditAllowed(record, q)
  BY DEF ServiceRead, TypeOK
<1> HIDE DEF q, record
<1>4. \A i \in DOMAIN record.history : record.history[i].ts <= clock
  BY <1>2 DEF SerialParts, Stamped, record
<1>5. \A i \in DOMAIN record.history : record.history[i].ts \in Nat
  <2>1. record.history \in Seq(Entries)
    BY <1>2 DEF Records
  <2>2. \A x \in Entries : x.ts \in Nat
    BY DEF Entries
  <2> QED
    BY <2>1, <2>2
<1>6. \A i \in DOMAIN record.history : record.history[i].ts < entry'[w].ts
  BY <1>1, <1>3, <1>4, <1>5
<1>7. entry'[w].action \in {"accept", "edit"} => record.status # "escalated"
  BY <1>3 DEF Presentable
<1>8. Explains(entry'[w].diff, record.content,
               IF payload'[w] # None THEN payload'[w] ELSE record.content)
  <2>1. CASE q.action = "edit"
    <3>1. q.edits \in Patches /\ record.content \in Contents
      BY <1>2, <1>3, <2>1 DEF EditAllowed, Requests, Records
    <3>2. payload'[w] = ApplyEdits(record.content, q.edits) /\ payload'[w] # None
      BY <1>3, <2>1, <3>1, ApplyEditsType, NoneAssumption
    <3>3. entry'[w].diff = ComputeDiff(record.content, q.edits)
      BY <1>3, <2>1
    <3>4. Explains(ComputeDiff(record.content, q.edits), record.content,
                   ApplyEdits(record.content, q.edits))
      BY DEF Explains, ComputeDiff, ApplyEdits
    <3> QED
      BY <3>2, <3>3, <3>4
  <2>2. CASE q.action # "edit"
    <3>1. payload'[w] = None /\ entry'[w].diff = NoDiff
      BY <1>3, <2>2
    <3> QED
      BY <3>1 DEF Explains, NoDiff
  <2> QED
    BY <2>1, <2>2
<1>9. Fits(record, payload'[w], entry'[w])
  BY <1>6, <1>7, <1>8 DEF Fits
<1>10. Alone'
  BY <1>1 DEF SerialParts, Alone, Serving
<1>11. Stamped'
  <2>1. \A v \in Workers : pc'[v] \in {"repo", "write"} => entry'[v].ts <= clock'
    <3>1. \A v \in Workers : v # w /\ pc[v] \in {"repo", "write"} =>
              entry[v].ts <= clock /\ entry[v].ts \in Nat
      BY DEF SerialParts, Stamped, TypeOK, Entries
    <3> QED
      BY <1>1, <1>3, <3>1
  <2>2. \A v \in Workers : pc'[v] = "write" =>
            \A i \in DOMAIN staged'[v].history : staged'[v].history[i].ts <= clock'
    <3> SUFFICES ASSUME NEW v \in Workers, pc'[v] = "write",
                        NEW i \in DOMAIN staged[v].history
                 PROVE  staged[v].history[i].ts <= clock + 1
      BY <1>1
    <3>1. pc[v] = "write" /\ staged[v].history \in Seq(Entries)
      BY <1>1 DEF TypeOK, Records
    <3>2. staged[v].history[i].ts <= clock
      BY <3>1 DEF SerialParts, Stamped
    <3>3. staged[v].history[i] \in Entries
      BY <3>1
    <3>4. staged[v].history[i].ts \in Nat
      BY <3>3 DEF Entries
    <3> QED
      BY <1>1, <3>2, <3>4
  <2>3. \A r \in Revisions : store'[r] # None =>
            \A i \in DOMAIN store'[r].history : store'[r].history[i].ts <= clock'
    <3> SUFFICES ASSUME NEW r \in Revisions, store[r] # None,
                        NEW i \in DOMAIN store[r].history
                 PROVE  store[r].history[i].ts <= clock + 1
      BY <1>1
    <3>1. store[r].history \in Seq(Entries)
      BY DEF TypeOK, Records
    <3>2. store[r].history[i].ts <= clock
      BY DEF SerialParts, Stamped
    <3>3. store[r].history[i] \in Entries
      BY <3>1
    <3>4. store[r].history[i].ts \in Nat
      BY <3>3 DEF Entries
    <3> QED
      BY <1>1, <3>2, <3>4
  <2> QED
    BY <2>1, <2>2, <2>3 DEF Stamped
<1>12. CopiesCurrent'
  BY <1>1, <1>9 DEF SerialParts, CopiesCurrent, record, q
<1>13. AppliedToRecords'
  BY <1>1 DEF SerialParts, AppliedToRecords
<1>14. RecordsOK'
  BY <1>1 DEF SerialParts, RecordsOK, DecisionsOn
<1> QED
  BY <1>10, <1>11, <1>12, <1>13, <1>14 DEF SerialParts

LEMMA SerialRepoRead ==
    ASSUME TypeOK, SerialParts, NEW w \in Workers, RepoRead(w)
    PROVE  SerialParts'
<1> DEFINE record == store[req[w].rev]
           base == Decided(record, payload[w], entry[w])
<1>1. /\ pc[w] = "repo" /\ pc'[w] = "write"
      /\ staged'[w] = base
      /\ \A v \in Workers : v # w => pc'[v] = pc[v] /\ staged'[v] = staged[v]
      /\ store' = store /\ req' = req /\ entry' = entry /\ payload' = payload
      /\ clock' = clock /\ origin' = origin /\ applied' = applied
      /\ overlapped' = overlapped
  BY DEF RepoRead, TypeOK
<1>2. /\ record \in Records /\ entry[w] \in Entries /\ req[w].rev \in Revisions
      /\ record # None
  BY NoneAssumption DEF RepoRead, TypeOK, Serving, Requests
<1>3. base.history = Append(record.history, entry[w])
  BY DEF Decided
<1>4. record.history \in Seq(Entries)
  BY <1>2 DEF Records
<1>5. \A i \in DOMAIN record.history : record.history[i].ts <= clock
  BY <1>2 DEF SerialParts, Stamped
<1>6. entry[w].ts <= clock
  BY <1>1 DEF SerialParts, Stamped
<1> HIDE DEF base, record
<1>7. \A i \in DOMAIN base.history : base.history[i].ts <= clock
  BY <1>2, <1>3, <1>4, <1>5, <1>6, AppendFacts
<1>8. Alone'
  BY <1>1 DEF SerialParts, Alone, Serving
<1>9. Stamped'
  BY <1>1, <1>7 DEF SerialParts, Stamped
<1>10. CopiesCurrent'
  BY <1>1 DEF SerialParts, CopiesCurrent, base, record
<1>11. AppliedToRecords'
  BY <1>1 DEF SerialParts, AppliedToRecords
<1>12. RecordsOK'
  BY <1>1 DEF SerialParts, RecordsOK, DecisionsOn
<1> QED
  BY <1>8, <1>9, <1>10, <1>11, <1>12 DEF SerialParts

(* The write of a thread that was alone appends to the record as it still is. *)
LEMMA SerialWrite ==
    ASSUME StatusIInv, SerialParts, NEW w \in Workers, RepoWrite(w)
    PROVE  SerialParts'
<1> DEFINE r == req[w].rev
           fresh == [rev |-> r, entry |-> entry[w]]
<1>1. TypeOK
  BY DEF StatusIInv
<1>2. /\ pc[w] = "write" /\ pc'[w] = "answer"
      /\ r \in Revisions /\ staged[w] \in Records /\ staged[w] # None
      /\ entry[w] \in Entries /\ payload[w] \in Contents \cup {None}
      /\ store[r] \in Records /\ store[r] # None
  BY <1>1, NoneAssumption DEF RepoWrite, TypeOK, Serving, Requests
<1>3. /\ \A s \in Revisions : store'[s] = IF s = r THEN staged[w] ELSE store[s]
      /\ applied' = applied \cup {fresh}
      /\ clock' = clock /\ origin' = origin /\ overlapped' = overlapped
  BY <1>1 DEF RepoWrite, TypeOK
<1>4. \A v \in Workers : Serving(v)' =>
          /\ v # w /\ pc'[v] = pc[v] /\ req'[v] = req[v] /\ entry'[v] = entry[v]
          /\ payload'[v] = payload[v] /\ staged'[v] = staged[v]
  BY <1>1, <1>2 DEF RepoWrite, Forget, Serving, TypeOK
<1>5. Alone'
  BY <1>3, <1>4 DEF SerialParts, Alone, Serving
<1>6. Stamped'
  BY <1>2, <1>3, <1>4 DEF SerialParts, Stamped, Serving
<1>7. CopiesCurrent'
  <2> SUFFICES ASSUME NEW v \in Workers, pc'[v] \in {"repo", "write"},
                      req'[v].rev \notin overlapped'
               PROVE  /\ Fits(store'[req'[v].rev], payload'[v], entry'[v])
                      /\ pc'[v] = "write" =>
                          staged'[v] = Decided(store'[req'[v].rev], payload'[v], entry'[v])
    BY DEF CopiesCurrent
  <2>1. /\ pc[v] \in {"repo", "write"} /\ v # w /\ req'[v] = req[v]
        /\ pc'[v] = pc[v] /\ entry'[v] = entry[v]
        /\ payload'[v] = payload[v] /\ staged'[v] = staged[v]
    BY <1>4 DEF Serving
  <2>2. req[v].rev \in Revisions /\ req[v].rev \notin overlapped
    BY <1>1, <1>3, <2>1 DEF TypeOK, Serving, Requests
  <2>3. req[v].rev # r
    BY <1>2, <2>1, <2>2 DEF SerialParts, Alone, Serving
  <2>4. store'[req'[v].rev] = store[req[v].rev]
    BY <1>3, <2>1, <2>2, <2>3
  <2> QED
    BY <2>1, <2>2, <2>4 DEF SerialParts, CopiesCurrent
<1>8. AppliedToRecords'
  <2>1. \A d \in applied : d.rev \in Revisions /\ store[d.rev] # None
    BY <1>1 DEF SerialParts, AppliedToRecords, TypeOK
  <2> QED
    BY <1>2, <1>3, <2>1 DEF AppliedToRecords
<1>9. \A s \in Revisions : DecisionsOn(s)' =
          IF s = r THEN DecisionsOn(s) \cup {fresh} ELSE DecisionsOn(s)
  BY <1>3 DEF DecisionsOn
<1>10. r \notin overlapped => RecordOK(staged[w], DecisionsOn(r) \cup {fresh}, origin[r])
  <2> SUFFICES ASSUME r \notin overlapped
               PROVE  RecordOK(staged[w], DecisionsOn(r) \cup {fresh}, origin[r])
    OBVIOUS
  <2>1. /\ Fits(store[r], payload[w], entry[w])
        /\ staged[w] = Decided(store[r], payload[w], entry[w])
    BY <1>2 DEF SerialParts, CopiesCurrent
  <2>2. RecordOK(store[r], DecisionsOn(r), origin[r])
    BY <1>2 DEF SerialParts, RecordsOK
  <2>3. StatusMatches(store[r])
    BY <1>2 DEF StatusIInv, StatusFollowsHistory, StatusMatches
  <2> HIDE DEF r
  <2>4. RecordOK(Decided(store[r], payload[w], entry[w]),
                 DecisionsOn(r) \cup {[rev |-> r, entry |-> entry[w]]}, origin[r])
    BY <1>2, <2>1, <2>2, <2>3, RecordStep
  <2> QED
    BY <2>1, <2>4
<1> HIDE DEF r, fresh
<1>11. RecordsOK'
  <2>1. \A s \in Revisions \ overlapped' : store'[s] # None =>
            RecordOK(store'[s], DecisionsOn(s)', origin'[s])
    <3> SUFFICES ASSUME NEW s \in Revisions \ overlapped, store'[s] # None
                 PROVE  RecordOK(store'[s], DecisionsOn(s)', origin[s])
      BY <1>3
    <3>1. CASE s = r
      BY <1>2, <1>3, <1>9, <1>10, <3>1
    <3>2. CASE s # r
      BY <1>3, <1>9, <3>2 DEF SerialParts, RecordsOK
    <3> QED
      BY <3>1, <3>2
  <2> QED
    BY <2>1 DEF RecordsOK
<1> QED
  BY <1>5, <1>6, <1>7, <1>8, <1>11 DEF SerialParts

LEMMA SerialNext == SerialIInv /\ [Next]_vars => SerialIInv'
<1> SUFFICES ASSUME SerialIInv, [Next]_vars
             PROVE  SerialIInv'
  OBVIOUS
<1>1. StatusIInv /\ StatusIInv' /\ TypeOK /\ SerialParts
  BY StatusNext DEF SerialIInv, StatusIInv
<1>2. ASSUME Next PROVE SerialParts'
  BY <1>1, <1>2, SerialCreate, SerialSubmit, SerialEnd, SerialServiceRead,
     SerialRepoRead, SerialWrite DEF Next, Actions
<1>3. ASSUME UNCHANGED vars PROVE SerialParts'
  BY <1>1, <1>3 DEF vars, threadVars, SerialParts, Alone, Stamped, CopiesCurrent,
                    AppliedToRecords, RecordsOK, DecisionsOn, Serving
<1> QED
  BY <1>1, <1>2, <1>3 DEF SerialIInv

LEMMA SerialInvariant == Spec => []SerialIInv
<1>1. Init => SerialIInv
  <2> SUFFICES ASSUME Init PROVE SerialIInv
    OBVIOUS
  <2>1. StatusIInv
    BY TypeInit DEF Init, StatusIInv, StatusFollowsHistory, StagedStatusMatches
  <2>2. SerialParts
    BY DEF Init, SerialParts, Alone, Stamped, CopiesCurrent, AppliedToRecords, RecordsOK,
              Serving
  <2> QED
    BY <2>1, <2>2 DEF SerialIInv
<1>2. SerialIInv /\ [Next]_vars => SerialIInv'
  BY SerialNext
<1> QED
  BY <1>1, <1>2, PTL DEF Spec

(* Where no two requests overlapped on a revision, its history holds every     *)
(* committed decision, in the order of the timestamps.                      *)
THEOREM SerialHistoryIsComplete == Spec => []SerialHistoryComplete
<1>1. SerialIInv => SerialHistoryComplete
  BY DEF SerialIInv, SerialParts, RecordsOK, RecordOK, CompleteOK, DecisionsOn,
         SerialHistoryComplete
<1> QED
  BY <1>1, SerialInvariant, PTL

(* Where no two requests overlapped, the diffs account for the content.        *)
THEOREM SerialContentIsExplained == Spec => []SerialContentExplained
<1>1. SerialIInv => SerialContentExplained
  BY DEF SerialIInv, SerialParts, RecordsOK, RecordOK, ExplainedOK,
         SerialContentExplained
<1> QED
  BY <1>1, SerialInvariant, PTL

(* Where no two requests overlapped, an escalated record is not accepted or    *)
(* edited by the very next decision.                                           *)
THEOREM SerialEscalationIsKept == Spec => []SerialEscalationHolds
<1>1. SerialIInv => SerialEscalationHolds
  BY DEF SerialIInv, SerialParts, RecordsOK, RecordOK, EscalationOK,
         SerialEscalationHolds
<1> QED
  BY <1>1, SerialInvariant, PTL

--------------------------------------------------------------------------------
(* Whatever races, a history holds committed decisions only.  The timestamp    *)
(* of an entry on its way is in no committed decision yet, and no other        *)
(* thread holds it.                                                            *)

Committed(r, h, decisions) == \A i \in DOMAIN h : [rev |-> r, entry |-> h[i]] \in decisions

Distinct(h) == \A i, j \in DOMAIN h : i # j => h[i].ts # h[j].ts

Busy(w) == pc[w] \in {"repo", "write"}

FreshEntries ==
    /\ \A d \in applied : d.entry.ts <= clock
    /\ \A w \in Workers : Busy(w) =>
        /\ entry[w].ts <= clock
        /\ \A d \in applied : d.entry.ts # entry[w].ts
        /\ \A v \in Workers : Busy(v) /\ v # w => entry[v].ts # entry[w].ts

(* A record about to be written extends a committed history by one entry.   *)
Extends(r, h, e) ==
    \E old \in Seq(Entries) :
        h = Append(old, e) /\ Committed(r, old, applied) /\ Distinct(old)

StagedExtends ==
    \A w \in Workers : pc[w] = "write" => Extends(req[w].rev, staged[w].history, entry[w])

GenuineIInv == TypeOK /\ HistoryIsGenuine /\ FreshEntries /\ StagedExtends

LEMMA GenuineNext == GenuineIInv /\ [Next]_vars => GenuineIInv'
<1> SUFFICES ASSUME GenuineIInv, [Next]_vars
             PROVE  GenuineIInv'
  OBVIOUS
<1>1. TypeOK /\ TypeOK'
  BY TypeNext DEF GenuineIInv
<1>2. \A r \in Revisions : store[r] # None =>
          Committed(r, store[r].history, applied) /\ Distinct(store[r].history)
  BY DEF GenuineIInv, HistoryIsGenuine, Committed, Distinct
<1>3. FreshEntries /\ StagedExtends
  BY DEF GenuineIInv
<1> DEFINE Goal == /\ \A r \in Revisions : store'[r] # None =>
                        Committed(r, store'[r].history, applied') /\ Distinct(store'[r].history)
                   /\ FreshEntries'
                   /\ StagedExtends'
<1>4. SUFFICES Goal
  BY <1>1 DEF GenuineIInv, HistoryIsGenuine, Committed, Distinct
<1>5. ASSUME NEW r \in Revisions, NEW content \in Contents, CreateRevision(r, content)
      PROVE  Goal
  <2>1. /\ store'[r].history = <<>>
        /\ \A s \in Revisions : s # r => store'[s] = store[s]
        /\ pc' = pc /\ req' = req /\ entry' = entry /\ staged' = staged
        /\ clock' = clock /\ applied' = applied
    BY <1>1, <1>5 DEF CreateRevision, threadVars, TypeOK
  <2>2. \A s \in Revisions : store'[s] # None =>
            Committed(s, store'[s].history, applied') /\ Distinct(store'[s].history)
    BY <1>2, <2>1 DEF Committed, Distinct
  <2> QED
    BY <1>3, <2>1, <2>2 DEF FreshEntries, Busy, StagedExtends, Extends, Committed
<1>6. ASSUME NEW w \in Workers, NEW r \in Revisions, NEW action \in Actions,
             NEW edits \in Patches \cup {None}, Submit(w, r, action, edits)
      PROVE  Goal
  <2>1. /\ pc'[w] = "service"
        /\ \A v \in Workers : v # w => pc'[v] = pc[v] /\ req'[v] = req[v]
        /\ store' = store /\ entry' = entry /\ staged' = staged
        /\ clock' = clock /\ applied' = applied
    BY <1>1, <1>6 DEF Submit, TypeOK
  <2> QED
    BY <1>2, <1>3, <2>1 DEF FreshEntries, Busy, StagedExtends, Extends, Committed
<1>7. ASSUME NEW w \in Workers, ServiceRefuse(w) \/ RepoRefuse(w) \/ Fail(w) \/ Answer(w)
      PROVE  Goal
  <2>1. store' = store /\ clock' = clock /\ applied' = applied
    BY <1>7 DEF ServiceRefuse, RepoRefuse, Fail, Answer
  <2>2. \A v \in Workers : pc'[v] \in {"repo", "write"} =>
            /\ pc'[v] = pc[v] /\ req'[v] = req[v]
            /\ entry'[v] = entry[v] /\ staged'[v] = staged[v]
    BY <1>1, <1>7 DEF ServiceRefuse, RepoRefuse, Fail, Answer, Finish, Forget, TypeOK
  <2>3. FreshEntries'
    BY <1>3, <2>1, <2>2 DEF FreshEntries, Busy
  <2>4. StagedExtends'
    BY <1>3, <2>1, <2>2 DEF StagedExtends, Extends, Committed
  <2> QED
    BY <1>2, <2>1, <2>3, <2>4
<1>8. ASSUME NEW w \in Workers, ServiceRead(w)
      PROVE  Goal
  <2>1. /\ pc'[w] = "repo" /\ entry'[w].ts = clock + 1
        /\ \A v \in Workers : v # w => pc'[v] = pc[v] /\ entry'[v] = entry[v]
        /\ store' = store /\ req' = req /\ staged' = staged /\ applied' = applied
        /\ clock' = clock + 1 /\ clock \in Nat
    BY <1>1, <1>8 DEF ServiceRead, TypeOK
  <2>2. \A d \in applied : d.entry.ts \in Nat /\ d.entry.ts <= clock
    BY <1>1, <1>3 DEF TypeOK, Entries, FreshEntries
  <2>3. \A v \in Workers : Busy(v) => entry[v].ts \in Nat /\ entry[v].ts <= clock
    BY <1>1, <1>3 DEF TypeOK, Busy, Entries, FreshEntries
  <2>4. FreshEntries'
    <3>1. \A d \in applied' : d.entry.ts <= clock'
      BY <2>1, <2>2
    <3>2. \A v \in Workers : Busy(v)' =>
              entry'[v].ts <= clock' /\ \A d \in applied' : d.entry.ts # entry'[v].ts
      BY <1>3, <2>1, <2>2, <2>3 DEF FreshEntries, Busy
    <3>3. \A v, u \in Workers : Busy(v)' /\ Busy(u)' /\ v # u =>
              entry'[v].ts # entry'[u].ts
      BY <1>3, <2>1, <2>3 DEF FreshEntries, Busy
    <3> QED
      BY <3>1, <3>2, <3>3 DEF FreshEntries, Busy
  <2> QED
    BY <1>2, <1>3, <2>1, <2>4 DEF StagedExtends, Extends, Committed
<1>9. ASSUME NEW w \in Workers, RepoRead(w)
      PROVE  Goal
  <2>1. /\ pc[w] = "repo" /\ pc'[w] = "write"
        /\ staged'[w] = Decided(store[req[w].rev], payload[w], entry[w])
        /\ \A v \in Workers : v # w => pc'[v] = pc[v] /\ staged'[v] = staged[v]
        /\ store' = store /\ req' = req /\ entry' = entry
        /\ clock' = clock /\ applied' = applied
    BY <1>1, <1>9 DEF RepoRead, TypeOK
  <2>2. /\ req[w].rev \in Revisions /\ store[req[w].rev] # None
        /\ store[req[w].rev].history \in Seq(Entries)
    BY <1>1, <2>1, NoneAssumption DEF TypeOK, Serving, Requests, Records
  <2>3. staged'[w].history = Append(store[req[w].rev].history, entry[w])
    BY <2>1 DEF Decided
  <2>4. Extends(req[w].rev, staged'[w].history, entry[w])
    BY <1>2, <2>2, <2>3 DEF Extends
  <2>5. StagedExtends'
    BY <1>3, <2>1, <2>4 DEF StagedExtends, Extends, Committed
  <2>6. FreshEntries'
    BY <1>3, <2>1 DEF FreshEntries, Busy
  <2> QED
    BY <1>2, <2>1, <2>5, <2>6 DEF Committed
<1>10. ASSUME NEW w \in Workers, RepoWrite(w)
       PROVE  Goal
  <2> DEFINE r == req[w].rev
             h == staged[w].history
  <2>1. /\ pc[w] = "write" /\ pc'[w] = "answer"
        /\ r \in Revisions /\ entry[w] \in Entries
        /\ \A s \in Revisions : store'[s] = IF s = r THEN staged[w] ELSE store[s]
        /\ applied' = applied \cup {[rev |-> r, entry |-> entry[w]]}
        /\ clock' = clock
    BY <1>1, <1>10 DEF RepoWrite, TypeOK, Serving, Requests
  <2>2. \A v \in Workers : pc'[v] \in {"repo", "write"} =>
            /\ v # w /\ pc'[v] = pc[v] /\ req'[v] = req[v]
            /\ entry'[v] = entry[v] /\ staged'[v] = staged[v]
    BY <1>1, <2>1, <1>10 DEF RepoWrite, Forget, TypeOK
  <2>3. PICK old \in Seq(Entries) :
            h = Append(old, entry[w]) /\ Committed(r, old, applied) /\ Distinct(old)
    BY <1>3, <2>1 DEF StagedExtends, Extends
  <2>4. \A d \in applied : d.entry.ts # entry[w].ts
    BY <1>3, <2>1 DEF FreshEntries, Busy
  <2> HIDE DEF h, r
  <2>5. /\ Len(old) \in Nat
        /\ DOMAIN old = 1..Len(old) /\ DOMAIN h = 1..(Len(old) + 1)
        /\ \A i \in 1..Len(old) : h[i] = old[i]
        /\ h[Len(old) + 1] = entry[w]
    BY <2>1, <2>3, AppendFacts
  <2>6. \A i \in 1..Len(old) : old[i].ts # entry[w].ts
    <3>1. \A i \in 1..Len(old) : [rev |-> r, entry |-> old[i]] \in applied
      BY <2>3, <2>5 DEF Committed
    <3> QED
      BY <2>4, <3>1
  <2>7. Distinct(h)
    BY <2>3, <2>5, <2>6 DEF Distinct
  <2>8. Committed(r, h, applied')
    BY <2>1, <2>3, <2>5 DEF Committed
  <2>9. \A s \in Revisions : store'[s] # None =>
            Committed(s, store'[s].history, applied') /\ Distinct(store'[s].history)
    BY <1>2, <2>1, <2>7, <2>8 DEF Committed, h
  <2>10. FreshEntries'
    BY <1>3, <2>1, <2>2 DEF FreshEntries, Busy
  <2>11. StagedExtends'
    BY <1>3, <2>1, <2>2 DEF StagedExtends, Extends, Committed
  <2> QED
    BY <2>9, <2>10, <2>11
<1>11. CASE UNCHANGED vars
  BY <1>2, <1>3, <1>11
  DEF vars, threadVars, FreshEntries, Busy, StagedExtends, Extends, Committed
<1> QED
  BY <1>4, <1>5, <1>6, <1>7, <1>8, <1>9, <1>10, <1>11 DEF Next, Actions

(* Under any interleaving, a history holds only decisions committed for its    *)
(* own revision, none of them twice.                                           *)
THEOREM HistoryIsGenuineAlways == Spec => []HistoryIsGenuine
<1>1. Init => GenuineIInv
  <2> SUFFICES ASSUME Init PROVE GenuineIInv
    OBVIOUS
  <2> QED
    BY TypeInit DEF Init, GenuineIInv, HistoryIsGenuine, FreshEntries, Busy, StagedExtends
<1>2. GenuineIInv /\ [Next]_vars => GenuineIInv'
  BY GenuineNext
<1>3. GenuineIInv => HistoryIsGenuine
  BY DEF GenuineIInv
<1> QED
  BY <1>1, <1>2, <1>3, PTL DEF Spec
================================================================================
