----------------------- MODULE ChangesetPublicationProofs -----------------------
(***************************************************************************)
(* Proofs about ChangesetPublication, for every set of change sets and of  *)
(* threads and every bound on the number of operations.                    *)
(***************************************************************************)
EXTENDS ChangesetPublication, FiniteSetTheorems, WellFoundedInduction, TLAPS

USE NoneAssumption

--------------------------------------------------------------------------------
(* What the operators return. *)

(* A report sends a change set to one of its statuses. *)
LEMMA ResolveStatusType ==
    ASSUME NEW c \in Changesets, NEW current \in Statuses
    PROVE  ResolveStatusAfterValidation(c, current) \in Statuses
BY DEF ResolveStatusAfterValidation, Statuses

(* The merged payload has the patch's status, its link if it has one, and the  *)
(* base the change set was stored with.                                        *)
LEMMA MergePatchFields ==
    ASSUME NEW existing \in Payloads, NEW p \in Patches
    PROVE  /\ MergePatch(existing, p) \in Payloads
           /\ MergePatch(existing, p).status = p.status
           /\ MergePatch(existing, p).base_snapshot_id = existing.base_snapshot_id
           /\ MergePatch(existing, p).published_snapshot_id =
                  IF p.link # None THEN p.link ELSE existing.published_snapshot_id
BY DEF MergePatch, Payloads, Patches

(* The answer of a head query is a snapshot id or None. *)
LEMMA HeadAnswersType ==
    ASSUME heads \subseteq SnapshotIds
    PROVE  HeadAnswers \subseteq SnapshotIds \cup {None}
BY DEF HeadAnswers

--------------------------------------------------------------------------------
(* Type correctness. *)

LEMMA TypeInit == Init => TypeOK
<1> SUFFICES ASSUME Init
             PROVE  TypeOK
  OBVIOUS
<1>1. /\ changeset \in [Changesets -> Payloads \cup {None}]
      /\ heads \subseteq SnapshotIds /\ snapshots \subseteq Snapshots
      /\ nextId \in Nat /\ requests \in Nat
      /\ approvals \subseteq Changesets /\ overlapped \subseteq Changesets
  BY DEF Init
<1>2. /\ pc \in [Workers -> Steps]
      /\ target \in [Workers -> Changesets \cup {None}]
      /\ patch \in [Workers -> Patches \cup {None}]
      /\ merged \in [Workers -> Payloads \cup {None}]
      /\ tx \in [Workers -> Transactions \cup {None}]
      /\ \A w \in Workers : pc[w] = "idle"
  BY DEF Init, Steps
<1>3. publishersMet \in BOOLEAN
  BY DEF Init
<1> QED
  BY <1>1, <1>2, <1>3 DEF TypeOK

(* A thread past a step has what the step read. *)
ThreadsOK ==
    \A w \in Workers :
        /\ pc[w] # "idle" => target[w] \in Changesets /\ changeset[target[w]] \in Payloads
        /\ pc[w] \in {"merge", "write"} => patch[w] \in Patches
        /\ pc[w] = "write" => merged[w] \in Payloads
        /\ pc[w] \in {"swap", "commit"} => tx[w] \in Transactions

(* A thread that finishes leaves the thread variables typed. *)
LEMMA TypeFinish ==
    ASSUME TypeOK, NEW w \in Workers, Finish(w),
           \A c \in Changesets : changeset[c] \in Payloads => changeset'[c] \in Payloads
    PROVE  /\ pc' \in [Workers -> Steps]
           /\ target' \in [Workers -> Changesets \cup {None}]
           /\ patch' \in [Workers -> Patches \cup {None}]
           /\ merged' \in [Workers -> Payloads \cup {None}]
           /\ tx' \in [Workers -> Transactions \cup {None}]
           /\ ThreadsOK'
<1>1. \A v \in Workers : pc'[v] # "idle" =>
        /\ pc'[v] = pc[v] /\ target'[v] = target[v] /\ patch'[v] = patch[v]
        /\ merged'[v] = merged[v] /\ tx'[v] = tx[v]
  BY DEF Finish, TypeOK
<1>2. /\ pc' \in [Workers -> Steps]
      /\ target' \in [Workers -> Changesets \cup {None}]
      /\ patch' \in [Workers -> Patches \cup {None}]
      /\ merged' \in [Workers -> Payloads \cup {None}]
      /\ tx' \in [Workers -> Transactions \cup {None}]
  BY DEF TypeOK, Finish, Steps
<1>3. ThreadsOK
  BY DEF TypeOK, ThreadsOK
<1>4. ThreadsOK'
  BY <1>1, <1>3 DEF ThreadsOK
<1> QED
  BY <1>2, <1>4

LEMMA TypeNext == TypeOK /\ [Next]_vars => TypeOK'
<1> SUFFICES ASSUME TypeOK, [Next]_vars
             PROVE  TypeOK'
  OBVIOUS
<1>t. ThreadsOK
  BY DEF TypeOK, ThreadsOK
<1>1. ASSUME NEW c \in Changesets, NEW base \in heads \cup {None}, Create(c, base)
      PROVE  TypeOK'
  <2> DEFINE row == [status |-> "draft", base_snapshot_id |-> base,
                     published_snapshot_id |-> None]
  <2>1. row \in Payloads
    BY DEF Payloads, Statuses, TypeOK
  <2> HIDE DEF row
  <2>2. changeset' = [changeset EXCEPT ![c] = row]
    BY <1>1 DEF Create, row
  <2>3. /\ changeset' \in [Changesets -> Payloads \cup {None}]
        /\ \A d \in Changesets : changeset[d] \in Payloads => changeset'[d] \in Payloads
    BY <2>1, <2>2 DEF TypeOK
  <2>4. UNCHANGED <<heads, snapshots, nextId, pc, target, patch, merged, tx, requests,
                    approvals, overlapped, publishersMet>>
    BY <1>1 DEF Create, threadVars, ghostVars
  <2> QED
    BY <2>3, <2>4 DEF TypeOK
<1>2. ASSUME NEW w \in Workers, NEW c \in Changesets,
             ValidateRead(w, c) \/ ApproveRead(w, c)
      PROVE  TypeOK'
  <2>1. changeset[c] \in Payloads /\ Start(w, c) /\ publishersMet' = publishersMet
    BY <1>2 DEF ValidateRead, ApproveRead, Start, TypeOK
  <2>2. \E s \in Statuses : patch' = [patch EXCEPT ![w] = [status |-> s, link |-> None]]
    BY <1>2, <2>1, ResolveStatusType DEF ValidateRead, ApproveRead, Payloads, Statuses
  <2>3. patch' \in [Workers -> Patches \cup {None}] /\ patch'[w] \in Patches
    BY <2>2 DEF TypeOK, Patches
  <2>4. pc' = [pc EXCEPT ![w] = "merge"] /\ \A v \in Workers : v # w => patch'[v] = patch[v]
    BY <1>2, <2>2 DEF ValidateRead, ApproveRead, TypeOK
  <2>5. UNCHANGED <<changeset, heads, snapshots, nextId, merged, tx, approvals>>
    BY <2>1 DEF Start
  <2>6. /\ requests' \in Nat /\ overlapped' \subseteq Changesets
        /\ target' = [target EXCEPT ![w] = c]
    BY <2>1 DEF Start, TypeOK
  <2>7. /\ pc' \in [Workers -> Steps] /\ target' \in [Workers -> Changesets \cup {None}]
        /\ pc'[w] = "merge" /\ target'[w] = c
        /\ \A v \in Workers : v # w => pc'[v] = pc[v] /\ target'[v] = target[v]
    BY <2>4, <2>6 DEF TypeOK, Steps
  <2>8. ThreadsOK'
    BY <1>t, <2>1, <2>3, <2>4, <2>5, <2>7 DEF ThreadsOK
  <2> QED
    BY <2>1, <2>3, <2>5, <2>6, <2>7, <2>8 DEF TypeOK, ThreadsOK
<1>3. ASSUME NEW w \in Workers, NEW c \in Changesets, PublishRead(w, c)
      PROVE  TypeOK'
  <2>1. /\ changeset[c] \in Payloads /\ Start(w, c) /\ publishersMet' \in BOOLEAN
        /\ pc' = [pc EXCEPT ![w] = "head"] /\ patch' = patch
    BY <1>3 DEF PublishRead, Start, TypeOK, Publishing
  <2>2. UNCHANGED <<changeset, heads, snapshots, nextId, merged, tx, approvals>>
    BY <2>1 DEF Start
  <2>3. /\ requests' \in Nat /\ overlapped' \subseteq Changesets
        /\ target' = [target EXCEPT ![w] = c]
    BY <2>1 DEF Start, TypeOK
  <2>4. /\ pc' \in [Workers -> Steps] /\ target' \in [Workers -> Changesets \cup {None}]
        /\ pc'[w] = "head" /\ target'[w] = c
        /\ \A v \in Workers : v # w => pc'[v] = pc[v] /\ target'[v] = target[v]
    BY <2>1, <2>3 DEF TypeOK, Steps
  <2>5. ThreadsOK'
    BY <1>t, <2>1, <2>2, <2>4 DEF ThreadsOK
  <2> QED
    BY <2>1, <2>2, <2>3, <2>4, <2>5 DEF TypeOK, ThreadsOK
<1>4. ASSUME NEW w \in Workers, HeadRead(w)
      PROVE  TypeOK'
  <2>1. /\ pc' = [pc EXCEPT ![w] = "begin"] /\ pc[w] = "head"
        /\ UNCHANGED <<changeset, heads, snapshots, nextId, target, patch, merged, tx,
                       requests, approvals, overlapped, publishersMet>>
    BY <1>4 DEF HeadRead, ghostVars
  <2> QED
    BY <2>1 DEF TypeOK, Steps
<1>5. ASSUME NEW w \in Workers, HeadMoved(w) \/ Fail(w)
      PROVE  TypeOK'
  <2>1. /\ Finish(w)
        /\ UNCHANGED <<changeset, heads, snapshots, nextId, requests, approvals,
                       overlapped, publishersMet>>
    BY <1>5 DEF HeadMoved, Fail, ghostVars
  <2> QED
    BY <2>1, TypeFinish DEF TypeOK, ThreadsOK
<1>6. ASSUME NEW w \in Workers, TxBegin(w)
      PROVE  TypeOK'
  <2>1. PICK h \in HeadAnswers :
            tx' = [tx EXCEPT ![w] = [id |-> nextId, superseded |-> h, matched |-> {}]]
    BY <1>6 DEF TxBegin
  <2>2. [id |-> nextId, superseded |-> h, matched |-> {}] \in Transactions
    BY HeadAnswersType DEF TypeOK, Transactions, SnapshotIds
  <2>3. /\ pc' = [pc EXCEPT ![w] = "swap"] /\ pc[w] = "begin" /\ nextId' = nextId + 1
        /\ UNCHANGED <<changeset, heads, snapshots, target, patch, merged,
                       requests, approvals, overlapped, publishersMet>>
    BY <1>6 DEF TxBegin, ghostVars
  <2>4. nextId' \in Nat
    BY <2>3 DEF TypeOK
  <2>5. /\ pc' \in [Workers -> Steps] /\ tx' \in [Workers -> Transactions \cup {None}]
        /\ pc'[w] = "swap" /\ tx'[w] \in Transactions
        /\ \A v \in Workers : v # w => pc'[v] = pc[v] /\ tx'[v] = tx[v]
    BY <2>1, <2>2, <2>3 DEF TypeOK, Steps
  <2> QED
    BY <2>3, <2>4, <2>5 DEF TypeOK
<1>7. ASSUME NEW w \in Workers, TxSwap(w)
      PROVE  TypeOK'
  <2>1. tx[w] \in Transactions /\ tx' = [tx EXCEPT ![w] = [tx[w] EXCEPT !.matched = heads]]
    BY <1>7 DEF TxSwap, TypeOK
  <2>2. [tx[w] EXCEPT !.matched = heads] \in Transactions
    BY <2>1 DEF TypeOK, Transactions
  <2>3. /\ pc' = [pc EXCEPT ![w] = "commit"] /\ pc[w] = "swap"
        /\ UNCHANGED <<changeset, heads, snapshots, nextId, target, patch, merged,
                       requests, approvals, overlapped, publishersMet>>
    BY <1>7 DEF TxSwap, ghostVars
  <2> QED
    BY <2>1, <2>2, <2>3 DEF TypeOK, Steps
<1>8. ASSUME NEW w \in Workers, TxCommit(w)
      PROVE  TypeOK'
  <2>1. /\ pc[w] = "commit" /\ tx[w] \in Transactions /\ target[w] \in Changesets
        /\ pc' = [pc EXCEPT ![w] = "merge"]
        /\ UNCHANGED <<changeset, nextId, target, merged, tx,
                       requests, approvals, overlapped, publishersMet>>
    BY <1>8 DEF TxCommit, TypeOK, ghostVars
  <2>2. tx[w].id \in SnapshotIds /\ tx[w].superseded \in SnapshotIds \cup {None}
    BY <2>1 DEF Transactions
  <2>3. heads' \subseteq SnapshotIds /\ snapshots' \subseteq Snapshots
    BY <1>8, <2>1, <2>2 DEF TxCommit, TypeOK, Snapshots
  <2>4. [status |-> "published", link |-> tx[w].id] \in Patches
    BY <2>2 DEF Patches, Statuses
  <2>5. patch' = [patch EXCEPT ![w] = [status |-> "published", link |-> tx[w].id]]
    BY <1>8 DEF TxCommit
  <2> QED
    BY <2>1, <2>3, <2>4, <2>5 DEF TypeOK, Steps
<1>9. ASSUME NEW w \in Workers, UpdateRead(w)
      PROVE  TypeOK'
  <2> DEFINE row == MergePatch(changeset[target[w]], patch[w])
  <2>1. row \in Payloads
    BY <1>9, MergePatchFields DEF UpdateRead, TypeOK
  <2> HIDE DEF row
  <2>2. /\ merged' = [merged EXCEPT ![w] = row]
        /\ pc[w] = "merge" /\ pc' = [pc EXCEPT ![w] = "write"]
        /\ UNCHANGED <<changeset, heads, snapshots, nextId, target, patch, tx,
                       requests, approvals, overlapped, publishersMet>>
    BY <1>9 DEF UpdateRead, ghostVars, row
  <2> QED
    BY <2>1, <2>2 DEF TypeOK, Steps
<1>10. ASSUME NEW w \in Workers, UpdateWrite(w)
      PROVE  TypeOK'
  <2>1. merged[w] \in Payloads /\ target[w] \in Changesets /\ Finish(w)
    BY <1>10 DEF UpdateWrite, TypeOK
  <2>2. changeset' = [changeset EXCEPT ![target[w]] = merged[w]]
    BY <1>10 DEF UpdateWrite
  <2>3. /\ changeset' \in [Changesets -> Payloads \cup {None}]
        /\ \A c \in Changesets : changeset[c] \in Payloads => changeset'[c] \in Payloads
    BY <2>1, <2>2 DEF TypeOK
  <2>4. /\ approvals' \subseteq Changesets
        /\ UNCHANGED <<heads, snapshots, nextId, requests, overlapped, publishersMet>>
    BY <1>10, <2>1 DEF UpdateWrite, TypeOK
  <2> QED
    BY <2>1, <2>3, <2>4, TypeFinish DEF TypeOK, ThreadsOK
<1>11. CASE UNCHANGED vars
  BY <1>11 DEF vars, threadVars, ghostVars, TypeOK
<1> QED
  BY <1>1, <1>2, <1>3, <1>4, <1>5, <1>6, <1>7, <1>8, <1>9, <1>10, <1>11 DEF Next

(* Every reachable state is well typed. *)
THEOREM TypeCorrect == Spec => []TypeOK
<1>1. Init => TypeOK
  BY TypeInit
<1>2. TypeOK /\ [Next]_vars => TypeOK'
  BY TypeNext
<1> QED
  BY <1>1, <1>2, PTL DEF Spec

--------------------------------------------------------------------------------
(* What each step does, thread by thread. *)

Unmoved(v) ==
    /\ pc'[v] = pc[v] /\ target'[v] = target[v] /\ patch'[v] = patch[v]
    /\ merged'[v] = merged[v] /\ tx'[v] = tx[v]

(* Only a thread at work elsewhere is still at work. *)
LEMMA FinishEffect ==
    ASSUME TypeOK, NEW w \in Workers, Finish(w)
    PROVE  /\ pc'[w] = "idle"
           /\ \A v \in Workers : v # w => Unmoved(v)
BY DEF Finish, TypeOK, Unmoved

LEMMA CreateEffect ==
    ASSUME TypeOK, NEW c \in Changesets, NEW base \in heads \cup {None}, Create(c, base)
    PROVE  /\ changeset[c] = None
           /\ changeset'[c].status = "draft" /\ changeset'[c].published_snapshot_id = None
           /\ \A d \in Changesets : changeset[d] \in Payloads => changeset'[d] = changeset[d]
           /\ \A d \in Changesets : d # c => changeset'[d] = changeset[d]
           /\ UNCHANGED <<heads, snapshots, nextId, pc, target, patch, merged, tx,
                          approvals, overlapped, publishersMet>>
BY DEF Create, TypeOK, threadVars, ghostVars

(* A thread starts to validate or to approve. *)
LEMMA ReviewReadEffect ==
    ASSUME TypeOK, NEW w \in Workers, NEW c \in Changesets,
           ValidateRead(w, c) \/ ApproveRead(w, c)
    PROVE  /\ pc[w] = "idle" /\ pc'[w] = "merge" /\ target'[w] = c
           /\ changeset[c] \in Payloads
           /\ patch'[w].link = None
           /\ patch'[w].status =
                  IF ValidateRead(w, c)
                  THEN ResolveStatusAfterValidation(c, changeset[c].status) ELSE "approved"
           /\ ~ValidateRead(w, c) => changeset[c].status = "validated"
           /\ \A v \in Workers : v # w => Unmoved(v)
           /\ overlapped' = IF WorkingOn(c) # {} THEN overlapped \cup {c} ELSE overlapped
           /\ UNCHANGED <<changeset, heads, snapshots, nextId, merged, tx, approvals,
                          publishersMet>>
<1>1. /\ Start(w, c) /\ pc' = [pc EXCEPT ![w] = "merge"] /\ UNCHANGED publishersMet
      /\ patch' = [patch EXCEPT ![w] =
            [status |-> IF ValidateRead(w, c)
                        THEN ResolveStatusAfterValidation(c, changeset[c].status)
                        ELSE "approved",
             link |-> None]]
      /\ ~ValidateRead(w, c) => changeset[c].status = "validated"
  BY DEF ValidateRead, ApproveRead
<1>2. patch'[w].link = None /\ \A v \in Workers : v # w => patch'[v] = patch[v]
  BY <1>1 DEF TypeOK
<1>3. patch'[w].status = IF ValidateRead(w, c)
                         THEN ResolveStatusAfterValidation(c, changeset[c].status)
                         ELSE "approved"
  BY <1>1 DEF TypeOK
<1>4. /\ target' = [target EXCEPT ![w] = c] /\ pc[w] = "idle" /\ changeset[c] \in Payloads
      /\ overlapped' = IF WorkingOn(c) # {} THEN overlapped \cup {c} ELSE overlapped
      /\ UNCHANGED <<changeset, heads, snapshots, nextId, merged, tx, approvals>>
  BY <1>1 DEF Start, TypeOK
<1> QED
  BY <1>1, <1>2, <1>3, <1>4 DEF TypeOK, Unmoved

LEMMA PublishReadEffect ==
    ASSUME TypeOK, NEW w \in Workers, NEW c \in Changesets, PublishRead(w, c)
    PROVE  /\ pc[w] = "idle" /\ pc'[w] = "head" /\ target'[w] = c
           /\ changeset[c] \in Payloads /\ changeset[c].status = "approved"
           /\ c \in Passing
           /\ \A v \in Workers : v # w => Unmoved(v)
           /\ overlapped' = IF WorkingOn(c) # {} THEN overlapped \cup {c} ELSE overlapped
           /\ publishersMet' = (publishersMet \/ \E v \in Workers : Publishing(v))
           /\ UNCHANGED <<changeset, heads, snapshots, nextId, patch, merged, tx, approvals>>
<1>1. /\ Start(w, c) /\ pc' = [pc EXCEPT ![w] = "head"] /\ patch' = patch
      /\ changeset[c].status = "approved" /\ c \in Passing
      /\ publishersMet' = (publishersMet \/ \E v \in Workers : Publishing(v))
  BY DEF PublishRead
<1>2. /\ target' = [target EXCEPT ![w] = c] /\ pc[w] = "idle" /\ changeset[c] \in Payloads
      /\ overlapped' = IF WorkingOn(c) # {} THEN overlapped \cup {c} ELSE overlapped
      /\ UNCHANGED <<changeset, heads, snapshots, nextId, merged, tx, approvals>>
  BY <1>1 DEF Start, TypeOK
<1> QED
  BY <1>1, <1>2 DEF TypeOK, Unmoved

LEMMA HeadReadEffect ==
    ASSUME TypeOK, NEW w \in Workers, HeadRead(w)
    PROVE  /\ pc[w] = "head" /\ pc'[w] = "begin" /\ target[w] \in Changesets
           /\ changeset[target[w]].base_snapshot_id \in HeadAnswers
           /\ \A v \in Workers : v # w => Unmoved(v)
           /\ UNCHANGED <<changeset, heads, snapshots, nextId, target, patch, merged, tx,
                          approvals, overlapped, publishersMet>>
BY DEF HeadRead, TypeOK, Unmoved, ghostVars

(* A thread gives up, or its head has moved. *)
LEMMA GiveUpEffect ==
    ASSUME TypeOK, NEW w \in Workers, HeadMoved(w) \/ Fail(w)
    PROVE  /\ pc'[w] = "idle"
           /\ \A v \in Workers : v # w => Unmoved(v)
           /\ UNCHANGED <<changeset, heads, snapshots, nextId, approvals, overlapped,
                          publishersMet>>
BY FinishEffect DEF HeadMoved, Fail, ghostVars

LEMMA TxBeginEffect ==
    ASSUME TypeOK, NEW w \in Workers, TxBegin(w)
    PROVE  /\ pc[w] = "begin" /\ pc'[w] = "swap" /\ target[w] \in Changesets
           /\ tx'[w].id = nextId /\ nextId' = nextId + 1
           /\ tx'[w].superseded \in HeadAnswers
           /\ \A v \in Workers : v # w => Unmoved(v)
           /\ UNCHANGED <<changeset, heads, snapshots, target, patch, merged,
                          approvals, overlapped, publishersMet>>
<1>1. PICK h \in HeadAnswers :
          tx' = [tx EXCEPT ![w] = [id |-> nextId, superseded |-> h, matched |-> {}]]
  BY DEF TxBegin
<1>2. /\ tx'[w].id = nextId /\ tx'[w].superseded = h
      /\ \A v \in Workers : v # w => tx'[v] = tx[v]
  BY <1>1 DEF TypeOK
<1>3. /\ pc' = [pc EXCEPT ![w] = "swap"] /\ pc[w] = "begin" /\ nextId' = nextId + 1
      /\ UNCHANGED <<changeset, heads, snapshots, target, patch, merged,
                     approvals, overlapped, publishersMet>>
  BY DEF TxBegin, ghostVars
<1> QED
  BY <1>2, <1>3 DEF TypeOK, Unmoved

LEMMA TxSwapEffect ==
    ASSUME TypeOK, NEW w \in Workers, TxSwap(w)
    PROVE  /\ pc[w] = "swap" /\ pc'[w] = "commit" /\ target[w] \in Changesets
           /\ tx'[w].id = tx[w].id /\ tx'[w].superseded = tx[w].superseded
           /\ tx'[w].matched = heads
           /\ \A v \in Workers : v # w => Unmoved(v)
           /\ UNCHANGED <<changeset, heads, snapshots, nextId, target, patch, merged,
                          approvals, overlapped, publishersMet>>
<1>1. tx[w] \in Transactions /\ tx' = [tx EXCEPT ![w] = [tx[w] EXCEPT !.matched = heads]]
  BY DEF TxSwap, TypeOK
<1>2. /\ tx'[w].id = tx[w].id /\ tx'[w].superseded = tx[w].superseded
      /\ tx'[w].matched = heads
      /\ \A v \in Workers : v # w => tx'[v] = tx[v]
  BY <1>1 DEF TypeOK, Transactions
<1>3. /\ pc' = [pc EXCEPT ![w] = "commit"] /\ pc[w] = "swap" /\ target[w] \in Changesets
      /\ UNCHANGED <<changeset, heads, snapshots, nextId, target, patch, merged,
                     approvals, overlapped, publishersMet>>
  BY DEF TxSwap, ghostVars, TypeOK
<1> QED
  BY <1>2, <1>3 DEF TypeOK, Unmoved

LEMMA TxCommitEffect ==
    ASSUME TypeOK, NEW w \in Workers, TxCommit(w)
    PROVE  /\ pc[w] = "commit" /\ pc'[w] = "merge" /\ target[w] \in Changesets
           /\ tx[w] \in Transactions
           /\ heads' = (heads \ tx[w].matched) \cup {tx[w].id}
           /\ snapshots' = snapshots \cup
                  {[id |-> tx[w].id, superseded |-> tx[w].superseded, by |-> target[w]]}
           /\ patch'[w].status = "published" /\ patch'[w].link = tx[w].id
           /\ \A v \in Workers : v # w => Unmoved(v)
           /\ UNCHANGED <<changeset, nextId, target, merged, tx,
                          approvals, overlapped, publishersMet>>
BY DEF TxCommit, TypeOK, Unmoved, ghostVars

LEMMA UpdateReadEffect ==
    ASSUME TypeOK, NEW w \in Workers, UpdateRead(w)
    PROVE  /\ pc[w] = "merge" /\ pc'[w] = "write" /\ target[w] \in Changesets
           /\ changeset[target[w]] \in Payloads /\ patch[w] \in Patches
           /\ merged'[w] = MergePatch(changeset[target[w]], patch[w])
           /\ \A v \in Workers : v # w => Unmoved(v)
           /\ UNCHANGED <<changeset, heads, snapshots, nextId, target, patch, tx,
                          approvals, overlapped, publishersMet>>
BY DEF UpdateRead, TypeOK, Unmoved, ghostVars

LEMMA UpdateWriteEffect ==
    ASSUME TypeOK, NEW w \in Workers, UpdateWrite(w)
    PROVE  /\ pc[w] = "write" /\ pc'[w] = "idle" /\ target[w] \in Changesets
           /\ merged[w] \in Payloads /\ patch[w] \in Patches
           /\ changeset'[target[w]] = merged[w]
           /\ \A c \in Changesets : c # target[w] => changeset'[c] = changeset[c]
           /\ approvals' = IF patch[w].status = "approved"
                           THEN approvals \cup {target[w]} ELSE approvals
           /\ \A v \in Workers : v # w => Unmoved(v)
           /\ UNCHANGED <<heads, snapshots, nextId, overlapped, publishersMet>>
BY FinishEffect DEF UpdateWrite, TypeOK

--------------------------------------------------------------------------------
(* Only approved content is published. *)

(* What a publishing thread works on passes the rules and was approved. *)
PublishersApproved ==
    \A w \in Workers : pc[w] \in PublishSteps => target[w] \in Passing \cap approvals

(* A status on its way to the table has been earned by the change set. *)
PatchesEarned ==
    \A w \in Workers : pc[w] \in {"merge", "write"} =>
        /\ patch[w].status \in {"validated", "approved", "published"} => target[w] \in Passing
        /\ patch[w].status = "published" => target[w] \in approvals

(* A payload about to be written has the status of its patch. *)
MergedHasStatus ==
    \A w \in Workers : pc[w] = "write" => merged[w].status = patch[w].status

ApprovedIInv ==
    TypeOK /\ OnlyApprovedPublished /\ PublishersApproved /\ PatchesEarned /\ MergedHasStatus

LEMMA ApprovedNext == ApprovedIInv /\ [Next]_vars => ApprovedIInv'
<1> SUFFICES ASSUME ApprovedIInv, [Next]_vars
             PROVE  ApprovedIInv'
  OBVIOUS
<1> DEFINE Parts == OnlyApprovedPublished /\ PublishersApproved /\ PatchesEarned /\ MergedHasStatus
<1>0. TypeOK /\ TypeOK' /\ Parts
  BY TypeNext DEF ApprovedIInv
<1>s. SUFFICES Parts'
  BY <1>0 DEF ApprovedIInv
<1>1. ASSUME NEW c \in Changesets, NEW base \in heads \cup {None}, Create(c, base)
      PROVE  Parts'
  <2>1. OnlyApprovedPublished'
    BY <1>0, <1>1, CreateEffect DEF OnlyApprovedPublished
  <2> QED
    BY <1>0, <1>1, <2>1, CreateEffect DEF PublishersApproved, PatchesEarned, MergedHasStatus
<1>2. ASSUME NEW w \in Workers, NEW c \in Changesets,
             ValidateRead(w, c) \/ ApproveRead(w, c)
      PROVE  Parts'
  <2>1. /\ patch'[w].status \in {"validated", "approved", "published"} => c \in Passing
        /\ patch'[w].status = "published" => c \in approvals
    BY <1>0, <1>2, ReviewReadEffect
    DEF OnlyApprovedPublished, ResolveStatusAfterValidation
  <2>2. OnlyApprovedPublished'
    BY <1>0, <1>2, ReviewReadEffect DEF OnlyApprovedPublished
  <2>3. PatchesEarned'
    BY <1>0, <1>2, <2>1, ReviewReadEffect DEF PatchesEarned, Unmoved
  <2>4. PublishersApproved' /\ MergedHasStatus'
    BY <1>0, <1>2, ReviewReadEffect DEF PublishersApproved, MergedHasStatus, Unmoved, PublishSteps
  <2> QED
    BY <2>2, <2>3, <2>4
<1>3. ASSUME NEW w \in Workers, NEW c \in Changesets, PublishRead(w, c)
      PROVE  Parts'
  <2>1. c \in Passing \cap approvals
    BY <1>0, <1>3, PublishReadEffect DEF OnlyApprovedPublished
  <2>2. OnlyApprovedPublished'
    BY <1>0, <1>3, PublishReadEffect DEF OnlyApprovedPublished
  <2> QED
    BY <1>0, <1>3, <2>1, <2>2, PublishReadEffect
    DEF PublishersApproved, PatchesEarned, MergedHasStatus, Unmoved
<1>4. ASSUME NEW w \in Workers, HeadRead(w) \/ TxBegin(w) \/ TxSwap(w)
      PROVE  Parts'
  <2>1. /\ pc[w] \in PublishSteps /\ pc'[w] \in PublishSteps
        /\ \A v \in Workers : v # w => Unmoved(v)
        /\ UNCHANGED <<changeset, snapshots, target, patch, merged, approvals>>
    BY <1>0, <1>4, HeadReadEffect, TxBeginEffect, TxSwapEffect DEF PublishSteps
  <2> QED
    BY <1>0, <2>1
    DEF OnlyApprovedPublished, PublishersApproved, PatchesEarned, MergedHasStatus, Unmoved,
        PublishSteps
<1>5. ASSUME NEW w \in Workers, HeadMoved(w) \/ Fail(w)
      PROVE  Parts'
  <2>1. OnlyApprovedPublished'
    BY <1>0, <1>5, GiveUpEffect DEF OnlyApprovedPublished
  <2> QED
    BY <1>0, <1>5, <2>1, GiveUpEffect
    DEF PublishersApproved, PatchesEarned, MergedHasStatus, Unmoved, PublishSteps
<1>6. ASSUME NEW w \in Workers, TxCommit(w)
      PROVE  Parts'
  <2>1. target[w] \in Passing \cap approvals
    BY <1>0, <1>6, TxCommitEffect DEF PublishersApproved, PublishSteps
  <2>2. OnlyApprovedPublished'
    BY <1>0, <1>6, <2>1, TxCommitEffect DEF OnlyApprovedPublished
  <2> QED
    BY <1>0, <1>6, <2>1, <2>2, TxCommitEffect
    DEF PublishersApproved, PatchesEarned, MergedHasStatus, Unmoved, PublishSteps
<1>7. ASSUME NEW w \in Workers, UpdateRead(w)
      PROVE  Parts'
  <2>1. merged'[w].status = patch[w].status
    BY <1>0, <1>7, UpdateReadEffect, MergePatchFields
  <2>2. OnlyApprovedPublished'
    BY <1>0, <1>7, UpdateReadEffect DEF OnlyApprovedPublished
  <2> QED
    BY <1>0, <1>7, <2>1, <2>2, UpdateReadEffect
    DEF PublishersApproved, PatchesEarned, MergedHasStatus, Unmoved, PublishSteps
<1>8. ASSUME NEW w \in Workers, UpdateWrite(w)
      PROVE  Parts'
  <2>1. /\ merged[w].status \in {"approved", "published"} => target[w] \in approvals'
        /\ merged[w].status \in {"validated", "approved", "published"} => target[w] \in Passing
    BY <1>0, <1>8, UpdateWriteEffect DEF PatchesEarned, MergedHasStatus
  <2>2. approvals \subseteq approvals'
    BY <1>0, <1>8, UpdateWriteEffect
  <2>3. OnlyApprovedPublished'
    BY <1>0, <1>8, <2>1, <2>2, UpdateWriteEffect DEF OnlyApprovedPublished
  <2> QED
    BY <1>0, <1>8, <2>2, <2>3, UpdateWriteEffect
    DEF PublishersApproved, PatchesEarned, MergedHasStatus, Unmoved, PublishSteps
<1>9. CASE UNCHANGED vars
  BY <1>0, <1>9 DEF vars, threadVars, ghostVars, OnlyApprovedPublished, PublishersApproved,
     PatchesEarned, MergedHasStatus
<1> QED
  BY <1>1, <1>2, <1>3, <1>4, <1>5, <1>6, <1>7, <1>8, <1>9 DEF Next

LEMMA ApprovedInit == Init => ApprovedIInv
<1> SUFFICES ASSUME Init
             PROVE  ApprovedIInv
  OBVIOUS
<1>1. \A w \in Workers : pc[w] = "idle"
  BY DEF Init
<1>2. snapshots = {} /\ \A c \in Changesets : changeset[c] = None
  BY DEF Init
<1> QED
  BY <1>1, <1>2, TypeInit DEF ApprovedIInv, OnlyApprovedPublished, PublishersApproved,
     PatchesEarned, MergedHasStatus, PublishSteps

LEMMA ApprovedAlways == Spec => []ApprovedIInv
BY ApprovedInit, ApprovedNext, PTL DEF Spec

(* Whatever races or dies, a snapshot comes from a change set that satisfies   *)
(* the rules and that a reviewer approved.                                     *)
THEOREM OnlyApprovedPublishedAlways == Spec => []OnlyApprovedPublished
<1>1. ApprovedIInv => OnlyApprovedPublished
  BY DEF ApprovedIInv
<1> QED
  BY <1>1, ApprovedAlways, PTL

--------------------------------------------------------------------------------
(* The link of a change set is its own snapshot. *)

HasSnapshot(c) == \E s \in snapshots : s.by = c

IsSnapshotOf(id, c) == \E s \in snapshots : s.id = id /\ s.by = c

(* So is every link on its way to the table. *)
LinksInFlight ==
    \A w \in Workers :
        /\ pc[w] \in {"merge", "write"} =>
            /\ patch[w].link # None => IsSnapshotOf(patch[w].link, target[w])
            /\ patch[w].status = "published" => HasSnapshot(target[w])
        /\ pc[w] = "write" /\ merged[w].published_snapshot_id # None =>
            IsSnapshotOf(merged[w].published_snapshot_id, target[w])

LinkIInv == ApprovedIInv /\ LinkIsOwnSnapshot /\ LinksInFlight

LEMMA LinkNext == LinkIInv /\ [Next]_vars => LinkIInv'
<1> SUFFICES ASSUME LinkIInv, [Next]_vars
             PROVE  LinkIInv'
  OBVIOUS
<1> DEFINE Parts == LinkIsOwnSnapshot /\ LinksInFlight
<1>0. TypeOK /\ MergedHasStatus /\ ApprovedIInv' /\ Parts
  BY ApprovedNext DEF LinkIInv, ApprovedIInv
<1>s. SUFFICES Parts'
  BY <1>0 DEF LinkIInv
<1>1. ASSUME NEW c \in Changesets, NEW base \in heads \cup {None}, Create(c, base)
      PROVE  Parts'
  <2>1. LinkIsOwnSnapshot'
    BY <1>0, <1>1, CreateEffect DEF LinkIsOwnSnapshot
  <2> QED
    BY <1>0, <1>1, <2>1, CreateEffect DEF LinksInFlight, IsSnapshotOf, HasSnapshot
<1>2. ASSUME NEW w \in Workers, NEW c \in Changesets,
             ValidateRead(w, c) \/ ApproveRead(w, c)
      PROVE  Parts'
  <2>1. patch'[w].status = "published" => HasSnapshot(c)
    BY <1>0, <1>2, ReviewReadEffect
    DEF LinkIsOwnSnapshot, HasSnapshot, ResolveStatusAfterValidation
  <2>2. LinkIsOwnSnapshot'
    BY <1>0, <1>2, ReviewReadEffect DEF LinkIsOwnSnapshot
  <2> QED
    BY <1>0, <1>2, <2>1, <2>2, ReviewReadEffect
    DEF LinksInFlight, IsSnapshotOf, HasSnapshot, Unmoved
<1>3. ASSUME NEW w \in Workers, NEW c \in Changesets, PublishRead(w, c)
      PROVE  Parts'
  <2>1. LinkIsOwnSnapshot'
    BY <1>0, <1>3, PublishReadEffect DEF LinkIsOwnSnapshot
  <2> QED
    BY <1>0, <1>3, <2>1, PublishReadEffect DEF LinksInFlight, IsSnapshotOf, HasSnapshot, Unmoved
<1>4. ASSUME NEW w \in Workers,
             HeadRead(w) \/ TxBegin(w) \/ TxSwap(w) \/ HeadMoved(w) \/ Fail(w)
      PROVE  Parts'
  <2>1. /\ pc'[w] \notin {"merge", "write"}
        /\ \A v \in Workers : v # w => Unmoved(v)
        /\ UNCHANGED <<changeset, snapshots>>
    BY <1>0, <1>4, HeadReadEffect, TxBeginEffect, TxSwapEffect, GiveUpEffect
  <2>2. LinkIsOwnSnapshot'
    BY <1>0, <2>1 DEF LinkIsOwnSnapshot
  <2> QED
    BY <1>0, <2>1, <2>2 DEF LinksInFlight, IsSnapshotOf, HasSnapshot, Unmoved
<1>5. ASSUME NEW w \in Workers, TxCommit(w)
      PROVE  Parts'
  <2> DEFINE new == [id |-> tx[w].id, superseded |-> tx[w].superseded, by |-> target[w]]
  <2>1. new \in snapshots' /\ new.id = tx[w].id /\ new.by = target[w]
    BY <1>0, <1>5, TxCommitEffect
  <2>2. snapshots \subseteq snapshots'
    BY <1>0, <1>5, TxCommitEffect
  <2> HIDE DEF new
  <2>3. LinkIsOwnSnapshot'
    BY <1>0, <1>5, <2>2, TxCommitEffect DEF LinkIsOwnSnapshot
  <2>4. IsSnapshotOf(tx[w].id, target[w])' /\ HasSnapshot(target[w])'
    BY <1>0, <1>5, <2>1, TxCommitEffect DEF IsSnapshotOf, HasSnapshot
  <2>5. \A v \in Workers : v # w =>
            /\ pc'[v] \in {"merge", "write"} =>
                /\ patch'[v].link # None => IsSnapshotOf(patch[v].link, target[v])'
                /\ patch'[v].status = "published" => HasSnapshot(target[v])'
            /\ pc'[v] = "write" /\ merged'[v].published_snapshot_id # None =>
                IsSnapshotOf(merged[v].published_snapshot_id, target[v])'
    BY <1>0, <1>5, <2>2, TxCommitEffect DEF LinksInFlight, IsSnapshotOf, HasSnapshot, Unmoved
  <2>6. /\ pc'[w] = "merge" /\ target' = target /\ tx' = tx
        /\ patch'[w].status = "published" /\ patch'[w].link = tx[w].id
    BY <1>0, <1>5, TxCommitEffect
  <2>7. LinksInFlight'
    BY <2>4, <2>5, <2>6 DEF LinksInFlight
  <2> QED
    BY <2>3, <2>7
<1>6. ASSUME NEW w \in Workers, UpdateRead(w)
      PROVE  Parts'
  <2>1. merged'[w].published_snapshot_id =
            IF patch[w].link # None THEN patch[w].link
            ELSE changeset[target[w]].published_snapshot_id
    BY <1>0, <1>6, UpdateReadEffect, MergePatchFields
  <2>2. changeset[target[w]] # None
    BY <1>0, <1>6, UpdateReadEffect
  <2>3. merged'[w].published_snapshot_id # None =>
            IsSnapshotOf(merged'[w].published_snapshot_id, target[w])
    BY <1>0, <1>6, <2>1, <2>2, UpdateReadEffect
    DEF LinksInFlight, LinkIsOwnSnapshot, IsSnapshotOf
  <2>4. LinkIsOwnSnapshot'
    BY <1>0, <1>6, UpdateReadEffect DEF LinkIsOwnSnapshot
  <2> QED
    BY <1>0, <1>6, <2>3, <2>4, UpdateReadEffect
    DEF LinksInFlight, IsSnapshotOf, HasSnapshot, Unmoved
<1>7. ASSUME NEW w \in Workers, UpdateWrite(w)
      PROVE  Parts'
  <2>1. /\ merged[w].status = "published" => HasSnapshot(target[w])
        /\ merged[w].published_snapshot_id # None =>
            IsSnapshotOf(merged[w].published_snapshot_id, target[w])
    BY <1>0, <1>7, UpdateWriteEffect DEF LinksInFlight, MergedHasStatus
  <2>2. LinkIsOwnSnapshot'
    BY <1>0, <1>7, <2>1, UpdateWriteEffect DEF LinkIsOwnSnapshot, IsSnapshotOf, HasSnapshot
  <2> QED
    BY <1>0, <1>7, <2>2, UpdateWriteEffect DEF LinksInFlight, IsSnapshotOf, HasSnapshot, Unmoved
<1>8. CASE UNCHANGED vars
  BY <1>0, <1>8 DEF vars, threadVars, ghostVars, LinkIsOwnSnapshot, LinksInFlight,
     IsSnapshotOf, HasSnapshot
<1> QED
  BY <1>1, <1>2, <1>3, <1>4, <1>5, <1>6, <1>7, <1>8 DEF Next

(* The snapshot a change set links to exists and was built from it.            *)
THEOREM LinkIsOwnSnapshotAlways == Spec => []LinkIsOwnSnapshot
<1>1. Init => LinkIInv
  <2>1. Init => (\A w \in Workers : pc[w] = "idle") /\ \A c \in Changesets : changeset[c] = None
    BY DEF Init
  <2> QED
    BY <2>1, ApprovedInit DEF LinkIInv, LinkIsOwnSnapshot, LinksInFlight
<1>2. LinkIInv /\ [Next]_vars => LinkIInv'
  BY LinkNext
<1>3. LinkIInv => LinkIsOwnSnapshot
  BY DEF LinkIInv
<1> QED
  BY <1>1, <1>2, <1>3, PTL DEF Spec

--------------------------------------------------------------------------------
(* What is published stays published. *)

(* Two threads that work on a change set are noticed. *)
OverlapsNoticed ==
    \A v, w \in Workers :
        v # w /\ pc[v] # "idle" /\ pc[w] # "idle" /\ target[v] = target[w]
            => target[v] \in overlapped

(* A thread that has the change set to itself knows what is in the table. *)
SoleThreadIsCurrent ==
    \A w \in Workers : pc[w] # "idle" /\ target[w] \notin overlapped =>
        LET row == changeset[target[w]]
        IN  /\ pc[w] \in PublishSteps => row.status = "approved"
            /\ pc[w] \in {"merge", "write"} /\ row.status = "published" =>
                    patch[w].status = "published" /\ patch[w].link = None
            /\ pc[w] = "write" => merged[w] = MergePatch(row, patch[w])

FinalIInv == ApprovedIInv /\ OverlapsNoticed /\ SoleThreadIsCurrent

LEMMA FinalNext == FinalIInv /\ [Next]_vars => FinalIInv'
<1> SUFFICES ASSUME FinalIInv, [Next]_vars
             PROVE  FinalIInv'
  OBVIOUS
<1> DEFINE Parts == OverlapsNoticed /\ SoleThreadIsCurrent
<1>0. TypeOK /\ OnlyApprovedPublished /\ ApprovedIInv' /\ Parts
  BY ApprovedNext DEF FinalIInv, ApprovedIInv
<1>s. SUFFICES Parts'
  BY <1>0 DEF FinalIInv
<1>1. ASSUME NEW c \in Changesets, NEW base \in heads \cup {None}, Create(c, base)
      PROVE  Parts'
  <2>1. \A w \in Workers : pc[w] # "idle" => changeset'[target[w]] = changeset[target[w]]
    BY <1>0, <1>1, CreateEffect DEF TypeOK
  <2> QED
    BY <1>0, <1>1, <2>1, CreateEffect DEF OverlapsNoticed, SoleThreadIsCurrent
<1>2. ASSUME NEW w \in Workers, NEW c \in Changesets, WorkingOn(c) # {} => c \in overlapped',
             overlapped \subseteq overlapped',
             target'[w] = c, pc[w] = "idle", changeset' = changeset,
             \A v \in Workers : v # w => Unmoved(v)
      PROVE  /\ OverlapsNoticed'
             /\ (\/ c \in overlapped'
                 \/ /\ pc'[w] \in PublishSteps => changeset[c].status = "approved"
                    /\ pc'[w] \in {"merge", "write"} /\ changeset[c].status = "published" =>
                            patch'[w].status = "published" /\ patch'[w].link = None
                    /\ pc'[w] # "write")
                => SoleThreadIsCurrent'
  <2>1. \A v \in Workers : v # w /\ pc[v] # "idle" /\ target[v] = c => c \in overlapped'
    BY <1>2 DEF WorkingOn
  <2>2. OverlapsNoticed'
    BY <1>0, <1>2, <2>1 DEF OverlapsNoticed, Unmoved
  <2>3. \A v \in Workers : v # w /\ pc'[v] # "idle" /\ target'[v] \notin overlapped' =>
            LET row == changeset'[target'[v]]
            IN  /\ pc'[v] \in PublishSteps => row.status = "approved"
                /\ pc'[v] \in {"merge", "write"} /\ row.status = "published" =>
                        patch'[v].status = "published" /\ patch'[v].link = None
                /\ pc'[v] = "write" => merged'[v] = MergePatch(row, patch'[v])
    BY <1>0, <1>2 DEF SoleThreadIsCurrent, Unmoved
  <2> QED
    BY <1>2, <2>2, <2>3 DEF SoleThreadIsCurrent
<1>3. ASSUME NEW w \in Workers, NEW c \in Changesets,
             ValidateRead(w, c) \/ ApproveRead(w, c)
      PROVE  Parts'
  <2>1. changeset[c].status = "published" =>
            patch'[w].status = "published" /\ patch'[w].link = None
    BY <1>0, <1>3, ReviewReadEffect DEF OnlyApprovedPublished, ResolveStatusAfterValidation
  <2> QED
    BY <1>0, <1>2, <1>3, <2>1, ReviewReadEffect DEF PublishSteps
<1>4. ASSUME NEW w \in Workers, NEW c \in Changesets, PublishRead(w, c)
      PROVE  Parts'
  BY <1>0, <1>2, <1>4, PublishReadEffect DEF PublishSteps
<1>5. ASSUME NEW w \in Workers, HeadRead(w) \/ TxBegin(w) \/ TxSwap(w)
      PROVE  Parts'
  <2>1. /\ pc[w] \in PublishSteps /\ pc'[w] \in PublishSteps
        /\ \A v \in Workers : v # w => Unmoved(v)
        /\ UNCHANGED <<changeset, target, patch, merged, overlapped>>
    BY <1>0, <1>5, HeadReadEffect, TxBeginEffect, TxSwapEffect DEF PublishSteps
  <2> QED
    BY <1>0, <2>1 DEF OverlapsNoticed, SoleThreadIsCurrent, Unmoved, PublishSteps
<1>6. ASSUME NEW w \in Workers, HeadMoved(w) \/ Fail(w)
      PROVE  Parts'
  BY <1>0, <1>6, GiveUpEffect DEF OverlapsNoticed, SoleThreadIsCurrent, Unmoved, PublishSteps
<1>7. ASSUME NEW w \in Workers, TxCommit(w)
      PROVE  Parts'
  <2>1. target[w] \notin overlapped => changeset[target[w]].status = "approved"
    BY <1>0, <1>7, TxCommitEffect DEF SoleThreadIsCurrent, PublishSteps
  <2> QED
    BY <1>0, <1>7, <2>1, TxCommitEffect
    DEF OverlapsNoticed, SoleThreadIsCurrent, Unmoved, PublishSteps
<1>8. ASSUME NEW w \in Workers, UpdateRead(w)
      PROVE  Parts'
  BY <1>0, <1>8, UpdateReadEffect
  DEF OverlapsNoticed, SoleThreadIsCurrent, Unmoved, PublishSteps
<1>9. ASSUME NEW w \in Workers, UpdateWrite(w)
      PROVE  Parts'
  <2>1. \A v \in Workers : pc'[v] # "idle" => v # w /\ Unmoved(v)
    BY <1>0, <1>9, UpdateWriteEffect
  <2>2. \A v \in Workers : pc'[v] # "idle" /\ target[v] \notin overlapped =>
            changeset'[target[v]] = changeset[target[v]]
    BY <1>0, <1>9, <2>1, UpdateWriteEffect DEF OverlapsNoticed, TypeOK, Unmoved
  <2>3. UNCHANGED overlapped
    BY <1>0, <1>9, UpdateWriteEffect
  <2> QED
    BY <1>0, <2>1, <2>2, <2>3 DEF OverlapsNoticed, SoleThreadIsCurrent, Unmoved
<1>10. CASE UNCHANGED vars
  BY <1>0, <1>10 DEF vars, threadVars, ghostVars, OverlapsNoticed, SoleThreadIsCurrent
<1> QED
  BY <1>1, <1>3, <1>4, <1>5, <1>6, <1>7, <1>8, <1>9, <1>10 DEF Next

(* A step leaves alone what is published and no two threads have worked on. *)
LEMMA FinalStep ==
    ASSUME FinalIInv, [Next]_vars, NEW c \in Changesets,
           changeset[c] # None, changeset[c].status = "published", c \notin overlapped
    PROVE  changeset'[c] = changeset[c]
<1>0. TypeOK /\ SoleThreadIsCurrent
  BY DEF FinalIInv, ApprovedIInv
<1>1. ASSUME NEW w \in Workers, UpdateWrite(w), target[w] = c
      PROVE  changeset'[c] = changeset[c]
  <2>1. /\ changeset'[c] = merged[w] /\ pc[w] = "write" /\ patch[w] \in Patches
        /\ changeset[c] \in Payloads
    BY <1>0, <1>1, UpdateWriteEffect DEF TypeOK
  <2>2. /\ merged[w] = MergePatch(changeset[c], patch[w])
        /\ patch[w].status = "published" /\ patch[w].link = None
    BY <1>0, <1>1, <2>1 DEF SoleThreadIsCurrent
  <2>3. MergePatch(changeset[c], patch[w]) = changeset[c]
    BY <2>1, <2>2 DEF MergePatch, Payloads
  <2> QED
    BY <2>1, <2>2, <2>3
<1>2. ASSUME NEW w \in Workers, UpdateWrite(w), target[w] # c
      PROVE  changeset'[c] = changeset[c]
  BY <1>0, <1>2, UpdateWriteEffect
<1>3. ASSUME NEW d \in Changesets, NEW base \in heads \cup {None}, Create(d, base)
      PROVE  changeset'[c] = changeset[c]
  BY <1>0, <1>3, CreateEffect
<1>4. ASSUME NEW w \in Workers, NEW d \in Changesets,
             ValidateRead(w, d) \/ ApproveRead(w, d) \/ PublishRead(w, d)
      PROVE  changeset'[c] = changeset[c]
  BY <1>0, <1>4, ReviewReadEffect, PublishReadEffect
<1>5. ASSUME NEW w \in Workers,
             \/ HeadRead(w) \/ HeadMoved(w) \/ TxBegin(w) \/ TxSwap(w) \/ TxCommit(w)
             \/ UpdateRead(w) \/ Fail(w)
      PROVE  changeset'[c] = changeset[c]
  BY <1>0, <1>5, HeadReadEffect, GiveUpEffect, TxBeginEffect, TxSwapEffect, TxCommitEffect,
     UpdateReadEffect
<1>6. CASE UNCHANGED vars
  BY <1>6 DEF vars
<1> QED
  BY <1>1, <1>2, <1>3, <1>4, <1>5, <1>6 DEF Next

LEMMA FinalAlways == Spec => []FinalIInv
<1>1. Init => FinalIInv
  <2>1. Init => \A w \in Workers : pc[w] = "idle"
    BY DEF Init
  <2> QED
    BY <2>1, ApprovedInit DEF FinalIInv, OverlapsNoticed, SoleThreadIsCurrent
<1> QED
  BY <1>1, FinalNext, PTL DEF Spec

(* Where no two operations worked on a change set at once, once it is          *)
(* published it stays published and keeps its link.                            *)
THEOREM SerialPublishedStays == Spec => SerialPublishedIsFinal
<1> DEFINE Kept == \A c \in Changesets :
                changeset[c] # None /\ changeset[c].status = "published" /\ c \notin overlapped
                    => changeset'[c] = changeset[c]
<1>1. FinalIInv /\ [Next]_vars => [Kept]_vars
  BY FinalStep
<1>2. Spec => [][Kept]_vars
  BY <1>1, FinalAlways, PTL DEF Spec
<1> QED
  BY <1>2 DEF SerialPublishedIsFinal

--------------------------------------------------------------------------------
(* The lineage of the snapshots. *)

Writing(w) == pc[w] \in {"swap", "commit"}

(* Snapshots have ids of their own, and each supersedes an older one. *)
SnapshotsOrdered ==
    /\ IsFiniteSet(snapshots)
    /\ \A s, t \in snapshots : s.id = t.id => s = t
    /\ \A s \in snapshots :
        /\ s.id < nextId
        /\ changeset[s.by] \in Payloads
        /\ s.superseded # None =>
            s.superseded < s.id /\ \E t \in snapshots : t.id = s.superseded

(* The pointers lead to snapshots, and there is one as soon as there are any. *)
HeadsAreSnapshots ==
    /\ \A h \in heads : \E s \in snapshots : s.id = h
    /\ snapshots # {} => heads # {}

(* The id of an open transaction is fresh, and it supersedes an older one. *)
TransactionsFresh ==
    \A w \in Workers : Writing(w) =>
        /\ tx[w].id < nextId
        /\ \A s \in snapshots : s.id # tx[w].id
        /\ \A v \in Workers : v # w /\ Writing(v) => tx[v].id # tx[w].id
        /\ tx[w].superseded # None =>
            tx[w].superseded < tx[w].id /\ \E t \in snapshots : t.id = tx[w].superseded

(* update_status never changes the base. *)
BaseIsKept ==
    \A w \in Workers : pc[w] = "write" =>
        merged[w].base_snapshot_id = changeset[target[w]].base_snapshot_id

(* While publishers take turns there is at most one, and what it has read of   *)
(* the graph is still so.                                                      *)
OnePublisher ==
    /\ \A v, w \in Workers : Publishing(v) /\ Publishing(w) => v = w
    /\ \A w \in Workers :
        /\ pc[w] \in {"begin", "swap", "commit"} =>
            changeset[target[w]].base_snapshot_id \in HeadAnswers
        /\ Writing(w) => tx[w].superseded = changeset[target[w]].base_snapshot_id
        /\ pc[w] = "commit" => tx[w].matched = heads

(* The snapshots form one chain. *)
OneChain ==
    /\ \A g, h \in heads : g = h
    /\ \A s \in snapshots : s.superseded = changeset[s.by].base_snapshot_id
    /\ \A s, t \in snapshots : s.superseded = t.superseded => s = t
    /\ \A s \in snapshots : s.id \in heads <=> ~\E t \in snapshots : t.superseded = s.id

OrderedIInv ==
    TypeOK /\ SnapshotsOrdered /\ HeadsAreSnapshots /\ TransactionsFresh /\ BaseIsKept

SerialIInv == ~publishersMet => OnePublisher /\ OneChain

LineageIInv == OrderedIInv /\ SerialIInv

(* The base of a stored change set is never rewritten. *)
LEMMA BaseNext ==
    ASSUME TypeOK, BaseIsKept, [Next]_vars, NEW c \in Changesets, changeset[c] \in Payloads
    PROVE  /\ changeset'[c] \in Payloads
           /\ changeset'[c].base_snapshot_id = changeset[c].base_snapshot_id
<1>1. ASSUME NEW w \in Workers, UpdateWrite(w)
      PROVE  /\ changeset'[c] \in Payloads
             /\ changeset'[c].base_snapshot_id = changeset[c].base_snapshot_id
  BY <1>1, UpdateWriteEffect DEF BaseIsKept
<1>2. ASSUME NEW d \in Changesets, NEW base \in heads \cup {None}, Create(d, base)
      PROVE  changeset'[c] = changeset[c]
  BY <1>2, CreateEffect
<1>3. ASSUME NEW w \in Workers, NEW d \in Changesets,
             ValidateRead(w, d) \/ ApproveRead(w, d) \/ PublishRead(w, d)
      PROVE  changeset'[c] = changeset[c]
  BY <1>3, ReviewReadEffect, PublishReadEffect
<1>4. ASSUME NEW w \in Workers,
             \/ HeadRead(w) \/ HeadMoved(w) \/ TxBegin(w) \/ TxSwap(w) \/ TxCommit(w)
             \/ UpdateRead(w) \/ Fail(w)
      PROVE  changeset'[c] = changeset[c]
  BY <1>4, HeadReadEffect, GiveUpEffect, TxBeginEffect, TxSwapEffect, TxCommitEffect,
     UpdateReadEffect
<1>5. CASE UNCHANGED vars
  BY <1>5 DEF vars
<1> QED
  BY <1>1, <1>2, <1>3, <1>4, <1>5 DEF Next

(* A snapshot that is added keeps the snapshots and the transactions in order. *)
LEMMA OrderedTxCommit ==
    ASSUME OrderedIInv, NEW w \in Workers, TxCommit(w)
    PROVE  SnapshotsOrdered' /\ HeadsAreSnapshots' /\ TransactionsFresh'
<1> DEFINE new == [id |-> tx[w].id, superseded |-> tx[w].superseded, by |-> target[w]]
<1>0. TypeOK /\ SnapshotsOrdered /\ HeadsAreSnapshots /\ TransactionsFresh
  BY DEF OrderedIInv
<1>1. /\ new.id = tx[w].id /\ new.superseded = tx[w].superseded /\ new.by = target[w]
      /\ snapshots' = snapshots \cup {new}
      /\ heads' = (heads \ tx[w].matched) \cup {tx[w].id}
      /\ Writing(w) /\ pc'[w] = "merge" /\ target[w] \in Changesets
      /\ UNCHANGED <<changeset, nextId, target, tx>>
      /\ \A v \in Workers : v # w => Unmoved(v)
  BY <1>0, TxCommitEffect DEF Writing
<1> HIDE DEF new
<1>2. changeset[target[w]] \in Payloads
  BY <1>0, <1>1 DEF TypeOK, Writing
<1>3. /\ tx[w].id < nextId /\ \A s \in snapshots : s.id # tx[w].id
      /\ tx[w].superseded # None =>
            tx[w].superseded < tx[w].id /\ \E t \in snapshots : t.id = tx[w].superseded
  BY <1>0, <1>1 DEF TransactionsFresh
<1>4. SnapshotsOrdered'
  <2>1. IsFiniteSet(snapshots')
    BY <1>0, <1>1, FS_AddElement DEF SnapshotsOrdered
  <2>2. \A s, t \in snapshots' : s.id = t.id => s = t
    BY <1>0, <1>1, <1>3 DEF SnapshotsOrdered
  <2>3. \A s \in snapshots' :
            /\ s.id < nextId' /\ changeset'[s.by] \in Payloads
            /\ s.superseded # None =>
                s.superseded < s.id /\ \E t \in snapshots' : t.id = s.superseded
    BY <1>0, <1>1, <1>2, <1>3 DEF SnapshotsOrdered
  <2> QED
    BY <2>1, <2>2, <2>3 DEF SnapshotsOrdered
<1>5. HeadsAreSnapshots'
  BY <1>0, <1>1 DEF HeadsAreSnapshots
<1>6. TransactionsFresh'
  <2>1. \A v \in Workers : Writing(v)' => v # w /\ Writing(v)
    BY <1>1 DEF Writing, Unmoved
  <2>2. \A v \in Workers : Writing(v) /\ v # w => tx[v].id # new.id
    BY <1>0, <1>1 DEF TransactionsFresh
  <2> QED
    BY <1>0, <1>1, <2>1, <2>2 DEF TransactionsFresh
<1> QED
  BY <1>4, <1>5, <1>6

LEMMA OrderedNext == OrderedIInv /\ [Next]_vars => OrderedIInv'
<1> SUFFICES ASSUME OrderedIInv, [Next]_vars
             PROVE  OrderedIInv'
  OBVIOUS
<1> DEFINE Parts == SnapshotsOrdered /\ HeadsAreSnapshots /\ TransactionsFresh /\ BaseIsKept
<1>0. TypeOK /\ TypeOK' /\ Parts
  BY TypeNext DEF OrderedIInv
<1>b. \A c \in Changesets : changeset[c] \in Payloads =>
        /\ changeset'[c] \in Payloads
        /\ changeset'[c].base_snapshot_id = changeset[c].base_snapshot_id
  BY <1>0, BaseNext
<1>t. /\ \A w \in Workers : pc[w] # "idle" =>
            target[w] \in Changesets /\ changeset[target[w]] \in Payloads
      /\ \A s \in snapshots : s.by \in Changesets
  BY <1>0 DEF TypeOK, Snapshots
<1>s. SUFFICES Parts'
  BY <1>0 DEF OrderedIInv
<1>1. ASSUME NEW c \in Changesets, NEW base \in heads \cup {None}, Create(c, base)
      PROVE  Parts'
  <2>1. UNCHANGED <<heads, snapshots, nextId, pc, target, patch, merged, tx>>
    BY <1>0, <1>1, CreateEffect
  <2> QED
    BY <1>0, <1>b, <1>t, <2>1
    DEF SnapshotsOrdered, HeadsAreSnapshots, TransactionsFresh, BaseIsKept, Writing
<1>2. ASSUME NEW w \in Workers, NEW c \in Changesets,
             ValidateRead(w, c) \/ ApproveRead(w, c) \/ PublishRead(w, c)
      PROVE  Parts'
  <2>1. /\ pc'[w] \in {"merge", "head"}
        /\ \A v \in Workers : v # w => Unmoved(v)
        /\ UNCHANGED <<changeset, heads, snapshots, nextId, merged, tx>>
    BY <1>0, <1>2, ReviewReadEffect, PublishReadEffect
  <2> QED
    BY <1>0, <2>1
    DEF SnapshotsOrdered, HeadsAreSnapshots, TransactionsFresh, BaseIsKept, Writing, Unmoved
<1>3. ASSUME NEW w \in Workers, HeadRead(w) \/ HeadMoved(w) \/ Fail(w)
      PROVE  Parts'
  <2>1. /\ pc'[w] \in {"begin", "idle"}
        /\ \A v \in Workers : v # w => Unmoved(v)
        /\ UNCHANGED <<changeset, heads, snapshots, nextId>>
    BY <1>0, <1>3, HeadReadEffect, GiveUpEffect
  <2> QED
    BY <1>0, <2>1
    DEF SnapshotsOrdered, HeadsAreSnapshots, TransactionsFresh, BaseIsKept, Writing, Unmoved
<1>4. ASSUME NEW w \in Workers, TxBegin(w)
      PROVE  Parts'
  <2>1. /\ ~Writing(w) /\ pc'[w] = "swap"
        /\ tx'[w].id = nextId /\ nextId' = nextId + 1 /\ nextId \in Nat
        /\ tx'[w].superseded \in HeadAnswers
        /\ \A v \in Workers : v # w => Unmoved(v)
        /\ UNCHANGED <<changeset, heads, snapshots, target, merged>>
    BY <1>0, <1>4, TxBeginEffect DEF Writing, TypeOK
  <2>2. \A s \in snapshots : s.id \in Nat /\ s.id < nextId
    BY <1>0 DEF TypeOK, Snapshots, SnapshotIds, SnapshotsOrdered
  <2>3. \A v \in Workers : Writing(v) => tx[v].id \in Nat /\ tx[v].id < nextId
    BY <1>0 DEF TypeOK, Transactions, SnapshotIds, TransactionsFresh, Writing
  <2>4. tx'[w].superseded # None =>
            tx'[w].superseded < tx'[w].id /\ \E t \in snapshots : t.id = tx'[w].superseded
    BY <1>0, <2>1, <2>2 DEF HeadAnswers, HeadsAreSnapshots
  <2>5. \A v \in Workers : Writing(v)' => v = w \/ (Writing(v) /\ tx'[v] = tx[v])
    BY <2>1 DEF Writing, Unmoved
  <2>6. TransactionsFresh'
    BY <1>0, <2>1, <2>2, <2>3, <2>4, <2>5 DEF TransactionsFresh
  <2>7. SnapshotsOrdered' /\ HeadsAreSnapshots'
    BY <1>0, <2>1, <2>2 DEF SnapshotsOrdered, HeadsAreSnapshots
  <2>8. BaseIsKept'
    BY <1>0, <2>1 DEF BaseIsKept, Unmoved
  <2> QED
    BY <2>6, <2>7, <2>8
<1>5. ASSUME NEW w \in Workers, TxSwap(w)
      PROVE  Parts'
  <2>1. /\ Writing(w) /\ pc'[w] = "commit"
        /\ tx'[w].id = tx[w].id /\ tx'[w].superseded = tx[w].superseded
        /\ \A v \in Workers : v # w => Unmoved(v)
        /\ UNCHANGED <<changeset, heads, snapshots, nextId, target, merged>>
    BY <1>0, <1>5, TxSwapEffect DEF Writing
  <2>2. \A v \in Workers : Writing(v)' =>
            Writing(v) /\ tx'[v].id = tx[v].id /\ tx'[v].superseded = tx[v].superseded
    BY <2>1 DEF Writing, Unmoved
  <2>3. TransactionsFresh'
    BY <1>0, <2>1, <2>2 DEF TransactionsFresh
  <2> QED
    BY <1>0, <2>1, <2>3 DEF SnapshotsOrdered, HeadsAreSnapshots, BaseIsKept, Unmoved
<1>6. ASSUME NEW w \in Workers, TxCommit(w)
      PROVE  Parts'
  <2>1. BaseIsKept'
    BY <1>0, <1>6, TxCommitEffect DEF BaseIsKept, Unmoved
  <2> QED
    BY <1>6, <2>1, OrderedTxCommit
<1>7. ASSUME NEW w \in Workers, UpdateRead(w)
      PROVE  Parts'
  <2>1. merged'[w].base_snapshot_id = changeset[target[w]].base_snapshot_id
    BY <1>0, <1>7, UpdateReadEffect, MergePatchFields
  <2> QED
    BY <1>0, <1>7, <2>1, UpdateReadEffect
    DEF SnapshotsOrdered, HeadsAreSnapshots, TransactionsFresh, BaseIsKept, Writing, Unmoved
<1>8. ASSUME NEW w \in Workers, UpdateWrite(w)
      PROVE  Parts'
  <2>1. /\ pc'[w] = "idle" /\ \A v \in Workers : v # w => Unmoved(v)
        /\ UNCHANGED <<heads, snapshots, nextId>>
    BY <1>0, <1>8, UpdateWriteEffect
  <2>2. BaseIsKept'
    BY <1>0, <1>b, <1>t, <2>1 DEF BaseIsKept, Unmoved
  <2> QED
    BY <1>0, <1>b, <1>t, <2>1, <2>2
    DEF SnapshotsOrdered, HeadsAreSnapshots, TransactionsFresh, Writing, Unmoved
<1>9. CASE UNCHANGED vars
  BY <1>0, <1>9
  DEF vars, threadVars, SnapshotsOrdered, HeadsAreSnapshots, TransactionsFresh, BaseIsKept, Writing
<1> QED
  BY <1>1, <1>2, <1>3, <1>4, <1>5, <1>6, <1>7, <1>8, <1>9 DEF Next

(* The base of the change sets that snapshots and threads name stays. *)
LEMMA BasesStay ==
    ASSUME OrderedIInv, [Next]_vars
    PROVE  /\ \A s \in snapshots : changeset'[s.by].base_snapshot_id =
                                   changeset[s.by].base_snapshot_id
           /\ \A w \in Workers : pc[w] # "idle" =>
                changeset'[target[w]].base_snapshot_id = changeset[target[w]].base_snapshot_id
<1>1. /\ \A s \in snapshots : s.by \in Changesets /\ changeset[s.by] \in Payloads
      /\ \A w \in Workers : pc[w] # "idle" =>
            target[w] \in Changesets /\ changeset[target[w]] \in Payloads
  BY DEF OrderedIInv, TypeOK, Snapshots, SnapshotsOrdered
<1> QED
  BY <1>1, BaseNext DEF OrderedIInv

(* A step that moves no publisher and leaves the graph alone keeps the chain. *)
LEMMA SerialQuiet ==
    ASSUME OrderedIInv, [Next]_vars, OnePublisher, OneChain,
           UNCHANGED <<heads, snapshots>>,
           \A w \in Workers :
              /\ Publishing(w)' => Publishing(w)
              /\ pc'[w] \in {"begin", "swap", "commit"} =>
                    pc'[w] = pc[w] /\ target'[w] = target[w] /\ tx'[w] = tx[w]
    PROVE  OnePublisher' /\ OneChain'
<1>1. OneChain'
  BY BasesStay DEF OneChain
<1>2. HeadAnswers' = HeadAnswers
  BY DEF HeadAnswers
<1>3. \A v, w \in Workers : Publishing(v)' /\ Publishing(w)' => v = w
  BY DEF OnePublisher
<1>4. \A w \in Workers : pc'[w] \in {"begin", "swap", "commit"} =>
        changeset'[target'[w]].base_snapshot_id = changeset[target[w]].base_snapshot_id
  BY BasesStay
<1> QED
  BY <1>1, <1>2, <1>3, <1>4 DEF OnePublisher, Writing

(* The steps of a publisher that is alone: each keeps what it has read true. *)
LEMMA SerialPublisher ==
    ASSUME OrderedIInv, [Next]_vars, OnePublisher, OneChain, NEW w \in Workers,
           HeadRead(w) \/ TxBegin(w) \/ TxSwap(w)
    PROVE  OnePublisher' /\ OneChain'
<1>0. TypeOK
  BY DEF OrderedIInv
<1>1. /\ pc[w] \in PublishSteps /\ pc'[w] \in PublishSteps
      /\ \A v \in Workers : v # w => Unmoved(v)
      /\ UNCHANGED <<heads, snapshots, changeset, target, patch>>
  BY <1>0, HeadReadEffect, TxBeginEffect, TxSwapEffect DEF PublishSteps
<1>2. \A v \in Workers : Publishing(v)' <=> Publishing(v)
  BY <1>1 DEF Publishing, Unmoved, PublishSteps
<1>3. OneChain' /\ HeadAnswers' = HeadAnswers
  BY <1>1 DEF OneChain, HeadAnswers
<1>4. \A g, h \in HeadAnswers : g = h
  BY DEF OneChain, HeadAnswers
<1>5. CASE HeadRead(w)
  BY <1>0, <1>1, <1>2, <1>3, <1>5, HeadReadEffect DEF OnePublisher, Unmoved, Writing
<1>6. CASE TxBegin(w)
  <2>1. tx'[w].superseded = changeset[target[w]].base_snapshot_id
    BY <1>0, <1>4, <1>6, TxBeginEffect DEF OnePublisher
  <2> QED
    BY <1>0, <1>1, <1>2, <1>3, <1>6, <2>1, TxBeginEffect DEF OnePublisher, Unmoved, Writing
<1>7. CASE TxSwap(w)
  BY <1>0, <1>1, <1>2, <1>3, <1>7, TxSwapEffect DEF OnePublisher, Unmoved, Writing
<1> QED
  BY <1>5, <1>6, <1>7

(* The snapshot a publisher adds when it is alone takes the head's place. *)
LEMMA SerialTxCommit ==
    ASSUME OrderedIInv, [Next]_vars, OnePublisher, OneChain, NEW w \in Workers, TxCommit(w)
    PROVE  /\ OnePublisher' /\ OneChain'
           /\ heads' = {tx[w].id}
           /\ tx[w].superseded \in HeadAnswers
<1> DEFINE new == [id |-> tx[w].id, superseded |-> tx[w].superseded, by |-> target[w]]
<1>0. TypeOK /\ SnapshotsOrdered /\ HeadsAreSnapshots /\ TransactionsFresh
  BY DEF OrderedIInv
<1>1. /\ new.id = tx[w].id /\ new.superseded = tx[w].superseded /\ new.by = target[w]
      /\ snapshots' = snapshots \cup {new}
      /\ heads' = (heads \ tx[w].matched) \cup {tx[w].id}
      /\ pc[w] = "commit" /\ pc'[w] = "merge" /\ tx[w].id \in Nat
      /\ patch'[w].link = tx[w].id
      /\ UNCHANGED <<changeset, target, tx>>
      /\ \A v \in Workers : v # w => Unmoved(v)
  BY <1>0, TxCommitEffect DEF Transactions, SnapshotIds
<1> HIDE DEF new
<1>2. /\ heads' = {tx[w].id}
      /\ new.superseded = changeset[new.by].base_snapshot_id
      /\ new.superseded \in HeadAnswers
  BY <1>1 DEF OnePublisher, Writing
<1>3. /\ \A s \in snapshots : s.id # new.id
      /\ new.superseded # new.id
      /\ \A s \in snapshots : s.superseded # new.id
  <2>1. \A s \in snapshots : s.id # new.id
    BY <1>0, <1>1 DEF TransactionsFresh, Writing
  <2>2. \A s \in snapshots : s.superseded # None => \E t \in snapshots : t.id = s.superseded
    BY <1>0 DEF SnapshotsOrdered
  <2>3. new.superseded # None => \E t \in snapshots : t.id = new.superseded
    BY <1>0, <1>1 DEF TransactionsFresh, Writing
  <2> QED
    BY <1>1, <2>1, <2>2, <2>3
<1>4. \A s \in snapshots : s.superseded # new.superseded
  <2>1. CASE heads = {}
    BY <1>0, <2>1 DEF HeadsAreSnapshots
  <2>2. CASE heads # {}
    <3>1. new.superseded \in heads
      BY <1>2, <2>2 DEF HeadAnswers
    <3> QED
      BY <1>0, <3>1 DEF HeadsAreSnapshots, OneChain
  <2> QED
    BY <2>1, <2>2
<1>5. \A s \in snapshots : s.id \in heads => s.id = new.superseded
  BY <1>2 DEF OneChain, HeadAnswers
<1>6. OneChain'
  <2>1. \A g, h \in heads' : g = h
    BY <1>2
  <2>2. \A s \in snapshots' : s.superseded = changeset'[s.by].base_snapshot_id
    BY <1>1, <1>2 DEF OneChain
  <2>3. \A s, t \in snapshots' : s.superseded = t.superseded => s = t
    BY <1>1, <1>4 DEF OneChain
  <2>4. \A s \in snapshots' : s.id \in heads' <=> ~\E t \in snapshots' : t.superseded = s.id
    <3>1. ASSUME NEW s \in snapshots
          PROVE  s.id \notin heads' /\ \E t \in snapshots' : t.superseded = s.id
      BY <1>1, <1>2, <1>3, <1>5 DEF OneChain
    <3>2. new.id \in heads' /\ ~\E t \in snapshots' : t.superseded = new.id
      BY <1>1, <1>2, <1>3
    <3> QED
      BY <1>1, <3>1, <3>2
  <2> QED
    BY <2>1, <2>2, <2>3, <2>4 DEF OneChain
<1>7. OnePublisher'
  <2>1. \A v \in Workers : Publishing(v)' => v = w
    BY <1>1 DEF OnePublisher, Publishing, Unmoved, PublishSteps
  <2>2. \A v \in Workers : pc'[v] \in {"begin", "swap", "commit"} => Publishing(v)'
    BY DEF Publishing, PublishSteps
  <2> QED
    BY <1>1, <2>1, <2>2 DEF OnePublisher, Writing
<1> QED
  BY <1>1, <1>2, <1>6, <1>7

LEMMA SerialNext == LineageIInv /\ [Next]_vars => SerialIInv'
<1> SUFFICES ASSUME OrderedIInv, SerialIInv, [Next]_vars, ~publishersMet'
             PROVE  OnePublisher' /\ OneChain'
  BY DEF LineageIInv, SerialIInv
<1>0. TypeOK
  BY DEF OrderedIInv
<1>1. ASSUME NEW c \in Changesets, NEW base \in heads \cup {None}, Create(c, base)
      PROVE  OnePublisher' /\ OneChain'
  <2>1. UNCHANGED <<heads, snapshots, pc, target, patch, tx, publishersMet>>
    BY <1>0, <1>1, CreateEffect
  <2> QED
    BY <2>1, SerialQuiet DEF SerialIInv, Publishing
<1>2. ASSUME NEW w \in Workers, NEW c \in Changesets,
             ValidateRead(w, c) \/ ApproveRead(w, c)
      PROVE  OnePublisher' /\ OneChain'
  <2>1. /\ pc'[w] = "merge" /\ patch'[w].link = None
        /\ \A v \in Workers : v # w => Unmoved(v)
        /\ UNCHANGED <<heads, snapshots, publishersMet>>
    BY <1>0, <1>2, ReviewReadEffect
  <2> QED
    BY <2>1, SerialQuiet DEF SerialIInv, Publishing, Unmoved, PublishSteps
<1>3. ASSUME NEW w \in Workers, NEW c \in Changesets, PublishRead(w, c)
      PROVE  OnePublisher' /\ OneChain'
  <2>1. /\ pc'[w] = "head" /\ \A v \in Workers : v # w => Unmoved(v)
        /\ ~publishersMet /\ \A v \in Workers : ~Publishing(v)
        /\ UNCHANGED <<changeset, heads, snapshots>>
    BY <1>0, <1>3, PublishReadEffect
  <2>2. \A v \in Workers : v # w => ~Publishing(v)'
    BY <2>1 DEF Publishing, Unmoved
  <2>3. \A v \in Workers : pc'[v] \notin {"begin", "swap", "commit"}
    BY <2>1, <2>2 DEF Publishing, PublishSteps
  <2>4. OneChain'
    BY <2>1 DEF SerialIInv, OneChain
  <2> QED
    BY <2>2, <2>3, <2>4 DEF OnePublisher, Writing
<1>4. ASSUME NEW w \in Workers, HeadRead(w) \/ TxBegin(w) \/ TxSwap(w)
      PROVE  OnePublisher' /\ OneChain'
  BY <1>0, <1>4, SerialPublisher, HeadReadEffect, TxBeginEffect, TxSwapEffect DEF SerialIInv
<1>5. ASSUME NEW w \in Workers, HeadMoved(w) \/ Fail(w)
      PROVE  OnePublisher' /\ OneChain'
  BY <1>0, <1>5, SerialQuiet, GiveUpEffect DEF SerialIInv, Publishing, Unmoved, PublishSteps
<1>6. ASSUME NEW w \in Workers, TxCommit(w)
      PROVE  OnePublisher' /\ OneChain'
  BY <1>0, <1>6, SerialTxCommit, TxCommitEffect DEF SerialIInv
<1>7. ASSUME NEW w \in Workers, UpdateRead(w)
      PROVE  OnePublisher' /\ OneChain'
  <2>1. /\ pc[w] = "merge" /\ pc'[w] = "write"
        /\ \A v \in Workers : v # w => Unmoved(v)
        /\ UNCHANGED <<heads, snapshots, patch, publishersMet>>
    BY <1>0, <1>7, UpdateReadEffect
  <2> QED
    BY <2>1, SerialQuiet DEF SerialIInv, Publishing, Unmoved, PublishSteps
<1>8. ASSUME NEW w \in Workers, UpdateWrite(w)
      PROVE  OnePublisher' /\ OneChain'
  BY <1>0, <1>8, SerialQuiet, UpdateWriteEffect DEF SerialIInv, Publishing, Unmoved, PublishSteps
<1>9. CASE UNCHANGED vars
  BY <1>9, SerialQuiet DEF SerialIInv, vars, threadVars, ghostVars, Publishing
<1> QED
  BY <1>1, <1>2, <1>3, <1>4, <1>5, <1>6, <1>7, <1>8, <1>9 DEF Next

LEMMA LineageAlways == Spec => []LineageIInv
<1>1. Init => LineageIInv
  <2> SUFFICES ASSUME Init
               PROVE  LineageIInv
    OBVIOUS
  <2>1. /\ heads = {} /\ snapshots = {} /\ \A w \in Workers : pc[w] = "idle"
    BY DEF Init
  <2>2. OrderedIInv
    BY <2>1, TypeInit, FS_EmptySet
    DEF OrderedIInv, SnapshotsOrdered, HeadsAreSnapshots, TransactionsFresh, BaseIsKept, Writing
  <2>3. OnePublisher /\ OneChain
    BY <2>1 DEF OnePublisher, OneChain, Publishing, PublishSteps, Writing
  <2> QED
    BY <2>2, <2>3 DEF LineageIInv, SerialIInv
<1>2. LineageIInv /\ [Next]_vars => LineageIInv'
  BY OrderedNext, SerialNext DEF LineageIInv
<1> QED
  BY <1>1, <1>2, PTL DEF Spec

(* Where no two publish operations ran at once, the snapshots form one chain   *)
(* with one head, and each was built on the base its change set was proposed   *)
(* for.                                                                        *)
THEOREM SerialLineageAlways == Spec => []SerialLineage
<1>1. LineageIInv => SerialLineage
  <2> SUFFICES ASSUME OneChain
               PROVE  Cardinality(heads) <= 1
    BY DEF LineageIInv, SerialIInv, OneChain, SerialLineage
  <2>1. CASE heads = {}
    BY <2>1, FS_EmptySet
  <2>2. CASE heads # {}
    <3>1. PICK h \in heads : TRUE
      BY <2>2
    <3>2. heads = {h}
      BY <3>1 DEF OneChain
    <3>3. Cardinality({h}) = 1
      BY FS_Singleton, Zenon
    <3> QED
      BY <3>2, <3>3
  <2> QED
    BY <2>1, <2>2
<1> QED
  BY <1>1, LineageAlways, PTL

--------------------------------------------------------------------------------
(* The refinement: the two stores and their threads implement SnapshotLineage. *)

Head == IF heads = {} THEN None ELSE CHOOSE h \in heads : TRUE

SnapshotsAsLineage == {[id |-> s.id, superseded |-> s.superseded] : s \in snapshots}

(* Every step of a thread is a step of the lineage, or leaves it alone. *)
LEMMA LineageStep ==
    ASSUME LineageIInv, [Next]_vars
    PROVE  [Lineage!Next]_(Lineage!vars)
<1>0. TypeOK /\ OrderedIInv /\ SerialIInv
  BY DEF LineageIInv, OrderedIInv
<1>1. ASSUME NEW w \in Workers, TxCommit(w), ~publishersMet
      PROVE  Lineage!Publish
  <2> DEFINE new == [id |-> tx[w].id, superseded |-> tx[w].superseded, by |-> target[w]]
             added == [id |-> tx[w].id, superseded |-> tx[w].superseded]
  <2>1. heads' = {tx[w].id} /\ tx[w].superseded \in HeadAnswers
    BY <1>0, <1>1, SerialTxCommit DEF SerialIInv
  <2>2. /\ snapshots' = snapshots \cup {new} /\ UNCHANGED publishersMet
        /\ tx[w].id \in SnapshotIds
        /\ \A s \in snapshots : s.id # tx[w].id
    BY <1>0, <1>1, TxCommitEffect
    DEF OrderedIInv, TransactionsFresh, Transactions, Writing
  <2>3. Head' = tx[w].id
    BY <2>1 DEF Head
  <2>4. Head = tx[w].superseded
    BY <1>0, <1>1, <2>1 DEF Head, HeadAnswers, SerialIInv, OneChain
  <2>5. SnapshotsAsLineage' = SnapshotsAsLineage \cup {added}
    <3> DEFINE entry(s) == [id |-> s.id, superseded |-> s.superseded]
    <3>1. entry(new) = added
      OBVIOUS
    <3> HIDE DEF entry, new, added
    <3>2. {entry(s) : s \in snapshots'} = {entry(s) : s \in snapshots} \cup {added}
      BY <2>2, <3>1
    <3> QED
      BY <3>2 DEF SnapshotsAsLineage, entry
  <2>6. \A s \in SnapshotsAsLineage : s.id # tx[w].id
    BY <2>2 DEF SnapshotsAsLineage
  <2> QED
    BY <1>1, <2>2, <2>3, <2>4, <2>5, <2>6 DEF Lineage!Publish, Head, SnapshotsAsLineage
<1>2. ASSUME NEW w \in Workers, TxCommit(w), publishersMet
      PROVE  Lineage!PublishUnordered
  <2>1. snapshots \subseteq snapshots' /\ UNCHANGED publishersMet
    BY <1>0, <1>2, TxCommitEffect
  <2>2. SnapshotsAsLineage \subseteq SnapshotsAsLineage'
    BY <2>1 DEF SnapshotsAsLineage
  <2> QED
    BY <1>2, <2>1, <2>2 DEF Lineage!PublishUnordered, SnapshotsAsLineage
<1>3. ASSUME UNCHANGED <<heads, snapshots>>
      PROVE  UNCHANGED <<Head, SnapshotsAsLineage>>
  BY <1>3 DEF Head, SnapshotsAsLineage
<1>4. ASSUME NEW w \in Workers, NEW c \in Changesets, PublishRead(w, c)
      PROVE  Lineage!PublishersMeet \/ UNCHANGED (Lineage!vars)
  <2>1. /\ UNCHANGED <<heads, snapshots>>
        /\ publishersMet' = TRUE \/ publishersMet' = publishersMet
    BY <1>0, <1>4, PublishReadEffect DEF TypeOK
  <2> QED
    BY <1>3, <2>1 DEF Lineage!PublishersMeet, Lineage!vars, Head, SnapshotsAsLineage
<1>5. ASSUME UNCHANGED <<heads, snapshots, publishersMet>>
      PROVE  UNCHANGED (Lineage!vars)
  BY <1>3, <1>5 DEF Lineage!vars, Head, SnapshotsAsLineage
<1>6. ASSUME NEW c \in Changesets, NEW base \in heads \cup {None}, Create(c, base)
      PROVE  UNCHANGED <<heads, snapshots, publishersMet>>
  BY <1>0, <1>6, CreateEffect
<1>7. ASSUME NEW w \in Workers, NEW c \in Changesets, ValidateRead(w, c) \/ ApproveRead(w, c)
      PROVE  UNCHANGED <<heads, snapshots, publishersMet>>
  BY <1>0, <1>7, ReviewReadEffect
<1>8. ASSUME NEW w \in Workers,
             \/ HeadRead(w) \/ HeadMoved(w) \/ TxBegin(w) \/ TxSwap(w)
             \/ UpdateRead(w) \/ UpdateWrite(w) \/ Fail(w)
      PROVE  UNCHANGED <<heads, snapshots, publishersMet>>
  BY <1>0, <1>8, HeadReadEffect, GiveUpEffect, TxBeginEffect, TxSwapEffect,
     UpdateReadEffect, UpdateWriteEffect
<1>9. CASE UNCHANGED vars
  BY <1>5, <1>9 DEF vars, ghostVars
<1> QED
  BY <1>0, <1>1, <1>2, <1>4, <1>5, <1>6, <1>7, <1>8, <1>9 DEF Next, Lineage!Next

(* The two stores and the threads implement the lineage the graph store        *)
(* promises: while publishers take turns, the only step that touches the       *)
(* snapshots or the head puts one snapshot at the head of the chain.           *)
THEOREM ImplementsLineageAlways == Spec => ImplementsLineage
<1>1. Init => Lineage!Init
  BY DEF Init, Lineage!Init
<1>2. LineageIInv /\ [Next]_vars => [Lineage!Next]_(Lineage!vars)
  BY LineageStep
<1>3. Spec => Lineage!Init /\ [][Lineage!Next]_(Lineage!vars)
  BY <1>1, <1>2, LineageAlways, PTL DEF Spec
<1> QED
  BY <1>3 DEF ImplementsLineage, Lineage!Spec

--------------------------------------------------------------------------------
(* The lineage of a snapshot is answered. *)

(* A set of naturals has a least element: the form of induction used below. *)
LEMMA LeastNatural ==
    ASSUME NEW T \in SUBSET Nat, T # {}
    PROVE  \E n \in T : \A m \in T : n <= m
<1> DEFINE Less == {p \in Nat \X Nat : p[1] < p[2]}
<1>1. IsWellFoundedOn(Less, Nat)
  BY NatLessThanWellFounded, Zenon DEF OpToRel
<1>2. \A m, n \in Nat : m < n => <<m, n>> \in Less
  OBVIOUS
<1> HIDE DEF Less
<1>3. PICK n \in T : \A m \in T : ~ (<<m, n>> \in Less)
  BY <1>1, WFMin, Zenon
<1>4. \A m \in T : ~ (m < n)
  BY <1>2, <1>3, Zenon
<1> QED
  BY <1>4

(* The first m steps of the walk from a snapshot. *)
IsWalk(f, id, m) ==
    f = [n \in 0..m |-> IF n = 0 THEN id ELSE Superseded(f[n - 1])]

LEMMA WalkExists ==
    ASSUME NEW id, NEW N \in Nat
    PROVE  \E f : IsWalk(f, id, N)
<1> DEFINE Short == {m \in Nat : ~\E f : IsWalk(f, id, m)}
<1> SUFFICES ASSUME Short # {}
             PROVE  FALSE
  OBVIOUS
<1>1. PICK m \in Short : \A k \in Short : m <= k
  BY LeastNatural
<1>2. CASE m = 0
  <2> DEFINE g == [n \in 0..m |-> id]
  <2>1. g = [n \in 0..m |-> IF n = 0 THEN id ELSE Superseded(g[n - 1])]
    BY <1>2
  <2> HIDE DEF g
  <2>2. IsWalk(g, id, m)
    BY <2>1, Zenon DEF IsWalk
  <2> QED
    BY <1>1, <2>2
<1>3. CASE m # 0
  <2>1. m - 1 \in Nat /\ m - 1 \notin Short
    BY <1>1, <1>3
  <2>2. PICK f : IsWalk(f, id, m - 1)
    BY <2>1
  <2> DEFINE g == [n \in 0..m |-> IF n = 0 THEN id ELSE Superseded(f[n - 1])]
  <2>3. \A n \in 0..m - 1 : f[n] = IF n = 0 THEN id ELSE Superseded(f[n - 1])
    BY <2>2, Zenon DEF IsWalk
  <2>4. \A n \in 0..m - 1 : g[n] = f[n]
    BY <2>1, <2>3
  <2>5. \A n \in 0..m : n # 0 => n - 1 \in 0..m - 1
    BY <2>1
  <2>6. g = [n \in 0..m |-> IF n = 0 THEN id ELSE Superseded(g[n - 1])]
    BY <2>4, <2>5
  <2> HIDE DEF g
  <2>7. IsWalk(g, id, m)
    BY <2>6, Zenon DEF IsWalk
  <2> QED
    BY <1>1, <2>7
<1> QED
  BY <1>2, <1>3

(* What the walk answers: it starts at the snapshot, and each step follows     *)
(* superseded_snapshot_id.                                                     *)
LEMMA CursorWalks ==
    ASSUME IsFiniteSet(snapshots), NEW id
    PROVE  /\ DOMAIN Cursor(id) = 0..Cardinality(snapshots)
           /\ Cursor(id)[0] = id
           /\ \A n \in 0..Cardinality(snapshots) : n # 0 =>
                Cursor(id)[n] = Superseded(Cursor(id)[n - 1])
<1> DEFINE N == Cardinality(snapshots)
<1>1. N \in Nat
  BY FS_CardinalityType
<1> HIDE DEF N
<1>2. \E f : IsWalk(f, id, N)
  BY <1>1, WalkExists
<1>3. Cursor(id) = CHOOSE f : IsWalk(f, id, N)
  BY DEF Cursor, IsWalk, N
<1>4. IsWalk(Cursor(id), id, N)
  BY <1>2, <1>3
<1> DEFINE f == Cursor(id)
<1> HIDE DEF f
<1>5. f = [n \in 0..N |-> IF n = 0 THEN id ELSE Superseded(f[n - 1])]
  BY <1>4, Zenon DEF IsWalk, f
<1>6. /\ DOMAIN f = 0..N
      /\ \A n \in 0..N : f[n] = IF n = 0 THEN id ELSE Superseded(f[n - 1])
  BY <1>5, Zenon
<1>7. 0 \in 0..N
  BY <1>1
<1> QED
  BY <1>6, <1>7 DEF f, N

(* The walk asks for what each snapshot superseded; None superseded nothing. *)
LEMMA SupersededAnswers ==
    ASSUME TypeOK, SnapshotsOrdered
    PROVE  /\ \A s \in snapshots : Superseded(s.id) = s.superseded
           /\ Superseded(None) = None
<1>1. \A s \in snapshots : s.id \in Nat
  BY DEF TypeOK, Snapshots, SnapshotIds
<1>2. ASSUME NEW s \in snapshots
      PROVE  Superseded(s.id) = s.superseded
  <2>1. (CHOOSE t \in snapshots : t.id = s.id) = s
    BY DEF SnapshotsOrdered
  <2> QED
    BY <2>1 DEF Superseded
<1>3. Superseded(None) = None
  BY <1>1 DEF Superseded
<1> QED
  BY <1>2, <1>3

(* Every answer of the walk from a snapshot is a snapshot's id, or None. *)
LEMMA WalkMeetsSnapshots ==
    ASSUME TypeOK, SnapshotsOrdered, NEW s \in snapshots,
           NEW n \in 0..Cardinality(snapshots)
    PROVE  Cursor(s.id)[n] = None \/ \E t \in snapshots : t.id = Cursor(s.id)[n]
<1> DEFINE f == Cursor(s.id)
           Met(x) == x = None \/ \E t \in snapshots : t.id = x
           Bad == {k \in 0..Cardinality(snapshots) : ~Met(f[k])}
<1>0. Cardinality(snapshots) \in Nat
  BY FS_CardinalityType DEF SnapshotsOrdered
<1>1. /\ f[0] = s.id
      /\ \A k \in 0..Cardinality(snapshots) : k # 0 => f[k] = Superseded(f[k - 1])
  BY CursorWalks DEF SnapshotsOrdered
<1> HIDE DEF f
<1> SUFFICES ASSUME Bad # {}
             PROVE  FALSE
  BY DEF f
<1>2. PICK k \in Bad : \A j \in Bad : k <= j
  <2>1. Bad \in SUBSET Nat
    BY <1>0
  <2> HIDE DEF Bad
  <2> QED
    BY <2>1, LeastNatural
<1>3. k # 0
  BY <1>1
<1>4. Met(f[k - 1]) /\ f[k] = Superseded(f[k - 1])
  BY <1>0, <1>1, <1>2, <1>3
<1>5. \A x : Met(x) => Met(Superseded(x))
  BY SupersededAnswers DEF SnapshotsOrdered
<1> QED
  BY <1>4, <1>5

(* The ids the walk meets fall, so it meets no snapshot twice, and it ends     *)
(* within as many steps as there are snapshots.                                *)
LEMMA WalkEnds ==
    ASSUME TypeOK, SnapshotsOrdered, NEW s \in snapshots
    PROVE  Cursor(s.id)[Cardinality(snapshots)] = None
<1> DEFINE N == Cardinality(snapshots)
           f == Cursor(s.id)
<1>0. N \in Nat
  BY FS_CardinalityType DEF SnapshotsOrdered
<1>1. \A k \in 0..N : k # 0 => f[k] = Superseded(f[k - 1])
  BY CursorWalks DEF SnapshotsOrdered
<1>2. \A k \in 0..N : f[k] = None \/ \E t \in snapshots : t.id = f[k]
  BY WalkMeetsSnapshots
<1> HIDE DEF N, f
<1> SUFFICES ASSUME f[N] # None
             PROVE  FALSE
  BY DEF N, f
<1>3. \A k \in 0..N : f[k] # None
  <2> DEFINE Ended == {k \in 0..N : f[N - k] = None}
  <2> SUFFICES ASSUME Ended # {}
               PROVE  FALSE
    <3>1. \A k \in 0..N : N - k \in 0..N /\ N - (N - k) = k
      BY <1>0
    <3> QED
      BY <3>1
  <2>1. PICK k \in Ended : \A j \in Ended : k <= j
    <3>1. Ended \in SUBSET Nat
      BY <1>0
    <3> HIDE DEF Ended
    <3> QED
      BY <3>1, LeastNatural
  <2>2. k # 0
    BY <1>0, <2>1
  <2>3. /\ N - k \in 0..N /\ (N - (k - 1)) \in 0..N /\ N - (k - 1) # 0
        /\ (N - (k - 1)) - 1 = N - k /\ k - 1 \in 0..N /\ ~(k <= k - 1)
    BY <1>0, <2>1, <2>2
  <2>4. f[N - (k - 1)] = Superseded(f[N - k])
    BY <1>1, <2>3
  <2>5. f[N - (k - 1)] = None
    BY <2>4, SupersededAnswers
  <2> QED
    BY <2>1, <2>3, <2>5
<1>4. \A k \in 0..N : \E t \in snapshots : t.id = f[k]
  BY <1>2, <1>3
<1>5. \A k \in 0..N : f[k] \in Nat /\ (k # 0 => f[k] < f[k - 1])
  <2> TAKE k \in 0..N
  <2>1. f[k] \in Nat
    BY <1>4 DEF TypeOK, Snapshots, SnapshotIds
  <2>2. ASSUME k # 0
        PROVE  f[k] < f[k - 1]
    <3>1. k - 1 \in 0..N
      BY <1>0, <2>2
    <3>2. PICK t \in snapshots : t.id = f[k - 1]
      BY <1>4, <3>1
    <3>3. f[k] = t.superseded
      BY <1>1, <2>2, <3>2, SupersededAnswers
    <3> QED
      BY <1>3, <3>2, <3>3 DEF SnapshotsOrdered
  <2> QED
    BY <2>1, <2>2
<1>6. \A i, j \in 0..N : i < j => f[j] < f[i]
  <2> DEFINE Rising == {j \in 0..N : \E i \in 0..N : i < j /\ ~(f[j] < f[i])}
  <2> SUFFICES ASSUME Rising # {}
               PROVE  FALSE
    OBVIOUS
  <2>1. PICK j \in Rising : \A k \in Rising : j <= k
    <3>1. Rising \in SUBSET Nat
      BY <1>0
    <3> HIDE DEF Rising
    <3> QED
      BY <3>1, LeastNatural
  <2>2. PICK i \in 0..N : i < j /\ ~(f[j] < f[i])
    BY <2>1
  <2>3. j - 1 \in 0..N /\ j # 0 /\ j - 1 \notin Rising /\ (i = j - 1 \/ i < j - 1)
    BY <1>0, <2>1, <2>2
  <2>4. f[j] < f[j - 1] /\ (i = j - 1 \/ f[j - 1] < f[i])
    BY <1>5, <2>2, <2>3
  <2>5. f[i] \in Nat /\ f[j] \in Nat /\ f[j - 1] \in Nat
    BY <1>5, <2>1, <2>2, <2>3
  <2> QED
    BY <2>2, <2>4, <2>5
<1> DEFINE g == [k \in 0..N |-> CHOOSE t \in snapshots : t.id = f[k]]
<1>7. g \in [0..N -> snapshots] /\ \A k \in 0..N : g[k].id = f[k]
  BY <1>4
<1> HIDE DEF g
<1>8. Cardinality(snapshots) < Cardinality(0..N) /\ IsFiniteSet(0..N) /\ IsFiniteSet(snapshots)
  BY <1>0, FS_Interval DEF SnapshotsOrdered, N
<1>9. PICK i, j \in 0..N : i # j /\ g[i] = g[j]
  <2> DEFINE S == 0..N
  <2>1. /\ IsFiniteSet(S) /\ IsFiniteSet(snapshots) /\ Cardinality(snapshots) < Cardinality(S)
        /\ g \in [S -> snapshots]
    BY <1>7, <1>8
  <2> HIDE DEF S
  <2>2. \E i, j \in S : i # j /\ g[i] = g[j]
    BY <2>1, FS_PigeonHole
  <2> QED
    BY <2>2 DEF S
<1>10. f[i] = f[j] /\ (i < j \/ j < i)
  BY <1>0, <1>7, <1>9
<1> QED
  BY <1>5, <1>6, <1>10

(* Where the snapshots form one chain, the walk from the head meets them all. *)
LEMMA HeadSeesAll ==
    ASSUME TypeOK, SnapshotsOrdered, HeadsAreSnapshots, OneChain, NEW h \in heads
    PROVE  {t.id : t \in snapshots} \subseteq GetSnapshot(h)
<1> DEFINE N == Cardinality(snapshots)
           f == Cursor(h)
<1>0. N \in Nat /\ IsFiniteSet(snapshots)
  BY FS_CardinalityType DEF SnapshotsOrdered
<1>1. /\ DOMAIN f = 0..N /\ f[0] = h
      /\ \A k \in 0..N : k # 0 => f[k] = Superseded(f[k - 1])
  BY <1>0, CursorWalks
<1>2. f[N] = None
  BY WalkEnds DEF HeadsAreSnapshots
<1>3. GetSnapshot(h) = {f[n] : n \in 0..N} \ {None}
  BY <1>1 DEF GetSnapshot
<1>4. \A s \in snapshots : s.id \in Nat /\ s.id < nextId /\ nextId \in Nat
  BY DEF TypeOK, Snapshots, SnapshotIds, SnapshotsOrdered
<1> HIDE DEF N, f
<1> DEFINE Missed == {k \in Nat : \E t \in snapshots :
                        t.id \notin GetSnapshot(h) /\ k = nextId - t.id}
<1> SUFFICES ASSUME Missed # {}
             PROVE  FALSE
  <2>1. \A t \in snapshots : nextId - t.id \in Nat
    BY <1>4
  <2> QED
    BY <2>1
<1>5. PICK k \in Missed : \A j \in Missed : k <= j
  BY LeastNatural
<1>6. PICK t \in snapshots : t.id \notin GetSnapshot(h) /\ k = nextId - t.id
  BY <1>5
<1>7. t.id # h
  <2>1. h = f[0] /\ 0 \in 0..N /\ h # None
    BY <1>0, <1>1 DEF TypeOK, SnapshotIds
  <2> QED
    BY <1>3, <1>6, <2>1
<1>8. PICK u \in snapshots : u.superseded = t.id
  BY <1>7 DEF OneChain
<1>9. t.id < u.id
  BY <1>4, <1>8 DEF SnapshotsOrdered
<1>10. u.id \in GetSnapshot(h)
  <2>1. nextId - u.id \in Nat /\ nextId - u.id < k
    BY <1>4, <1>6, <1>9
  <2> QED
    BY <1>5, <2>1
<1>11. PICK n \in 0..N : f[n] = u.id
  BY <1>3, <1>10
<1>12. n # N
  BY <1>2, <1>4, <1>11
<1>13. n + 1 \in 0..N /\ n + 1 # 0 /\ (n + 1) - 1 = n
  BY <1>0, <1>12
<1>14. f[n + 1] = Superseded(f[n])
  BY <1>1, <1>13
<1>15. f[n + 1] = t.id
  BY <1>8, <1>11, <1>14, SupersededAnswers
<1> QED
  BY <1>3, <1>4, <1>6, <1>13, <1>15

(* The lineage of a snapshot is answered: whatever publishers raced, the walk  *)
(* ends before it has seen a snapshot twice, and it meets committed snapshots  *)
(* only.  Where publishers took turns the head's lineage is every snapshot.    *)
THEOREM LineageIsAnsweredAlways == Spec => []LineageIsAnswered
<1>1. LineageIInv => LineageIsAnswered
  <2> SUFFICES ASSUME LineageIInv
               PROVE  LineageIsAnswered
    OBVIOUS
  <2>1. TypeOK /\ SnapshotsOrdered /\ HeadsAreSnapshots /\ (~publishersMet => OneChain)
    BY DEF LineageIInv, OrderedIInv, SerialIInv
  <2>2. ASSUME NEW s \in snapshots
        PROVE  /\ Cursor(s.id)[Cardinality(snapshots)] = None
               /\ GetSnapshot(s.id) \subseteq {t.id : t \in snapshots}
    <3>1. DOMAIN Cursor(s.id) = 0..Cardinality(snapshots)
      BY <2>1, CursorWalks DEF SnapshotsOrdered
    <3>2. GetSnapshot(s.id) \subseteq {t.id : t \in snapshots}
      BY <2>1, <3>1, WalkMeetsSnapshots DEF GetSnapshot
    <3> QED
      BY <2>1, <3>2, WalkEnds
  <2>3. ASSUME ~publishersMet, NEW h \in heads
        PROVE  GetSnapshot(h) = {t.id : t \in snapshots}
    <3>1. PICK s \in snapshots : s.id = h
      BY <2>1 DEF HeadsAreSnapshots
    <3> QED
      BY <2>1, <2>2, <2>3, <3>1, HeadSeesAll
  <2> QED
    BY <2>2, <2>3 DEF LineageIsAnswered
<1> QED
  BY <1>1, LineageAlways, PTL

================================================================================
