-------------------------- MODULE SnapshotExportProofs --------------------------
(***************************************************************************)
(* Proofs about SnapshotExport, for every set of clauses, mappings,        *)
(* publishers and requests and every bound.                                *)
(***************************************************************************)
EXTENDS SnapshotExport, WellFoundedInduction, TLAPS

USE NoneAssumption

--------------------------------------------------------------------------------
(* The greatest of a bounded set of numbers. *)

(* A set of numbers has a least one, and Min is it. *)
LEMMA MinIsLeast ==
    ASSUME NEW S \in SUBSET Nat, S # {}
    PROVE  Min(S) \in S /\ \A n \in S : Min(S) <= n
<1> DEFINE Less == {p \in Nat \X Nat : p[1] < p[2]}
<1>1. IsWellFoundedOn(Less, Nat)
  BY NatLessThanWellFounded, Zenon DEF OpToRel
<1>2. \A m, n \in Nat : m < n => <<m, n>> \in Less
  OBVIOUS
<1> HIDE DEF Less
<1>3. PICK n \in S : \A m \in S : ~ (<<m, n>> \in Less)
  BY <1>1, WFMin, Zenon
<1>4. \A m \in S : ~ (m < n)
  BY <1>2, <1>3, Zenon
<1>5. \E x \in S : \A y \in S : x <= y
  BY <1>4
<1> QED
  BY <1>5, Zenon DEF Min

(* A set of numbers below a bound has a greatest one, and Max is it. *)
LEMMA MaxIsGreatest ==
    ASSUME NEW S \in SUBSET Nat, S # {}, NEW bound \in Nat, \A n \in S : n <= bound
    PROVE  Max(S) \in S /\ \A n \in S : n <= Max(S)
<1> DEFINE Rest == {k \in Nat : \E n \in S : k = bound - n}
<1>1. \A n \in S : bound - n \in Rest
  OBVIOUS
<1>2. Rest \in SUBSET Nat /\ Rest # {}
  BY <1>1
<1>3. Min(Rest) \in Rest /\ \A k \in Rest : Min(Rest) <= k
  <2> HIDE DEF Rest
  <2> QED
    BY <1>2, MinIsLeast
<1>4. PICK n \in S : Min(Rest) = bound - n
  BY <1>3
<1>5. \A m \in S : n >= m
  <2> TAKE m \in S
  <2>1. Min(Rest) <= bound - m
    BY <1>1, <1>3
  <2> QED
    BY <1>4, <2>1
<1>6. \E x \in S : \A y \in S : x >= y
  BY <1>5
<1>7. Max(S) \in S /\ \A y \in S : Max(S) >= y
  BY <1>6, Zenon DEF Max
<1> QED
  BY <1>7

--------------------------------------------------------------------------------
(* What is recorded: revisions, change sets and snapshots. *)

RecordsOK ==
    /\ revisions \in [Clauses -> Seq(Revision)]
    /\ decisions \in Nat
    /\ logged \subseteq Clauses
    /\ changesets \in Seq(Changeset)
    /\ copies \in Seq(SUBSET Publication)
    /\ Len(copies) = Len(changesets)
    /\ overwrites \in Nat
    /\ graph \in Seq(Mapping)
    /\ heads \in SUBSET Nat
    /\ publisher \in [Publishers -> Publishing \cup {None}]
    /\ overwritten \in SUBSET DOMAIN changesets
    /\ publishersMet \in BOOLEAN

(* A revision without a decision is pending. *)
Undecided(c) ==
    \A i \in DOMAIN revisions[c] :
        ~revisions[c][i].revision_history => revisions[c][i].status = "pending"

Base(k) == changesets[k].base_snapshot_id

Content(k) == changesets[k].content

(* Snapshot s was made of the change set of row k: on its base, where          *)
(* publishers take turns.                                                      *)
MadeOf(s, k) ==
    /\ s \in DOMAIN graph
    /\ graph[s] = Content(k)
    /\ ~publishersMet => s = Base(k) + 1

(* A change set has parsed clauses only.  What it names, and what any update   *)
(* may make it name, is a snapshot that was made of it; published without a    *)
(* snapshot it is only where an update was overwritten.                        *)
RowOK(k) ==
    /\ Base(k) <= Len(graph)
    /\ \A c \in SourceClauseIds(k) : revisions[c] # <<>>
    /\ changesets[k].publication \in copies[k]
    /\ \A copy \in copies[k] :
        copy.published_snapshot_id # None => MadeOf(copy.published_snapshot_id, k)
    /\ k \in PublishedRows /\ SnapshotOf(k) = None => k \in overwritten

(* What a publisher has committed was made of its change set.                  *)
AtWork(p) ==
    publisher[p] # None =>
        /\ publisher[p].row \in DOMAIN changesets
        /\ publisher[p].snapshot # None => MadeOf(publisher[p].snapshot, publisher[p].row)

(* Where publishers take turns, there is one head, and it is the base of the   *)
(* change set at work, or what was made of it.                                 *)
Turn(p) ==
    publisher[p] # None =>
        /\ \A q \in Publishers : publisher[q] # None => q = p
        /\ publisher[p].snapshot = None =>
            publisher[p].heads = heads /\ Base(publisher[p].row) = Len(graph)

(* A change set is live if an update may make it name a snapshot, if it is     *)
(* being published or if it may be published next; an older change set has no  *)
(* later base than a live one.                                                 *)
Live(k) ==
    \/ \E copy \in copies[k] : copy.published_snapshot_id # None
    \/ \E p \in Publishers : publisher[p] # None /\ publisher[p].row = k
    \/ Base(k) = Len(graph)

InOrder ==
    \A k, l \in DOMAIN changesets : k < l /\ Live(l) => Base(k) <= Base(l)

Serial ==
    ~publishersMet =>
        /\ heads = {Len(graph)}
        /\ \A p \in Publishers : Turn(p)
        /\ InOrder

RecordIInv ==
    /\ RecordsOK
    /\ \A c \in Clauses : Undecided(c)
    /\ \A k \in DOMAIN changesets : RowOK(k)
    /\ \A s \in DOMAIN graph : \A c \in graph[s].clauses : revisions[c] # <<>>
    /\ \A p \in Publishers : AtWork(p)
    /\ Serial

--------------------------------------------------------------------------------
(* What a request has read and answered. *)

RequestsOK ==
    /\ export \in [Exports -> Export \cup {None}]
    /\ since \in [Exports -> SUBSET (Clauses \X Statuses)]
    /\ callsAtStart \in [Exports -> SUBSET Clauses]
    /\ unread \in [Exports -> SUBSET Clauses]
    /\ lapsed \in [Exports -> SUBSET Clauses]

(* A clause that was answered, and one that was left out. *)
Answered(e, o) ==
    /\ <<o.clause, o.review_status>> \in since[e]
    /\ IF export[e].form = "bundle"
       THEN /\ o.clause \in graph[export[e].snapshot].clauses
            /\ o.review_status \in {"accepted", "edited"}
       ELSE /\ o.clause \in graph[export[e].snapshot].drawable
            /\ o.review_status = "accepted"

Overwritten(c) == \E k \in overwritten : c \in SourceClauseIds(k)

LeftOut(e, c) ==
    \/ \E status \in Statuses \ {"accepted"} :
            /\ status = "edited" => export[e].form = "view"
            /\ <<c, status>> \in since[e]
    \/ /\ export[e].form = "bundle"
       /\ \/ c \notin callsAtStart[e]
          \/ c \in unread[e]
          \/ c \in lapsed[e] /\ Overwritten(c)
    \/ /\ export[e].form = "view"
       /\ \/ c \in graph[export[e].snapshot].undrawable
          \/ c \notin graph[export[e].snapshot].drawable

(* A change set that names the clause is published, or was overwritten. *)
Named(c) ==
    \E k \in DOMAIN changesets :
        c \in SourceClauseIds(k) /\ (k \in PublishedRows \/ k \in overwritten)

(* A clause that waits for a gate is one the snapshot was made of.  The status *)
(* its latest revision has is among those seen, and if it is not found         *)
(* published, that has been seen.                                              *)
Waiting(e) == {c \in Clauses : c \in export[e].todo \/ c = export[e].reading}

Waits(e, c) ==
    /\ export[e].form = "bundle"
    /\ c \in graph[export[e].snapshot].clauses
    /\ <<c, Latest(c).status>> \in since[e]
    /\ Named(c)
    /\ LinkResolves(c) \/ c \in lapsed[e]

(* So is the approved status that the first gate has read. *)
FirstGate(e) ==
    export[e].reading # None =>
        export[e].status \in Approved /\ <<export[e].reading, export[e].status>> \in since[e]

Request(e) ==
    /\ callsAtStart[e] \subseteq logged
    /\ export[e] # None =>
        /\ export[e].snapshot \in DOMAIN graph
        /\ \A c \in Waiting(e) : Waits(e, c)
        /\ FirstGate(e)
        /\ \A o \in export[e].included : Answered(e, o)
        /\ \A c \in export[e].excluded : LeftOut(e, c)

ExportIInv == RecordIInv /\ RequestsOK /\ \A e \in Exports : Request(e)

--------------------------------------------------------------------------------
(* What a step on the records does. *)

(* A revision is stored, or the status of one is decided: a clause keeps its   *)
(* revisions, and what its latest one becomes is seen by the requests at work. *)
RevisionsMove ==
    /\ revisions' \in [Clauses -> Seq(Revision)]
    /\ \A c \in Clauses : revisions[c] # <<>> => revisions'[c] # <<>>
    /\ \A c \in Clauses : Undecided(c) => Undecided(c)'
    /\ \A c \in Clauses :
        \/ Latest(c)' = Latest(c)
        \/ /\ Latest(c)'.status \in Statuses
           /\ \A e \in Exports : Active(e) => <<c, Latest(c)'.status>> \in since'[e]
    /\ logged \subseteq logged' /\ logged' \subseteq Clauses
    /\ decisions' \in Nat

Seen ==
    /\ since' \in [Exports -> SUBSET (Clauses \X Statuses)]
    /\ \A e \in Exports : since[e] \subseteq since'[e]
    /\ UNCHANGED <<export, callsAtStart, unread, lapsed>>

LEMMA LatestRevision ==
    ASSUME RecordsOK, NEW c \in Clauses
    PROVE  /\ revisions[c] = <<>> => Latest(c) = None
           /\ revisions[c] # <<>> =>
                /\ Latest(c) = revisions[c][Len(revisions[c])]
                /\ Len(revisions[c]) \in DOMAIN revisions[c]
                /\ Latest(c) \in Revision /\ Latest(c) # None
                /\ Latest(c).status \in Statuses
<1>1. revisions[c] \in Seq(Revision)
  BY DEF RecordsOK
<1>2. ASSUME revisions[c] # <<>>
      PROVE  Len(revisions[c]) \in DOMAIN revisions[c] /\ revisions[c][Len(revisions[c])] \in Revision
  BY <1>1, <1>2
<1> QED
  BY <1>2 DEF Latest, Revision

LEMMA ObservedIsSeen ==
    ASSUME RequestsOK, NEW c \in Clauses, NEW status \in Statuses
    PROVE  /\ Observed(c, status) \in [Exports -> SUBSET (Clauses \X Statuses)]
           /\ \A e \in Exports : since[e] \subseteq Observed(c, status)[e]
           /\ \A e \in Exports : Active(e) => <<c, status>> \in Observed(c, status)[e]
<1>1. \A e \in Exports : since[e] \cup {<<c, status>>} \in SUBSET (Clauses \X Statuses)
  BY DEF RequestsOK
<1> QED
  BY <1>1, Zenon DEF Observed, RequestsOK

LEMMA ParseEffect ==
    ASSUME RecordsOK, RequestsOK, NEW c \in Clauses, Parse(c)
    PROVE  RevisionsMove /\ Seen /\ UNCHANGED graphVars
<1> DEFINE row == [status |-> "pending", revision_history |-> FALSE]
<1>1. row \in Revision /\ row.status = "pending"
  BY DEF Revision, Statuses
<1>2. /\ revisions' = [revisions EXCEPT ![c] = Append(@, row)]
      /\ since' = Observed(c, "pending")
      /\ logged \subseteq logged' /\ logged' \subseteq Clauses
      /\ UNCHANGED <<decisions, graphVars, export, callsAtStart, unread, lapsed>>
  BY DEF Parse, RecordsOK
<1> HIDE DEF row
<1>3. revisions[c] \in Seq(Revision)
  BY DEF RecordsOK
<1>4. /\ revisions'[c] = Append(revisions[c], row)
      /\ \A d \in Clauses : d # c => revisions'[d] = revisions[d]
      /\ revisions' \in [Clauses -> Seq(Revision)]
  BY <1>1, <1>2, <1>3 DEF RecordsOK
<1>5. /\ revisions'[c] # <<>> /\ Len(revisions'[c]) = Len(revisions[c]) + 1
      /\ revisions'[c][Len(revisions[c]) + 1] = row
      /\ DOMAIN revisions'[c] = 1..(Len(revisions[c]) + 1)
      /\ \A i \in 1..Len(revisions[c]) : revisions'[c][i] = revisions[c][i]
      /\ DOMAIN revisions[c] = 1..Len(revisions[c]) /\ Len(revisions[c]) \in Nat
  BY <1>1, <1>3, <1>4
<1>6. Latest(c)' = row
  BY <1>5 DEF Latest
<1>7. \A d \in Clauses : Undecided(d) => Undecided(d)'
  <2> SUFFICES ASSUME NEW d \in Clauses, Undecided(d), NEW i \in DOMAIN revisions'[d],
                      ~revisions'[d][i].revision_history
               PROVE  revisions'[d][i].status = "pending"
    BY DEF Undecided
  <2>1. CASE d # c
    BY <1>4, <2>1 DEF Undecided
  <2>2. CASE d = c /\ i = Len(revisions[c]) + 1
    BY <1>1, <1>5, <2>2
  <2>3. CASE d = c /\ i \in DOMAIN revisions[c]
    BY <1>5, <2>3 DEF Undecided
  <2> QED
    BY <1>5, <2>1, <2>2, <2>3
<1>8. \A d \in Clauses : d # c => Latest(d)' = Latest(d)
  BY <1>4 DEF Latest
<1>9. "pending" \in Statuses
  BY DEF Statuses
<1>10. /\ since' \in [Exports -> SUBSET (Clauses \X Statuses)]
       /\ \A e \in Exports : since[e] \subseteq since'[e]
       /\ \A e \in Exports : Active(e) => <<c, "pending">> \in since'[e]
  BY <1>2, <1>9, ObservedIsSeen
<1>11. \A d \in Clauses : revisions[d] # <<>> => revisions'[d] # <<>>
  BY <1>4, <1>5
<1> QED
  BY <1>1, <1>2, <1>4, <1>6, <1>7, <1>8, <1>9, <1>10, <1>11 DEF RevisionsMove, Seen, RecordsOK

LEMMA DecideEffect ==
    ASSUME RecordsOK, RequestsOK,
           NEW c \in Clauses, NEW i \in 1..MaxRevisions, NEW status \in Statuses,
           Decide(c, i, status)
    PROVE  RevisionsMove /\ Seen /\ UNCHANGED graphVars
<1> DEFINE row == [status |-> status, revision_history |-> TRUE]
<1>1. row \in Revision /\ row.status = status /\ row.revision_history
  BY DEF Revision
<1>2. /\ i \in DOMAIN revisions[c]
      /\ revisions' = [revisions EXCEPT ![c][i] = row]
      /\ since' = IF i = Len(revisions[c]) THEN Observed(c, status) ELSE since
      /\ UNCHANGED <<logged, graphVars, export, callsAtStart, unread, lapsed>>
      /\ decisions' = decisions + 1
  BY DEF Decide
<1> HIDE DEF row
<1>3. revisions[c] \in Seq(Revision) /\ revisions \in [Clauses -> Seq(Revision)]
  BY DEF RecordsOK
<1>4. revisions' = [revisions EXCEPT ![c] = [revisions[c] EXCEPT ![i] = row]]
  BY <1>2, Zenon
<1>5. [revisions[c] EXCEPT ![i] = row] \in Seq(Revision)
  BY <1>1, <1>2, <1>3
<1>6. /\ revisions'[c] = [revisions[c] EXCEPT ![i] = row]
      /\ \A d \in Clauses : d # c => revisions'[d] = revisions[d]
      /\ revisions' \in [Clauses -> Seq(Revision)]
  BY <1>3, <1>4, <1>5
<1>7. /\ Len(revisions'[c]) = Len(revisions[c]) /\ Len(revisions[c]) \in Nat
      /\ DOMAIN revisions'[c] = DOMAIN revisions[c] /\ DOMAIN revisions[c] = 1..Len(revisions[c])
      /\ revisions'[c][i] = row
      /\ \A k \in DOMAIN revisions[c] : k # i => revisions'[c][k] = revisions[c][k]
  BY <1>2, <1>3, <1>6
<1>8. revisions[c] # <<>> /\ revisions'[c] # <<>>
  <2>1. Len(revisions[c]) # 0 /\ Len(revisions'[c]) # 0
    BY <1>2, <1>7
  <2> QED
    BY <2>1
<1>9. \A d \in Clauses : Undecided(d) => Undecided(d)'
  <2> SUFFICES ASSUME NEW d \in Clauses, Undecided(d), NEW k \in DOMAIN revisions'[d],
                      ~revisions'[d][k].revision_history
               PROVE  revisions'[d][k].status = "pending"
    BY DEF Undecided
  <2>1. CASE d # c
    BY <1>6, <2>1 DEF Undecided
  <2>2. CASE d = c
    BY <1>1, <1>7, <2>2 DEF Undecided
  <2> QED
    BY <2>1, <2>2
<1>10. \A d \in Clauses : d # c => Latest(d)' = Latest(d)
  BY <1>6 DEF Latest
<1>11. CASE i = Len(revisions[c])
  <2>1. Latest(c)' = row
    BY <1>7, <1>8, <1>11 DEF Latest
  <2>2. /\ since' \in [Exports -> SUBSET (Clauses \X Statuses)]
        /\ \A e \in Exports : since[e] \subseteq since'[e]
        /\ \A e \in Exports : Active(e) => <<c, status>> \in since'[e]
    BY <1>2, <1>11, ObservedIsSeen
  <2>3. Seen
    BY <1>2, <2>2 DEF Seen
  <2>4. \A d \in Clauses : revisions[d] # <<>> => revisions'[d] # <<>>
    BY <1>6, <1>8
  <2>5. \A d \in Clauses :
            \/ Latest(d)' = Latest(d)
            \/ /\ Latest(d)'.status \in Statuses
               /\ \A e \in Exports : Active(e) => <<d, Latest(d)'.status>> \in since'[e]
    BY <1>1, <1>10, <2>1, <2>2
  <2> QED
    BY <1>2, <1>6, <1>9, <2>3, <2>4, <2>5 DEF RevisionsMove, RecordsOK
<1>12. CASE i # Len(revisions[c])
  <2>1. Latest(c)' = Latest(c)
    BY <1>7, <1>8, <1>12 DEF Latest
  <2>2. since' = since
    BY <1>2, <1>12
  <2> QED
    BY <1>2, <1>6, <1>8, <1>9, <1>10, <2>1, <2>2 DEF RevisionsMove, Seen, RecordsOK, RequestsOK
<1> QED
  BY <1>11, <1>12

(* A step on the change sets and the graph: snapshots stay, a clause stays     *)
(* named, and a request at work sees one that is not found published any more. *)
GraphMoves ==
    /\ \A s \in DOMAIN graph : s \in DOMAIN graph' /\ graph'[s] = graph[s]
    /\ \A c \in Clauses : Named(c) => Named(c)'
    /\ \A c \in Clauses : Overwritten(c) => Overwritten(c)'
    /\ \A c \in Clauses :
        LinkResolves(c) => LinkResolves(c)' \/ \A e \in Exports : Active(e) => c \in lapsed'[e]
    /\ \A e \in Exports : lapsed[e] \subseteq lapsed'[e]
    /\ lapsed' \in [Exports -> SUBSET Clauses]
    /\ UNCHANGED <<recordVars, export, since, callsAtStart, unread>>

LEMMA RowType ==
    ASSUME RecordsOK, NEW k \in DOMAIN changesets
    PROVE  /\ changesets[k] \in Changeset /\ Base(k) \in Nat /\ Content(k) \in Mapping
           /\ SourceClauseIds(k) \in SUBSET Clauses
           /\ changesets[k].publication \in Publication
           /\ k \in DOMAIN copies /\ copies[k] \in SUBSET Publication
           /\ Len(graph) \in Nat /\ DOMAIN graph = 1..Len(graph)
<1>1. changesets[k] \in Changeset /\ k \in DOMAIN copies
  BY DEF RecordsOK
<1>2. copies[k] \in SUBSET Publication
  BY <1>1 DEF RecordsOK
<1>3. Len(graph) \in Nat /\ DOMAIN graph = 1..Len(graph)
  BY DEF RecordsOK
<1> QED
  BY <1>1, <1>2, <1>3 DEF Changeset, Mapping, Base, Content, SourceClauseIds

LEMMA SnapshotType ==
    ASSUME RecordsOK, NEW s \in DOMAIN graph
    PROVE  /\ graph[s] \in Mapping /\ s \in Nat \ {0}
           /\ graph[s].clauses \in SUBSET Clauses
           /\ graph[s].drawable \in SUBSET Clauses /\ graph[s].undrawable \in SUBSET Clauses
<1>1. graph \in Seq(Mapping)
  BY DEF RecordsOK
<1>2. graph[s] \in Mapping /\ s \in Nat \ {0}
  BY <1>1
<1> QED
  BY <1>2 DEF Mapping

LEMMA PublisherType ==
    ASSUME RecordsOK, NEW p \in Publishers, publisher[p] # None
    PROVE  /\ publisher[p] \in Publishing /\ publisher[p].heads \in SUBSET Nat
           /\ publisher[p].snapshot \in (Nat \ {0}) \cup {None}
<1>1. publisher[p] \in Publishing
  BY DEF RecordsOK
<1> QED
  BY <1>1 DEF Publishing

(* The last row of the scan. *)
LEMMA LastRow ==
    ASSUME changesets \in Seq(Changeset), NEW c, RowsOfClause(c) # {}
    PROVE  /\ FindPublishedByClauseId(c) \in RowsOfClause(c)
           /\ \A k \in RowsOfClause(c) : k <= FindPublishedByClauseId(c)
           /\ FindPublishedByClauseId(c) # None /\ FindPublishedByClauseId(c) \in Nat
           /\ RowsOfClause(c) \in SUBSET Nat
<1> DEFINE rows == RowsOfClause(c)
<1>1. Len(changesets) \in Nat /\ \A k \in rows : k \in 1..Len(changesets)
  BY DEF RowsOfClause, PublishedRows
<1>2. rows \in SUBSET Nat /\ \A k \in rows : k <= Len(changesets)
  BY <1>1
<1>3. FindPublishedByClauseId(c) = Max(rows)
  BY DEF FindPublishedByClauseId
<1> HIDE DEF rows
<1>4. Max(rows) \in rows /\ \A k \in rows : k <= Max(rows)
  BY <1>1, <1>2, MaxIsGreatest DEF rows
<1> QED
  BY <1>2, <1>3, <1>4 DEF rows

(* The last row stays the last where rows are added that name a snapshot, or    *)
(* that are not published.                                                      *)
LEMMA StillResolves ==
    ASSUME changesets \in Seq(Changeset), changesets' \in Seq(Changeset),
           NEW c, LinkResolves(c), RowsOfClause(c) \subseteq RowsOfClause(c)',
           \A k \in RowsOfClause(c)' :
                SnapshotOf(k)' # None \/ (k \in RowsOfClause(c) /\ SnapshotOf(k)' = SnapshotOf(k))
    PROVE  LinkResolves(c)'
<1>1. RowsOfClause(c) # {} /\ RowsOfClause(c)' # {}
  BY DEF LinkResolves, FindPublishedByClauseId
<1>2. PICK f : f = FindPublishedByClauseId(c)
  OBVIOUS
<1>3. f \in RowsOfClause(c) /\ f \in Nat /\ \A k \in RowsOfClause(c) : k <= f
  BY <1>1, <1>2, LastRow
<1>4. SnapshotOf(f) # None
  BY <1>2 DEF LinkResolves
<1>5. PICK g : g = FindPublishedByClauseId(c)'
  OBVIOUS
<1>6. g \in RowsOfClause(c)' /\ g \in Nat /\ g # None /\ \A k \in RowsOfClause(c)' : k <= g
  <2> DEFINE rows == RowsOfClause(c)'
  <2>1. Len(changesets') \in Nat /\ \A k \in rows : k \in 1..Len(changesets')
    BY DEF RowsOfClause, PublishedRows
  <2>2. rows \in SUBSET Nat /\ \A k \in rows : k <= Len(changesets')
    BY <2>1
  <2>3. g = Max(rows)
    BY <1>1, <1>5 DEF FindPublishedByClauseId
  <2>4. rows # {}
    BY <1>1
  <2> HIDE DEF rows
  <2>5. Max(rows) \in rows /\ \A k \in rows : k <= Max(rows)
    BY <2>1, <2>2, <2>4, MaxIsGreatest
  <2> QED
    BY <2>2, <2>3, <2>5 DEF rows
<1>7. g \in RowsOfClause(c) => g = f
  BY <1>3, <1>6
<1>8. SnapshotOf(g)' # None
  BY <1>4, <1>6, <1>7
<1> QED
  BY <1>5, <1>6, <1>8 DEF LinkResolves, SnapshotOf

(* Where the change sets are left alone, a clause is named and resolves as     *)
(* before.                                                                     *)
LEMMA TableKept ==
    ASSUME UNCHANGED <<changesets, overwritten>>
    PROVE  \A c : /\ Named(c)' = Named(c) /\ Overwritten(c)' = Overwritten(c)
                  /\ LinkResolves(c)' = LinkResolves(c)
<1> TAKE c
<1>1. PublishedRows' = PublishedRows /\ RowsOfClause(c)' = RowsOfClause(c)
  BY DEF PublishedRows, RowsOfClause, SourceClauseIds
<1>2. \A k : SourceClauseIds(k)' = SourceClauseIds(k) /\ SnapshotOf(k)' = SnapshotOf(k)
  BY DEF SourceClauseIds, SnapshotOf
<1>3. FindPublishedByClauseId(c)' = FindPublishedByClauseId(c)
  BY <1>1 DEF FindPublishedByClauseId
<1>4. LinkResolves(c)' = LinkResolves(c)
  <2>1. SnapshotOf(FindPublishedByClauseId(c))' = SnapshotOf(FindPublishedByClauseId(c))
    BY <1>3 DEF SnapshotOf
  <2> QED
    BY <1>3, <2>1 DEF LinkResolves
<1> QED
  BY <1>1, <1>2, <1>4 DEF Named, Overwritten

LEMMA RevisionsStep ==
    ASSUME RecordIInv, RevisionsMove, UNCHANGED graphVars
    PROVE  RecordIInv'
<1>1. UNCHANGED <<changesets, copies, overwrites, overwritten, graph, heads, publisher,
                  publishersMet>>
  BY DEF graphVars, tableVars, storeVars
<1>2. RecordsOK'
  BY <1>1 DEF RecordIInv, RecordsOK, RevisionsMove
<1>3. \A c \in Clauses : revisions[c] # <<>> => revisions'[c] # <<>>
  BY DEF RevisionsMove
<1>4. \A k \in DOMAIN changesets : RowOK(k)'
  <2> SUFFICES ASSUME NEW k \in DOMAIN changesets
               PROVE  RowOK(k)'
    OBVIOUS
  <2>1. SourceClauseIds(k) \subseteq Clauses
    BY RowType DEF RecordIInv
  <2>2. RowOK(k)
    BY DEF RecordIInv
  <2> QED
    BY <1>1, <1>3, <2>1, <2>2
    DEF RowOK, MadeOf, Base, Content, SourceClauseIds, SnapshotOf, PublishedRows
<1>5. \A s \in DOMAIN graph : \A c \in graph[s].clauses : revisions'[c] # <<>>
  <2>1. \A s \in DOMAIN graph : graph[s].clauses \subseteq Clauses
    BY SnapshotType DEF RecordIInv
  <2> QED
    BY <1>3, <2>1 DEF RecordIInv
<1>6. Serial' /\ \A p \in Publishers : AtWork(p)'
  BY <1>1 DEF RecordIInv, Serial, Turn, InOrder, Live, AtWork, MadeOf, Base, Content
<1>7. \A c \in Clauses : Undecided(c)'
  BY DEF RecordIInv, RevisionsMove
<1> QED
  BY <1>1, <1>2, <1>4, <1>5, <1>6, <1>7 DEF RecordIInv

(* Steps of publishers leave the table alone. *)
LEMMA StoreMoves ==
    ASSUME RecordsOK, RequestsOK, UNCHANGED <<recordVars, tableVars, requestVars>>,
           \A s \in DOMAIN graph : s \in DOMAIN graph' /\ graph'[s] = graph[s]
    PROVE  GraphMoves
<1>1. UNCHANGED <<recordVars, changesets, overwritten, export, since, callsAtStart, unread, lapsed>>
  BY DEF tableVars, requestVars
<1> QED
  BY <1>1, TableKept DEF GraphMoves, RequestsOK

LEMMA ProposeStep ==
    ASSUME RecordIInv, RequestsOK, NEW mapping \in Mappings, NEW base \in 0..Len(graph),
           Propose(mapping, base)
    PROVE  RecordIInv' /\ GraphMoves
<1> DEFINE row == [content |-> mapping, base_snapshot_id |-> base,
                   publication |-> Unpublished]
<1>0. RecordsOK /\ Len(graph) \in Nat
  BY DEF RecordIInv, RecordsOK
<1>1. /\ row \in Changeset /\ row.content = mapping /\ row.base_snapshot_id = base
      /\ row.publication = Unpublished /\ Unpublished \in Publication
      /\ base \in Nat /\ base <= Len(graph) /\ mapping.clauses \subseteq Clauses
      /\ ~Unpublished.published /\ Unpublished.published_snapshot_id = None
  BY <1>0, MappingsAssumption DEF Changeset, Mapping, Publication, Unpublished
<1>2. /\ changesets' = Append(changesets, row)
      /\ copies' = Append(copies, {Unpublished})
      /\ \A c \in mapping.clauses :
            \E i \in DOMAIN revisions[c] : revisions[c][i].status \in Approved
      /\ UNCHANGED <<recordVars, overwrites, overwritten, storeVars, requestVars>>
  BY DEF Propose
<1> HIDE DEF row
<1>3. changesets \in Seq(Changeset) /\ copies \in Seq(SUBSET Publication)
      /\ Len(copies) = Len(changesets)
  BY <1>0 DEF RecordsOK
<1> PICK n : n = Len(changesets)
  OBVIOUS
<1>4. /\ n \in Nat /\ DOMAIN changesets = 1..n /\ DOMAIN changesets' = 1..(n + 1)
      /\ changesets' \in Seq(Changeset) /\ changesets'[n + 1] = row
      /\ \A k \in 1..n : changesets'[k] = changesets[k]
  BY <1>1, <1>2, <1>3
<1>5. /\ copies' \in Seq(SUBSET Publication) /\ Len(copies') = Len(changesets')
      /\ copies'[n + 1] = {Unpublished} /\ \A k \in 1..n : copies'[k] = copies[k]
  BY <1>1, <1>2, <1>3, <1>4
<1>6. UNCHANGED <<revisions, decisions, logged, graph, heads, publisher, publishersMet,
                  overwrites, overwritten>>
  BY <1>2 DEF recordVars, storeVars
<1>7. UNCHANGED <<recordVars, export, since, callsAtStart, unread, lapsed>>
  BY <1>2 DEF requestVars
<1>8. RecordsOK'
  <2>1. DOMAIN changesets \subseteq DOMAIN changesets'
    BY <1>4
  <2> QED
    BY <1>0, <1>4, <1>5, <1>6, <2>1 DEF RecordsOK
<1>9. \A k \in 1..n : /\ Base(k)' = Base(k) /\ Content(k)' = Content(k)
                      /\ SourceClauseIds(k)' = SourceClauseIds(k)
                      /\ SnapshotOf(k)' = SnapshotOf(k)
                      /\ (k \in PublishedRows)' = (k \in PublishedRows)
  BY <1>4 DEF Base, Content, SourceClauseIds, SnapshotOf, PublishedRows
<1>10. /\ Base(n + 1)' = base /\ SourceClauseIds(n + 1)' = mapping.clauses
       /\ n + 1 \notin PublishedRows'
  BY <1>1, <1>4 DEF Base, SourceClauseIds, PublishedRows
<1>11. \A k \in DOMAIN changesets' : RowOK(k)'
  <2> TAKE k \in DOMAIN changesets'
  <2>1. CASE k = n + 1
    <3>1. \A c \in mapping.clauses : revisions'[c] # <<>>
      BY <1>2, <1>6
    <3>2. changesets'[k].publication \in copies'[k]
      BY <1>1, <1>4, <1>5, <2>1
    <3>3. \A copy \in copies'[k] : copy.published_snapshot_id = None
      BY <1>1, <1>5, <2>1
    <3> QED
      BY <1>1, <1>6, <1>10, <2>1, <3>1, <3>2, <3>3 DEF RowOK
  <2>2. CASE k \in 1..n
    <3>1. RowOK(k)
      BY <1>4, <2>2 DEF RecordIInv
    <3>2. copies'[k] = copies[k] /\ changesets'[k] = changesets[k]
      BY <1>4, <1>5, <2>2
    <3>3. \A s : MadeOf(s, k)' = MadeOf(s, k)
      BY <1>6, <1>9, <2>2 DEF MadeOf
    <3> QED
      BY <1>6, <1>9, <2>2, <3>1, <3>2, <3>3 DEF RowOK
  <2> QED
    BY <1>4, <2>1, <2>2
<1>12. \A p \in Publishers : AtWork(p)'
  <2> SUFFICES ASSUME NEW p \in Publishers, publisher[p] # None
               PROVE  AtWork(p)'
    BY <1>6 DEF AtWork
  <2>1. publisher[p].row \in 1..n /\ AtWork(p)
    BY <1>4 DEF RecordIInv, AtWork
  <2> QED
    BY <1>4, <1>6, <1>9, <2>1 DEF AtWork, MadeOf
<1>13. Serial'
  <2> SUFFICES ASSUME ~publishersMet
               PROVE  /\ heads' = {Len(graph')}
                      /\ \A p \in Publishers : Turn(p)'
                      /\ InOrder'
    BY <1>6 DEF Serial
  <2>1. heads = {Len(graph)} /\ (\A p \in Publishers : Turn(p)) /\ InOrder
    BY DEF RecordIInv, Serial
  <2>2. \A p \in Publishers : publisher[p] # None => publisher[p].row \in 1..n
    BY <1>4 DEF RecordIInv, AtWork
  <2>3. \A p \in Publishers : Turn(p)'
    BY <1>6, <1>9, <2>1, <2>2 DEF Turn
  <2>4. InOrder'
    <3> SUFFICES ASSUME NEW k \in DOMAIN changesets', NEW l \in DOMAIN changesets',
                        k < l, Live(l)'
                 PROVE  Base(k)' <= Base(l)'
      BY DEF InOrder
    <3>1. k \in 1..n
      BY <1>4
    <3>2. CASE l \in 1..n
      <4>1. Live(l)
        BY <1>5, <1>6, <1>9, <3>2 DEF Live
      <4> QED
        BY <1>4, <1>9, <2>1, <3>1, <3>2, <4>1 DEF InOrder
    <3>3. CASE l = n + 1
      <4>1. n + 1 \notin 1..n
        BY <1>4
      <4>2. base = Len(graph)
        BY <1>1, <1>5, <1>6, <1>10, <2>2, <3>3, <4>1 DEF Live
      <4>3. Base(k) <= Len(graph)
        BY <1>4, <3>1 DEF RecordIInv, RowOK
      <4> QED
        BY <1>9, <1>10, <3>1, <3>3, <4>2, <4>3
    <3> QED
      BY <1>4, <3>2, <3>3
  <2> QED
    BY <1>6, <2>1, <2>3, <2>4
<1>14. GraphMoves
  <2>1. \A c \in Clauses : Named(c) => Named(c)'
    BY <1>4, <1>6, <1>9 DEF Named
  <2>2. \A c \in Clauses : Overwritten(c) => Overwritten(c)'
    BY <1>0, <1>4, <1>6, <1>9 DEF Overwritten, RecordsOK
  <2>3. \A c \in Clauses : LinkResolves(c) => LinkResolves(c)'
    <3> SUFFICES ASSUME NEW c \in Clauses, LinkResolves(c)
                 PROVE  LinkResolves(c)'
      OBVIOUS
    <3>1. RowsOfClause(c)' = RowsOfClause(c)
      BY <1>4, <1>9, <1>10 DEF RowsOfClause, PublishedRows
    <3>2. \A k \in RowsOfClause(c)' : SnapshotOf(k)' = SnapshotOf(k)
      BY <1>4, <1>9, <3>1 DEF RowsOfClause, PublishedRows
    <3> QED
      BY <1>3, <1>4, <3>1, <3>2, StillResolves
  <2> QED
    BY <1>6, <1>7, <2>1, <2>2, <2>3 DEF GraphMoves, RequestsOK
<1> QED
  BY <1>4, <1>6, <1>8, <1>11, <1>12, <1>13, <1>14 DEF RecordIInv, Undecided

LEMMA HeadCheckStep ==
    ASSUME RecordIInv, RequestsOK, NEW p \in Publishers, NEW k \in DOMAIN changesets,
           HeadCheck(p, k)
    PROVE  RecordIInv' /\ GraphMoves
<1> DEFINE work == [row |-> k, heads |-> heads, snapshot |-> None]
<1>0. RecordsOK
  BY DEF RecordIInv
<1>1. /\ publisher[p] = None /\ Base(k) \in heads
      /\ publisher' = [publisher EXCEPT ![p] = work]
      /\ publishersMet' = (publishersMet \/ \E q \in Publishers : publisher[q] # None)
      /\ UNCHANGED <<recordVars, tableVars, graph, heads, requestVars>>
  BY DEF HeadCheck, Base
<1>2. UNCHANGED <<revisions, decisions, logged, changesets, copies, overwrites, overwritten,
                  graph, heads>>
  BY <1>1 DEF recordVars, tableVars
<1>3. k \in Nat /\ heads \in SUBSET Nat
  BY <1>0 DEF RecordsOK
<1>4. /\ work \in Publishing /\ work.row = k /\ work.heads = heads /\ work.snapshot = None
      /\ work # None
  BY <1>3 DEF Publishing
<1> HIDE DEF work
<1>5. /\ publisher' \in [Publishers -> Publishing \cup {None}] /\ publisher'[p] = work
      /\ \A q \in Publishers : q # p => publisher'[q] = publisher[q]
  BY <1>0, <1>1, <1>4 DEF RecordsOK
<1>6. publishersMet' \in BOOLEAN /\ (~publishersMet' => ~publishersMet)
  BY <1>0, <1>1 DEF RecordsOK
<1>7. RecordsOK'
  BY <1>0, <1>2, <1>5, <1>6 DEF RecordsOK
<1>8. \A s, l : MadeOf(s, l) => MadeOf(s, l)'
  BY <1>2, <1>6 DEF MadeOf, Base, Content
<1>9. \A l \in DOMAIN changesets : RowOK(l)'
  <2> SUFFICES ASSUME NEW l \in DOMAIN changesets
               PROVE  RowOK(l)'
    OBVIOUS
  <2>1. RowOK(l)
    BY DEF RecordIInv
  <2> QED
    BY <1>2, <1>8, <2>1 DEF RowOK, Base, SourceClauseIds, SnapshotOf, PublishedRows
<1>10. \A q \in Publishers : AtWork(q)'
  <2> SUFFICES ASSUME NEW q \in Publishers
               PROVE  AtWork(q)'
    OBVIOUS
  <2>1. CASE q = p
    BY <1>2, <1>4, <1>5, <2>1 DEF AtWork
  <2>2. CASE q # p
    BY <1>2, <1>5, <1>8, <2>2 DEF AtWork, RecordIInv
  <2> QED
    BY <2>1, <2>2
<1>11. Serial'
  <2> SUFFICES ASSUME ~publishersMet'
               PROVE  /\ heads' = {Len(graph')}
                      /\ \A q \in Publishers : Turn(q)'
                      /\ InOrder'
    BY DEF Serial
  <2>1. /\ ~publishersMet /\ \A q \in Publishers : publisher[q] = None
        /\ heads = {Len(graph)} /\ InOrder
    BY <1>1, <1>6 DEF RecordIInv, Serial
  <2>2. Base(k) = Len(graph)
    BY <1>1, <2>1
  <2>3. \A q \in Publishers : Turn(q)'
    BY <1>2, <1>4, <1>5, <2>1, <2>2 DEF Turn, Base
  <2>4. \A l : Live(l)' => Live(l)
    BY <1>2, <1>4, <1>5, <2>1, <2>2 DEF Live, Base
  <2> QED
    BY <1>2, <2>1, <2>3, <2>4 DEF InOrder, Base
<1>12. GraphMoves
  BY <1>0, <1>1, StoreMoves
<1> QED
  BY <1>2, <1>7, <1>9, <1>10, <1>11, <1>12 DEF RecordIInv, Undecided

LEMMA CommitStep ==
    ASSUME RecordIInv, RequestsOK, NEW p \in Publishers, CommitSnapshot(p)
    PROVE  RecordIInv' /\ GraphMoves
<1>0. RecordsOK /\ graph \in Seq(Mapping)
  BY DEF RecordIInv, RecordsOK
<1>1. PICK n, k : n = Len(graph) /\ k = publisher[p].row
  OBVIOUS
<1>2. /\ publisher[p] # None /\ publisher[p].snapshot = None
      /\ graph' = Append(graph, Content(k))
      /\ publisher' = [publisher EXCEPT ![p].snapshot = Len(graph')]
      /\ UNCHANGED <<recordVars, tableVars, publishersMet, requestVars>>
  BY <1>1 DEF CommitSnapshot, Content
<1>3. PICK kept \in SUBSET (heads \ publisher[p].heads) : heads' = kept \cup {Len(graph')}
  BY DEF CommitSnapshot
<1>4. UNCHANGED <<revisions, decisions, logged, changesets, copies, overwrites, overwritten,
                  publishersMet>>
  BY <1>2 DEF recordVars, tableVars
<1>5. k \in DOMAIN changesets /\ publisher[p] \in Publishing
  BY <1>0, <1>1, <1>2, PublisherType DEF RecordIInv, AtWork
<1>6. Content(k) \in Mapping /\ SourceClauseIds(k) = Content(k).clauses
  BY <1>0, <1>5, RowType DEF Content, SourceClauseIds
<1>7. /\ n \in Nat /\ graph' \in Seq(Mapping) /\ Len(graph') = n + 1
      /\ DOMAIN graph = 1..n /\ DOMAIN graph' = 1..(n + 1)
      /\ graph'[n + 1] = Content(k) /\ \A s \in 1..n : graph'[s] = graph[s]
  BY <1>0, <1>1, <1>2, <1>6
<1> DEFINE work == [publisher[p] EXCEPT !.snapshot = n + 1]
<1>8. /\ work \in Publishing /\ work.row = k /\ work.heads = publisher[p].heads
      /\ work.snapshot = n + 1 /\ n + 1 # None
  BY <1>1, <1>5, <1>7 DEF Publishing
<1>9. publisher' = [publisher EXCEPT ![p] = work]
  BY <1>2, <1>7, Zenon
<1> HIDE DEF work
<1>10. /\ publisher' \in [Publishers -> Publishing \cup {None}] /\ publisher'[p] = work
       /\ \A q \in Publishers : q # p => publisher'[q] = publisher[q]
  BY <1>0, <1>8, <1>9 DEF RecordsOK
<1>11. heads' \in SUBSET Nat
  BY <1>0, <1>3, <1>7 DEF RecordsOK
<1>12. RecordsOK'
  BY <1>0, <1>4, <1>7, <1>10, <1>11 DEF RecordsOK
<1>13. \A s, l : MadeOf(s, l) => MadeOf(s, l)'
  BY <1>4, <1>7 DEF MadeOf, Base, Content
<1>14. \A l \in DOMAIN changesets : RowOK(l)'
  <2> SUFFICES ASSUME NEW l \in DOMAIN changesets
               PROVE  RowOK(l)'
    OBVIOUS
  <2>1. RowOK(l) /\ Base(l) \in Nat
    BY <1>0, RowType DEF RecordIInv
  <2>2. Base(l) <= Len(graph')
    BY <1>1, <1>7, <2>1 DEF RowOK
  <2> QED
    BY <1>4, <1>13, <2>1, <2>2 DEF RowOK, Base, SourceClauseIds, SnapshotOf, PublishedRows
<1>15. \A s \in DOMAIN graph' : \A c \in graph'[s].clauses : revisions'[c] # <<>>
  <2>1. \A c \in Content(k).clauses : revisions[c] # <<>>
    BY <1>5, <1>6 DEF RecordIInv, RowOK
  <2>2. \A s \in 1..n : \A c \in graph[s].clauses : revisions[c] # <<>>
    BY <1>7 DEF RecordIInv
  <2> QED
    BY <1>4, <1>7, <2>1, <2>2
<1>16. ~publishersMet => Base(k) = n
  BY <1>1, <1>2 DEF RecordIInv, Serial, Turn
<1>17. \A q \in Publishers : AtWork(q)'
  <2> SUFFICES ASSUME NEW q \in Publishers
               PROVE  AtWork(q)'
    OBVIOUS
  <2>1. CASE q = p
    <3>1. MadeOf(n + 1, k)'
      BY <1>4, <1>7, <1>16 DEF MadeOf, Base, Content
    <3> QED
      BY <1>4, <1>5, <1>8, <1>10, <2>1, <3>1 DEF AtWork
  <2>2. CASE q # p
    BY <1>4, <1>10, <1>13, <2>2 DEF AtWork, RecordIInv
  <2> QED
    BY <2>1, <2>2
<1>18. Serial'
  <2> SUFFICES ASSUME ~publishersMet
               PROVE  /\ heads' = {Len(graph')}
                      /\ \A q \in Publishers : Turn(q)'
                      /\ InOrder'
    BY <1>4 DEF Serial
  <2>1. (\A q \in Publishers : Turn(q)) /\ InOrder
    BY DEF RecordIInv, Serial
  <2>2. \A q \in Publishers : q # p => publisher[q] = None
    BY <1>2, <2>1 DEF Turn
  <2>3. publisher[p].heads = heads
    BY <1>2, <2>1 DEF Turn
  <2>4. heads' = {Len(graph')}
    BY <1>3, <2>3
  <2>5. \A q \in Publishers : Turn(q)'
    BY <1>8, <1>10, <2>2 DEF Turn
  <2>6. ASSUME NEW l \in DOMAIN changesets, Live(l)'
        PROVE  Live(l)
    <3>1. Base(l) # n + 1
      <4>1. Base(l) <= n /\ Base(l) \in Nat
        BY <1>0, <1>1, RowType DEF RecordIInv, RowOK
      <4> QED
        BY <1>7, <4>1
    <3>2. \A q \in Publishers : publisher'[q] # None /\ publisher'[q].row = l =>
                                    publisher[q] # None /\ publisher[q].row = l
      BY <1>1, <1>2, <1>8, <1>10
    <3>3. Base(l)' = Base(l) /\ copies'[l] = copies[l]
      BY <1>4 DEF Base
    <3> QED
      BY <1>7, <2>6, <3>1, <3>2, <3>3 DEF Live
  <2> QED
    BY <1>4, <2>1, <2>4, <2>5, <2>6 DEF InOrder, Base
<1>19. GraphMoves
  BY <1>0, <1>2, <1>7, StoreMoves
<1> QED
  BY <1>4, <1>12, <1>14, <1>15, <1>17, <1>18, <1>19 DEF RecordIInv, Undecided

(* Publishers leave: nothing else is recorded. *)
LEMMA PublisherDiesStep ==
    ASSUME RecordIInv, RequestsOK, NEW p \in Publishers, PublisherDies(p)
    PROVE  RecordIInv' /\ GraphMoves
<1>0. RecordsOK
  BY DEF RecordIInv
<1>1. /\ publisher' = [publisher EXCEPT ![p] = None]
      /\ UNCHANGED <<recordVars, tableVars, graph, heads, publishersMet, requestVars>>
  BY DEF PublisherDies
<1>2. UNCHANGED <<revisions, decisions, logged, changesets, copies, overwrites, overwritten,
                  graph, heads, publishersMet>>
  BY <1>1 DEF recordVars, tableVars
<1>3. /\ publisher' \in [Publishers -> Publishing \cup {None}]
      /\ \A q \in Publishers : publisher'[q] # None => publisher'[q] = publisher[q]
  BY <1>0, <1>1 DEF RecordsOK
<1>4. RecordsOK'
  BY <1>0, <1>2, <1>3 DEF RecordsOK
<1>5. \A s, l : MadeOf(s, l)' <=> MadeOf(s, l)
  BY <1>2 DEF MadeOf, Base, Content
<1>6. \A l \in DOMAIN changesets : RowOK(l)'
  BY <1>2, <1>5 DEF RecordIInv, RowOK, Base, SourceClauseIds, SnapshotOf, PublishedRows
<1>7. \A q \in Publishers : AtWork(q)'
  BY <1>2, <1>3, <1>5 DEF RecordIInv, AtWork
<1>8. Serial'
  <2>1. \A l : Live(l)' => Live(l)
    BY <1>2, <1>3 DEF Live, Base
  <2>2. \A q \in Publishers : Turn(q) => Turn(q)'
    BY <1>2, <1>3 DEF Turn, Base
  <2> QED
    BY <1>2, <2>1, <2>2 DEF RecordIInv, Serial, InOrder, Base
<1>9. GraphMoves
  BY <1>0, <1>1, <1>2, StoreMoves
<1> QED
  BY <1>2, <1>4, <1>6, <1>7, <1>8, <1>9 DEF RecordIInv, Undecided

(* Writing a row changes what that row says of its publication only, and an    *)
(* update may then write what one might before, or what was written.           *)
LEMMA WriteEffect ==
    ASSUME RecordsOK, NEW k \in DOMAIN changesets, NEW new \in Publication, Write(k, new)
    PROVE  /\ changesets' \in Seq(Changeset) /\ DOMAIN changesets' = DOMAIN changesets
           /\ copies' \in Seq(SUBSET Publication) /\ Len(copies') = Len(changesets')
           /\ changesets'[k].publication = new /\ new \in copies'[k]
           /\ \A copy \in copies'[k] :
                copy \in copies[k] \/ copy.published_snapshot_id = new.published_snapshot_id
           /\ \A l \in DOMAIN changesets :
                /\ l # k => changesets'[l] = changesets[l] /\ copies'[l] = copies[l]
                /\ Base(l)' = Base(l) /\ Content(l)' = Content(l)
                /\ SourceClauseIds(l)' = SourceClauseIds(l)
<1> DEFINE row == [changesets[k] EXCEPT !.publication = new]
           merged == {[published |-> old.published,
                       published_snapshot_id |-> new.published_snapshot_id] :
                            old \in copies[k] \cup {new}}
<1>1. /\ changesets \in Seq(Changeset) /\ changesets[k] \in Changeset
      /\ copies \in Seq(SUBSET Publication) /\ k \in DOMAIN copies
      /\ copies[k] \in SUBSET Publication /\ Len(copies) = Len(changesets)
  BY RowType DEF RecordsOK
<1>2. changesets' = [changesets EXCEPT ![k] = row]
  BY Zenon DEF Write
<1>3. copies' = [copies EXCEPT ![k] = copies[k] \cup merged]
  BY Zenon DEF Write
<1>4. /\ row \in Changeset /\ row.publication = new /\ row.content = changesets[k].content
      /\ row.base_snapshot_id = changesets[k].base_snapshot_id
  BY <1>1 DEF Changeset
<1>5. merged \in SUBSET Publication
  BY <1>1 DEF Publication
<1>6. \A copy \in merged : copy.published_snapshot_id = new.published_snapshot_id
  OBVIOUS
<1>7. new \in merged
  <2>1. new = [published |-> new.published,
               published_snapshot_id |-> new.published_snapshot_id]
    BY DEF Publication
  <2> QED
    BY <2>1
<1> HIDE DEF row, merged
<1>8. /\ changesets' \in Seq(Changeset) /\ DOMAIN changesets' = DOMAIN changesets
      /\ changesets'[k] = row /\ Len(changesets') = Len(changesets)
      /\ \A l \in DOMAIN changesets : l # k => changesets'[l] = changesets[l]
  BY <1>1, <1>2, <1>4
<1>9. copies[k] \cup merged \in SUBSET Publication
  BY <1>1, <1>5
<1>10. /\ copies' \in Seq(SUBSET Publication) /\ Len(copies') = Len(copies)
       /\ copies'[k] = copies[k] \cup merged
       /\ \A l \in DOMAIN copies : l # k => copies'[l] = copies[l]
  BY <1>1, <1>3, <1>9
<1>11. DOMAIN copies = DOMAIN changesets
  BY <1>1
<1>12. \A l \in DOMAIN changesets :
            /\ Base(l)' = Base(l) /\ Content(l)' = Content(l)
            /\ SourceClauseIds(l)' = SourceClauseIds(l)
  BY <1>4, <1>8 DEF Base, Content, SourceClauseIds
<1> QED
  BY <1>1, <1>4, <1>6, <1>7, <1>8, <1>10, <1>11, <1>12

(* A row may be written where what it then names was made of it, and names     *)
(* nothing only if an update is overwritten.                                   *)
LEMMA WriteStep ==
    ASSUME RecordIInv, NEW k \in DOMAIN changesets, NEW new \in Publication, Write(k, new),
           UNCHANGED <<recordVars, graph, heads, publishersMet>>,
           overwrites' \in Nat,
           overwritten \subseteq overwritten', overwritten' \in SUBSET DOMAIN changesets,
           publisher' \in [Publishers -> Publishing \cup {None}],
           \A p \in Publishers : publisher'[p] # None => publisher'[p] = publisher[p],
           new.published_snapshot_id # None => MadeOf(new.published_snapshot_id, k) /\ Live(k),
           new.published /\ new.published_snapshot_id = None => k \in overwritten'
    PROVE  RecordIInv'
<1>0. RecordsOK
  BY DEF RecordIInv
<1>1. UNCHANGED <<revisions, decisions, logged, graph, heads, publishersMet>>
  BY DEF recordVars
<1>2. /\ changesets' \in Seq(Changeset) /\ DOMAIN changesets' = DOMAIN changesets
      /\ copies' \in Seq(SUBSET Publication) /\ Len(copies') = Len(changesets')
      /\ changesets'[k].publication = new /\ new \in copies'[k]
      /\ \A copy \in copies'[k] :
            copy \in copies[k] \/ copy.published_snapshot_id = new.published_snapshot_id
      /\ \A l \in DOMAIN changesets :
            /\ l # k => changesets'[l] = changesets[l] /\ copies'[l] = copies[l]
            /\ Base(l)' = Base(l) /\ Content(l)' = Content(l)
            /\ SourceClauseIds(l)' = SourceClauseIds(l)
  BY <1>0, WriteEffect
<1>3. RecordsOK'
  BY <1>0, <1>1, <1>2 DEF RecordsOK
<1>4. \A l \in DOMAIN changesets : \A s : MadeOf(s, l) => MadeOf(s, l)'
  BY <1>1, <1>2 DEF MadeOf
<1>5. \A l \in DOMAIN changesets : RowOK(l)'
  <2> SUFFICES ASSUME NEW l \in DOMAIN changesets
               PROVE  RowOK(l)'
    OBVIOUS
  <2>1. RowOK(l)
    BY DEF RecordIInv
  <2>2. CASE l # k
    <3>1. /\ SnapshotOf(l)' = SnapshotOf(l)
          /\ l \in PublishedRows' => l \in PublishedRows
      BY <1>2, <2>2 DEF SnapshotOf, PublishedRows
    <3> QED
      BY <1>1, <1>2, <1>4, <2>1, <2>2, <3>1 DEF RowOK
  <2>3. CASE l = k
    <3>1. /\ SnapshotOf(k)' = new.published_snapshot_id
          /\ k \in PublishedRows' => new.published
      BY <1>2 DEF SnapshotOf, PublishedRows
    <3>2. \A copy \in copies'[k] :
            copy.published_snapshot_id # None => MadeOf(copy.published_snapshot_id, k)'
      BY <1>2, <1>4, <2>1, <2>3 DEF RowOK
    <3> QED
      BY <1>1, <1>2, <2>1, <2>3, <3>1, <3>2 DEF RowOK
  <2> QED
    BY <2>2, <2>3
<1>6. \A p \in Publishers : AtWork(p)'
  <2> SUFFICES ASSUME NEW p \in Publishers, publisher'[p] # None
               PROVE  AtWork(p)'
    BY DEF AtWork
  <2>1. AtWork(p) /\ publisher'[p] = publisher[p]
    BY DEF RecordIInv
  <2> QED
    BY <1>2, <1>4, <2>1 DEF AtWork
<1>7. Serial'
  <2> SUFFICES ASSUME ~publishersMet
               PROVE  /\ heads' = {Len(graph')}
                      /\ \A p \in Publishers : Turn(p)'
                      /\ InOrder'
    BY <1>1 DEF Serial
  <2>1. heads = {Len(graph)} /\ (\A p \in Publishers : Turn(p)) /\ InOrder
    BY DEF RecordIInv, Serial
  <2>2. ASSUME NEW l \in DOMAIN changesets, Live(l)'
        PROVE  Live(l)
    <3>1. Base(l)' = Base(l)
      BY <1>2
    <3>2. CASE \E copy \in copies'[l] : copy.published_snapshot_id # None
      BY <1>2, <3>2 DEF Live
    <3>3. CASE \E p \in Publishers : publisher'[p] # None /\ publisher'[p].row = l
      BY <3>3 DEF Live
    <3>4. CASE Base(l) = Len(graph)
      BY <3>4 DEF Live
    <3> QED
      BY <1>1, <2>2, <3>1, <3>2, <3>3, <3>4 DEF Live
  <2>3. \A p \in Publishers : Turn(p)'
    <3> SUFFICES ASSUME NEW p \in Publishers, publisher'[p] # None
                 PROVE  Turn(p)'
      BY DEF Turn
    <3>1. Turn(p) /\ publisher'[p] = publisher[p] /\ AtWork(p)
      BY <2>1 DEF RecordIInv
    <3> QED
      BY <1>1, <1>2, <3>1 DEF Turn, AtWork
  <2> QED
    BY <1>1, <1>2, <2>1, <2>2, <2>3 DEF InOrder
<1> QED
  BY <1>1, <1>2, <1>3, <1>5, <1>6, <1>7 DEF RecordIInv, Undecided

LEMMA LinkStep ==
    ASSUME RecordIInv, RequestsOK, NEW p \in Publishers, LinkSnapshot(p)
    PROVE  RecordIInv' /\ GraphMoves
<1>0. RecordsOK /\ overwrites \in Nat /\ overwritten \in SUBSET DOMAIN changesets
  BY DEF RecordIInv, RecordsOK
<1>1. PICK k, s : k = publisher[p].row /\ s = publisher[p].snapshot
  OBVIOUS
<1> DEFINE new == [published |-> TRUE, published_snapshot_id |-> s]
<1>2. /\ publisher[p] # None /\ s # None /\ Write(k, new)
      /\ publisher' = [publisher EXCEPT ![p] = None]
      /\ UNCHANGED <<recordVars, overwrites, overwritten, graph, heads, publishersMet, requestVars>>
  BY <1>1 DEF LinkSnapshot
<1>3. k \in DOMAIN changesets /\ MadeOf(s, k)
  BY <1>1, <1>2 DEF RecordIInv, AtWork
<1>4. s \in (Nat \ {0}) \cup {None}
  BY <1>0, <1>1, <1>2, PublisherType
<1>5. new \in Publication /\ new.published_snapshot_id = s /\ new.published
  BY <1>4 DEF Publication
<1> HIDE DEF new
<1>6. /\ publisher' \in [Publishers -> Publishing \cup {None}]
      /\ \A q \in Publishers : publisher'[q] # None => publisher'[q] = publisher[q]
  BY <1>0, <1>2 DEF RecordsOK
<1>7. Live(k)
  BY <1>1, <1>2 DEF Live
<1>8. RecordIInv'
  <2>1. /\ UNCHANGED <<recordVars, graph, heads, publishersMet>>
        /\ overwrites' \in Nat
        /\ overwritten \subseteq overwritten' /\ overwritten' \in SUBSET DOMAIN changesets
    BY <1>0, <1>2
  <2> QED
    BY <1>2, <1>3, <1>5, <1>6, <1>7, <2>1, WriteStep
<1>9. /\ changesets' \in Seq(Changeset) /\ DOMAIN changesets' = DOMAIN changesets
      /\ changesets'[k].publication = new
      /\ \A l \in DOMAIN changesets :
            /\ l # k => changesets'[l] = changesets[l]
            /\ SourceClauseIds(l)' = SourceClauseIds(l)
  BY <1>0, <1>2, <1>3, <1>5, WriteEffect
<1>10. /\ PublishedRows \subseteq PublishedRows'
       /\ \A l \in PublishedRows' : l = k \/ (l \in PublishedRows /\ SnapshotOf(l)' = SnapshotOf(l))
       /\ SnapshotOf(k)' = s
  <2>1. k \in PublishedRows' /\ SnapshotOf(k)' = s
    BY <1>3, <1>5, <1>9 DEF PublishedRows, SnapshotOf
  <2>2. \A l \in DOMAIN changesets : l # k =>
            /\ SnapshotOf(l)' = SnapshotOf(l)
            /\ l \in PublishedRows' <=> l \in PublishedRows
    BY <1>9 DEF PublishedRows, SnapshotOf
  <2>3. PublishedRows' \subseteq DOMAIN changesets /\ PublishedRows \subseteq DOMAIN changesets
    BY <1>9 DEF PublishedRows
  <2>4. \A l \in PublishedRows : l \in PublishedRows'
    BY <2>1, <2>2, <2>3
  <2>5. \A l \in PublishedRows' : l # k => l \in PublishedRows /\ SnapshotOf(l)' = SnapshotOf(l)
    BY <2>2, <2>3
  <2> QED
    BY <2>1, <2>4, <2>5
<1>11. \A c \in Clauses : LinkResolves(c) => LinkResolves(c)'
  <2> SUFFICES ASSUME NEW c \in Clauses, LinkResolves(c)
               PROVE  LinkResolves(c)'
    OBVIOUS
  <2>1. RowsOfClause(c) \subseteq RowsOfClause(c)'
    BY <1>9, <1>10 DEF RowsOfClause, PublishedRows
  <2>2. \A l \in RowsOfClause(c)' :
            SnapshotOf(l)' # None \/ (l \in RowsOfClause(c) /\ SnapshotOf(l)' = SnapshotOf(l))
    BY <1>2, <1>9, <1>10 DEF RowsOfClause, PublishedRows
  <2>3. changesets \in Seq(Changeset)
    BY <1>0 DEF RecordsOK
  <2> QED
    BY <1>9, <2>1, <2>2, <2>3, StillResolves
<1>12. \A c \in Clauses : (Named(c) => Named(c)') /\ (Overwritten(c) => Overwritten(c)')
  BY <1>0, <1>2, <1>9, <1>10 DEF Named, Overwritten
<1>13. GraphMoves
  BY <1>2, <1>11, <1>12 DEF GraphMoves, RequestsOK, requestVars
<1> QED
  BY <1>8, <1>13

LEMMA OverwriteStep ==
    ASSUME RecordIInv, RequestsOK, NEW k \in DOMAIN changesets, Overwrite(k)
    PROVE  RecordIInv' /\ GraphMoves
<1>0. /\ RecordsOK /\ overwrites \in Nat /\ overwritten \in SUBSET DOMAIN changesets
      /\ publisher \in [Publishers -> Publishing \cup {None}]
  BY DEF RecordIInv, RecordsOK
<1>1. PICK old \in copies[k] : Write(k, old)
  BY DEF Overwrite
<1>2. /\ overwrites' = overwrites + 1 /\ overwritten' = overwritten \cup {k}
      /\ lapsed' = [e \in Exports |-> IF Active(e) THEN lapsed[e] \cup Unlinked' ELSE lapsed[e]]
      /\ UNCHANGED <<recordVars, graph, heads, publisher, publishersMet, export, since,
                     callsAtStart, unread>>
  BY DEF Overwrite, storeVars
<1>3. old \in Publication
  BY <1>0, RowType
<1>4. old.published_snapshot_id # None => MadeOf(old.published_snapshot_id, k) /\ Live(k)
  BY DEF RecordIInv, RowOK, Live
<1>5. RecordIInv'
  <2>1. /\ UNCHANGED <<recordVars, graph, heads, publishersMet>>
        /\ overwrites' \in Nat /\ k \in overwritten'
        /\ overwritten \subseteq overwritten' /\ overwritten' \in SUBSET DOMAIN changesets
        /\ publisher' \in [Publishers -> Publishing \cup {None}]
        /\ \A p \in Publishers : publisher'[p] # None => publisher'[p] = publisher[p]
    BY <1>0, <1>2
  <2> QED
    BY <1>1, <1>3, <1>4, <2>1, WriteStep
<1>6. /\ DOMAIN changesets' = DOMAIN changesets
      /\ \A l \in DOMAIN changesets :
            /\ l # k => changesets'[l] = changesets[l]
            /\ SourceClauseIds(l)' = SourceClauseIds(l)
  BY <1>0, <1>1, <1>3, WriteEffect
<1>7. \A c \in Clauses : (Named(c) => Named(c)') /\ (Overwritten(c) => Overwritten(c)')
  BY <1>0, <1>2, <1>6 DEF Named, Overwritten, PublishedRows
<1>8. Unlinked' \in SUBSET Clauses /\ \A c \in Clauses : LinkResolves(c)' \/ c \in Unlinked'
  BY DEF Unlinked
<1>9. /\ lapsed' \in [Exports -> SUBSET Clauses]
      /\ \A e \in Exports : lapsed[e] \subseteq lapsed'[e]
      /\ \A e \in Exports : Active(e) => Unlinked' \subseteq lapsed'[e]
  <2> DEFINE unlinked == Unlinked'
  <2>1. unlinked \in SUBSET Clauses
    BY <1>8
  <2>2. lapsed' = [e \in Exports |-> IF Active(e) THEN lapsed[e] \cup unlinked ELSE lapsed[e]]
    BY <1>2
  <2> HIDE DEF unlinked
  <2>3. \A e \in Exports : lapsed[e] \cup unlinked \in SUBSET Clauses /\ lapsed[e] \in SUBSET Clauses
    BY <2>1 DEF RequestsOK
  <2>4. /\ lapsed' \in [Exports -> SUBSET Clauses]
        /\ \A e \in Exports : lapsed[e] \subseteq lapsed'[e]
        /\ \A e \in Exports : Active(e) => unlinked \subseteq lapsed'[e]
    BY <2>2, <2>3
  <2> QED
    BY <2>4 DEF unlinked
<1>10. GraphMoves
  BY <1>2, <1>7, <1>8, <1>9 DEF GraphMoves
<1> QED
  BY <1>5, <1>10

(* No request changes what is recorded. *)
LEMMA RequestStep ==
    ASSUME RecordIInv, UNCHANGED <<recordVars, graphVars>>
    PROVE  RecordIInv'
<1>1. UNCHANGED <<revisions, decisions, logged, changesets, copies, overwrites, overwritten,
                  graph, heads, publisher, publishersMet>>
  BY DEF recordVars, graphVars, tableVars, storeVars
<1>2. \A s, l : MadeOf(s, l)' <=> MadeOf(s, l)
  BY <1>1 DEF MadeOf, Base, Content
<1>3. \A l : RowOK(l)' <=> RowOK(l)
  BY <1>1, <1>2 DEF RowOK, Base, SourceClauseIds, SnapshotOf, PublishedRows
<1>4. \A p : AtWork(p)' <=> AtWork(p)
  BY <1>1, <1>2 DEF AtWork
<1>5. Serial' <=> Serial
  BY <1>1 DEF Serial, Turn, InOrder, Live, Base
<1>6. RecordsOK'
  BY <1>1 DEF RecordIInv, RecordsOK
<1> QED
  BY <1>1, <1>3, <1>4, <1>5, <1>6 DEF RecordIInv, Undecided

--------------------------------------------------------------------------------
(* What a step on the records leaves of a request. *)

LEMMA ExportType ==
    ASSUME RequestsOK, NEW e \in Exports, export[e] # None
    PROVE  /\ export[e] \in Export
           /\ export[e].snapshot \in Nat /\ export[e].todo \subseteq Clauses
           /\ export[e].reading \in Clauses \cup {None}
           /\ export[e].form \in {"bundle", "view"}
           /\ export[e].status \in Statuses \cup {None}
           /\ export[e].excluded \subseteq Clauses
<1>1. export[e] \in Export
  BY DEF RequestsOK
<1> QED
  BY <1>1 DEF Export

LEMMA RequestKept ==
    ASSUME NEW e \in Exports, RequestsOK, Request(e),
           UNCHANGED <<export, callsAtStart, unread>>,
           logged \subseteq logged', since[e] \subseteq since'[e], lapsed[e] \subseteq lapsed'[e],
           \A s \in DOMAIN graph : s \in DOMAIN graph' /\ graph'[s] = graph[s],
           \A c \in Clauses : Overwritten(c) => Overwritten(c)',
           export[e] # None => \A c \in Waiting(e) :
                /\ <<c, Latest(c)'.status>> \in since'[e]
                /\ Named(c)'
                /\ LinkResolves(c)' \/ c \in lapsed'[e]
    PROVE  Request(e)'
<1> SUFFICES ASSUME export[e] # None
             PROVE  Request(e)'
  BY DEF Request
<1>1. export[e].snapshot \in DOMAIN graph
  BY DEF Request
<1>2. \A c \in Waiting(e) : Waits(e, c)'
  BY <1>1 DEF Request, Waits
<1>3. FirstGate(e)'
  BY DEF Request, FirstGate
<1>4. \A o \in export[e].included : Answered(e, o)'
  <2> SUFFICES ASSUME NEW o \in export[e].included
               PROVE  Answered(e, o)'
    OBVIOUS
  <2>1. Answered(e, o)
    BY DEF Request
  <2> QED
    BY <1>1, <2>1 DEF Answered
<1>5. \A c \in export[e].excluded : LeftOut(e, c)'
  <2> SUFFICES ASSUME NEW c \in export[e].excluded
               PROVE  LeftOut(e, c)'
    OBVIOUS
  <2>1. LeftOut(e, c)
    BY DEF Request
  <2>2. Overwritten(c) => Overwritten(c)'
    BY ExportType
  <2> QED
    BY <1>1, <2>1, <2>2 DEF LeftOut
<1>6. Waiting(e)' = Waiting(e)
  BY DEF Waiting
<1>7. callsAtStart'[e] \subseteq logged'
  BY DEF Request
<1> QED
  BY <1>1, <1>2, <1>3, <1>4, <1>5, <1>6, <1>7 DEF Request

(* Whoever waits has something to do or is reading. *)
LEMMA WaitingIsActive ==
    ASSUME RequestsOK, NEW e \in Exports, export[e] # None, NEW c \in Waiting(e)
    PROVE  Active(e)
BY DEF Waiting, Active

LEMMA RequestsAfterRevision ==
    ASSUME ExportIInv, RevisionsMove, Seen, UNCHANGED graphVars
    PROVE  RequestsOK' /\ \A e \in Exports : Request(e)'
<1>1. RequestsOK'
  BY DEF ExportIInv, RequestsOK, Seen
<1> SUFFICES ASSUME NEW e \in Exports
             PROVE  Request(e)'
  BY <1>1
<1>2. RequestsOK /\ Request(e)
  BY DEF ExportIInv
<1>3. UNCHANGED <<changesets, graph, overwritten, lapsed>>
  BY DEF graphVars, tableVars, storeVars, Seen
<1>4. \A c : /\ Named(c)' = Named(c) /\ Overwritten(c)' = Overwritten(c)
              /\ LinkResolves(c)' = LinkResolves(c)
  BY <1>3, TableKept
<1>5. ASSUME export[e] # None, NEW c \in Waiting(e)
      PROVE  /\ <<c, Latest(c)'.status>> \in since'[e]
             /\ Named(c)'
             /\ LinkResolves(c)' \/ c \in lapsed'[e]
  <2>1. Waits(e, c)
    BY <1>2, <1>5 DEF Request
  <2>2. Active(e) /\ c \in Clauses
    BY <1>2, <1>5, WaitingIsActive DEF Waiting
  <2>3. \/ Latest(c)' = Latest(c)
        \/ <<c, Latest(c)'.status>> \in since'[e]
    BY <2>2 DEF RevisionsMove
  <2>4. <<c, Latest(c)'.status>> \in since'[e]
    BY <2>1, <2>3 DEF Waits, Seen
  <2> QED
    BY <1>3, <1>4, <2>1, <2>4 DEF Waits
<1> QED
  BY <1>2, <1>3, <1>4, <1>5, RequestKept DEF RevisionsMove, Seen

LEMMA RequestsAfterGraph ==
    ASSUME ExportIInv, GraphMoves
    PROVE  RequestsOK' /\ \A e \in Exports : Request(e)'
<1>1. UNCHANGED <<revisions, logged, export, since, callsAtStart, unread>>
  BY DEF GraphMoves, recordVars
<1>2. RequestsOK'
  BY <1>1 DEF ExportIInv, RequestsOK, GraphMoves
<1> SUFFICES ASSUME NEW e \in Exports
             PROVE  Request(e)'
  BY <1>2
<1>3. RequestsOK /\ Request(e)
  BY DEF ExportIInv
<1>4. \A c : Latest(c)' = Latest(c)
  BY <1>1 DEF Latest
<1>5. ASSUME export[e] # None, NEW c \in Waiting(e)
      PROVE  /\ <<c, Latest(c)'.status>> \in since'[e]
             /\ Named(c)'
             /\ LinkResolves(c)' \/ c \in lapsed'[e]
  <2>1. Waits(e, c)
    BY <1>3, <1>5 DEF Request
  <2>2. Active(e) /\ c \in Clauses
    BY <1>3, <1>5, WaitingIsActive DEF Waiting
  <2>3. LinkResolves(c)' \/ c \in lapsed'[e]
    BY <2>1, <2>2 DEF Waits, GraphMoves
  <2> QED
    BY <1>1, <1>4, <2>1, <2>2, <2>3 DEF Waits, GraphMoves
<1> QED
  BY <1>1, <1>3, <1>5, RequestKept DEF GraphMoves

--------------------------------------------------------------------------------
(* What a step of a request does. *)

(* One request moves: the records and the other requests do not. *)
Moves(e) ==
    /\ UNCHANGED <<recordVars, graphVars>>
    /\ \A f \in Exports : f # e =>
        /\ export'[f] = export[f] /\ since'[f] = since[f] /\ callsAtStart'[f] = callsAtStart[f]
        /\ unread'[f] = unread[f] /\ lapsed'[f] = lapsed[f]

(* What a request is told of a clause stays as it was where nothing recorded    *)
(* moves.                                                                      *)
LEMMA StillRecorded ==
    ASSUME UNCHANGED <<recordVars, graphVars>>
    PROVE  /\ UNCHANGED <<revisions, decisions, logged, changesets, graph, overwritten>>
           /\ \A c : /\ Latest(c)' = Latest(c)
                     /\ Named(c)' = Named(c) /\ Overwritten(c)' = Overwritten(c)
                     /\ LinkResolves(c)' = LinkResolves(c)
<1>1. UNCHANGED <<revisions, decisions, logged, changesets, graph, overwritten>>
  BY DEF recordVars, graphVars, tableVars, storeVars
<1>2. \A c : Latest(c)' = Latest(c)
  BY <1>1 DEF Latest
<1> QED
  BY <1>1, <1>2, TableKept

LEMMA RequestsAfterMove ==
    ASSUME ExportIInv, NEW e \in Exports, Moves(e), Request(e)'
    PROVE  \A f \in Exports : Request(f)'
<1> SUFFICES ASSUME NEW f \in Exports, f # e
             PROVE  Request(f)'
  OBVIOUS
<1>1. Request(f)
  BY DEF ExportIInv
<1>2. /\ export'[f] = export[f] /\ since'[f] = since[f] /\ callsAtStart'[f] = callsAtStart[f]
      /\ unread'[f] = unread[f] /\ lapsed'[f] = lapsed[f]
  BY DEF Moves
<1>3. /\ UNCHANGED <<revisions, logged, changesets, graph>>
      /\ \A c : /\ Latest(c)' = Latest(c)
                /\ Named(c)' = Named(c) /\ Overwritten(c)' = Overwritten(c)
                /\ LinkResolves(c)' = LinkResolves(c)
  BY StillRecorded DEF Moves
<1>4. Waiting(f)' = Waiting(f)
  BY <1>2 DEF Waiting
<1>5. \A c : Waits(f, c)' <=> Waits(f, c)
  BY <1>2, <1>3 DEF Waits
<1>6. \A o : Answered(f, o)' <=> Answered(f, o)
  BY <1>2, <1>3 DEF Answered
<1>7. \A c : LeftOut(f, c)' <=> LeftOut(f, c)
  BY <1>2, <1>3 DEF LeftOut
<1>8. FirstGate(f)' <=> FirstGate(f)
  BY <1>2 DEF FirstGate
<1> QED
  BY <1>1, <1>2, <1>3, <1>4, <1>5, <1>6, <1>7, <1>8 DEF Request

(* A clause of a snapshot has been parsed. *)
LEMMA SnapshotClause ==
    ASSUME RecordIInv, NEW s \in DOMAIN graph, NEW c \in graph[s].clauses
    PROVE  c \in Clauses /\ revisions[c] # <<>> /\ Latest(c) # None /\ Latest(c).status \in Statuses
<1>1. c \in Clauses /\ revisions[c] # <<>>
  BY SnapshotType DEF RecordIInv
<1> QED
  BY <1>1, LatestRevision DEF RecordIInv

(* A clause that a change set names in a snapshot is in the snapshot. *)
LEMMA ListedClause ==
    ASSUME RecordIInv, NEW s \in DOMAIN graph, NEW c \in ClausesOfSnapshot(s)
    PROVE  c \in graph[s].clauses /\ c \in Clauses /\ Named(c)
<1>1. PICK k \in PublishedRows : SnapshotOf(k) = s /\ c \in SourceClauseIds(k)
  BY DEF ClausesOfSnapshot
<1>2. k \in DOMAIN changesets
  BY DEF PublishedRows
<1>3. RowOK(k) /\ s \in Nat \ {0}
  BY <1>2, SnapshotType DEF RecordIInv
<1>4. SnapshotOf(k) # None
  BY <1>1, <1>3
<1>5. MadeOf(s, k)
  BY <1>1, <1>3, <1>4 DEF RowOK, SnapshotOf
<1>6. c \in graph[s].clauses
  BY <1>1, <1>5 DEF MadeOf, Content, SourceClauseIds
<1> QED
  BY <1>1, <1>2, <1>6, SnapshotClause DEF Named

(* A clause that is named and not found published has an overwritten change set. *)
LEMMA UnlinkedIsOverwritten ==
    ASSUME RecordIInv, NEW c \in Clauses, Named(c), ~LinkResolves(c)
    PROVE  Overwritten(c)
<1> SUFFICES ASSUME ~Overwritten(c)
             PROVE  FALSE
  OBVIOUS
<1>1. PICK k \in DOMAIN changesets : c \in SourceClauseIds(k) /\ k \in PublishedRows
  BY DEF Named, Overwritten
<1>2. RowsOfClause(c) # {}
  BY <1>1 DEF RowsOfClause
<1>3. PICK f : f = FindPublishedByClauseId(c)
  OBVIOUS
<1>4. f \in RowsOfClause(c) /\ f # None
  BY <1>2, <1>3, LastRow DEF RecordIInv, RecordsOK
<1>5. f \in DOMAIN changesets /\ f \in PublishedRows /\ f \notin overwritten
  BY <1>4 DEF RowsOfClause, PublishedRows, Overwritten
<1>6. SnapshotOf(f) # None
  BY <1>5 DEF RecordIInv, RowOK
<1> QED
  BY <1>3, <1>4, <1>6 DEF LinkResolves

LEMMA StartExportStep ==
    ASSUME ExportIInv, NEW e \in Exports, NEW s \in 1..Len(graph), StartExport(e, s)
    PROVE  RequestsOK' /\ Moves(e) /\ Request(e)'
<1> DEFINE x == [form |-> "bundle", snapshot |-> s, todo |-> ClausesOfSnapshot(s),
                 reading |-> None, status |-> None, decided |-> FALSE,
                 included |-> {}, excluded |-> {}]
<1> DEFINE seen == {<<c, Latest(c).status>> : c \in ClausesOfSnapshot(s)}
<1>1. /\ export[e] = None
      /\ export' = [export EXCEPT ![e] = x]
      /\ since' = [since EXCEPT ![e] = seen]
      /\ callsAtStart' = [callsAtStart EXCEPT ![e] = logged]
      /\ lapsed' = [lapsed EXCEPT ![e] = Unlinked]
      /\ UNCHANGED <<recordVars, graphVars, unread>>
  BY DEF StartExport
<1>2. s \in Nat \ {0} /\ s \in DOMAIN graph
  BY DEF ExportIInv, RecordIInv, RecordsOK
<1>3. \A c \in ClausesOfSnapshot(s) : /\ c \in Clauses /\ Latest(c).status \in Statuses
                                      /\ c \in graph[s].clauses /\ Named(c)
  BY <1>2, ListedClause, SnapshotClause DEF ExportIInv
<1>4. x \in Export
  BY <1>2, <1>3 DEF Export
<1>5. seen \in SUBSET (Clauses \X Statuses)
  BY <1>3
<1>6. logged \in SUBSET Clauses /\ Unlinked \in SUBSET Clauses
  BY DEF ExportIInv, RecordIInv, RecordsOK, Unlinked
<1>7. \A c \in ClausesOfSnapshot(s) : <<c, Latest(c).status>> \in seen
  OBVIOUS
<1>8. /\ x.form = "bundle" /\ x.snapshot = s /\ x.todo = ClausesOfSnapshot(s)
      /\ x.reading = None /\ x.included = {} /\ x.excluded = {}
  OBVIOUS
<1> HIDE DEF x, seen
<1>9. RequestsOK' /\ Moves(e)
  BY <1>1, <1>4, <1>5, <1>6 DEF ExportIInv, RequestsOK, Moves
<1>10. export'[e] = x /\ since'[e] = seen /\ callsAtStart'[e] = logged /\ lapsed'[e] = Unlinked
  BY <1>1 DEF ExportIInv, RequestsOK
<1>11. \A c \in Waiting(e)' : Waits(e, c)'
  <2> SUFFICES ASSUME NEW c \in Waiting(e)'
               PROVE  Waits(e, c)'
    OBVIOUS
  <2>1. c \in ClausesOfSnapshot(s) /\ c \in Clauses
    BY <1>8, <1>10 DEF Waiting
  <2>2. LinkResolves(c) \/ c \in Unlinked
    BY <2>1 DEF Unlinked
  <2> QED
    BY <1>1, <1>3, <1>7, <1>8, <1>10, <2>1, <2>2, StillRecorded DEF Waits
<1>12. FirstGate(e)'
  BY <1>8, <1>10 DEF FirstGate
<1> QED
  BY <1>1, <1>2, <1>8, <1>9, <1>10, <1>11, <1>12, StillRecorded DEF Request

(* A request that takes no new clause up, and answers and leaves out with a     *)
(* reason, is in order still.                                                  *)
LEMMA RequestGoesOn ==
    ASSUME ExportIInv, NEW e \in Exports, export[e] # None,
           UNCHANGED <<recordVars, graphVars, since, callsAtStart, lapsed>>,
           unread[e] \subseteq unread'[e],
           NEW y, export'[e] = y, y.form = export[e].form, y.snapshot = export[e].snapshot,
           \A c \in Clauses : c \in y.todo \/ c = y.reading => c \in Waiting(e),
           y.reading # None => y.status \in Approved /\ <<y.reading, y.status>> \in since[e],
           \A o \in y.included : o \in export[e].included \/ Answered(e, o),
           \A c \in y.excluded : \/ c \in export[e].excluded
                                 \/ LeftOut(e, c)
                                 \/ y.form = "bundle" /\ c \in unread'[e]
    PROVE  Request(e)'
<1>1. Request(e)
  BY DEF ExportIInv
<1>2. \A c \in Waiting(e)' : Waits(e, c)'
  <2> SUFFICES ASSUME NEW c \in Waiting(e)'
               PROVE  Waits(e, c)'
    OBVIOUS
  <2>1. Waits(e, c)
    BY <1>1 DEF Request, Waiting
  <2> QED
    BY <2>1, StillRecorded DEF Waits
<1>3. FirstGate(e)'
  BY DEF FirstGate
<1>4. \A o \in y.included : Answered(e, o)'
  <2> SUFFICES ASSUME NEW o \in y.included
               PROVE  Answered(e, o)'
    OBVIOUS
  <2>1. Answered(e, o)
    BY <1>1 DEF Request
  <2> QED
    BY <2>1, StillRecorded DEF Answered
<1>5. \A c \in y.excluded : LeftOut(e, c)'
  <2> SUFFICES ASSUME NEW c \in y.excluded
               PROVE  LeftOut(e, c)'
    OBVIOUS
  <2>1. LeftOut(e, c) \/ (y.form = "bundle" /\ c \in unread'[e])
    BY <1>1 DEF Request
  <2> QED
    BY <2>1, StillRecorded DEF LeftOut
<1>6. y.snapshot \in DOMAIN graph' /\ callsAtStart'[e] \subseteq logged'
  BY <1>1, StillRecorded DEF Request
<1> QED
  BY <1>2, <1>3, <1>4, <1>5, <1>6 DEF Request

LEMMA ReviewGateStep ==
    ASSUME ExportIInv, NEW e \in Exports, NEW c \in Clauses, ReviewGate(e, c)
    PROVE  RequestsOK' /\ Moves(e) /\ Request(e)'
<1> DEFINE x == export[e]
<1>0. /\ x # None /\ x.form = "bundle" /\ x.reading = None /\ c \in x.todo
      /\ UNCHANGED <<recordVars, graphVars, since, callsAtStart, unread, lapsed>>
  BY DEF ReviewGate
<1>1. /\ x \in Export /\ export \in [Exports -> Export \cup {None}] /\ Request(e)
      /\ RequestsOK /\ RecordIInv
  BY <1>0, ExportType DEF ExportIInv, RequestsOK
<1>2. Waits(e, c) /\ c \in Waiting(e)
  BY <1>0, <1>1 DEF Request, Waiting
<1>3. Latest(c).status \in Statuses /\ <<c, Latest(c).status>> \in since[e]
  BY <1>0, <1>1, <1>2, SnapshotClause DEF Waits, Request
<1>4. CASE Latest(c).status \in Approved
  <2> DEFINE y == [x EXCEPT !.todo = @ \ {c}, !.reading = c, !.status = Latest(c).status]
  <2>1. export' = [export EXCEPT ![e] = y]
    <3>1. export' = [export EXCEPT ![e].todo = @ \ {c}, ![e].reading = c,
                                   ![e].status = Latest(c).status]
      BY <1>4 DEF ReviewGate
    <3> QED
      BY <3>1, Zenon
  <2>2. /\ y \in Export /\ y.form = "bundle" /\ y.snapshot = x.snapshot
        /\ y.todo = x.todo \ {c} /\ y.reading = c /\ y.status = Latest(c).status
        /\ y.included = x.included /\ y.excluded = x.excluded
    BY <1>0, <1>1, <1>3 DEF Export
  <2> HIDE DEF y
  <2>3. export'[e] = y /\ RequestsOK' /\ Moves(e)
    BY <1>0, <1>1, <2>1, <2>2 DEF RequestsOK, Moves
  <2>4. \A d \in Clauses : d \in y.todo \/ d = y.reading => d \in Waiting(e)
    BY <1>2, <2>2 DEF Waiting
  <2>5. Request(e)'
    BY <1>0, <1>3, <1>4, <2>2, <2>3, <2>4, RequestGoesOn
  <2> QED
    BY <2>3, <2>5
<1>5. CASE Latest(c).status \notin Approved
  <2> DEFINE y == [x EXCEPT !.todo = @ \ {c}, !.excluded = @ \cup {c}]
  <2>1. export' = [export EXCEPT ![e] = y]
    <3>1. export' = [export EXCEPT ![e].todo = @ \ {c}, ![e].excluded = @ \cup {c}]
      BY <1>5 DEF ReviewGate
    <3> QED
      BY <3>1, Zenon
  <2>2. /\ y \in Export /\ y.form = "bundle" /\ y.snapshot = x.snapshot
        /\ y.todo = x.todo \ {c} /\ y.reading = None
        /\ y.included = x.included /\ y.excluded = x.excluded \cup {c}
    BY <1>0, <1>1 DEF Export
  <2> HIDE DEF y
  <2>3. export'[e] = y /\ RequestsOK' /\ Moves(e)
    BY <1>0, <1>1, <2>1, <2>2 DEF RequestsOK, Moves
  <2>4. \A d \in Clauses : d \in y.todo \/ d = y.reading => d \in Waiting(e)
    BY <2>2 DEF Waiting
  <2>5. LeftOut(e, c)
    <3>1. Latest(c).status \in Statuses \ {"accepted", "edited"}
      BY <1>3, <1>5 DEF Approved
    <3> QED
      BY <1>3, <3>1 DEF LeftOut
  <2>6. Request(e)'
    BY <1>0, <2>2, <2>3, <2>4, <2>5, RequestGoesOn
  <2> QED
    BY <2>3, <2>6
<1> QED
  BY <1>4, <1>5

(* The revision a request reads from has been seen; without a decision it is   *)
(* pending, and a reason to leave the clause out.                              *)
LEMMA ReadingIsSeen ==
    ASSUME ExportIInv, NEW e \in Exports, export[e] # None, export[e].reading # None
    PROVE  LET c == export[e].reading
           IN  /\ c \in Clauses /\ Waits(e, c) /\ c \in Waiting(e)
               /\ revisions[c] # <<>> /\ Latest(c) # None
               /\ ~Latest(c).revision_history => LeftOut(e, c)
<1> DEFINE c == export[e].reading
<1>1. RequestsOK /\ RecordIInv /\ RecordsOK /\ Request(e)
  BY DEF ExportIInv, RecordIInv
<1>2. c \in Clauses /\ c \in Waiting(e)
  BY <1>1, ExportType DEF Waiting
<1>3. Waits(e, c)
  BY <1>1, <1>2 DEF Request
<1> HIDE DEF c
<1>4. revisions[c] # <<>> /\ Latest(c) # None
  BY <1>1, <1>3, SnapshotClause DEF Waits, Request
<1>5. ASSUME ~Latest(c).revision_history
      PROVE  LeftOut(e, c)
  <2>1. revisions[c] # <<>>
    BY <1>4
  <2>2. /\ Latest(c) = revisions[c][Len(revisions[c])]
        /\ Len(revisions[c]) \in DOMAIN revisions[c]
    BY <1>1, <1>2, <2>1, LatestRevision
  <2>3. Undecided(c)
    BY <1>1, <1>2 DEF RecordIInv
  <2>4. Latest(c).status = "pending"
    BY <1>5, <2>2, <2>3 DEF Undecided
  <2>5. "pending" \in Statuses \ {"accepted", "edited"}
    BY DEF Statuses
  <2> QED
    BY <1>3, <2>4, <2>5 DEF LeftOut, Waits
<1> QED
  BY <1>2, <1>3, <1>4, <1>5 DEF c

LEMMA ReadDecisionStep ==
    ASSUME ExportIInv, NEW e \in Exports, ReadDecision(e)
    PROVE  RequestsOK' /\ Moves(e) /\ Request(e)'
<1> DEFINE x == export[e]
           c == export[e].reading
<1>0. /\ x # None /\ c # None
      /\ UNCHANGED <<recordVars, graphVars, since, callsAtStart, unread, lapsed>>
  BY DEF ReadDecision
<1>1. /\ x \in Export /\ export \in [Exports -> Export \cup {None}] /\ Request(e)
      /\ RequestsOK /\ RecordIInv
  BY <1>0, ExportType DEF ExportIInv, RequestsOK
<1>2. /\ c \in Clauses /\ Waits(e, c) /\ c \in Waiting(e)
      /\ ~Latest(c).revision_history => LeftOut(e, c)
  BY <1>0, ReadingIsSeen
<1>3. CASE Latest(c).revision_history
  <2> DEFINE y == [x EXCEPT !.decided = TRUE]
  <2>1. export' = [export EXCEPT ![e] = y]
    <3>1. export' = [export EXCEPT ![e].decided = TRUE]
      BY <1>3 DEF ReadDecision
    <3> QED
      BY <3>1, Zenon
  <2>2. /\ y \in Export /\ y.form = x.form /\ y.snapshot = x.snapshot
        /\ y.todo = x.todo /\ y.reading = x.reading /\ y.status = x.status
        /\ y.included = x.included /\ y.excluded = x.excluded
    BY <1>1 DEF Export
  <2> HIDE DEF y
  <2>3. export'[e] = y /\ RequestsOK' /\ Moves(e)
    BY <1>0, <1>1, <2>1, <2>2 DEF RequestsOK, Moves
  <2>4. \A d \in Clauses : d \in y.todo \/ d = y.reading => d \in Waiting(e)
    BY <2>2 DEF Waiting
  <2>5. y.reading # None => y.status \in Approved /\ <<y.reading, y.status>> \in since[e]
    BY <1>0, <1>1, <2>2 DEF Request, FirstGate
  <2>6. Request(e)'
    BY <1>0, <2>2, <2>3, <2>4, <2>5, RequestGoesOn
  <2> QED
    BY <2>3, <2>6
<1>4. CASE ~Latest(c).revision_history
  <2> DEFINE y == [x EXCEPT !.reading = None, !.status = None, !.excluded = @ \cup {c}]
  <2>1. export' = [export EXCEPT ![e] = y]
    <3>1. export' = [export EXCEPT ![e].reading = None, ![e].status = None,
                                   ![e].excluded = @ \cup {c}]
      BY <1>4 DEF ReadDecision
    <3> QED
      BY <3>1, Zenon
  <2>2. /\ y \in Export /\ y.form = x.form /\ y.snapshot = x.snapshot
        /\ y.todo = x.todo /\ y.reading = None
        /\ y.included = x.included /\ y.excluded = x.excluded \cup {c}
    BY <1>1, <1>2 DEF Export
  <2> HIDE DEF y
  <2>3. export'[e] = y /\ RequestsOK' /\ Moves(e)
    BY <1>0, <1>1, <2>1, <2>2 DEF RequestsOK, Moves
  <2>4. \A d \in Clauses : d \in y.todo \/ d = y.reading => d \in Waiting(e)
    BY <2>2 DEF Waiting
  <2>5. Request(e)'
    BY <1>0, <1>2, <1>4, <2>2, <2>3, <2>4, RequestGoesOn
  <2> QED
    BY <2>3, <2>5
<1> QED
  BY <1>3, <1>4

LEMMA ProvenanceGateStep ==
    ASSUME ExportIInv, NEW e \in Exports, ProvenanceGate(e)
    PROVE  RequestsOK' /\ Moves(e) /\ Request(e)'
<1> DEFINE x == export[e]
           c == export[e].reading
           o == [clause |-> c, review_status |-> x.status]
<1>0. /\ x # None /\ c # None
      /\ UNCHANGED <<recordVars, graphVars, since, callsAtStart, lapsed>>
  BY DEF ProvenanceGate
<1>1. PICK calls \in {logged, {}} :
        ReadLog(e, calls) /\ export' = [export EXCEPT ![e] = Conclude(e, x.status, calls)]
  BY DEF ProvenanceGate
<1> DEFINE y == Conclude(e, x.status, calls)
<1>2. /\ x \in Export /\ export \in [Exports -> Export \cup {None}] /\ Request(e)
      /\ RequestsOK /\ RecordIInv
  BY <1>0, ExportType DEF ExportIInv, RequestsOK
<1>3. c \in Clauses /\ Waits(e, c)
  BY <1>0, ReadingIsSeen
<1>4. x.status \in Approved /\ x.status \in Statuses /\ <<c, x.status>> \in since[e]
  BY <1>0, <1>2 DEF Request, FirstGate, Approved, Statuses
<1>5. /\ unread' \in [Exports -> SUBSET Clauses] /\ unread[e] \subseteq unread'[e]
      /\ \A f \in Exports : f # e => unread'[f] = unread[f]
      /\ calls = logged \/ c \in unread'[e]
  <2>1. unread \in [Exports -> SUBSET Clauses] /\ unread[e] \cup {c} \in SUBSET Clauses
    BY <1>2, <1>3 DEF RequestsOK
  <2>2. CASE calls = logged /\ UNCHANGED unread
    BY <2>1, <2>2
  <2>3. CASE unread' = [unread EXCEPT ![e] = unread[e] \cup {c}]
    BY <2>1, <2>3
  <2>4. unread' = [unread EXCEPT ![e] = @ \cup {c}] => unread' = [unread EXCEPT ![e] = unread[e] \cup {c}]
    BY Zenon
  <2> QED
    BY <1>1, <2>2, <2>3, <2>4 DEF ReadLog
<1>6. CASE c \in calls /\ LinkResolves(c)
  <2>1. y = [x EXCEPT !.reading = None, !.status = None, !.decided = FALSE,
                      !.included = @ \cup {o}]
    BY <1>6, Zenon DEF Conclude
  <2>2. o \in [clause : Clauses, review_status : Statuses]
    BY <1>3, <1>4
  <2>3. /\ y \in Export /\ y.form = x.form /\ y.snapshot = x.snapshot
        /\ y.todo = x.todo /\ y.reading = None
        /\ y.included = x.included \cup {o} /\ y.excluded = x.excluded
    <3> DEFINE z == [x EXCEPT !.reading = None, !.status = None, !.decided = FALSE,
                              !.included = @ \cup {o}]
    <3> HIDE DEF o
    <3>1. /\ z \in Export /\ z.form = x.form /\ z.snapshot = x.snapshot
          /\ z.todo = x.todo /\ z.reading = None
          /\ z.included = x.included \cup {o} /\ z.excluded = x.excluded
      BY <1>2, <2>2 DEF Export
    <3>2. y = z
      BY <2>1
    <3> HIDE DEF y, z
    <3> QED
      BY <3>1, <3>2
  <2>4. Answered(e, o)
    BY <1>3, <1>4 DEF Answered, Waits, Approved
  <2>5. export' = [export EXCEPT ![e] = y]
    BY <1>1
  <2> HIDE DEF y, o
  <2>6. export'[e] = y /\ RequestsOK' /\ Moves(e)
    BY <1>0, <1>2, <1>5, <2>3, <2>5 DEF RequestsOK, Moves
  <2>7. \A d \in Clauses : d \in y.todo \/ d = y.reading => d \in Waiting(e)
    BY <2>3 DEF Waiting
  <2>8. Request(e)'
    BY <1>0, <1>5, <2>3, <2>4, <2>6, <2>7, RequestGoesOn
  <2> QED
    BY <2>6, <2>8
<1>7. CASE ~(c \in calls /\ LinkResolves(c))
  <2>1. y = [x EXCEPT !.reading = None, !.status = None, !.decided = FALSE,
                      !.excluded = @ \cup {c}]
    BY <1>7, Zenon DEF Conclude
  <2>2. /\ y \in Export /\ y.form = x.form /\ y.snapshot = x.snapshot
        /\ y.todo = x.todo /\ y.reading = None
        /\ y.included = x.included /\ y.excluded = x.excluded \cup {c}
    <3> DEFINE z == [x EXCEPT !.reading = None, !.status = None, !.decided = FALSE,
                              !.excluded = @ \cup {c}]
    <3>1. /\ z \in Export /\ z.form = x.form /\ z.snapshot = x.snapshot
          /\ z.todo = x.todo /\ z.reading = None
          /\ z.included = x.included /\ z.excluded = x.excluded \cup {c}
      BY <1>2, <1>3 DEF Export
    <3>2. y = z
      BY <2>1
    <3> HIDE DEF y, z
    <3> QED
      BY <3>1, <3>2
  <2>3. LeftOut(e, c) \/ (x.form = "bundle" /\ c \in unread'[e])
    <3>1. x.form = "bundle"
      BY <1>3 DEF Waits
    <3>2. CASE ~LinkResolves(c)
      BY <1>2, <1>3, <3>1, <3>2, UnlinkedIsOverwritten DEF LeftOut, Waits
    <3>3. CASE c \notin calls /\ calls = logged
      BY <1>0, <1>2, <3>1, <3>3 DEF LeftOut, Request
    <3> QED
      BY <1>5, <1>7, <3>1, <3>2, <3>3
  <2>4. export' = [export EXCEPT ![e] = y]
    BY <1>1
  <2> HIDE DEF y
  <2>5. export'[e] = y /\ RequestsOK' /\ Moves(e)
    BY <1>0, <1>2, <1>5, <2>2, <2>4 DEF RequestsOK, Moves
  <2>6. \A d \in Clauses : d \in y.todo \/ d = y.reading => d \in Waiting(e)
    BY <2>2 DEF Waiting
  <2>7. Request(e)'
    BY <1>0, <1>5, <2>2, <2>3, <2>5, <2>6, RequestGoesOn
  <2> QED
    BY <2>5, <2>7
<1> QED
  BY <1>6, <1>7

(* A row tells the status of the clause's latest revision and whether its path  *)
(* is complete.                                                                *)
LEMMA PathRow ==
    ASSUME NEW s, NEW row \in RunProofPathQuery(s)
    PROVE  /\ row.review_status = Latest(row.clause).status
           /\ row.drawable => row.clause \in graph[s].drawable
           /\ ~row.drawable => row.clause \in graph[s].undrawable
BY DEF RunProofPathQuery

LEMMA ViewStep ==
    ASSUME ExportIInv, NEW e \in Exports, NEW s \in 1..Len(graph), NEW c \in Clauses,
           View(e, s, c)
    PROVE  RequestsOK' /\ Moves(e) /\ Request(e)'
<1> DEFINE Rows == RunProofPathQuery(s)
<1>1. PICK drawn \in {{row} : row \in {r \in Rows : r.clause = c}} \cup
                     {rows \in {{}} : \A r \in Rows : r.clause # c} :
        export' = [export EXCEPT ![e] =
                [form |-> "view", snapshot |-> s, todo |-> {}, reading |-> None,
                 status |-> None, decided |-> FALSE,
                 included |-> {[clause |-> c, review_status |-> r.review_status] :
                                    r \in {row \in drawn : Draws(row)}},
                 excluded |-> IF \E row \in drawn : Draws(row) THEN {} ELSE {c}]]
  BY DEF View
<1>2. /\ export[e] = None /\ c \in graph[s].clauses
      /\ since' = [since EXCEPT ![e] = {<<c, Latest(c).status>>}]
      /\ UNCHANGED <<recordVars, graphVars, callsAtStart, unread, lapsed>>
  BY DEF View
<1> DEFINE shown == {[clause |-> c, review_status |-> r.review_status] :
                        r \in {row \in drawn : Draws(row)}}
           missed == IF \E row \in drawn : Draws(row) THEN {} ELSE {c}
           y == [form |-> "view", snapshot |-> s, todo |-> {}, reading |-> None,
                 status |-> None, decided |-> FALSE, included |-> shown, excluded |-> missed]
<1>3. s \in Nat \ {0} /\ s \in DOMAIN graph /\ RecordIInv /\ RecordsOK /\ RequestsOK
  BY DEF ExportIInv, RecordIInv, RecordsOK
<1>4. /\ \A row \in drawn : row \in Rows /\ row.clause = c
      /\ (\E row : drawn = {row}) \/ (drawn = {} /\ \A r \in Rows : r.clause # c)
  OBVIOUS
<1>5. Latest(c).status \in Statuses
  BY <1>2, <1>3, SnapshotClause
<1>6. \A row \in drawn : /\ row.review_status = Latest(c).status
                         /\ row.drawable => c \in graph[s].drawable
                         /\ ~row.drawable => c \in graph[s].undrawable
  <2> SUFFICES ASSUME NEW row \in drawn
               PROVE  /\ row.review_status = Latest(c).status
                      /\ row.drawable => c \in graph[s].drawable
                      /\ ~row.drawable => c \in graph[s].undrawable
    OBVIOUS
  <2>1. row \in RunProofPathQuery(s) /\ row.clause = c
    BY <1>4
  <2> QED
    BY <2>1, PathRow
<1>7. \A o \in shown : /\ o = [clause |-> c, review_status |-> Latest(c).status]
                       /\ Latest(c).status = "accepted" /\ c \in graph[s].drawable
  BY <1>6 DEF Draws
<1>8. \A d \in missed : /\ d = c
                        /\ \/ Latest(c).status # "accepted"
                           \/ c \in graph[s].undrawable \/ c \notin graph[s].drawable
  <2> SUFFICES ASSUME \A row \in drawn : ~Draws(row)
               PROVE  \/ Latest(c).status # "accepted"
                      \/ c \in graph[s].undrawable \/ c \notin graph[s].drawable
    OBVIOUS
  <2>1. CASE \E row : drawn = {row}
    BY <1>6, <2>1 DEF Draws
  <2>2. CASE \A r \in Rows : r.clause # c
    <3>1. c \in graph[s].drawable =>
            [clause |-> c, review_status |-> Latest(c).status, drawable |-> TRUE] \in Rows
      BY DEF RunProofPathQuery
    <3> QED
      BY <2>2, <3>1
  <2> QED
    BY <1>4, <2>1, <2>2
<1>9. shown \in SUBSET [clause : Clauses, review_status : Statuses] /\ missed \in SUBSET Clauses
  BY <1>5, <1>7
<1>10. export' = [export EXCEPT ![e] = y]
  BY <1>1
<1> HIDE DEF shown, missed
<1>11. y \in Export
  BY <1>3, <1>9 DEF Export
<1>12. /\ y.form = "view" /\ y.snapshot = s /\ y.todo = {} /\ y.reading = None
       /\ y.included = shown /\ y.excluded = missed
  OBVIOUS
<1> HIDE DEF y
<1>13. /\ export'[e] = y /\ since'[e] = {<<c, Latest(c).status>>}
       /\ RequestsOK' /\ Moves(e)
  <2>1. {<<c, Latest(c).status>>} \in SUBSET (Clauses \X Statuses)
    BY <1>5
  <2> QED
    BY <1>2, <1>3, <1>10, <1>11, <2>1 DEF RequestsOK, Moves
<1>14. Waiting(e)' = {} /\ FirstGate(e)'
  BY <1>12, <1>13 DEF Waiting, FirstGate
<1>15. graph' = graph /\ logged' = logged
  BY <1>2, StillRecorded
<1>16. \A o \in y.included : Answered(e, o)'
  <2> SUFFICES ASSUME NEW o \in shown
               PROVE  Answered(e, o)'
    BY <1>12
  <2>1. o.clause = c /\ o.review_status = Latest(c).status
    BY <1>7
  <2>2. Latest(c).status = "accepted" /\ c \in graph[s].drawable
    BY <1>7
  <2> QED
    BY <1>12, <1>13, <1>15, <2>1, <2>2 DEF Answered
<1>17. \A d \in y.excluded : LeftOut(e, d)'
  <2> SUFFICES ASSUME NEW d \in missed
               PROVE  LeftOut(e, d)'
    BY <1>12
  <2> QED
    BY <1>5, <1>8, <1>12, <1>13, <1>15 DEF LeftOut
<1>18. callsAtStart'[e] \subseteq logged'
  BY <1>2, <1>15 DEF ExportIInv, Request
<1> QED
  BY <1>3, <1>12, <1>13, <1>14, <1>15, <1>16, <1>17, <1>18 DEF Request

--------------------------------------------------------------------------------
(* The invariant is inductive, and what follows from it. *)

LEMMA ExportInit == Init => ExportIInv
<1> SUFFICES ASSUME Init
             PROVE  ExportIInv
  OBVIOUS
<1>1. RecordIInv
  <2>1. /\ changesets = <<>> /\ copies = <<>> /\ graph = <<>>
        /\ DOMAIN changesets = {} /\ DOMAIN graph = {} /\ Len(graph) = 0 /\ heads = {0}
        /\ \A p \in Publishers : publisher[p] = None
    BY DEF Init
  <2>2. RecordsOK /\ \A c \in Clauses : Undecided(c)
    <3>1. \A c \in Clauses : revisions[c] = <<>> /\ Undecided(c)
      BY DEF Init, Undecided
    <3>2. /\ <<>> \in Seq(Revision) /\ <<>> \in Seq(Changeset) /\ <<>> \in Seq(Mapping)
          /\ <<>> \in Seq(SUBSET Publication)
      OBVIOUS
    <3>3. /\ revisions \in [Clauses -> Seq(Revision)]
          /\ publisher \in [Publishers -> Publishing \cup {None}]
          /\ decisions \in Nat /\ logged \subseteq Clauses /\ overwrites \in Nat
          /\ overwritten = {} /\ publishersMet \in BOOLEAN
      BY <3>2 DEF Init
    <3> QED
      BY <2>1, <3>1, <3>2, <3>3 DEF RecordsOK
  <2>3. Serial /\ \A p \in Publishers : AtWork(p)
    BY <2>1 DEF Serial, Turn, InOrder, AtWork
  <2> QED
    BY <2>1, <2>2, <2>3 DEF RecordIInv
<1>2. RequestsOK /\ \A e \in Exports : Request(e)
  BY DEF Init, RequestsOK, Request
<1> QED
  BY <1>1, <1>2 DEF ExportIInv

LEMMA ExportNext == ExportIInv /\ [Next]_vars => ExportIInv'
<1> SUFFICES ASSUME ExportIInv, [Next]_vars
             PROVE  ExportIInv'
  OBVIOUS
<1>0. RecordIInv /\ RecordsOK /\ RequestsOK
  BY DEF ExportIInv, RecordIInv
<1>1. ASSUME RevisionsMove, Seen, UNCHANGED graphVars
      PROVE  ExportIInv'
  BY <1>0, <1>1, RevisionsStep, RequestsAfterRevision DEF ExportIInv
<1>2. ASSUME RecordIInv', GraphMoves
      PROVE  ExportIInv'
  BY <1>2, RequestsAfterGraph DEF ExportIInv
<1>3. ASSUME NEW e \in Exports, RequestsOK', Moves(e), Request(e)'
      PROVE  ExportIInv'
  BY <1>0, <1>3, RequestsAfterMove, RequestStep DEF ExportIInv, Moves
<1>4. ASSUME NEW c \in Clauses, Parse(c)
      PROVE  ExportIInv'
  BY <1>0, <1>1, <1>4, ParseEffect
<1>5. ASSUME NEW c \in Clauses, NEW i \in 1..MaxRevisions, NEW status \in Statuses,
             Decide(c, i, status)
      PROVE  ExportIInv'
  BY <1>0, <1>1, <1>5, DecideEffect
<1>6. ASSUME NEW mapping \in Mappings, NEW base \in 0..Len(graph), Propose(mapping, base)
      PROVE  ExportIInv'
  BY <1>0, <1>2, <1>6, ProposeStep
<1>7. ASSUME NEW p \in Publishers, NEW k \in DOMAIN changesets, HeadCheck(p, k)
      PROVE  ExportIInv'
  BY <1>0, <1>2, <1>7, HeadCheckStep
<1>8. ASSUME NEW p \in Publishers, CommitSnapshot(p)
      PROVE  ExportIInv'
  BY <1>0, <1>2, <1>8, CommitStep
<1>9. ASSUME NEW p \in Publishers, LinkSnapshot(p)
      PROVE  ExportIInv'
  BY <1>0, <1>2, <1>9, LinkStep
<1>10. ASSUME NEW p \in Publishers, PublisherDies(p)
       PROVE  ExportIInv'
  BY <1>0, <1>2, <1>10, PublisherDiesStep
<1>11. ASSUME NEW k \in DOMAIN changesets, Overwrite(k)
       PROVE  ExportIInv'
  BY <1>0, <1>2, <1>11, OverwriteStep
<1>12. ASSUME NEW e \in Exports, NEW s \in 1..Len(graph), StartExport(e, s)
       PROVE  ExportIInv'
  BY <1>3, <1>12, StartExportStep
<1>13. ASSUME NEW e \in Exports, NEW c \in Clauses, ReviewGate(e, c)
       PROVE  ExportIInv'
  BY <1>3, <1>13, ReviewGateStep
<1>14. ASSUME NEW e \in Exports, ReadDecision(e)
       PROVE  ExportIInv'
  BY <1>3, <1>14, ReadDecisionStep
<1>15. ASSUME NEW e \in Exports, ProvenanceGate(e)
       PROVE  ExportIInv'
  BY <1>3, <1>15, ProvenanceGateStep
<1>16. ASSUME NEW e \in Exports, NEW s \in 1..Len(graph), NEW c \in Clauses, View(e, s, c)
       PROVE  ExportIInv'
  BY <1>3, <1>16, ViewStep
<1>17. CASE UNCHANGED vars
  <2>1. UNCHANGED <<recordVars, graphVars, export, since, callsAtStart, unread, lapsed>>
    BY <1>17 DEF vars, requestVars
  <2>2. RecordIInv'
    BY <1>0, <2>1, RequestStep
  <2>3. GraphMoves
    BY <1>0, <2>1, StillRecorded DEF GraphMoves, RequestsOK
  <2> QED
    BY <1>2, <2>2, <2>3
<1> QED
  BY <1>4, <1>5, <1>6, <1>7, <1>8, <1>9, <1>10, <1>11, <1>12, <1>13, <1>14, <1>15, <1>16,
     <1>17 DEF Next

LEMMA ExportAlways == Spec => []ExportIInv
BY ExportInit, ExportNext, PTL DEF Spec

(* Every variable holds a value of its kind, and a clause an export works on   *)
(* has been parsed.                                                            *)
THEOREM TypeCorrect == Spec => []TypeOK
<1>1. ExportIInv => TypeOK
  <2> SUFFICES ASSUME ExportIInv
               PROVE  TypeOK
    OBVIOUS
  <2>0. RecordIInv /\ RecordsOK /\ RequestsOK
    BY DEF ExportIInv, RecordIInv
  <2>1. ASSUME NEW e \in Exports, export[e] # None, NEW c \in Waiting(e)
        PROVE  Latest(c) # None
    <3>1. Waits(e, c) /\ export[e].snapshot \in DOMAIN graph
      BY <2>1 DEF ExportIInv, Request
    <3> QED
      BY <2>0, <3>1, SnapshotClause DEF Waits
  <2>2. ASSUME NEW e \in Exports, export[e] # None, NEW c \in export[e].todo
        PROVE  c \in Waiting(e)
    BY <2>0, <2>2, ExportType DEF Waiting
  <2>3. ASSUME NEW e \in Exports, export[e] # None, export[e].reading # None
        PROVE  export[e].reading \in Waiting(e) /\ export[e].status \in Statuses
    BY <2>0, <2>3, ExportType DEF Waiting, ExportIInv, Request, FirstGate, Approved, Statuses
  <2> QED
    BY <2>0, <2>1, <2>2, <2>3 DEF TypeOK, RecordsOK, RequestsOK
<1> QED
  BY <1>1, ExportAlways, PTL

(* What an export includes was true at some moment of the request: the clause  *)
(* is one the snapshot was made of, and the status it is given is an approved  *)
(* one that its latest revision had since the export began.  What a view shows *)
(* is a complete path of the snapshot, whose clause was accepted when it was   *)
(* asked.                                                                      *)
THEOREM AnswersWereApprovedAlways == Spec => []AnswersWereApproved
<1>1. ExportIInv => AnswersWereApproved
  BY DEF ExportIInv, Request, Answered, AnswersWereApproved
<1> QED
  BY <1>1, ExportAlways, PTL

(* A clause is left out for a reason only, although updates are overwritten,   *)
(* the log cannot always be read and paths may be incomplete: one of these, or *)
(* an agent call that was not logged, or a status that was not approved, at    *)
(* some moment of the request.                                                 *)
THEOREM LeftOutForAReasonAlways == Spec => []LeftOutForAReason
<1>1. ExportIInv => LeftOutForAReason
  BY DEF ExportIInv, Request, LeftOut, Overwritten, LeftOutForAReason
<1> QED
  BY <1>1, ExportAlways, PTL

(* Where publishers take turns, the change set the provenance chain of a       *)
(* clause names is the one that was published last, although the rows are      *)
(* searched in the order of creation.                                          *)
THEOREM SerialChainNamesLatestAlways == Spec => []SerialChainNamesLatest
<1>1. ExportIInv => SerialChainNamesLatest
  <2> SUFFICES ASSUME ExportIInv, NEW c \in Clauses, ~publishersMet, LinkResolves(c),
                      NEW k \in RowsOfClause(c), SnapshotOf(k) # None
               PROVE  SnapshotOf(k) <= SnapshotOf(FindPublishedByClauseId(c))
    BY DEF SerialChainNamesLatest
  <2> DEFINE last == FindPublishedByClauseId(c)
  <2>1. RecordIInv /\ RecordsOK /\ InOrder
    BY DEF ExportIInv, RecordIInv, Serial
  <2>2. last \in RowsOfClause(c) /\ k <= last /\ SnapshotOf(last) # None
    BY <2>1, LastRow DEF RecordsOK, LinkResolves
  <2> HIDE DEF last
  <2>3. k \in DOMAIN changesets /\ last \in DOMAIN changesets
    BY <2>2 DEF RowsOfClause, PublishedRows
  <2>4. \A l \in DOMAIN changesets : SnapshotOf(l) # None =>
            SnapshotOf(l) = Base(l) + 1 /\ Base(l) \in Nat /\ Live(l)
    <3> SUFFICES ASSUME NEW l \in DOMAIN changesets, SnapshotOf(l) # None
                 PROVE  SnapshotOf(l) = Base(l) + 1 /\ Base(l) \in Nat /\ Live(l)
      OBVIOUS
    <3>1. RowOK(l) /\ Base(l) \in Nat
      BY <2>1, RowType DEF RecordIInv
    <3> QED
      BY <3>1 DEF RowOK, SnapshotOf, MadeOf, Live
  <2>5. k = last \/ k < last
    BY <2>1, <2>2, <2>3 DEF RecordsOK
  <2>6. k < last => Base(k) <= Base(last)
    BY <2>1, <2>2, <2>3, <2>4 DEF InOrder
  <2>7. SnapshotOf(k) <= SnapshotOf(last)
    BY <2>2, <2>3, <2>4, <2>5, <2>6
  <2> QED
    BY <2>7 DEF last
<1> QED
  BY <1>1, ExportAlways, PTL

================================================================================
