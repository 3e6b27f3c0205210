--------------------------- MODULE SupersessionProofs ---------------------------
(***************************************************************************)
(* Proofs about Supersession, for every set of versions, of tools and of   *)
(* readers, and every bound on the snapshots.                              *)
(***************************************************************************)
EXTENDS Supersession, FiniteSetTheorems, TLAPS

USE VersionsAssumption

--------------------------------------------------------------------------------
(* Type correctness, and what each step does. *)

(* The latest version found has a node in some snapshot. *)
LEMMA LatestHasANode ==
    ASSUME TypeOK, NEW latest \in LatestRegulations, latest # None
    PROVE  latest \in Versions /\ \E i \in DOMAIN snapshots : latest \in Regulations(snapshots[i])
<1>1. PICK i \in DOMAIN snapshots : latest \in Regulations(snapshots[i])
  BY DEF LatestRegulations
<1>2. snapshots[i] \in Contents
  BY DEF TypeOK
<1>3. Regulations(snapshots[i]) \subseteq Versions
  BY <1>2 DEF Regulations, Contents
<1> QED
  BY <1>1, <1>3

(* What is proposed is well typed, and each edge leads from a mapped version   *)
(* to the one found in a snapshot.                                             *)
LEMMA ProposedContent ==
    ASSUME TypeOK, NEW versions \in Mapped, NEW latest \in LatestRegulations
    PROVE  /\ Proposed(versions, latest) \in Contents
           /\ Proposed(versions, latest).versions = versions
           /\ \A e \in Proposed(versions, latest).supersedes :
                /\ e[1] \in versions /\ e[2] = latest
                /\ \E i \in DOMAIN snapshots : latest \in Regulations(snapshots[i])
<1>2. versions \subseteq Versions
  OBVIOUS
<1> DEFINE edges == {<<v, latest>> : v \in {u \in versions : latest \notin {None, u}}}
<1>3. \A e \in edges : e = <<e[1], e[2]>> /\ e[1] \in versions /\ e[2] = latest /\ latest # None
  OBVIOUS
<1>4. \A e \in edges : e \in Versions \X Versions
  BY LatestHasANode, <1>2, <1>3
<1>5. Proposed(versions, latest) = [versions |-> versions, supersedes |-> edges]
  BY DEF Proposed
<1> HIDE DEF edges
<1> QED
  BY LatestHasANode, <1>2, <1>3, <1>4, <1>5 DEF Contents

LEMMA LookUpEffect ==
    ASSUME TypeOK, NEW p \in Proposers, NEW versions \in Mapped, LookUp(p, versions)
    PROVE  /\ \E latest \in LatestRegulations : draft'[p].content = Proposed(versions, latest)
           /\ \A q \in Proposers : q # p => draft'[q] = draft[q]
           /\ UNCHANGED <<graphVars, clock, walk>>
           /\ TypeOK'
<1>1. PICK latest \in LatestRegulations :
          draft' = [draft EXCEPT ![p] =
                      [stage |-> "mapped", content |-> Proposed(versions, latest),
                       base |-> 0, published_at |-> 0, heads |-> {}]]
  BY DEF LookUp
<1>2. [stage |-> "mapped", content |-> Proposed(versions, latest),
       base |-> 0, published_at |-> 0, heads |-> {}] \in Drafts
  BY ProposedContent DEF Drafts
<1> QED
  BY <1>1, <1>2 DEF LookUp, TypeOK, graphVars

(* On its way to the commit a change set keeps its content. *)
OnItsWay(p) == Propose(p) \/ HeadCheck(p) \/ Begin(p)

LEMMA OnItsWayEffect ==
    ASSUME TypeOK, NEW p \in Proposers, OnItsWay(p)
    PROVE  /\ draft[p] # None /\ draft'[p].content = draft[p].content
           /\ \A q \in Proposers : q # p => draft'[q] = draft[q]
           /\ UNCHANGED <<graphVars, walk>>
           /\ TypeOK'
<1>1. draft[p] \in Drafts /\ draft[p] # None
  BY DEF OnItsWay, Propose, HeadCheck, Begin, At, TypeOK
<1>2. PICK d \in Drafts : draft' = [draft EXCEPT ![p] = d] /\ d.content = draft[p].content
  <2>1. CASE Propose(p)
    <3>1. PICK head \in heads :
              draft' = [draft EXCEPT ![p].stage = "proposed", ![p].base = head]
      BY <2>1 DEF Propose
    <3> DEFINE d == [draft[p] EXCEPT !.stage = "proposed", !.base = head]
    <3>2. draft' = [draft EXCEPT ![p] = d]
      BY <3>1, Zenon
    <3>3. d \in Drafts /\ d.content = draft[p].content
      BY <1>1, <3>1 DEF Drafts, TypeOK
    <3> QED
      BY <3>2, <3>3
  <2>2. CASE HeadCheck(p)
    <3> DEFINE d == [draft[p] EXCEPT !.stage = "checked"]
    <3>1. draft' = [draft EXCEPT ![p] = d]
      BY <2>2, Zenon DEF HeadCheck
    <3>2. d \in Drafts /\ d.content = draft[p].content
      BY <1>1 DEF Drafts
    <3> QED
      BY <3>1, <3>2
  <2>3. CASE Begin(p)
    <3> DEFINE d == [draft[p] EXCEPT !.stage = "writing", !.published_at = clock + 1,
                                     !.heads = heads]
    <3>1. draft' = [draft EXCEPT ![p] = d]
      BY <2>3, Zenon DEF Begin
    <3>2. clock + 1 \in Nat /\ heads \in SUBSET Nat
      BY DEF TypeOK
    <3>3. d \in Drafts /\ d.content = draft[p].content
      BY <1>1, <3>2 DEF Drafts
    <3> QED
      BY <3>1, <3>3
  <2> QED
    BY <2>1, <2>2, <2>3 DEF OnItsWay
<1>3. UNCHANGED <<graphVars, walk>> /\ clock' \in {clock, clock + 1}
  BY DEF OnItsWay, Propose, HeadCheck, Begin
<1> QED
  BY <1>1, <1>2, <1>3 DEF TypeOK, graphVars

(* The change set that is committed becomes the last snapshot. *)
LEMMA CommitEffect ==
    ASSUME TypeOK, NEW p \in Proposers, Commit(p)
    PROVE  /\ draft[p] # None /\ draft[p] \in Drafts
           /\ draft'[p] = None
           /\ Len(snapshots') = Len(snapshots) + 1
           /\ snapshots'[Len(snapshots) + 1] = draft[p].content
           /\ \A i \in DOMAIN snapshots : i \in DOMAIN snapshots' /\ snapshots'[i] = snapshots[i]
           /\ \A q \in Proposers : q # p => draft'[q] = draft[q]
           /\ UNCHANGED walk
           /\ TypeOK'
<1>1. draft[p] \in Drafts /\ draft[p] # None
  BY DEF Commit, At, TypeOK
<1>2. draft[p].content \in Contents /\ draft[p].published_at \in Nat
  BY <1>1 DEF Drafts
<1>3. /\ snapshots' = Append(snapshots, draft[p].content) /\ draft' = [draft EXCEPT ![p] = None]
      /\ published_at' = Append(published_at, draft[p].published_at)
      /\ \E kept \in SUBSET (heads \ draft[p].heads) : heads' = kept \cup {Len(snapshots')}
      /\ UNCHANGED <<clock, walk>>
  BY DEF Commit
<1>4. /\ snapshots' \in Seq(Contents) /\ Len(snapshots') = Len(snapshots) + 1
      /\ snapshots'[Len(snapshots) + 1] = draft[p].content
      /\ \A i \in DOMAIN snapshots : i \in DOMAIN snapshots' /\ snapshots'[i] = snapshots[i]
  BY <1>2, <1>3 DEF TypeOK
<1>5. published_at' \in Seq(Nat) /\ Len(published_at') = Len(snapshots')
  BY <1>2, <1>3, <1>4 DEF TypeOK
<1>6. heads' \subseteq Nat
  <2>1. heads \subseteq Nat /\ Len(snapshots') \in Nat
    BY <1>4 DEF TypeOK
  <2> QED
    BY <1>3, <2>1
<1>7. /\ draft' \in [Proposers -> Drafts \cup {None}] /\ draft'[p] = None
      /\ \A q \in Proposers : q # p => draft'[q] = draft[q]
  BY <1>3 DEF TypeOK
<1> QED
  BY <1>1, <1>3, <1>4, <1>5, <1>6, <1>7 DEF TypeOK

LEMMA RefuseEffect ==
    ASSUME TypeOK, NEW p \in Proposers, Refuse(p)
    PROVE  /\ draft'[p] = None
           /\ \A q \in Proposers : q # p => draft'[q] = draft[q]
           /\ UNCHANGED <<graphVars, walk>>
           /\ TypeOK'
BY DEF Refuse, TypeOK, graphVars

LEMMA StartWalkEffect ==
    ASSUME TypeOK, NEW r \in Readers, NEW v \in SameArticle, StartWalk(r, v)
    PROVE  /\ walk'[r] = [from |-> v, current |-> v, visited |-> {v},
                          history |-> <<>>, done |-> FALSE]
           /\ \A q \in Readers : q # r => walk'[q] = walk[q]
           /\ UNCHANGED <<graphVars, clock, draft>>
           /\ TypeOK'
<1>1. [from |-> v, current |-> v, visited |-> {v}, history |-> <<>>, done |-> FALSE] \in Walks
  BY DEF Walks
<1> QED
  BY <1>1 DEF StartWalk, TypeOK, graphVars

(* A reader follows an edge to a version it has not visited. *)
LEMMA FollowEffect ==
    ASSUME TypeOK, NEW r \in Readers, Follow(r)
    PROVE  /\ walk[r] # None /\ walk[r] \in Walks
           /\ \E target \in Versions :
                /\ target \in SupersedesTargets(walk[r].current)
                /\ target \notin walk[r].visited
                /\ walk'[r].from = walk[r].from
                /\ walk'[r].current = target
                /\ walk'[r].visited = walk[r].visited \cup {target}
                /\ walk'[r].history = Append(walk[r].history, target)
           /\ \A q \in Readers : q # r => walk'[q] = walk[q]
           /\ UNCHANGED <<graphVars, clock, draft>>
           /\ TypeOK'
<1>1. walk[r] \in Walks /\ walk[r] # None
  BY DEF Follow, Walking, TypeOK
<1>2. PICK target \in SupersedesTargets(walk[r].current) \ walk[r].visited :
          /\ target \in SameArticle
          /\ walk' = [walk EXCEPT ![r].current = target,
                                  ![r].visited = @ \cup {target},
                                  ![r].history = Append(@, target)]
  BY DEF Follow
<1>3. target \in Versions
  BY <1>2
<1> DEFINE next == [walk[r] EXCEPT !.current = target, !.visited = @ \cup {target},
                                   !.history = Append(@, target)]
<1>4. walk' = [walk EXCEPT ![r] = next]
  BY <1>2, Zenon
<1>5. /\ next \in Walks
      /\ next.from = walk[r].from /\ next.current = target
      /\ next.visited = walk[r].visited \cup {target}
      /\ next.history = Append(walk[r].history, target)
  <2>1. Append(walk[r].history, target) \in Seq(Versions)
    BY <1>1, <1>3 DEF Walks
  <2>2. walk[r].visited \cup {target} \in SUBSET Versions
    BY <1>1, <1>3 DEF Walks
  <2>3. walk[r] \in Walks
    BY <1>1
  <2> QED
    BY <1>3, <2>1, <2>2, <2>3 DEF Walks
<1> HIDE DEF next
<1>6. /\ walk'[r] = next /\ \A q \in Readers : q # r => walk'[q] = walk[q]
      /\ walk' \in [Readers -> Walks \cup {None}]
      /\ UNCHANGED <<graphVars, clock, draft>>
  BY <1>4, <1>5 DEF TypeOK, Follow
<1> QED
  BY <1>1, <1>2, <1>3, <1>5, <1>6 DEF TypeOK, graphVars

LEMMA StopEffect ==
    ASSUME TypeOK, NEW r \in Readers, Stop(r)
    PROVE  /\ walk[r] # None /\ walk[r] \in Walks
           /\ walk'[r].from = walk[r].from /\ walk'[r].current = walk[r].current
           /\ walk'[r].visited = walk[r].visited /\ walk'[r].history = walk[r].history
           /\ walk'[r].done
           /\ \A q \in Readers : q # r => walk'[q] = walk[q]
           /\ UNCHANGED <<graphVars, clock, draft>>
           /\ TypeOK'
<1>1. walk[r] \in Walks /\ walk[r] # None
  BY DEF Stop, Walking, TypeOK
<1> DEFINE next == [walk[r] EXCEPT !.done = TRUE]
<1>2. walk' = [walk EXCEPT ![r] = next]
  <2>1. walk' = [walk EXCEPT ![r].done = TRUE]
    BY DEF Stop
  <2>2. walk \in [Readers -> Walks \cup {None}]
    BY DEF TypeOK
  <2>3. walk'[r] = next
    BY <2>1, <2>2
  <2> QED
    BY <2>1, <2>2, <2>3
<1>3. /\ next \in Walks
      /\ next.from = walk[r].from /\ next.current = walk[r].current
      /\ next.visited = walk[r].visited /\ next.history = walk[r].history
      /\ next.done
  BY <1>1 DEF Walks
<1> HIDE DEF next
<1>4. /\ walk'[r] = next /\ \A q \in Readers : q # r => walk'[q] = walk[q]
      /\ walk' \in [Readers -> Walks \cup {None}]
  BY <1>2, <1>3 DEF TypeOK
<1>5. UNCHANGED <<graphVars, clock, draft>>
  BY DEF Stop
<1> QED
  BY <1>1, <1>3, <1>4, <1>5 DEF TypeOK, graphVars

LEMMA TypeInit == Init => TypeOK
BY DEF Init, TypeOK

LEMMA TypeNext == TypeOK /\ [Next]_vars => TypeOK'
<1> SUFFICES ASSUME TypeOK, [Next]_vars
             PROVE  TypeOK'
  OBVIOUS
<1>1. CASE UNCHANGED vars
  BY <1>1 DEF vars, graphVars, TypeOK
<1> QED
  BY <1>1, LookUpEffect, OnItsWayEffect, CommitEffect, RefuseEffect,
     StartWalkEffect, FollowEffect, StopEffect
  DEF Next, OnItsWay

(* Every reachable state is well typed. *)
THEOREM TypeCorrect == Spec => []TypeOK
BY TypeInit, TypeNext, PTL DEF Spec

--------------------------------------------------------------------------------
(* Supersession leads to versions published before. *)

(* The edges of a content lead from its own versions to versions that a        *)
(* snapshot up to the given one has published.                                 *)
LeadsBack(content, last) ==
    \A e \in content.supersedes :
        /\ e[1] \in content.versions
        /\ \E k \in 1..last : e[2] \in snapshots[k].versions

(* Every snapshot leads back, and so does every draft, wherever the head is    *)
(* that it was proposed on: what it leads to was published when it was mapped, *)
(* and stays so.                                                               *)
EdgesIInv ==
    /\ TypeOK
    /\ \A i \in DOMAIN snapshots : LeadsBack(snapshots[i], i - 1)
    /\ \A p \in Proposers : draft[p] # None => LeadsBack(draft[p].content, Len(snapshots))

(* A node of a snapshot belongs to a version some snapshot published. *)
LEMMA NodeWasPublished ==
    ASSUME EdgesIInv, NEW n \in DOMAIN snapshots, NEW v \in Regulations(snapshots[n])
    PROVE  \E k \in 1..Len(snapshots) : v \in snapshots[k].versions
<1>1. Len(snapshots) \in Nat /\ n \in 1..Len(snapshots)
  BY DEF EdgesIInv, TypeOK
<1>2. CASE v \in snapshots[n].versions
  BY <1>1, <1>2
<1>3. CASE \E e \in snapshots[n].supersedes : v = e[2]
  <2>1. LeadsBack(snapshots[n], n - 1)
    BY <1>1 DEF EdgesIInv
  <2>2. \E k \in 1..(n - 1) : v \in snapshots[k].versions
    BY <1>3, <2>1 DEF LeadsBack
  <2> QED
    BY <1>1, <2>2
<1> QED
  BY <1>2, <1>3 DEF Regulations

LEMMA EdgesNext == EdgesIInv /\ [Next]_vars => EdgesIInv'
<1> SUFFICES ASSUME EdgesIInv, [Next]_vars
             PROVE  EdgesIInv'
  OBVIOUS
<1> DEFINE Snapshots == \A i \in DOMAIN snapshots : LeadsBack(snapshots[i], i - 1)
           DraftBack(q) == draft[q] # None => LeadsBack(draft[q].content, Len(snapshots))
<1>0. /\ TypeOK /\ TypeOK' /\ Snapshots /\ \A q \in Proposers : DraftBack(q)
      /\ Len(snapshots) \in Nat /\ DOMAIN snapshots = 1..Len(snapshots)
  BY TypeNext DEF EdgesIInv, TypeOK
<1>s. SUFFICES Snapshots' /\ \A q \in Proposers : DraftBack(q)'
  BY <1>0 DEF EdgesIInv
<1>1. ASSUME UNCHANGED snapshots
      PROVE  /\ Snapshots'
             /\ \A q \in Proposers : draft'[q] = draft[q] => DraftBack(q)'
  BY <1>0, <1>1 DEF LeadsBack
<1>2. ASSUME NEW p \in Proposers, NEW versions \in Mapped, LookUp(p, versions)
      PROVE  Snapshots' /\ \A q \in Proposers : DraftBack(q)'
  <2>1. PICK latest \in LatestRegulations : draft'[p].content = Proposed(versions, latest)
    BY <1>0, <1>2, LookUpEffect
  <2>2. UNCHANGED snapshots /\ \A q \in Proposers : q # p => draft'[q] = draft[q]
    BY <1>0, <1>2, LookUpEffect DEF graphVars
  <2>3. LeadsBack(Proposed(versions, latest), Len(snapshots))
    BY <1>0, ProposedContent, NodeWasPublished DEF LeadsBack
  <2>4. DraftBack(p)'
    BY <1>0, <2>1, <2>2, <2>3 DEF LeadsBack
  <2> QED
    BY <1>1, <2>2, <2>4
<1>3. ASSUME NEW p \in Proposers, OnItsWay(p)
      PROVE  Snapshots' /\ \A q \in Proposers : DraftBack(q)'
  <2>1. /\ draft[p] # None /\ draft'[p].content = draft[p].content /\ UNCHANGED snapshots
        /\ \A q \in Proposers : q # p => draft'[q] = draft[q]
    BY <1>0, <1>3, OnItsWayEffect DEF graphVars
  <2>2. DraftBack(p)'
    BY <1>0, <2>1 DEF LeadsBack
  <2> QED
    BY <1>1, <2>1, <2>2
<1>4. ASSUME NEW p \in Proposers, Commit(p)
      PROVE  Snapshots' /\ \A q \in Proposers : DraftBack(q)'
  <2> DEFINE n == Len(snapshots)
  <2>1. /\ draft[p] # None
        /\ draft'[p] = None /\ \A q \in Proposers : q # p => draft'[q] = draft[q]
        /\ Len(snapshots') = n + 1 /\ snapshots'[n + 1] = draft[p].content
        /\ \A i \in 1..n : snapshots'[i] = snapshots[i]
        /\ DOMAIN snapshots' = 1..(n + 1)
    <3>1. snapshots' \in Seq(Contents)
      BY <1>0 DEF TypeOK
    <3> QED
      BY <1>0, <1>4, <3>1, CommitEffect
  <2>2. LeadsBack(draft[p].content, n)
    BY <1>0, <2>1
  <2>3. ASSUME NEW i \in 1..(n + 1)
        PROVE  LeadsBack(snapshots[i], i - 1)'
    <3>1. CASE i = n + 1
      BY <1>0, <2>1, <2>2, <3>1 DEF LeadsBack
    <3>2. CASE i \in 1..n
      <4>1. LeadsBack(snapshots[i], i - 1)
        BY <1>0, <3>2
      <4>2. snapshots'[i] = snapshots[i] /\ \A k \in 1..(i - 1) : snapshots'[k] = snapshots[k]
        BY <1>0, <2>1, <3>2
      <4> QED
        BY <4>1, <4>2 DEF LeadsBack
    <3> QED
      BY <1>0, <3>1, <3>2
  <2>4. ASSUME NEW q \in Proposers
        PROVE  DraftBack(q)'
    <3>1. CASE q = p
      BY <2>1, <3>1
    <3>2. CASE q # p /\ draft[q] # None
      <4>1. LeadsBack(draft[q].content, n)
        BY <1>0, <3>2
      <4>2. \A k \in 1..n : k \in 1..(n + 1) /\ snapshots'[k] = snapshots[k]
        BY <1>0, <2>1
      <4>3. draft'[q] = draft[q] /\ Len(snapshots') = n + 1
        BY <2>1, <3>2
      <4> QED
        BY <4>1, <4>2, <4>3 DEF LeadsBack
    <3> QED
      BY <2>1, <3>1, <3>2
  <2> QED
    BY <2>1, <2>3, <2>4
<1>5. ASSUME NEW p \in Proposers, Refuse(p)
      PROVE  Snapshots' /\ \A q \in Proposers : DraftBack(q)'
  BY <1>0, <1>1, <1>5, RefuseEffect DEF graphVars
<1>6. ASSUME UNCHANGED <<graphVars, draft>>
      PROVE  Snapshots' /\ \A q \in Proposers : DraftBack(q)'
  BY <1>1, <1>6 DEF graphVars
<1>7. CASE UNCHANGED vars
  BY <1>6, <1>7 DEF vars
<1> QED
  BY <1>0, <1>2, <1>3, <1>4, <1>5, <1>6, <1>7, StartWalkEffect, FollowEffect, StopEffect
  DEF Next, OnItsWay

(* Two elements are more than one. *)
LEMMA AtMostOne ==
    ASSUME NEW S, IsFiniteSet(S), Cardinality(S) <= 1, NEW x \in S, NEW y \in S
    PROVE  x = y
<1>1. Cardinality(S) \in Nat /\ Cardinality(S) # 0
  BY FS_CardinalityType, FS_EmptySet
<1>2. Cardinality(S) = 1
  BY <1>1
<1> QED
  BY <1>2, FS_Singleton

(* Where every version was published by one change set only, supersession is   *)
(* acyclic: an edge leads to a version published before.                       *)
THEOREM OncePublishedIsAcyclicAlways == Spec => []OncePublishedIsAcyclic
<1>1. Init => EdgesIInv
  BY TypeInit DEF Init, EdgesIInv
<1>2. EdgesIInv => OncePublishedIsAcyclic
  <2> SUFFICES ASSUME EdgesIInv, \A v \in Versions : Cardinality(PublishedIn(v)) <= 1,
                      NEW i \in DOMAIN snapshots, NEW e \in snapshots[i].supersedes,
                      NEW j \in PublishedIn(e[1]), NEW k \in PublishedIn(e[2])
               PROVE  k < j
    BY DEF OncePublishedIsAcyclic
  <2>1. /\ Len(snapshots) \in Nat /\ DOMAIN snapshots = 1..Len(snapshots)
        /\ snapshots[i] \in Contents
    BY DEF EdgesIInv, TypeOK
  <2>2. e[1] \in Versions /\ e[2] \in Versions
    BY <2>1 DEF Contents
  <2>3. \A v : IsFiniteSet(PublishedIn(v))
    <3>1. IsFiniteSet(1..Len(snapshots))
      BY <2>1, FS_Interval
    <3>2. \A v : PublishedIn(v) \subseteq 1..Len(snapshots)
      BY <2>1 DEF PublishedIn
    <3> QED
      BY <3>1, <3>2, FS_Subset
  <2>4. LeadsBack(snapshots[i], i - 1)
    BY DEF EdgesIInv
  <2>5. i \in PublishedIn(e[1])
    BY <2>4 DEF LeadsBack, PublishedIn
  <2>6. PICK m \in 1..(i - 1) : e[2] \in snapshots[m].versions
    BY <2>4 DEF LeadsBack
  <2>7. m \in PublishedIn(e[2]) /\ m < i
    BY <2>1, <2>6 DEF PublishedIn
  <2>8. i = j /\ m = k
    BY <2>2, <2>3, <2>5, <2>7, AtMostOne
  <2> QED
    BY <2>7, <2>8
<1> QED
  BY <1>1, <1>2, EdgesNext, PTL DEF Spec

--------------------------------------------------------------------------------
(* A history is a path. *)

Path(k) == <<k.from>> \o k.history

Superseding(v, u) == \E i \in DOMAIN snapshots : <<v, u>> \in snapshots[i].supersedes

(* What a walk has visited is its path, each version once, and it stands at    *)
(* the last one.                                                               *)
WalksItsPath(k) ==
    /\ k.visited = {Path(k)[i] : i \in DOMAIN Path(k)}
    /\ k.current = Path(k)[Len(Path(k))]
    /\ \A i, j \in DOMAIN Path(k) : i # j => Path(k)[i] # Path(k)[j]
    /\ \A i \in 1..(Len(Path(k)) - 1) : Superseding(Path(k)[i], Path(k)[i + 1])

PathIInv == TypeOK /\ \A r \in Readers : walk[r] # None => WalksItsPath(walk[r])

LEMMA PathOfWalk ==
    ASSUME NEW k, k.from \in Versions, k.history \in Seq(Versions)
    PROVE  /\ Path(k) \in Seq(Versions)
           /\ Len(Path(k)) = Len(k.history) + 1
           /\ Path(k)[1] = k.from
BY DEF Path

LEMMA PathGrows ==
    ASSUME NEW k, NEW next, NEW target \in Versions,
           k.from \in Versions, k.history \in Seq(Versions),
           next.from = k.from, next.history = Append(k.history, target)
    PROVE  Path(next) = Append(Path(k), target)
<1> DEFINE h == k.history
<1>1. Path(next) = <<k.from>> \o Append(h, target)
  BY DEF Path
<1> HIDE DEF h
<1>2. h \in Seq(Versions)
  BY DEF h
<1>3. <<k.from>> \o Append(h, target) = Append(<<k.from>> \o h, target)
  BY <1>2
<1> QED
  BY <1>1, <1>3 DEF Path, h

(* An answer other than None is the target of an edge. *)
LEMMA TargetIsSuperseded ==
    ASSUME NEW v, NEW u \in Versions, u \in SupersedesTargets(v)
    PROVE  Superseding(v, u)
BY DEF SupersedesTargets, Superseding

LEMMA SupersededIsTarget ==
    ASSUME NEW v, NEW u \in Versions, Superseding(v, u)
    PROVE  u \in SupersedesTargets(v)
BY DEF SupersedesTargets, Superseding

LEMMA PathNext == PathIInv /\ [Next]_vars => PathIInv'
<1> SUFFICES ASSUME PathIInv, [Next]_vars
             PROVE  PathIInv'
  OBVIOUS
<1> DEFINE Walked(r) == walk[r] # None => WalksItsPath(walk[r])
<1>0. TypeOK /\ TypeOK' /\ \A r \in Readers : Walked(r)
  BY TypeNext DEF PathIInv
<1>s. SUFFICES \A r \in Readers : Walked(r)'
  BY <1>0 DEF PathIInv
<1>1. ASSUME \A i \in DOMAIN snapshots : i \in DOMAIN snapshots' /\ snapshots'[i] = snapshots[i],
             NEW r \in Readers, walk'[r] = walk[r]
      PROVE  Walked(r)'
  <2>1. \A u, v : Superseding(u, v) => Superseding(u, v)'
    BY <1>1 DEF Superseding
  <2>2. ASSUME walk[r] # None
        PROVE  WalksItsPath(walk[r])'
    <3>1. WalksItsPath(walk[r]) /\ walk'[r] = walk[r]
      BY <1>0, <1>1, <2>2
    <3> DEFINE path == Path(walk[r])
    <3>2. Path(walk'[r]) = path
      BY <3>1 DEF Path
    <3>3. \A i \in 1..(Len(path) - 1) : Superseding(path[i], path[i + 1])
      BY <3>1 DEF WalksItsPath
    <3>4. \A i \in 1..(Len(path) - 1) : Superseding(path[i], path[i + 1])'
      <4>1. PICK fixed : fixed = path
        OBVIOUS
      <4>2. \A i \in 1..(Len(fixed) - 1) : Superseding(fixed[i], fixed[i + 1])
        BY <3>3, <4>1
      <4>3. \A i \in 1..(Len(fixed) - 1) : Superseding(fixed[i], fixed[i + 1])'
        BY <2>1, <4>2
      <4> QED
        BY <3>2, <4>1, <4>3
    <3> QED
      BY <3>1, <3>2, <3>4 DEF WalksItsPath
  <2> QED
    BY <1>1, <2>2
<1>2. ASSUME NEW r \in Readers, NEW v \in SameArticle, StartWalk(r, v)
      PROVE  \A q \in Readers : Walked(q)'
  <2>1. /\ walk'[r].from = v /\ walk'[r].current = v /\ walk'[r].visited = {v}
        /\ walk'[r].history = <<>>
        /\ \A q \in Readers : q # r => walk'[q] = walk[q]
        /\ UNCHANGED snapshots
    <3>1. walk'[r] = [from |-> v, current |-> v, visited |-> {v},
                      history |-> <<>>, done |-> FALSE]
      BY <1>0, <1>2, StartWalkEffect
    <3>2. (\A q \in Readers : q # r => walk'[q] = walk[q]) /\ UNCHANGED snapshots
      BY <1>0, <1>2, StartWalkEffect DEF graphVars
    <3> QED
      BY <3>1, <3>2
  <2>2. Path(walk'[r]) = <<v>>
    BY <2>1 DEF Path
  <2>3. walk'[r].visited = {Path(walk'[r])[i] : i \in DOMAIN Path(walk'[r])}
    BY <2>1, <2>2
  <2>4. WalksItsPath(walk[r])'
    BY <2>1, <2>2, <2>3 DEF WalksItsPath
  <2> QED
    BY <1>1, <2>1, <2>4
<1>3. ASSUME NEW r \in Readers, Follow(r)
      PROVE  \A q \in Readers : Walked(q)'
  <2> DEFINE path == Path(walk[r])
  <2>1. /\ walk[r] # None /\ walk[r].from \in Versions
        /\ walk[r].history \in Seq(Versions)
        /\ \A q \in Readers : q # r => walk'[q] = walk[q]
        /\ UNCHANGED snapshots
    BY <1>0, <1>3, FollowEffect DEF Walks, graphVars
  <2>2. PICK target \in Versions :
            /\ target \in SupersedesTargets(walk[r].current)
            /\ target \notin walk[r].visited
            /\ walk'[r].from = walk[r].from
            /\ walk'[r].current = target
            /\ walk'[r].visited = walk[r].visited \cup {target}
            /\ walk'[r].history = Append(walk[r].history, target)
    BY <1>0, <1>3, FollowEffect
  <2>3. path \in Seq(Versions) /\ Len(path) \in Nat \ {0} /\ DOMAIN path = 1..Len(path)
    BY <2>1, PathOfWalk
  <2>4. Path(walk'[r]) = Append(path, target)
    BY <2>1, <2>2, PathGrows
  <2>5. /\ walk[r].visited = {path[i] : i \in DOMAIN path}
        /\ walk[r].current = path[Len(path)]
        /\ \A i, j \in DOMAIN path : i # j => path[i] # path[j]
        /\ \A i \in 1..(Len(path) - 1) : Superseding(path[i], path[i + 1])
    BY <1>0, <2>1 DEF WalksItsPath
  <2>6. Superseding(path[Len(path)], target)
    BY <2>2, <2>5, TargetIsSuperseded
  <2>7. \A u, v : Superseding(u, v)' <=> Superseding(u, v)
    BY <2>1 DEF Superseding
  <2> HIDE DEF path
  <2>long. PICK longer : longer = Append(path, target)
    OBVIOUS
  <2>8. /\ Len(longer) = Len(path) + 1 /\ DOMAIN longer = 1..(Len(path) + 1)
        /\ longer[Len(path) + 1] = target
        /\ \A i \in 1..Len(path) : longer[i] = path[i]
    BY <2>3, <2>long
  <2>9. walk'[r].visited = {longer[i] : i \in DOMAIN longer}
    BY <2>2, <2>3, <2>5, <2>8
  <2>10. \A i, j \in DOMAIN longer : i # j => longer[i] # longer[j]
    BY <2>2, <2>3, <2>5, <2>8
  <2>11. \A i \in 1..(Len(longer) - 1) : Superseding(longer[i], longer[i + 1])
    BY <2>3, <2>5, <2>6, <2>8
  <2>12. WalksItsPath(walk[r])'
    <3>1. Path(walk'[r]) = longer
      BY <2>4, <2>long
    <3>2. walk'[r].current = longer[Len(longer)]
      BY <2>2, <2>3, <2>8
    <3>3. \A i \in 1..(Len(longer) - 1) : Superseding(longer[i], longer[i + 1])'
      BY <2>7, <2>11
    <3> QED
      BY <2>9, <2>10, <3>1, <3>2, <3>3 DEF WalksItsPath
  <2> QED
    BY <1>1, <2>1, <2>12
<1>4. ASSUME NEW r \in Readers, Stop(r)
      PROVE  \A q \in Readers : Walked(q)'
  <2>1. /\ walk[r] # None
        /\ walk'[r].from = walk[r].from /\ walk'[r].current = walk[r].current
        /\ walk'[r].visited = walk[r].visited /\ walk'[r].history = walk[r].history
        /\ \A q \in Readers : q # r => walk'[q] = walk[q]
        /\ UNCHANGED snapshots
    BY <1>0, <1>4, StopEffect DEF graphVars
  <2>2. Path(walk'[r]) = Path(walk[r])
    BY <2>1 DEF Path
  <2>3. \A u, v : Superseding(u, v)' <=> Superseding(u, v)
    BY <2>1 DEF Superseding
  <2>4. WalksItsPath(walk[r])
    BY <1>0, <2>1
  <2>5. WalksItsPath(walk[r])'
    BY <2>1, <2>2, <2>3, <2>4 DEF WalksItsPath
  <2> QED
    BY <1>1, <2>1, <2>5
<1>5. ASSUME NEW p \in Proposers, Commit(p)
      PROVE  \A q \in Readers : Walked(q)'
  BY <1>0, <1>1, <1>5, CommitEffect
<1>6. ASSUME UNCHANGED <<graphVars, walk>>
      PROVE  \A q \in Readers : Walked(q)'
  BY <1>1, <1>6 DEF graphVars
<1>7. CASE UNCHANGED vars
  BY <1>6, <1>7 DEF vars
<1> QED
  BY <1>0, <1>2, <1>3, <1>4, <1>5, <1>6, <1>7,
     LookUpEffect, OnItsWayEffect, RefuseEffect
  DEF Next, OnItsWay

(* A history lists a version once and never the one it starts from, each one   *)
(* superseded by the one before it, even where the edges form a cycle.         *)
THEOREM HistoryIsAPathAlways == Spec => []HistoryIsAPath
<1>1. Init => PathIInv
  <2> SUFFICES ASSUME Init
               PROVE  PathIInv
    OBVIOUS
  <2>1. \A r \in Readers : walk[r] = None
    BY DEF Init
  <2> QED
    BY <2>1, TypeInit DEF PathIInv
<1>2. PathIInv => HistoryIsAPath
  <2> SUFFICES ASSUME PathIInv, NEW r \in Readers, walk[r] # None
               PROVE  /\ \A i, j \in DOMAIN Path(walk[r]) :
                            i # j => Path(walk[r])[i] # Path(walk[r])[j]
                      /\ \A i \in 1..(Len(Path(walk[r])) - 1) :
                            Path(walk[r])[i+1] \in SupersedesTargets(Path(walk[r])[i])
    BY DEF HistoryIsAPath, Path
  <2> DEFINE path == Path(walk[r])
  <2>1. walk[r].from \in Versions /\ walk[r].history \in Seq(Versions)
    BY DEF PathIInv, TypeOK, Walks
  <2>2. path \in Seq(Versions) /\ Len(path) \in Nat
    BY <2>1, PathOfWalk
  <2>3. /\ \A i, j \in DOMAIN path : i # j => path[i] # path[j]
        /\ \A i \in 1..(Len(path) - 1) : Superseding(path[i], path[i + 1])
    BY DEF PathIInv, WalksItsPath
  <2> HIDE DEF path
  <2>4. \A i \in 1..(Len(path) - 1) : path[i + 1] \in Versions
    BY <2>2
  <2>5. \A i \in 1..(Len(path) - 1) : path[i + 1] \in SupersedesTargets(path[i])
    BY <2>3, <2>4, SupersededIsTarget
  <2> QED
    BY <2>3, <2>5 DEF path
<1> QED
  BY <1>1, <1>2, PathNext, PTL DEF Spec

--------------------------------------------------------------------------------
(* A walk is short. *)

(* The questions that a walk may still ask, and its return. *)
StepsLeft(r) == IF Walking(r) THEN Cardinality(Versions \ walk[r].visited) + 1 ELSE 0

(* A walk is over after as many steps as there are versions, and one more,     *)
(* whatever is published under it and wherever the edges lead: no step leaves  *)
(* it more to do, and each of its own leaves it less.  That it takes these     *)
(* steps is its fairness (article_history.py, get_article_history).            *)
THEOREM WalksAreShort ==
    ASSUME IsFiniteSet(Versions)
    PROVE  Spec => [][\A r \in Readers : walk[r] # None =>
                        /\ StepsLeft(r) \in 0..Cardinality(Versions) + 1
                        /\ StepsLeft(r)' <= StepsLeft(r)
                        /\ Follow(r) \/ Stop(r) => StepsLeft(r)' < StepsLeft(r)]_vars
<1> DEFINE Shorter(r) == walk[r] # None =>
                            /\ StepsLeft(r) \in 0..Cardinality(Versions) + 1
                            /\ StepsLeft(r)' <= StepsLeft(r)
                            /\ Follow(r) \/ Stop(r) => StepsLeft(r)' < StepsLeft(r)
<1>1. \A S \in SUBSET Versions :
          /\ IsFiniteSet(Versions \ S) /\ Cardinality(Versions \ S) \in Nat
          /\ Cardinality(Versions \ S) <= Cardinality(Versions)
  <2> TAKE S \in SUBSET Versions
  <2>1. Versions \ S \in SUBSET Versions
    OBVIOUS
  <2> QED
    BY <2>1, FS_Subset, FS_CardinalityType
<1>2. Cardinality(Versions) \in Nat
  BY FS_CardinalityType
<1>3. ASSUME TypeOK, NEW r \in Readers
      PROVE  StepsLeft(r) \in 0..Cardinality(Versions) + 1
  <2>1. CASE Walking(r)
    <3> DEFINE n == Cardinality(Versions \ walk[r].visited)
    <3>1. walk[r].visited \in SUBSET Versions
      BY <1>3, <2>1 DEF Walking, TypeOK, Walks
    <3>2. n \in Nat /\ n <= Cardinality(Versions)
      BY <1>1, <3>1
    <3>3. StepsLeft(r) = n + 1
      BY <2>1 DEF StepsLeft
    <3> HIDE DEF n
    <3> QED
      BY <1>2, <3>2, <3>3
  <2>2. CASE ~Walking(r)
    BY <1>2, <2>2 DEF StepsLeft
  <2> QED
    BY <2>1, <2>2
<1>4. ASSUME NEW r \in Readers, walk'[r] = walk[r]
      PROVE  StepsLeft(r)' = StepsLeft(r)
  BY <1>4 DEF StepsLeft, Walking
<1>5. ASSUME TypeOK, NEW r \in Readers, Follow(r)
      PROVE  StepsLeft(r)' \in Nat /\ StepsLeft(r)' < StepsLeft(r)
  <2>1. Walking(r)
    BY <1>5 DEF Follow
  <2>2. PICK target \in Versions : /\ target \notin walk[r].visited
                                  /\ walk'[r].visited = walk[r].visited \cup {target}
    BY <1>5, FollowEffect
  <2>3. walk[r].visited \in SUBSET Versions
    BY <1>5, FollowEffect DEF Walks
  <2> DEFINE before == Versions \ walk[r].visited
             after == Versions \ walk'[r].visited
  <2>4. after = before \ {target} /\ target \in before
    BY <2>2, <2>3
  <2>5. IsFiniteSet(before) /\ Cardinality(before) \in Nat
    BY <1>1, <2>3
  <2>6. after \in SUBSET before
    BY <2>4
  <2>7. StepsLeft(r) = Cardinality(before) + 1
    BY <2>1 DEF StepsLeft
  <2>8. StepsLeft(r)' = Cardinality(after) + 1 \/ StepsLeft(r)' = 0
    BY DEF StepsLeft
  <2> HIDE DEF before, after
  <2>9. Cardinality(after) = Cardinality(before) - 1 /\ Cardinality(after) \in Nat
    BY <2>4, <2>5, <2>6, FS_RemoveElement, FS_Subset, FS_CardinalityType
  <2> QED
    BY <2>5, <2>7, <2>8, <2>9
<1>6. ASSUME TypeOK, NEW r \in Readers, Stop(r)
      PROVE  StepsLeft(r)' \in Nat /\ StepsLeft(r)' < StepsLeft(r)
  <2> DEFINE n == Cardinality(Versions \ walk[r].visited)
  <2>1. Walking(r) /\ walk[r].visited \in SUBSET Versions
    BY <1>6, StopEffect DEF Stop, Walks
  <2>2. StepsLeft(r)' = 0
    BY <1>6, StopEffect DEF StepsLeft, Walking
  <2>3. n \in Nat
    BY <1>1, <2>1
  <2>4. StepsLeft(r) = n + 1
    BY <2>1 DEF StepsLeft
  <2> HIDE DEF n
  <2> QED
    BY <2>2, <2>3, <2>4
<1>7. TypeOK /\ [Next]_vars => \A r \in Readers : Shorter(r)
  <2> SUFFICES ASSUME TypeOK, [Next]_vars, NEW r \in Readers, walk[r] # None
               PROVE  Shorter(r)
    OBVIOUS
  <2>1. StepsLeft(r) \in 0..Cardinality(Versions) + 1 /\ StepsLeft(r) \in Nat
    BY <1>2, <1>3
  <2>2. CASE Follow(r) \/ Stop(r)
    <3>1. StepsLeft(r)' \in Nat /\ StepsLeft(r)' < StepsLeft(r)
      BY <1>5, <1>6, <2>2
    <3> QED
      BY <2>1, <3>1
  <2>3. CASE ~(Follow(r) \/ Stop(r))
    <3>1. walk'[r] = walk[r]
      <4>1. ASSUME NEW q \in Readers, NEW v \in SameArticle, StartWalk(q, v)
            PROVE  walk'[r] = walk[r]
        BY <4>1, StartWalkEffect DEF StartWalk
      <4>2. ASSUME NEW q \in Readers, Follow(q) \/ Stop(q)
            PROVE  walk'[r] = walk[r]
        BY <2>3, <4>2, FollowEffect, StopEffect
      <4>3. CASE UNCHANGED vars
        BY <4>3 DEF vars
      <4>4. ASSUME NEW p \in Proposers,
                   \/ \E versions \in Mapped : LookUp(p, versions)
                   \/ Propose(p) \/ HeadCheck(p) \/ Refuse(p) \/ Begin(p) \/ Commit(p)
            PROVE  walk'[r] = walk[r]
        BY <4>4 DEF LookUp, Propose, HeadCheck, Refuse, Begin, Commit
      <4> QED
        BY <4>1, <4>2, <4>3, <4>4 DEF Next
    <3> QED
      BY <1>4, <2>1, <2>3, <3>1
  <2> QED
    BY <2>2, <2>3
<1> QED
  BY <1>7, TypeCorrect, PTL DEF Spec
================================================================================
