------------------------------ MODULE Supersession ------------------------------
(***************************************************************************)
(* Which version of a regulation supersedes which: the SUPERSEDES edges    *)
(* the graph mapping agent proposes from the publish history of the graph, *)
(* and the walk back along them that lists the prior versions of an        *)
(* article.                                                                *)
(*                                                                         *)
(* A snapshot holds what one change set proposed and nothing else, so a    *)
(* version has a node in every snapshot of its own obligations and in      *)
(* every snapshot of a version that supersedes it.  The proposing tool     *)
(* looks the latest version up, reads the head, and publishes what the     *)
(* agent built; each of these is a step, and other tools step in between:  *)
(*   "mapped"     the agent has built the change set from the look-up      *)
(*   "proposed"   the head read since is its base                          *)
(*   "checked"    publish: the base was the head                           *)
(*   "writing"    publish: the time is taken and the transaction open      *)
(* The walk asks the graph once per version, and snapshots appear between  *)
(* its questions.                                                          *)
(*                                                                         *)
(* One instrument is modelled: no edge relates two of them.  A version     *)
(* with a node in the graph has a registered document, because its         *)
(* obligations were extracted from one.                                    *)
(***************************************************************************)
EXTENDS Naturals, Sequences, FiniteSets

CONSTANTS
    Versions,       \* source versions of the instrument
    Mapped,         \* sets of versions whose obligations one change set can map
    SameArticle,    \* versions whose document has the article the walk is about
    Proposers,      \* tools that propose and publish change sets
    Readers,        \* requests for the history of the article
    None,           \* Python's None
    MaxSnapshots    \* bound: publications ever begun

ASSUME VersionsAssumption ==
    /\ SameArticle \subseteq Versions
    /\ Mapped \subseteq SUBSET Versions
    /\ None \notin Versions

VARIABLES
    snapshots,      \* what each snapshot holds, in the order of the commits
    published_at,   \* the time each snapshot bears
    heads,          \* the snapshots a head pointer names; 0 for none
    clock,          \* the time, as the number of publications begun
    draft,          \* the change set a proposer has built, or None
    walk            \* the walk of a reader, or None

graphVars == <<snapshots, published_at, heads>>

vars == <<graphVars, clock, draft, walk>>

--------------------------------------------------------------------------------

Contents == [versions : SUBSET Versions, supersedes : SUBSET (Versions \X Versions)]

(* published_at and heads: what the publication has taken when it began. *)
Drafts == [stage : {"mapped", "proposed", "checked", "writing"}, content : Contents,
           base : Nat, published_at : Nat, heads : SUBSET Nat]

Walks == [from : Versions, current : Versions, visited : SUBSET Versions,
          history : Seq(Versions), done : BOOLEAN]

(* The Regulation nodes of a snapshot. *)
Regulations(content) == content.versions \cup {e[2] : e \in content.supersedes}

(* find_latest_regulation: a node of the newest snapshot that has one.  Neo4j   *)
(* orders by the time a snapshot bears, which its nodes share, and takes any;   *)
(* the test double takes the node inserted last.                                *)
LatestRegulations ==
    LET holding == {i \in DOMAIN snapshots : Regulations(snapshots[i]) # {}}
        newest  == {i \in holding : \A j \in holding : published_at[j] <= published_at[i]}
        last    == {i \in holding : \A j \in holding : j <= i}
    IN  IF holding = {} THEN {None}
        ELSE UNION {Regulations(snapshots[i]) : i \in newest \cup last}

(* find_regulation_supersedes_target: the target of an edge of the version in  *)
(* any snapshot; which one is not specified when there are several.            *)
SupersedesTargets(v) ==
    LET targets == {t \in Versions : \E i \in DOMAIN snapshots :
                        <<v, t>> \in snapshots[i].supersedes}
    IN  IF targets = {} THEN {None} ELSE targets

(* Mutant: the older version is said to supersede the newer one. *)
ProposedReversed(versions, latest) ==
    [versions |-> versions,
     supersedes |-> {<<latest, v>> : v \in {u \in versions : latest \notin {None, u}}}]

(* Mutant: that nothing has been published yet is not considered. *)
ProposedUnguarded(versions, latest) ==
    [versions |-> versions, supersedes |-> {<<v, latest>> : v \in versions \ {latest}}]

(* The regulations of a change set, for the versions of its obligations. *)
Proposed(versions, latest) ==
    [versions |-> versions,
     supersedes |-> {<<v, latest>> : v \in {u \in versions : latest \notin {None, u}}}]

--------------------------------------------------------------------------------

Init ==
    /\ snapshots = <<>>
    /\ published_at = <<>>
    /\ heads = {0}
    /\ clock = 0
    /\ draft = [p \in Proposers |-> None]
    /\ walk = [r \in Readers |-> None]

At(p, stage) == draft[p] # None /\ draft[p].stage = stage

(* The tool looks up the latest version, and the agent maps obligations of the *)
(* given versions.                                                             *)
LookUp(p, versions) ==
    /\ draft[p] = None
    /\ \E latest \in LatestRegulations :
        draft' = [draft EXCEPT ![p] =
                    [stage |-> "mapped", content |-> Proposed(versions, latest),
                     base |-> 0, published_at |-> 0, heads |-> {}]]
    /\ UNCHANGED <<graphVars, clock, walk>>

(* It proposes the change set on a head it reads. *)
Propose(p) ==
    /\ At(p, "mapped")
    /\ \E head \in heads :
        draft' = [draft EXCEPT ![p].stage = "proposed", ![p].base = head]
    /\ UNCHANGED <<graphVars, clock, walk>>

(* The base of the change set is still the head. *)
HeadCheck(p) ==
    /\ At(p, "proposed")
    /\ draft[p].base \in heads
    /\ draft' = [draft EXCEPT ![p].stage = "checked"]
    /\ UNCHANGED <<graphVars, clock, walk>>

(* The head has moved: the change set is refused, and mapped afresh. *)
Refuse(p) ==
    /\ At(p, "proposed")
    /\ \E head \in heads : head # draft[p].base
    /\ draft' = [draft EXCEPT ![p] = None]
    /\ UNCHANGED <<graphVars, clock, walk>>

(* The publication takes the time, and then opens its transaction. *)
Begin(p) ==
    /\ At(p, "checked")
    /\ clock < MaxSnapshots
    /\ clock' = clock + 1
    /\ draft' = [draft EXCEPT ![p].stage = "writing", ![p].published_at = clock + 1,
                              ![p].heads = heads]
    /\ UNCHANGED <<graphVars, walk>>

(* It commits, whatever the head is now.  A head pointer that appeared since it *)
(* began may or may not be among those it has found and deletes.                *)
Commit(p) ==
    /\ At(p, "writing")
    /\ snapshots' = Append(snapshots, draft[p].content)
    /\ published_at' = Append(published_at, draft[p].published_at)
    /\ \E kept \in SUBSET (heads \ draft[p].heads) : heads' = kept \cup {Len(snapshots')}
    /\ draft' = [draft EXCEPT ![p] = None]
    /\ UNCHANGED <<clock, walk>>

(* A reader asks for the history of the article in version v. *)
StartWalk(r, v) ==
    /\ walk[r] = None
    /\ walk' = [walk EXCEPT ![r] =
                    [from |-> v, current |-> v, visited |-> {v},
                     history |-> <<>>, done |-> FALSE]]
    /\ UNCHANGED <<graphVars, clock, draft>>

Walking(r) == walk[r] # None /\ ~walk[r].done

(* Mutant: any superseded version that has the article is followed. *)
FollowAgain(r) ==
    /\ Walking(r)
    /\ \E target \in SupersedesTargets(walk[r].current) :
        /\ target \in SameArticle
        /\ walk' = [walk EXCEPT ![r].current = target,
                                ![r].history = IF Len(@) < 2 * MaxSnapshots
                                               THEN Append(@, target) ELSE @]
    /\ UNCHANGED <<graphVars, clock, draft>>

(* The version superseded by the current one has not been visited, and its     *)
(* document has the article: it is listed, and the walk goes on from it.       *)
Follow(r) ==
    /\ Walking(r)
    /\ \E target \in SupersedesTargets(walk[r].current) \ walk[r].visited :
        /\ target \in SameArticle
        /\ walk' = [walk EXCEPT ![r].current = target,
                                ![r].visited = @ \cup {target},
                                ![r].history = Append(@, target)]
    /\ UNCHANGED <<graphVars, clock, draft>>

(* There is no such version, it has been visited, or it lacks the article: the *)
(* walk returns what it has.                                                   *)
Stop(r) ==
    /\ Walking(r)
    /\ \E target \in SupersedesTargets(walk[r].current) :
        target = None \/ target \in walk[r].visited \/ target \notin SameArticle
    /\ walk' = [walk EXCEPT ![r].done = TRUE]
    /\ UNCHANGED <<graphVars, clock, draft>>

Next ==
    \/ \E p \in Proposers, versions \in Mapped : LookUp(p, versions)
    \/ \E p \in Proposers : Propose(p)
    \/ \E p \in Proposers : HeadCheck(p)
    \/ \E p \in Proposers : Refuse(p)
    \/ \E p \in Proposers : Begin(p)
    \/ \E p \in Proposers : Commit(p)
    \/ \E r \in Readers, v \in SameArticle : StartWalk(r, v)
    \/ \E r \in Readers : Follow(r)
    \/ \E r \in Readers : Stop(r)

(* A walk is one synchronous loop: it goes on for as long as it has a step. *)
Spec == Init /\ [][Next]_vars /\ \A r \in Readers : WF_vars(Follow(r) \/ Stop(r))

--------------------------------------------------------------------------------

(* Every variable holds a value of its kind. *)
TypeOK ==
    /\ snapshots \in Seq(Contents)
    /\ published_at \in Seq(Nat) /\ Len(published_at) = Len(snapshots)
    /\ heads \subseteq Nat
    /\ clock \in Nat
    /\ draft \in [Proposers -> Drafts \cup {None}]
    /\ walk \in [Readers -> Walks \cup {None}]

(* Where every version was published by one change set only, supersession is   *)
(* acyclic: an edge leads to a version published before, however the tools     *)
(* overlap.  (A version published again, for another of its clauses, may       *)
(* supersede its own successor.)                                               *)
PublishedIn(v) == {i \in DOMAIN snapshots : v \in snapshots[i].versions}

OncePublishedIsAcyclic ==
    (\A v \in Versions : Cardinality(PublishedIn(v)) <= 1) =>
        \A i \in DOMAIN snapshots : \A e \in snapshots[i].supersedes :
            \A j \in PublishedIn(e[1]), k \in PublishedIn(e[2]) : k < j

(* A history lists a version once and never the one it starts from, each one   *)
(* superseded by the one before it, even where the edges form a cycle.         *)
HistoryIsAPath ==
    \A r \in Readers : walk[r] # None =>
        LET path == <<walk[r].from>> \o walk[r].history
        IN  /\ \A i, j \in DOMAIN path : i # j => path[i] # path[j]
            /\ \A i \in 1..(Len(path) - 1) : path[i+1] \in SupersedesTargets(path[i])

(* Every walk returns, cycles among the edges and snapshots published under it *)
(* included.                                                                   *)
EveryWalkEnds == \A r \in Readers : walk[r] # None ~> (walk[r] = None \/ walk[r].done)
================================================================================
