--------------------------- MODULE ChangesetContent ---------------------------
(***************************************************************************)
(* What a change set proposes and what becomes of it: the nodes and        *)
(* relationships the graph mapping agent derives from obligations, what a  *)
(* tool adds to complete a proof path, the six rules of the constraints    *)
(* engine, and the proof-path query of the two graph stores over the       *)
(* content that is published.                                              *)
(*                                                                         *)
(* The agent maps one obligation after the other into the same change set, *)
(* so an id that two of them use keeps the type it got first.  A node id   *)
(* is its prefix and its key.  Properties of nodes other than the type and *)
(* provenance tags are left out.  One instrument is modelled.              *)
(***************************************************************************)
EXTENDS Naturals, Sequences, FiniteSets, Bags

CONSTANTS
    Obligations,    \* approved obligations: what the agent reads of them
    Existing,       \* ids of the entities an actor's name is compared with, in order
    Similarity,     \* for each actor name, its likeness to each of them, in percent
    Additions,      \* nodes and relationships a tool can add
    Versions,       \* source versions of the instrument
    None,           \* Python's None
    MaxObligations  \* bound: obligations of a change set

VARIABLES
    latest,         \* the latest published version the agent is given, or None
    mapped,         \* the obligations mapped so far
    nodes,          \* proposed_nodes: the type of each node id
    relationships,  \* proposed_relationships, duplicates counted
    added,          \* what a tool has added
    report          \* the rules that fail, or None before validation

vars == <<latest, mapped, nodes, relationships, added, report>>

--------------------------------------------------------------------------------

NODE_TYPES == {"Regulation", "Provision", "Definition", "Obligation", "Actor", "Action",
               "Condition", "Exception", "Deadline", "Control", "Risk",
               "EvidenceRequirement", "Asset", "System", "API", "Dataset", "TestAsset",
               "Agent"}

(* The contract knows no other types of nodes (shared_contracts ProposedNode). *)
ASSUME AdditionsAssumption ==
    \A x \in Additions : "node" \in DOMAIN x => x.type \in NODE_TYPES

RELATIONSHIP_ALLOWED_PAIRS ==
    [DERIVED_FROM    |-> {<<"Obligation", "Provision">>},
     IMPOSES_ON      |-> {<<"Obligation", "Actor">>},
     REQUIRES        |-> {<<"Obligation", "Action">>},
     CONDITIONED_BY  |-> {<<"Obligation", "Condition">>},
     EXCEPTION_TO    |-> {<<"Obligation", "Exception">>},
     REFERENCES      |-> {<<"Provision", "Provision">>, <<"Provision", "Definition">>},
     DEFINES         |-> {"Definition"} \X (NODE_TYPES \ {"Agent"}),
     AMENDS          |-> {<<"Provision", "Provision">>},
     SUPERSEDES      |-> {<<"Regulation", "Regulation">>},
     APPLIES_TO      |-> {<<"Obligation", "Actor">>},
     MAPS_TO_CONTROL |-> {"Obligation", "Risk"} \X {"Control"},
     AFFECTS_ASSET   |-> {"Obligation", "Control"} \X {"Asset"},
     SATISFIED_BY    |-> {<<"Control", "EvidenceRequirement">>},
     EVIDENCED_BY    |-> {<<"EvidenceRequirement", "TestAsset">>}]


(* Mutant: only the type a relationship comes from is compared. *)
PairAllowedFrom(type, from, to) ==
    /\ type \in DOMAIN RELATIONSHIP_ALLOWED_PAIRS
    /\ \E pair \in RELATIONSHIP_ALLOWED_PAIRS[type] : pair[1] = from

PairAllowed(type, from, to) ==
    /\ type \in DOMAIN RELATIONSHIP_ALLOWED_PAIRS
    /\ <<from, to>> \in RELATIONSHIP_ALLOWED_PAIRS[type]

Relationship(from, type, to) == [from |-> from, type |-> type, to |-> to]

(* nodes[id] = ..., and nodes.setdefault(id, ...). *)
Put(f, ids, type) == [x \in DOMAIN f \cup ids |-> IF x \in ids THEN type ELSE f[x]]

SetDefault(f, ids, type) ==
    [x \in DOMAIN f \cup ids |-> IF x \in DOMAIN f THEN f[x] ELSE type]

(* resolve_entity: the first of the entities most like the name, if it is like *)
(* enough.  An exact match has likeness 100.                                   *)
ResolveEntity(name) ==
    LET ratio == Similarity[name]
        best  == {i \in DOMAIN Existing :
                    \A j \in DOMAIN Existing : ratio[j] < ratio[i] \/ (ratio[j] = ratio[i] /\ i <= j)}
    IN  IF \E i \in best : ratio[i] >= 60 THEN Existing[CHOOSE i \in best : TRUE] ELSE None

(* The id of an actor: the entity the matcher found, or one of its own. *)
ActorNodeId(name) ==
    IF ResolveEntity(name) = None THEN <<"actor", name>> ELSE ResolveEntity(name)

(* The versions an obligation introduces: its own and the one that supersedes, *)
(* unless an earlier obligation has introduced it.                             *)
FirstOfVersion(o) == \A i \in DOMAIN mapped : mapped[i].version # o.version

SupersededBy(o) == IF FirstOfVersion(o) THEN {latest} \ {None, o.version} ELSE {}

Ids(prefix, keys) == {<<prefix, k>> : k \in keys}

(* The nodes with those of an obligation, in the order the agent adds them. *)
NodesWith(o) ==
    LET regulations == Put(nodes, Ids("regulation", {o.version}), "Regulation")
        superseded  == SetDefault(regulations, Ids("regulation", SupersededBy(o)), "Regulation")
        provisions  == SetDefault(superseded, Ids("provision", {o.anchor}), "Provision")
        obligations == Put(provisions, Ids("obligation", {o.clause}), "Obligation")
        actors      == SetDefault(obligations, {ActorNodeId(n) : n \in o.actors}, "Actor")
        controls    == SetDefault(actors, Ids("control", o.controls), "Control")
    IN  SetDefault(controls, Ids("asset", o.assets), "Asset")


(* Mutant: an obligation derives from the regulation. *)
RelationshipsOfDeriveFromRegulation(o) ==
    LET self == <<"obligation", o.clause>>
    IN  {Relationship(self, "DERIVED_FROM", <<"regulation", o.version>>)}
            \cup {Relationship(self, "IMPOSES_ON", ActorNodeId(n)) : n \in o.actors}

(* The relationships an obligation adds. *)
RelationshipsOf(o) ==
    LET self == <<"obligation", o.clause>>
    IN  {Relationship(<<"regulation", o.version>>, "SUPERSEDES", <<"regulation", v>>) :
            v \in SupersededBy(o)}
        \cup {Relationship(self, "DERIVED_FROM", <<"provision", o.anchor>>)}
        \cup {Relationship(self, "IMPOSES_ON", ActorNodeId(n)) : n \in o.actors}
        \cup {Relationship(self, "MAPS_TO_CONTROL", <<"control", k>>) : k \in o.controls}
        \cup {Relationship(self, "AFFECTS_ASSET", <<"asset", a>>) : a \in o.assets}

--------------------------------------------------------------------------------
(* The rules, in the order of run_all_checks. *)

Proposed == BagToSet(relationships)

Known(id) == id \in DOMAIN nodes

OfType(type) == {n \in DOMAIN nodes : nodes[n] = type}

EdgesOf(id, type, to) == {r \in Proposed : r.from = id /\ r.type = type /\ r.to \in OfType(to)}

ObligationDerivedFromProvision ==
    \A o \in OfType("Obligation") :
        LET edges == EdgesOf(o, "DERIVED_FROM", "Provision")
        IN  \E r \in edges : edges = {r} /\ relationships[r] = 1

ObligationImposesOnActor ==
    \A o \in OfType("Obligation") : EdgesOf(o, "IMPOSES_ON", "Actor") # {}

MapsToControlEndpointRestriction ==
    \A r \in Proposed : r.type = "MAPS_TO_CONTROL" =>
        r.from \in OfType("Obligation") \cup OfType("Risk") /\ r.to \in OfType("Control")

EvidencedByEndpointRestriction ==
    \A r \in Proposed : r.type = "EVIDENCED_BY" =>
        r.to \in OfType("EvidenceRequirement") \cup OfType("TestAsset")


(* Mutant: only the node a relationship comes from is looked up. *)
NoDanglingFromReference == \A r \in Proposed : Known(r.from)

(* No caller passes ids of published nodes, so only proposed ones are known. *)
NoDanglingNodeReference == \A r \in Proposed : Known(r.from) /\ Known(r.to)

(* A dangling relationship is left to the rule above. *)
RelationshipTypePairAllowed ==
    \A r \in Proposed : Known(r.from) /\ Known(r.to) =>
        PairAllowed(r.type, nodes[r.from], nodes[r.to])

RuleNames == {"obligation_derived_from_provision", "obligation_imposes_on_actor",
              "maps_to_control_endpoint_restriction", "evidenced_by_endpoint_restriction",
              "no_dangling_node_reference", "relationship_type_pair_allowed"}

ASSUME NoneAssumption == \A rules \in SUBSET RuleNames : None # rules

RuleHolds ==
    [obligation_derived_from_provision    |-> ObligationDerivedFromProvision,
     obligation_imposes_on_actor          |-> ObligationImposesOnActor,
     maps_to_control_endpoint_restriction |-> MapsToControlEndpointRestriction,
     evidenced_by_endpoint_restriction    |-> EvidencedByEndpointRestriction,
     no_dangling_node_reference           |-> NoDanglingNodeReference,
     relationship_type_pair_allowed       |-> RelationshipTypePairAllowed]


(* Mutant: the report holds the statuses of the rules and not their names. *)
RunAllChecksStatuses == {IF RuleHolds[rule] THEN "pass" ELSE "fail" : rule \in RuleNames}

RunAllChecks == LET holds == RuleHolds IN {rule \in RuleNames : ~holds[rule]}

--------------------------------------------------------------------------------
(* The proof-path query of the two graph stores, over the published content. *)

EdgesFrom(id, type) == {r.to : r \in {q \in Proposed : q.from = id /\ q.type = type}}

(* One of the ids, or nothing where there is none. *)
Optional(ids) == IF ids = {} THEN {<<>>} ELSE {<<id>> : id \in ids}

EvidencePaths(control) ==
    UNION {{e \o t : t \in IF e = <<>> THEN {<<>>} ELSE Optional(EdgesFrom(e[1], "EVIDENCED_BY"))} :
           e \in Optional(EdgesFrom(control, "SATISFIED_BY"))}

(* The test double: it checks the types of the provision and the control only, *)
(* and leaves out of a path what it does not find.                             *)
PathsThrough(obligation, control) ==
    {<<x[1], obligation, control>> \o x[2] \o x[3] :
        x \in (EdgesFrom(obligation, "DERIVED_FROM") \cap OfType("Provision"))
              \X Optional(EdgesFrom(control, "AFFECTS_ASSET"))
              \X EvidencePaths(control)}

InMemoryProofPaths ==
    UNION {UNION {PathsThrough(o, k) :
                      k \in EdgesFrom(o, "MAPS_TO_CONTROL") \cap OfType("Control")} :
           o \in OfType("Obligation")}

(* The labels of the pattern, and the prefixes the view knows them by. *)
PATH_NODE_TYPES ==
    <<"Provision", "Obligation", "Control", "Asset", "EvidenceRequirement", "TestAsset">>

CANONICAL_NODE_TYPES ==
    <<"provision", "obligation", "control", "asset", "evidence", "testasset">>

(* Neo4j: a pattern in which every node has its label.  Relationships that     *)
(* dangle were never created.                                                  *)
Neo4jProofPaths ==
    {x \in OfType("Provision") \X OfType("Obligation") \X OfType("Control")
           \X OfType("Asset") \X OfType("EvidenceRequirement") \X OfType("TestAsset") :
        /\ x[1] \in EdgesFrom(x[2], "DERIVED_FROM")
        /\ x[3] \in EdgesFrom(x[2], "MAPS_TO_CONTROL")
        /\ x[4] \in EdgesFrom(x[3], "AFFECTS_ASSET")
        /\ x[5] \in EdgesFrom(x[3], "SATISFIED_BY")
        /\ x[6] \in EdgesFrom(x[5], "EVIDENCED_BY")}

(* The proof-path view draws a path whose ids have these prefixes in this      *)
(* order, and answers any other path with 404.                                 *)
Renderable(path) ==
    /\ Len(path) = Len(CANONICAL_NODE_TYPES)
    /\ \A i \in DOMAIN path : path[i][1] = CANONICAL_NODE_TYPES[i]

--------------------------------------------------------------------------------

Init ==
    /\ latest \in Versions \cup {None}
    /\ mapped = <<>>
    /\ nodes = <<>>
    /\ relationships = EmptyBag
    /\ added = {}
    /\ report = None

(* One round of the agent's loop. *)
MapObligation(o) ==
    /\ report = None
    /\ added = {}
    /\ Len(mapped) < MaxObligations
    /\ mapped' = Append(mapped, o)
    /\ nodes' = NodesWith(o)
    /\ relationships' = relationships (+) SetToBag(RelationshipsOf(o))
    /\ UNCHANGED <<latest, added, report>>

(* A tool adds to the change set before it stores it, as the demonstrations do *)
(* for the evidence the agent does not map.                                    *)
AddNode(x) ==
    /\ report = None
    /\ x \notin added
    /\ "node" \in DOMAIN x
    /\ added' = added \cup {x}
    /\ nodes' = Put(nodes, {x.node}, x.type)
    /\ UNCHANGED <<latest, mapped, relationships, report>>

AddRelationship(x) ==
    /\ report = None
    /\ x \notin added
    /\ "from" \in DOMAIN x
    /\ added' = added \cup {x}
    /\ relationships' = relationships (+) SetToBag({x})
    /\ UNCHANGED <<latest, mapped, nodes, report>>

(* The change set is validated: content that fails no rule may be published. *)
Validate ==
    /\ report = None
    /\ report' = RunAllChecks
    /\ UNCHANGED <<latest, mapped, nodes, relationships, added>>

Next ==
    \/ \E o \in Obligations : MapObligation(o)
    \/ \E x \in Additions : AddNode(x)
    \/ \E x \in Additions : AddRelationship(x)
    \/ Validate

Spec == Init /\ [][Next]_vars

--------------------------------------------------------------------------------

(* Every variable holds a value of its kind: in particular only node types of  *)
(* the ontology are ever proposed.                                             *)
TypeOK ==
    /\ latest \in Versions \cup {None}
    /\ mapped \in Seq(Obligations)
    /\ \A id \in DOMAIN nodes : nodes[id] \in NODE_TYPES
    /\ IsABag(relationships)
    /\ added \subseteq Additions
    /\ report \in (SUBSET RuleNames) \cup {None}

(* What the agent alone has mapped, from obligations of different clauses and  *)
(* with entities that are actors, can fail one rule only, and does exactly     *)
(* when an obligation names no actor (section 4.3: the engine and the agent    *)
(* agree on the ontology).                                                     *)
MappingFailsOnActorsOnly ==
    (/\ report # None
     /\ added = {}
     /\ \A i, j \in DOMAIN mapped : mapped[i].clause = mapped[j].clause => i = j
     /\ \A i \in DOMAIN mapped : \A n \in mapped[i].actors : ActorNodeId(n)[1] = "actor")
    => /\ report \subseteq {"obligation_imposes_on_actor"}
       /\ report = {} <=> \A i \in DOMAIN mapped : mapped[i].actors # {}

(* Content that passes is closed and typed: both ends of every relationship    *)
(* are proposed nodes of an allowed pair of types.  The rule on types skips    *)
(* what the rule on dangling references reports, and nothing falls between.    *)
PassingIsClosedAndTyped ==
    report = {} => \A r \in Proposed :
        /\ {r.from, r.to} \subseteq DOMAIN nodes
        /\ PairAllowed(r.type, nodes[r.from], nodes[r.to])

(* A node that could be on a path has the prefix the view expects of its type. *)
Named(id, type) ==
    \A i \in DOMAIN PATH_NODE_TYPES : PATH_NODE_TYPES[i] = type => id[1] = CANONICAL_NODE_TYPES[i]

(* On content that passes, the two stores have the same paths drawn: the rules *)
(* make up for the weaker checks of the test double.  And no row of the        *)
(* production query is refused by the view: the agent names its nodes as the   *)
(* view expects, so that only a tool's node can have another name.  (The       *)
(* incomplete paths of the test double have no counterpart.)                   *)
DrawnPathsAgree ==
    report = {} =>
        /\ {p \in InMemoryProofPaths : Renderable(p)} = {p \in Neo4jProofPaths : Renderable(p)}
        /\ (\A x \in added : "node" \in DOMAIN x => Named(x.node, x.type))
                => \A p \in Neo4jProofPaths : Renderable(p)
================================================================================
