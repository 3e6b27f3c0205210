------------------------- MODULE ChangesetContentProofs -------------------------
(***************************************************************************)
(* Proofs about ChangesetContent, for every set of obligations, of         *)
(* entities and their likeness to names, of additions and of versions, and *)
(* for change sets of any size.                                            *)
(***************************************************************************)
EXTENDS ChangesetContent, SequenceTheorems, TLAPS

USE NoneAssumption, AdditionsAssumption

--------------------------------------------------------------------------------
(* What the operators return. *)

(* One copy more of each relationship that is added. *)
LEMMA AddedFacts ==
    ASSUME NEW bag, IsABag(bag), NEW S
    PROVE  /\ IsABag(bag (+) SetToBag(S))
           /\ DOMAIN (bag (+) SetToBag(S)) = DOMAIN bag \cup S
           /\ \A e \in DOMAIN bag \ S : (bag (+) SetToBag(S))[e] = bag[e]
<1> DEFINE sum == bag (+) SetToBag(S)
<1>1. sum = [e \in DOMAIN bag \cup S |->
                (IF e \in DOMAIN bag THEN bag[e] ELSE 0) + (IF e \in S THEN 1 ELSE 0)]
  BY DEF (+), SetToBag
<1>2. \A e \in DOMAIN bag : bag[e] \in Nat /\ bag[e] > 0
  BY DEF IsABag
<1> HIDE DEF sum
<1>3. DOMAIN sum = DOMAIN bag \cup S
  BY <1>1
<1>4. \A e \in DOMAIN sum : sum[e] \in Nat /\ sum[e] > 0
  BY <1>1, <1>2
<1>5. sum \in [DOMAIN sum -> {n \in Nat : n > 0}]
  BY <1>1, <1>3, <1>4
<1>6. \A e \in DOMAIN bag \ S : sum[e] = bag[e]
  BY <1>1, <1>2
<1> QED
  BY <1>3, <1>5, <1>6 DEF IsABag, sum

--------------------------------------------------------------------------------
(* Type correctness. *)

TypedNodes(f) == \A id \in DOMAIN f : f[id] \in NODE_TYPES

LEMMA TypedPut ==
    ASSUME NEW f, TypedNodes(f), NEW ids, NEW type \in NODE_TYPES
    PROVE  TypedNodes(Put(f, ids, type)) /\ TypedNodes(SetDefault(f, ids, type))
<1>1. TypedNodes(Put(f, ids, type))
  BY DEF Put, TypedNodes
<1>2. TypedNodes(SetDefault(f, ids, type))
  BY DEF SetDefault, TypedNodes
<1> QED
  BY <1>1, <1>2

(* The types the agent gives to nodes, by the prefix of their ids. *)
TypeOfPrefix ==
    [regulation |-> "Regulation", provision |-> "Provision", obligation |-> "Obligation",
     actor |-> "Actor", control |-> "Control", asset |-> "Asset"]

Prefixes == DOMAIN TypeOfPrefix

LEMMA PrefixTypes ==
    /\ TypeOfPrefix["regulation"] = "Regulation" /\ TypeOfPrefix["provision"] = "Provision"
    /\ TypeOfPrefix["obligation"] = "Obligation" /\ TypeOfPrefix["actor"] = "Actor"
    /\ TypeOfPrefix["control"] = "Control" /\ TypeOfPrefix["asset"] = "Asset"
    /\ Prefixes = {"regulation", "provision", "obligation", "actor", "control", "asset"}
    /\ \A p \in Prefixes : TypeOfPrefix[p] \in NODE_TYPES
BY DEF TypeOfPrefix, Prefixes, NODE_TYPES

(* The nodes after an obligation is mapped, one kind after the other. *)
LEMMA NodesWithFacts ==
    ASSUME NEW o
    PROVE  \E f1, f2, f3, f4, f5, f6 :
            /\ f1 = Put(nodes, Ids("regulation", {o.version}), "Regulation")
            /\ f2 = SetDefault(f1, Ids("regulation", SupersededBy(o)), "Regulation")
            /\ f3 = SetDefault(f2, Ids("provision", {o.anchor}), "Provision")
            /\ f4 = Put(f3, Ids("obligation", {o.clause}), "Obligation")
            /\ f5 = SetDefault(f4, {ActorNodeId(n) : n \in o.actors}, "Actor")
            /\ f6 = SetDefault(f5, Ids("control", o.controls), "Control")
            /\ NodesWith(o) = SetDefault(f6, Ids("asset", o.assets), "Asset")
BY Zenon DEF NodesWith

LEMMA NodesWithTyped ==
    ASSUME NEW o, TypedNodes(nodes)
    PROVE  TypedNodes(NodesWith(o))
<1>1. PICK f1, f2, f3, f4, f5, f6 :
            /\ f1 = Put(nodes, Ids("regulation", {o.version}), "Regulation")
            /\ f2 = SetDefault(f1, Ids("regulation", SupersededBy(o)), "Regulation")
            /\ f3 = SetDefault(f2, Ids("provision", {o.anchor}), "Provision")
            /\ f4 = Put(f3, Ids("obligation", {o.clause}), "Obligation")
            /\ f5 = SetDefault(f4, {ActorNodeId(n) : n \in o.actors}, "Actor")
            /\ f6 = SetDefault(f5, Ids("control", o.controls), "Control")
            /\ NodesWith(o) = SetDefault(f6, Ids("asset", o.assets), "Asset")
  BY NodesWithFacts, Zenon
<1>2. {"Regulation", "Provision", "Obligation", "Actor", "Control", "Asset"} \subseteq NODE_TYPES
  BY DEF NODE_TYPES
<1>3. TypedNodes(f1)
  BY <1>1, <1>2, TypedPut
<1>4. TypedNodes(f2)
  BY <1>1, <1>2, <1>3, TypedPut
<1>5. TypedNodes(f3)
  BY <1>1, <1>2, <1>4, TypedPut
<1>6. TypedNodes(f4)
  BY <1>1, <1>2, <1>5, TypedPut
<1>7. TypedNodes(f5)
  BY <1>1, <1>2, <1>6, TypedPut
<1>8. TypedNodes(f6)
  BY <1>1, <1>2, <1>7, TypedPut
<1> QED
  BY <1>1, <1>2, <1>8, TypedPut

LEMMA TypeInit == Init => TypeOK
<1> SUFFICES ASSUME Init
             PROVE  TypeOK
  OBVIOUS
<1>1. IsABag(relationships)
  BY DEF Init, IsABag, EmptyBag, SetToBag
<1>2. DOMAIN nodes = {} /\ mapped \in Seq(Obligations)
  BY DEF Init
<1>3. latest \in Versions \cup {None} /\ added \subseteq Additions
      /\ report \in (SUBSET RuleNames) \cup {None}
  BY DEF Init
<1> QED
  BY <1>1, <1>2, <1>3 DEF TypeOK

LEMMA TypeNext == TypeOK /\ [Next]_vars => TypeOK'
<1> SUFFICES ASSUME TypeOK, [Next]_vars
             PROVE  TypeOK'
  OBVIOUS
<1>0. TypedNodes(nodes)
  BY DEF TypeOK, TypedNodes
<1>1. ASSUME NEW o \in Obligations, MapObligation(o)
      PROVE  TypeOK'
  <2>1. mapped' \in Seq(Obligations)
    BY <1>1 DEF TypeOK, MapObligation
  <2>2. TypedNodes(nodes')
    BY <1>0, <1>1, NodesWithTyped DEF MapObligation
  <2>3. IsABag(relationships')
    BY <1>1, AddedFacts DEF TypeOK, MapObligation
  <2> QED
    BY <1>1, <2>1, <2>2, <2>3 DEF TypeOK, MapObligation, TypedNodes
<1>2. ASSUME NEW x \in Additions, AddNode(x)
      PROVE  TypeOK'
  <2>1. TypedNodes(nodes')
    BY <1>0, <1>2, TypedPut DEF AddNode
  <2> QED
    BY <1>2, <2>1 DEF TypeOK, AddNode, TypedNodes
<1>3. ASSUME NEW x \in Additions, AddRelationship(x)
      PROVE  TypeOK'
  <2>1. IsABag(relationships')
    BY <1>3, AddedFacts DEF TypeOK, AddRelationship
  <2> QED
    BY <1>3, <2>1 DEF TypeOK, AddRelationship
<1>4. ASSUME Validate
      PROVE  TypeOK'
  <2>1. report' \subseteq RuleNames
    BY <1>4 DEF Validate, RunAllChecks
  <2> QED
    BY <1>4, <2>1 DEF TypeOK, Validate
<1>5. ASSUME UNCHANGED vars
      PROVE  TypeOK'
  BY <1>5 DEF TypeOK, vars
<1> QED
  BY <1>1, <1>2, <1>3, <1>4, <1>5 DEF Next

(* Every variable always holds a value of its kind: only node types of the     *)
(* ontology are ever proposed.                                                 *)
THEOREM TypeCorrect == Spec => []TypeOK
BY TypeInit, TypeNext, PTL DEF Spec
--------------------------------------------------------------------------------
(* The report, once there is one, is about the content as it is. *)

ReportIsCurrent == report # None => report = RunAllChecks

ReportIInv == TypeOK /\ ReportIsCurrent

LEMMA ReportNext == ReportIInv /\ [Next]_vars => ReportIInv'
<1> SUFFICES ASSUME ReportIInv, [Next]_vars
             PROVE  ReportIInv'
  OBVIOUS
<1>1. TypeOK'
  BY TypeNext DEF ReportIInv
<1>2. ASSUME report' = None
      PROVE  ReportIsCurrent'
  BY <1>2 DEF ReportIsCurrent
<1>3. ASSUME UNCHANGED <<nodes, relationships>>
      PROVE  RunAllChecks' = RunAllChecks
  BY <1>3 DEF RunAllChecks, RuleHolds, ObligationDerivedFromProvision,
       ObligationImposesOnActor, MapsToControlEndpointRestriction,
       EvidencedByEndpointRestriction, NoDanglingNodeReference,
       RelationshipTypePairAllowed, EdgesOf, OfType, Known, Proposed, BagToSet
<1>4. ASSUME Validate
      PROVE  ReportIsCurrent'
  BY <1>3, <1>4 DEF Validate, ReportIsCurrent
<1>5. ASSUME UNCHANGED vars
      PROVE  ReportIsCurrent'
  BY <1>3, <1>5 DEF vars, ReportIInv, ReportIsCurrent
<1>6. ASSUME \/ \E o \in Obligations : MapObligation(o)
             \/ \E x \in Additions : AddNode(x) \/ AddRelationship(x)
      PROVE  report' = None
  BY <1>6 DEF MapObligation, AddNode, AddRelationship
<1> QED
  BY <1>1, <1>2, <1>4, <1>5, <1>6 DEF Next, ReportIInv

(* The names in a report are those of the rules that do not hold. *)
LEMMA ReportNames ==
    /\ RunAllChecks \subseteq RuleNames
    /\ "obligation_derived_from_provision" \in RunAllChecks
            <=> ~ObligationDerivedFromProvision
    /\ "obligation_imposes_on_actor" \in RunAllChecks <=> ~ObligationImposesOnActor
    /\ "maps_to_control_endpoint_restriction" \in RunAllChecks
            <=> ~MapsToControlEndpointRestriction
    /\ "evidenced_by_endpoint_restriction" \in RunAllChecks
            <=> ~EvidencedByEndpointRestriction
    /\ "no_dangling_node_reference" \in RunAllChecks <=> ~NoDanglingNodeReference
    /\ "relationship_type_pair_allowed" \in RunAllChecks <=> ~RelationshipTypePairAllowed
<1> DEFINE holds == RuleHolds
<1>1. /\ holds["obligation_derived_from_provision"] <=> ObligationDerivedFromProvision
      /\ holds["obligation_imposes_on_actor"] <=> ObligationImposesOnActor
      /\ holds["maps_to_control_endpoint_restriction"] <=> MapsToControlEndpointRestriction
      /\ holds["evidenced_by_endpoint_restriction"] <=> EvidencedByEndpointRestriction
      /\ holds["no_dangling_node_reference"] <=> NoDanglingNodeReference
      /\ holds["relationship_type_pair_allowed"] <=> RelationshipTypePairAllowed
  BY DEF RuleHolds
<1>2. RunAllChecks = {rule \in RuleNames : ~holds[rule]}
  BY DEF RunAllChecks
<1> HIDE DEF holds
<1> QED
  BY <1>1, <1>2 DEF RuleNames

(* In content that passes both ends of every relationship are proposed nodes   *)
(* of an allowed pair of types (constraints/engine.py run_all_checks).         *)
THEOREM PassingIsClosedAndTypedAlways == Spec => []PassingIsClosedAndTyped
<1>1. ReportIInv => PassingIsClosedAndTyped
  <2> SUFFICES ASSUME ReportIInv, report = {}
               PROVE  \A r \in Proposed :
                        /\ {r.from, r.to} \subseteq DOMAIN nodes
                        /\ PairAllowed(r.type, nodes[r.from], nodes[r.to])
    BY DEF PassingIsClosedAndTyped
  <2>1. report # None
    OBVIOUS
  <2>2. RunAllChecks = {}
    BY <2>1 DEF ReportIInv, ReportIsCurrent
  <2>3. NoDanglingNodeReference /\ RelationshipTypePairAllowed
    BY <2>2, ReportNames
  <2> QED
    BY <2>3 DEF NoDanglingNodeReference, RelationshipTypePairAllowed, Known
<1>2. Init => ReportIInv
  BY TypeInit DEF Init, ReportIInv, ReportIsCurrent
<1> QED
  BY <1>1, <1>2, ReportNext, PTL DEF Spec
--------------------------------------------------------------------------------
(* What the agent alone maps. *)

Self(i) == <<"obligation", mapped[i].clause>>

Derivation(i) == Relationship(Self(i), "DERIVED_FROM", <<"provision", mapped[i].anchor>>)

Imposition(i, n) == Relationship(Self(i), "IMPOSES_ON", ActorNodeId(n))

DistinctClauses ==
    \A i, j \in DOMAIN mapped : mapped[i].clause = mapped[j].clause => i = j

ActorsMatched == \A i \in DOMAIN mapped : \A n \in mapped[i].actors : ActorNodeId(n)[1] = "actor"

(* The type of a node is the one its prefix says. *)
Sorted(f) == \A id \in DOMAIN f : id[1] \in Prefixes /\ f[id] = TypeOfPrefix[id[1]]

(* Every obligation has its node and the relationships the rules ask for, the  *)
(* one it derives from once only; a node of an obligation is of one mapped.    *)
ObligationsMapped ==
    /\ \A i \in DOMAIN mapped :
        /\ Self(i) \in DOMAIN nodes
        /\ Derivation(i) \in DOMAIN relationships /\ relationships[Derivation(i)] = 1
        /\ \A n \in mapped[i].actors : Imposition(i, n) \in DOMAIN relationships
    /\ \A id \in DOMAIN nodes : id[1] = "obligation" => \E i \in DOMAIN mapped : id = Self(i)

(* A relationship is one of those the agent makes. *)
Shape(r) ==
    \/ r.type = "SUPERSEDES" /\ r.from[1] = "regulation" /\ r.to[1] = "regulation"
    \/ r.type = "DERIVED_FROM" /\ r.from[1] = "obligation" /\ r.to[1] = "provision"
    \/ r.type = "IMPOSES_ON" /\ r.from[1] = "obligation" /\ r.to[1] = "actor"
    \/ r.type = "MAPS_TO_CONTROL" /\ r.from[1] = "obligation" /\ r.to[1] = "control"
    \/ r.type = "AFFECTS_ASSET" /\ r.from[1] = "obligation" /\ r.to[1] = "asset"

RelationshipsMapped ==
    \A r \in DOMAIN relationships :
        /\ r.from \in DOMAIN nodes /\ r.to \in DOMAIN nodes /\ Shape(r)
        /\ r.type = "DERIVED_FROM" => \E i \in DOMAIN mapped : r = Derivation(i)
        /\ r.type = "IMPOSES_ON" =>
            \E i \in DOMAIN mapped : \E n \in mapped[i].actors : r = Imposition(i, n)

MappedOK == Sorted(nodes) /\ ObligationsMapped /\ RelationshipsMapped

MappingIInv ==
    /\ ReportIInv
    /\ added = {} /\ DistinctClauses /\ ActorsMatched => MappedOK

LEMMA SortedPut ==
    ASSUME NEW f, Sorted(f), NEW ids, NEW p \in Prefixes, \A x \in ids : x[1] = p
    PROVE  Sorted(Put(f, ids, TypeOfPrefix[p])) /\ Sorted(SetDefault(f, ids, TypeOfPrefix[p]))
<1>1. Sorted(Put(f, ids, TypeOfPrefix[p]))
  BY DEF Put, Sorted
<1>2. Sorted(SetDefault(f, ids, TypeOfPrefix[p]))
  BY DEF SetDefault, Sorted
<1> QED
  BY <1>1, <1>2

LEMMA IdsPrefix ==
    ASSUME NEW p, NEW keys
    PROVE  \A x \in Ids(p, keys) : x[1] = p
BY DEF Ids

(* The nodes after an obligation is mapped are sorted, if its actors are, and  *)
(* are those of before, its own, and what it names.                            *)
LEMMA NodesWithSorted ==
    ASSUME NEW o, Sorted(nodes), \A n \in o.actors : ActorNodeId(n)[1] = "actor"
    PROVE  /\ Sorted(NodesWith(o))
           /\ DOMAIN nodes \subseteq DOMAIN NodesWith(o)
           /\ <<"regulation", o.version>> \in DOMAIN NodesWith(o)
           /\ \A v \in SupersededBy(o) : <<"regulation", v>> \in DOMAIN NodesWith(o)
           /\ <<"provision", o.anchor>> \in DOMAIN NodesWith(o)
           /\ <<"obligation", o.clause>> \in DOMAIN NodesWith(o)
           /\ \A n \in o.actors : ActorNodeId(n) \in DOMAIN NodesWith(o)
           /\ \A k \in o.controls : <<"control", k>> \in DOMAIN NodesWith(o)
           /\ \A a \in o.assets : <<"asset", a>> \in DOMAIN NodesWith(o)
           /\ \A id \in DOMAIN NodesWith(o) : id[1] = "obligation" =>
                id \in DOMAIN nodes \/ id = <<"obligation", o.clause>>
<1>1. PICK f1, f2, f3, f4, f5, f6 :
            /\ f1 = Put(nodes, Ids("regulation", {o.version}), "Regulation")
            /\ f2 = SetDefault(f1, Ids("regulation", SupersededBy(o)), "Regulation")
            /\ f3 = SetDefault(f2, Ids("provision", {o.anchor}), "Provision")
            /\ f4 = Put(f3, Ids("obligation", {o.clause}), "Obligation")
            /\ f5 = SetDefault(f4, {ActorNodeId(n) : n \in o.actors}, "Actor")
            /\ f6 = SetDefault(f5, Ids("control", o.controls), "Control")
            /\ NodesWith(o) = SetDefault(f6, Ids("asset", o.assets), "Asset")
  BY NodesWithFacts, Zenon
<1> DEFINE actors == {ActorNodeId(n) : n \in o.actors}
<1>2. \A x \in actors : x[1] = "actor"
  OBVIOUS
<1>3. Sorted(f1)
  BY <1>1, PrefixTypes, IdsPrefix, SortedPut
<1>4. Sorted(f2)
  BY <1>1, <1>3, PrefixTypes, IdsPrefix, SortedPut
<1>5. Sorted(f3)
  BY <1>1, <1>4, PrefixTypes, IdsPrefix, SortedPut
<1>6. Sorted(f4)
  BY <1>1, <1>5, PrefixTypes, IdsPrefix, SortedPut
<1>7. Sorted(f5)
  BY <1>1, <1>2, <1>6, PrefixTypes, SortedPut
<1>8. Sorted(f6)
  BY <1>1, <1>7, PrefixTypes, IdsPrefix, SortedPut
<1>9. Sorted(NodesWith(o))
  BY <1>1, <1>8, PrefixTypes, IdsPrefix, SortedPut
<1>10. DOMAIN NodesWith(o) =
            DOMAIN nodes \cup Ids("regulation", {o.version})
                \cup Ids("regulation", SupersededBy(o)) \cup Ids("provision", {o.anchor})
                \cup Ids("obligation", {o.clause}) \cup actors
                \cup Ids("control", o.controls) \cup Ids("asset", o.assets)
  <2>1. DOMAIN f1 = DOMAIN nodes \cup Ids("regulation", {o.version})
    BY <1>1 DEF Put
  <2>2. DOMAIN f2 = DOMAIN f1 \cup Ids("regulation", SupersededBy(o))
    BY <1>1 DEF SetDefault
  <2>3. DOMAIN f3 = DOMAIN f2 \cup Ids("provision", {o.anchor})
    BY <1>1 DEF SetDefault
  <2>4. DOMAIN f4 = DOMAIN f3 \cup Ids("obligation", {o.clause})
    BY <1>1 DEF Put
  <2>5. DOMAIN f5 = DOMAIN f4 \cup actors
    BY <1>1 DEF SetDefault
  <2>6. DOMAIN f6 = DOMAIN f5 \cup Ids("control", o.controls)
    BY <1>1 DEF SetDefault
  <2>7. DOMAIN NodesWith(o) = DOMAIN f6 \cup Ids("asset", o.assets)
    BY <1>1 DEF SetDefault
  <2> HIDE DEF actors
  <2> QED
    BY <2>1, <2>2, <2>3, <2>4, <2>5, <2>6, <2>7, Zenon
<1>11. ASSUME NEW id \in DOMAIN NodesWith(o), id[1] = "obligation"
       PROVE  id \in DOMAIN nodes \/ id = <<"obligation", o.clause>>
  <2>1. id \in DOMAIN nodes \cup Ids("obligation", {o.clause})
    BY <1>2, <1>10, <1>11, IdsPrefix
  <2> QED
    BY <2>1 DEF Ids
<1>12. /\ Ids("regulation", {o.version}) \subseteq DOMAIN NodesWith(o)
       /\ Ids("regulation", SupersededBy(o)) \subseteq DOMAIN NodesWith(o)
       /\ Ids("provision", {o.anchor}) \subseteq DOMAIN NodesWith(o)
       /\ Ids("obligation", {o.clause}) \subseteq DOMAIN NodesWith(o)
       /\ actors \subseteq DOMAIN NodesWith(o)
       /\ Ids("control", o.controls) \subseteq DOMAIN NodesWith(o)
       /\ Ids("asset", o.assets) \subseteq DOMAIN NodesWith(o)
       /\ DOMAIN nodes \subseteq DOMAIN NodesWith(o)
  BY <1>10
<1> QED
  BY <1>9, <1>11, <1>12 DEF Ids

(* What is mapped next keeps to the shape, and adds its own derivation and     *)
(* impositions only.                                                           *)
LEMMA RelationshipsOfFacts ==
    ASSUME NEW o, \A n \in o.actors : ActorNodeId(n)[1] = "actor",
           NEW r \in RelationshipsOf(o)
    PROVE  /\ Shape(r)
           /\ r.from \in {<<"regulation", o.version>>, <<"obligation", o.clause>>}
           /\ \/ \E v \in SupersededBy(o) : r.to = <<"regulation", v>>
              \/ r.to = <<"provision", o.anchor>>
              \/ \E n \in o.actors : r.to = ActorNodeId(n)
              \/ \E k \in o.controls : r.to = <<"control", k>>
              \/ \E a \in o.assets : r.to = <<"asset", a>>
           /\ r.type = "DERIVED_FROM" =>
                r = Relationship(<<"obligation", o.clause>>, "DERIVED_FROM", <<"provision", o.anchor>>)
           /\ r.type = "IMPOSES_ON" =>
                \E n \in o.actors :
                    r = Relationship(<<"obligation", o.clause>>, "IMPOSES_ON", ActorNodeId(n))
BY DEF RelationshipsOf, Relationship, Shape
(* One more obligation, of a clause of its own and with actors that are actors. *)
LEMMA MapStep ==
    ASSUME TypeOK, MappedOK, NEW o \in Obligations, MapObligation(o),
           \A n \in o.actors : ActorNodeId(n)[1] = "actor",
           \A i \in DOMAIN mapped : mapped[i].clause # o.clause
    PROVE  MappedOK'
<1> DEFINE new == RelationshipsOf(o)
           derivation == Relationship(<<"obligation", o.clause>>, "DERIVED_FROM", <<"provision", o.anchor>>)
<1>1. /\ mapped' = Append(mapped, o) /\ nodes' = NodesWith(o)
      /\ relationships' = relationships (+) SetToBag(new)
  BY DEF MapObligation
<1> HIDE DEF new
<1>0. \E n \in Nat : n = Len(mapped)
  BY DEF TypeOK
<1> PICK m \in Nat : m = Len(mapped)
  BY <1>0
<1>2. /\ DOMAIN mapped = 1..m /\ DOMAIN mapped' = 1..(m + 1)
      /\ mapped'[m + 1] = o /\ \A i \in 1..m : mapped'[i] = mapped[i]
  BY <1>1 DEF TypeOK
<1>3. /\ DOMAIN relationships' = DOMAIN relationships \cup new
      /\ \A r \in DOMAIN relationships \ new : relationships'[r] = relationships[r]
      /\ \A r \in new \ DOMAIN relationships : relationships'[r] = 1
  <2>1. IsABag(relationships)
    BY DEF TypeOK
  <2>2. relationships' = relationships (+) SetToBag(new)
    BY <1>1
  <2> DEFINE sum == relationships (+) SetToBag(new)
  <2>3. /\ DOMAIN sum = DOMAIN relationships \cup new
        /\ \A r \in DOMAIN relationships \ new : sum[r] = relationships[r]
        /\ \A r \in new \ DOMAIN relationships : sum[r] = 1
    <3>1. DOMAIN sum = DOMAIN relationships \cup new
      BY <2>1, AddedFacts
    <3>2. \A r \in DOMAIN relationships \ new : sum[r] = relationships[r]
      BY <2>1, AddedFacts
    <3>3. \A r \in new \ DOMAIN relationships : sum[r] = 1
      BY <2>1 DEF (+), SetToBag, IsABag
    <3> QED
      BY <3>1, <3>2, <3>3
  <2> HIDE DEF sum
  <2>4. relationships' = sum
    BY <2>2 DEF sum
  <2> QED
    BY <2>3, <2>4
<1>4. /\ Sorted(nodes) /\ ObligationsMapped /\ RelationshipsMapped
  BY DEF MappedOK
<1>5. \A i \in 1..m : /\ Self(i)' = Self(i) /\ Derivation(i)' = Derivation(i)
                      /\ \A n : Imposition(i, n)' = Imposition(i, n)
  BY <1>2 DEF Self, Derivation, Imposition
<1>6. /\ Self(m + 1)' = <<"obligation", o.clause>> /\ Derivation(m + 1)' = derivation
      /\ \A n : Imposition(m + 1, n)'
                    = Relationship(<<"obligation", o.clause>>, "IMPOSES_ON", ActorNodeId(n))
  BY <1>2 DEF Self, Derivation, Imposition
<1>7. Sorted(nodes')
  BY <1>1, <1>4, NodesWithSorted
<1>8. derivation \in new
  BY DEF new, RelationshipsOf
<1>9. \A n \in o.actors :
        Relationship(<<"obligation", o.clause>>, "IMPOSES_ON", ActorNodeId(n)) \in new
  BY DEF new, RelationshipsOf
<1>10. derivation.type = "DERIVED_FROM" /\ derivation.from = <<"obligation", o.clause>>
       /\ \A i \in 1..m : Derivation(i).type = "DERIVED_FROM" /\ Derivation(i).from = Self(i)
  BY DEF Relationship, Derivation
<1>11. \A i \in 1..m : Self(i) # <<"obligation", o.clause>>
  BY <1>2 DEF Self
<1> HIDE DEF derivation
<1>12. derivation \notin DOMAIN relationships
  <2> SUFFICES ASSUME derivation \in DOMAIN relationships
               PROVE  FALSE
    OBVIOUS
  <2>1. PICK i \in 1..m : derivation = Derivation(i)
    BY <1>2, <1>4, <1>10 DEF RelationshipsMapped
  <2> QED
    BY <1>10, <1>11, <2>1
<1>13. \A r \in new : r.type = "DERIVED_FROM" => r = derivation
  BY RelationshipsOfFacts DEF new, derivation
<1>14. \A i \in 1..m : Derivation(i) \notin new
  BY <1>10, <1>11, <1>13
<1>15. ObligationsMapped'
  <2>1. ASSUME NEW i \in 1..m
        PROVE  /\ Self(i)' \in DOMAIN nodes'
               /\ Derivation(i)' \in DOMAIN relationships' /\ relationships'[Derivation(i)'] = 1
               /\ \A n \in mapped'[i].actors : Imposition(i, n)' \in DOMAIN relationships'
    <3>1. /\ Self(i) \in DOMAIN nodes
          /\ Derivation(i) \in DOMAIN relationships /\ relationships[Derivation(i)] = 1
          /\ \A n \in mapped[i].actors : Imposition(i, n) \in DOMAIN relationships
      BY <1>2, <1>4 DEF ObligationsMapped
    <3>2. Self(i) \in DOMAIN nodes'
      BY <1>1, <1>4, <3>1, NodesWithSorted
    <3> QED
      BY <1>2, <1>3, <1>5, <1>14, <3>1, <3>2
  <2>2. /\ Self(m + 1)' \in DOMAIN nodes'
        /\ Derivation(m + 1)' \in DOMAIN relationships' /\ relationships'[Derivation(m + 1)'] = 1
        /\ \A n \in mapped'[m + 1].actors : Imposition(m + 1, n)' \in DOMAIN relationships'
    <3>1. <<"obligation", o.clause>> \in DOMAIN nodes'
      BY <1>1, <1>4, NodesWithSorted
    <3> QED
      BY <1>2, <1>3, <1>6, <1>8, <1>9, <1>12, <3>1
  <2>3. ASSUME NEW id \in DOMAIN nodes', id[1] = "obligation"
        PROVE  \E i \in DOMAIN mapped' : id = Self(i)'
    <3>1. id \in DOMAIN nodes \/ id = <<"obligation", o.clause>>
      BY <1>1, <1>4, <2>3, NodesWithSorted
    <3>2. CASE id \in DOMAIN nodes
      BY <1>2, <1>4, <1>5, <2>3, <3>2 DEF ObligationsMapped
    <3>3. CASE id = <<"obligation", o.clause>>
      BY <1>2, <1>6, <3>3
    <3> QED
      BY <3>1, <3>2, <3>3
  <2>4. \A i \in DOMAIN mapped' : i \in 1..m \/ i = m + 1
    BY <1>2
  <2> QED
    BY <2>1, <2>2, <2>3, <2>4 DEF ObligationsMapped
<1>16. RelationshipsMapped'
  <2> SUFFICES ASSUME NEW r \in DOMAIN relationships'
               PROVE  /\ r.from \in DOMAIN nodes' /\ r.to \in DOMAIN nodes' /\ Shape(r)
                      /\ r.type = "DERIVED_FROM" => \E i \in DOMAIN mapped' : r = Derivation(i)'
                      /\ r.type = "IMPOSES_ON" =>
                          \E i \in DOMAIN mapped' : \E n \in mapped'[i].actors : r = Imposition(i, n)'
    BY DEF RelationshipsMapped, Shape
  <2>1. CASE r \in DOMAIN relationships
    <3>1. /\ r.from \in DOMAIN nodes /\ r.to \in DOMAIN nodes /\ Shape(r)
          /\ r.type = "DERIVED_FROM" => \E i \in 1..m : r = Derivation(i)
          /\ r.type = "IMPOSES_ON" =>
                \E i \in 1..m : \E n \in mapped[i].actors : r = Imposition(i, n)
      BY <1>2, <1>4, <2>1 DEF RelationshipsMapped
    <3>2. DOMAIN nodes \subseteq DOMAIN nodes'
      BY <1>1, <1>4, NodesWithSorted
    <3> QED
      BY <1>2, <1>5, <3>1, <3>2
  <2>2. CASE r \in new
    <3>1. /\ Shape(r)
          /\ r.from \in {<<"regulation", o.version>>, <<"obligation", o.clause>>}
          /\ \/ \E v \in SupersededBy(o) : r.to = <<"regulation", v>>
             \/ r.to = <<"provision", o.anchor>>
             \/ \E n \in o.actors : r.to = ActorNodeId(n)
             \/ \E k \in o.controls : r.to = <<"control", k>>
             \/ \E a \in o.assets : r.to = <<"asset", a>>
          /\ r.type = "DERIVED_FROM" => r = derivation
          /\ r.type = "IMPOSES_ON" =>
                \E n \in o.actors :
                    r = Relationship(<<"obligation", o.clause>>, "IMPOSES_ON", ActorNodeId(n))
      BY <2>2, RelationshipsOfFacts DEF new, derivation
    <3>2. /\ <<"regulation", o.version>> \in DOMAIN nodes'
          /\ \A v \in SupersededBy(o) : <<"regulation", v>> \in DOMAIN nodes'
          /\ <<"provision", o.anchor>> \in DOMAIN nodes'
          /\ <<"obligation", o.clause>> \in DOMAIN nodes'
          /\ \A n \in o.actors : ActorNodeId(n) \in DOMAIN nodes'
          /\ \A k \in o.controls : <<"control", k>> \in DOMAIN nodes'
          /\ \A a \in o.assets : <<"asset", a>> \in DOMAIN nodes'
      BY <1>1, <1>4, NodesWithSorted
    <3>3. r.from \in DOMAIN nodes' /\ r.to \in DOMAIN nodes'
      BY <3>1, <3>2
    <3>4. m + 1 \in DOMAIN mapped'
      BY <1>2
    <3> QED
      BY <1>2, <1>6, <3>1, <3>3, <3>4
  <2> QED
    BY <1>3, <2>1, <2>2
<1> QED
  BY <1>7, <1>15, <1>16 DEF MappedOK

LEMMA MappingNext == MappingIInv /\ [Next]_vars => MappingIInv'
<1> SUFFICES ASSUME MappingIInv, [Next]_vars
             PROVE  MappingIInv'
  OBVIOUS
<1>1. ReportIInv'
  BY ReportNext DEF MappingIInv
<1> SUFFICES ASSUME added' = {}, DistinctClauses', ActorsMatched'
             PROVE  MappedOK'
  BY <1>1 DEF MappingIInv
<1>2. TypeOK
  BY DEF MappingIInv, ReportIInv
<1>3. ASSUME NEW o \in Obligations, MapObligation(o)
      PROVE  MappedOK'
  <2> DEFINE m == Len(mapped)
  <2>1. /\ m \in Nat /\ DOMAIN mapped = 1..m /\ DOMAIN mapped' = 1..(m + 1)
        /\ mapped'[m + 1] = o /\ \A i \in 1..m : mapped'[i] = mapped[i]
    BY <1>2, <1>3 DEF TypeOK, MapObligation
  <2> HIDE DEF m
  <2>2. DistinctClauses /\ \A i \in DOMAIN mapped : mapped[i].clause # o.clause
    BY <2>1 DEF DistinctClauses
  <2>3. ActorsMatched /\ \A n \in o.actors : ActorNodeId(n)[1] = "actor"
    BY <2>1 DEF ActorsMatched
  <2>4. added = {}
    BY <1>3 DEF MapObligation
  <2> QED
    BY <1>2, <1>3, <2>2, <2>3, <2>4, MapStep DEF MappingIInv
<1>4. ASSUME NEW x \in Additions, AddNode(x) \/ AddRelationship(x)
      PROVE  MappedOK'
  BY <1>4 DEF AddNode, AddRelationship
<1>5. ASSUME UNCHANGED <<mapped, nodes, relationships, added>>
      PROVE  MappedOK'
  <2>1. DistinctClauses /\ ActorsMatched /\ added = {}
    BY <1>5 DEF DistinctClauses, ActorsMatched
  <2>2. MappedOK
    BY <2>1 DEF MappingIInv
  <2>3. \A i : /\ Self(i)' = Self(i) /\ Derivation(i)' = Derivation(i)
               /\ \A n : Imposition(i, n)' = Imposition(i, n)
    BY <1>5 DEF Self, Derivation, Imposition
  <2>4. Sorted(nodes')
    BY <1>5, <2>2 DEF MappedOK
  <2>5. ObligationsMapped'
    BY <1>5, <2>2, <2>3 DEF MappedOK, ObligationsMapped
  <2>6. RelationshipsMapped'
    BY <1>5, <2>2, <2>3 DEF MappedOK, RelationshipsMapped, Shape
  <2> QED
    BY <2>4, <2>5, <2>6 DEF MappedOK
<1> QED
  BY <1>3, <1>4, <1>5 DEF Next, Validate, vars

(* The nodes of a type are those of its prefix. *)
LEMMA SortedTypes ==
    ASSUME Sorted(nodes), NEW id \in DOMAIN nodes
    PROVE  /\ nodes[id] = "Obligation" <=> id[1] = "obligation"
           /\ nodes[id] = "Regulation" <=> id[1] = "regulation"
           /\ nodes[id] = "Provision" <=> id[1] = "provision"
           /\ nodes[id] = "Actor" <=> id[1] = "actor"
           /\ nodes[id] = "Control" <=> id[1] = "control"
           /\ nodes[id] = "Asset" <=> id[1] = "asset"
<1>1. id[1] \in Prefixes /\ nodes[id] = TypeOfPrefix[id[1]]
  BY DEF Sorted
<1> QED
  BY <1>1, PrefixTypes

LEMMA MappedHolds ==
    ASSUME MappedOK, DistinctClauses
    PROVE  /\ ObligationDerivedFromProvision /\ MapsToControlEndpointRestriction
           /\ EvidencedByEndpointRestriction /\ NoDanglingNodeReference
           /\ RelationshipTypePairAllowed
           /\ ObligationImposesOnActor <=> \A i \in DOMAIN mapped : mapped[i].actors # {}
<1>1. Sorted(nodes) /\ ObligationsMapped /\ RelationshipsMapped
  BY DEF MappedOK
<1>2. \A r \in Proposed : r.from \in DOMAIN nodes /\ r.to \in DOMAIN nodes /\ Shape(r)
  BY <1>1 DEF RelationshipsMapped, Proposed, BagToSet
<1>3. OfType("Obligation") = {Self(i) : i \in DOMAIN mapped}
  <2>1. \A id \in OfType("Obligation") : \E i \in DOMAIN mapped : id = Self(i)
    BY <1>1, SortedTypes DEF OfType, ObligationsMapped
  <2>2. \A i \in DOMAIN mapped : Self(i) \in DOMAIN nodes /\ Self(i)[1] = "obligation"
    BY <1>1 DEF ObligationsMapped, Self
  <2>3. \A i \in DOMAIN mapped : Self(i) \in OfType("Obligation")
    BY <1>1, <2>2, SortedTypes DEF OfType
  <2> QED
    BY <2>1, <2>3
<1>4. \A i \in DOMAIN mapped :
        /\ Derivation(i).from = Self(i) /\ Derivation(i).type = "DERIVED_FROM"
        /\ Derivation(i).to[1] = "provision"
        /\ \A n : /\ Imposition(i, n).from = Self(i) /\ Imposition(i, n).type = "IMPOSES_ON"
  BY DEF Derivation, Imposition, Relationship
<1>5. \A i, j \in DOMAIN mapped : Self(i) = Self(j) => i = j
  BY DEF Self, DistinctClauses
<1>6. ObligationDerivedFromProvision
  <2> SUFFICES ASSUME NEW i \in DOMAIN mapped
               PROVE  LET edges == EdgesOf(Self(i), "DERIVED_FROM", "Provision")
                      IN  \E r \in edges : edges = {r} /\ relationships[r] = 1
    BY <1>3 DEF ObligationDerivedFromProvision
  <2> DEFINE edges == EdgesOf(Self(i), "DERIVED_FROM", "Provision")
  <2>1. Derivation(i) \in Proposed /\ relationships[Derivation(i)] = 1
    BY <1>1 DEF ObligationsMapped, Proposed, BagToSet
  <2>2. Derivation(i).to \in OfType("Provision")
    BY <1>1, <1>2, <1>4, <2>1, SortedTypes DEF OfType
  <2>3. Derivation(i) \in edges
    BY <1>4, <2>1, <2>2 DEF EdgesOf
  <2>4. ASSUME NEW r \in edges
        PROVE  r = Derivation(i)
    <3>1. r \in Proposed /\ r.from = Self(i) /\ r.type = "DERIVED_FROM"
      BY DEF EdgesOf
    <3>2. PICK j \in DOMAIN mapped : r = Derivation(j)
      BY <1>1, <3>1 DEF RelationshipsMapped, Proposed, BagToSet
    <3> QED
      BY <1>4, <1>5, <3>1, <3>2
  <2>5. edges = {Derivation(i)}
    BY <2>3, <2>4
  <2> QED
    BY <2>1, <2>3, <2>5
<1>7. MapsToControlEndpointRestriction
  BY <1>1, <1>2, SortedTypes DEF MapsToControlEndpointRestriction, Shape, OfType
<1>8. EvidencedByEndpointRestriction
  BY <1>2 DEF EvidencedByEndpointRestriction, Shape
<1>9. NoDanglingNodeReference
  BY <1>2 DEF NoDanglingNodeReference, Known
<1>10. RelationshipTypePairAllowed
  <2> SUFFICES ASSUME NEW r \in Proposed
               PROVE  PairAllowed(r.type, nodes[r.from], nodes[r.to])
    BY DEF RelationshipTypePairAllowed
  <2>1. r.from \in DOMAIN nodes /\ r.to \in DOMAIN nodes /\ Shape(r)
    BY <1>2
  <2>2. CASE r.type = "SUPERSEDES" /\ r.from[1] = "regulation" /\ r.to[1] = "regulation"
    BY <1>1, <2>1, <2>2, SortedTypes DEF PairAllowed, RELATIONSHIP_ALLOWED_PAIRS
  <2>3. CASE r.type = "DERIVED_FROM" /\ r.from[1] = "obligation" /\ r.to[1] = "provision"
    BY <1>1, <2>1, <2>3, SortedTypes DEF PairAllowed, RELATIONSHIP_ALLOWED_PAIRS
  <2>4. CASE r.type = "IMPOSES_ON" /\ r.from[1] = "obligation" /\ r.to[1] = "actor"
    BY <1>1, <2>1, <2>4, SortedTypes DEF PairAllowed, RELATIONSHIP_ALLOWED_PAIRS
  <2>5. CASE r.type = "MAPS_TO_CONTROL" /\ r.from[1] = "obligation" /\ r.to[1] = "control"
    BY <1>1, <2>1, <2>5, SortedTypes DEF PairAllowed, RELATIONSHIP_ALLOWED_PAIRS
  <2>6. CASE r.type = "AFFECTS_ASSET" /\ r.from[1] = "obligation" /\ r.to[1] = "asset"
    BY <1>1, <2>1, <2>6, SortedTypes DEF PairAllowed, RELATIONSHIP_ALLOWED_PAIRS
  <2> QED
    BY <2>1, <2>2, <2>3, <2>4, <2>5, <2>6 DEF Shape
<1>11. ASSUME NEW i \in DOMAIN mapped
       PROVE  EdgesOf(Self(i), "IMPOSES_ON", "Actor") # {} <=> mapped[i].actors # {}
  <2>1. ASSUME mapped[i].actors # {}
        PROVE  EdgesOf(Self(i), "IMPOSES_ON", "Actor") # {}
    <3>1. PICK n \in mapped[i].actors : TRUE
      BY <2>1
    <3>2. Imposition(i, n) \in Proposed
      BY <1>1, <3>1 DEF ObligationsMapped, Proposed, BagToSet
    <3>3. Imposition(i, n).to \in OfType("Actor")
      BY <1>1, <1>2, <1>4, <3>2, SortedTypes DEF OfType, Shape
    <3>4. Imposition(i, n) \in EdgesOf(Self(i), "IMPOSES_ON", "Actor")
      BY <1>4, <3>2, <3>3 DEF EdgesOf
    <3> QED
      BY <3>4
  <2>2. ASSUME EdgesOf(Self(i), "IMPOSES_ON", "Actor") # {}
        PROVE  mapped[i].actors # {}
    <3>1. PICK r \in Proposed : r.from = Self(i) /\ r.type = "IMPOSES_ON"
      BY <2>2 DEF EdgesOf
    <3>2. PICK j \in DOMAIN mapped : \E n \in mapped[j].actors : r = Imposition(j, n)
      BY <1>1, <3>1 DEF RelationshipsMapped, Proposed, BagToSet
    <3>3. i = j
      BY <1>4, <1>5, <3>1, <3>2
    <3> QED
      BY <3>2, <3>3
  <2> QED
    BY <2>1, <2>2
<1>12. ObligationImposesOnActor <=> \A i \in DOMAIN mapped : mapped[i].actors # {}
  BY <1>3, <1>11 DEF ObligationImposesOnActor
<1> QED
  BY <1>6, <1>7, <1>8, <1>9, <1>10, <1>12

(* What the agent maps from obligations of different clauses fails the rule on *)
(* actors or none, and that one exactly when an obligation names no actor      *)
(* (agents/graph_mapping_agent.py against constraints/engine.py).              *)
THEOREM MappingFailsOnActorsOnlyAlways == Spec => []MappingFailsOnActorsOnly
<1>1. MappingIInv => MappingFailsOnActorsOnly
  <2> SUFFICES ASSUME MappingIInv, report # None, added = {}, DistinctClauses, ActorsMatched
               PROVE  /\ report \subseteq {"obligation_imposes_on_actor"}
                      /\ report = {} <=> \A i \in DOMAIN mapped : mapped[i].actors # {}
    BY DEF MappingFailsOnActorsOnly, DistinctClauses, ActorsMatched
  <2>1. report = RunAllChecks /\ MappedOK
    BY DEF MappingIInv, ReportIInv, ReportIsCurrent
  <2>2. report \subseteq {"obligation_imposes_on_actor"}
    BY <2>1, MappedHolds, ReportNames DEF RuleNames
  <2>3. "obligation_imposes_on_actor" \in report <=> ~ObligationImposesOnActor
    BY <2>1, ReportNames
  <2> QED
    BY <2>1, <2>2, <2>3, MappedHolds
<1>2. Init => MappingIInv
  <2> SUFFICES ASSUME Init
               PROVE  MappingIInv
    OBVIOUS
  <2>1. ReportIInv
    BY TypeInit DEF Init, ReportIInv, ReportIsCurrent
  <2>2. DOMAIN mapped = {} /\ DOMAIN nodes = {} /\ DOMAIN relationships = {}
    BY DEF Init, EmptyBag, SetToBag
  <2>3. MappedOK
    BY <2>2 DEF MappedOK, Sorted, ObligationsMapped, RelationshipsMapped
  <2> QED
    BY <2>1, <2>3 DEF MappingIInv
<1> QED
  BY <1>1, <1>2, MappingNext, PTL DEF Spec

--------------------------------------------------------------------------------
(* The paths of the two stores. *)

LEMMA TypedEdges ==
    ASSUME PassingIsClosedAndTyped, report = {}, NEW id, NEW type, NEW to \in EdgesFrom(id, type)
    PROVE  /\ to \in DOMAIN nodes
           /\ type = "AFFECTS_ASSET" => to \in OfType("Asset")
           /\ type = "SATISFIED_BY" => to \in OfType("EvidenceRequirement")
           /\ type = "EVIDENCED_BY" => to \in OfType("TestAsset")
<1>1. PICK r \in Proposed : r.from = id /\ r.type = type /\ r.to = to
  BY DEF EdgesFrom
<1>2. {r.from, r.to} \subseteq DOMAIN nodes /\ PairAllowed(type, nodes[r.from], nodes[to])
  BY <1>1 DEF PassingIsClosedAndTyped
<1>3. CASE type = "AFFECTS_ASSET"
  BY <1>1, <1>2, <1>3 DEF PairAllowed, RELATIONSHIP_ALLOWED_PAIRS, OfType
<1>4. CASE type = "SATISFIED_BY"
  BY <1>1, <1>2, <1>4 DEF PairAllowed, RELATIONSHIP_ALLOWED_PAIRS, OfType
<1>5. CASE type = "EVIDENCED_BY"
  BY <1>1, <1>2, <1>5 DEF PairAllowed, RELATIONSHIP_ALLOWED_PAIRS, OfType
<1> QED
  BY <1>1, <1>2, <1>3, <1>4, <1>5

(* A path of the test double is complete if it has an asset, an evidence       *)
(* requirement and a test asset.                                               *)
Complete(path, p, o, k, a, e, t) ==
    /\ path = <<p, o, k, a, e, t>>
    /\ p \in EdgesFrom(o, "DERIVED_FROM") \cap OfType("Provision")
    /\ o \in OfType("Obligation")
    /\ k \in EdgesFrom(o, "MAPS_TO_CONTROL") \cap OfType("Control")
    /\ a \in EdgesFrom(k, "AFFECTS_ASSET")
    /\ e \in EdgesFrom(k, "SATISFIED_BY")
    /\ t \in EdgesFrom(e, "EVIDENCED_BY")

LEMMA OptionalFacts ==
    ASSUME NEW ids, NEW part \in Optional(ids)
    PROVE  part = <<>> \/ \E id \in ids : part = <<id>>
BY DEF Optional

(* What the parts of a path make together. *)
LEMMA TwoPartsIn ==
    ASSUME NEW S, NEW x \in S, NEW y \in S
    PROVE  <<x>> \o <<y>> = <<x, y>>
<1>1. <<x>> \in Seq(S) /\ <<y>> \in Seq(S) /\ Len(<<x>>) = 1 /\ Len(<<y>>) = 1
  OBVIOUS
<1>2. PICK u \in Seq(S), v \in Seq(S) : u = <<x>> /\ v = <<y>>
  BY <1>1
<1>3. PICK whole \in Seq(S) : whole = u \o v
  BY ConcatProperties
<1>4. Len(u) = 1 /\ u[1] = x /\ Len(v) = 1 /\ v[1] = y
  BY <1>2
<1>5. Len(whole) = 2 /\ whole[1] = x /\ whole[2] = y
  <2>1. \A i \in 1..Len(u) + Len(v) : whole[i] = IF i <= Len(u) THEN u[i] ELSE v[i - Len(u)]
    BY <1>3, ConcatProperties
  <2>2. Len(whole) = Len(u) + Len(v)
    BY <1>3, ConcatProperties
  <2> QED
    BY <1>4, <2>1, <2>2
<1>6. whole = <<x, y>>
  BY <1>5
<1> QED
  BY <1>2, <1>3, <1>6

LEMMA TwoParts == \A x, y : <<x>> \o <<y>> = <<x, y>>
<1> TAKE x, y
<1>1. x \in {x, y} /\ y \in {x, y}
  OBVIOUS
<1> QED
  BY <1>1, TwoPartsIn, Zenon

LEMMA ThreePartsIn ==
    ASSUME NEW S, NEW p \in S, NEW o \in S, NEW k \in S, NEW a \in S, NEW e \in S, NEW t \in S
    PROVE  (<<p, o, k>> \o <<a>>) \o <<e, t>> = <<p, o, k, a, e, t>>
<1>1. /\ <<p, o, k>> \in Seq(S) /\ <<a>> \in Seq(S) /\ <<e, t>> \in Seq(S)
      /\ Len(<<p, o, k>>) = 3 /\ Len(<<a>>) = 1 /\ Len(<<e, t>>) = 2
  OBVIOUS
<1>2. PICK u \in Seq(S), v \in Seq(S), w \in Seq(S) :
          u = <<p, o, k>> /\ v = <<a>> /\ w = <<e, t>>
  BY <1>1
<1>3. /\ Len(u) = 3 /\ u[1] = p /\ u[2] = o /\ u[3] = k
      /\ Len(v) = 1 /\ v[1] = a
      /\ Len(w) = 2 /\ w[1] = e /\ w[2] = t
  BY <1>2
<1>4. PICK start \in Seq(S) : start = u \o v
  BY ConcatProperties
<1>5. /\ Len(start) = 4
      /\ start[1] = p /\ start[2] = o /\ start[3] = k /\ start[4] = a
  <2>1. \A i \in 1..Len(u) + Len(v) : start[i] = IF i <= Len(u) THEN u[i] ELSE v[i - Len(u)]
    BY <1>4, ConcatProperties
  <2>2. Len(start) = Len(u) + Len(v)
    BY <1>4, ConcatProperties
  <2> QED
    BY <1>3, <2>1, <2>2
<1>6. PICK whole \in Seq(S) : whole = start \o w
  BY ConcatProperties
<1>7. /\ Len(whole) = 6
      /\ whole[1] = p /\ whole[2] = o /\ whole[3] = k
      /\ whole[4] = a /\ whole[5] = e /\ whole[6] = t
  <2>1. \A i \in 1..Len(start) + Len(w) :
            whole[i] = IF i <= Len(start) THEN start[i] ELSE w[i - Len(start)]
    BY <1>6, ConcatProperties
  <2>2. Len(whole) = Len(start) + Len(w)
    BY <1>6, ConcatProperties
  <2> QED
    BY <1>3, <1>5, <2>1, <2>2
<1>8. whole = <<p, o, k, a, e, t>>
  BY <1>7
<1> QED
  BY <1>2, <1>4, <1>6, <1>8

LEMMA ThreeParts ==
    \A p, o, k, a, e, t : (<<p, o, k>> \o <<a>>) \o <<e, t>> = <<p, o, k, a, e, t>>
<1> TAKE p, o, k, a, e, t
<1> DEFINE S == {p, o, k, a, e, t}
<1>1. p \in S /\ o \in S /\ k \in S /\ a \in S /\ e \in S /\ t \in S
  OBVIOUS
<1> HIDE DEF S
<1> QED
  BY <1>1, ThreePartsIn

LEMMA EvidenceFacts ==
    ASSUME NEW k, NEW part \in EvidencePaths(k)
    PROVE  \/ part = <<>>
           \/ \E e : part = <<e>>
           \/ \E e \in EdgesFrom(k, "SATISFIED_BY") :
                \E t \in EdgesFrom(e, "EVIDENCED_BY") : part = <<e, t>>
<1>1. PICK f \in Optional(EdgesFrom(k, "SATISFIED_BY")) :
          \E t \in IF f = <<>> THEN {<<>>} ELSE Optional(EdgesFrom(f[1], "EVIDENCED_BY")) :
              part = f \o t
  BY DEF EvidencePaths
<1>2. CASE f = <<>>
  <2>1. part = <<>> \o <<>>
    BY <1>1, <1>2
  <2> QED
    BY <2>1
<1>3. CASE \E e \in EdgesFrom(k, "SATISFIED_BY") : f = <<e>>
  <2>1. PICK e \in EdgesFrom(k, "SATISFIED_BY") : f = <<e>>
    BY <1>3
  <2>2. f # <<>> /\ f[1] = e
    BY <2>1
  <2>3. PICK t \in Optional(EdgesFrom(e, "EVIDENCED_BY")) : part = <<e>> \o t
    BY <1>1, <2>1, <2>2
  <2>4. CASE t = <<>>
    BY <2>3, <2>4
  <2>5. CASE \E x \in EdgesFrom(e, "EVIDENCED_BY") : t = <<x>>
    <3>1. PICK x \in EdgesFrom(e, "EVIDENCED_BY") : t = <<x>>
      BY <2>5
    <3>2. part = <<e, x>>
      BY <2>3, <3>1, TwoParts
    <3> QED
      BY <3>2
  <2> QED
    BY <2>3, <2>4, <2>5, OptionalFacts
<1> QED
  BY <1>2, <1>3, OptionalFacts

LEMMA CompletePaths ==
    ASSUME NEW path, Len(path) = 6
    PROVE  path \in InMemoryProofPaths <=>
                \E p, o, k, a, e, t : Complete(path, p, o, k, a, e, t)
<1>1. ASSUME path \in InMemoryProofPaths
      PROVE  \E p, o, k, a, e, t : Complete(path, p, o, k, a, e, t)
  <2>1. PICK o \in OfType("Obligation") :
            \E k \in EdgesFrom(o, "MAPS_TO_CONTROL") \cap OfType("Control") :
                path \in PathsThrough(o, k)
    BY <1>1 DEF InMemoryProofPaths
  <2>2. PICK k \in EdgesFrom(o, "MAPS_TO_CONTROL") \cap OfType("Control") :
            path \in PathsThrough(o, k)
    BY <2>1
  <2>3. PICK p \in EdgesFrom(o, "DERIVED_FROM") \cap OfType("Provision"),
             assets \in Optional(EdgesFrom(k, "AFFECTS_ASSET")), evidence \in EvidencePaths(k) :
                path = (<<p, o, k>> \o assets) \o evidence
    <3>1. PICK x \in (EdgesFrom(o, "DERIVED_FROM") \cap OfType("Provision"))
                     \X Optional(EdgesFrom(k, "AFFECTS_ASSET")) \X EvidencePaths(k) :
              path = (<<x[1], o, k>> \o x[2]) \o x[3]
      BY <2>2, Zenon DEF PathsThrough
    <3>2. /\ x[1] \in EdgesFrom(o, "DERIVED_FROM") \cap OfType("Provision")
          /\ x[2] \in Optional(EdgesFrom(k, "AFFECTS_ASSET"))
          /\ x[3] \in EvidencePaths(k)
      BY <3>1
    <3> QED
      BY <3>1, <3>2, Zenon
  <2>4. PICK a \in EdgesFrom(k, "AFFECTS_ASSET") : assets = <<a>>
    <3>1. assets = <<>> \/ \E a \in EdgesFrom(k, "AFFECTS_ASSET") : assets = <<a>>
      BY OptionalFacts
    <3>2. ASSUME assets = <<>>
          PROVE  FALSE
      <4>1. CASE evidence = <<>>
        BY <2>3, <3>2, <4>1
      <4>2. CASE \E e : evidence = <<e>>
        BY <2>3, <3>2, <4>2
      <4>3. CASE \E e, t : evidence = <<e, t>>
        BY <2>3, <3>2, <4>3
      <4> QED
        BY <4>1, <4>2, <4>3, EvidenceFacts
    <3> QED
      BY <3>1, <3>2
  <2>5. PICK e \in EdgesFrom(k, "SATISFIED_BY") :
            \E t \in EdgesFrom(e, "EVIDENCED_BY") : evidence = <<e, t>>
    <3>1. CASE evidence = <<>>
      BY <2>3, <2>4, <3>1
    <3>2. CASE \E e : evidence = <<e>>
      BY <2>3, <2>4, <3>2
    <3> QED
      BY <3>1, <3>2, EvidenceFacts
  <2>6. PICK t \in EdgesFrom(e, "EVIDENCED_BY") : evidence = <<e, t>>
    BY <2>5
  <2>7. path = <<p, o, k, a, e, t>>
    BY <2>3, <2>4, <2>6, ThreeParts
  <2>8. Complete(path, p, o, k, a, e, t)
    BY <2>7 DEF Complete
  <2> QED
    BY <2>8
<1>2. ASSUME NEW p, NEW o, NEW k, NEW a, NEW e, NEW t, Complete(path, p, o, k, a, e, t)
      PROVE  path \in InMemoryProofPaths
  <2>1. <<a>> \in Optional(EdgesFrom(k, "AFFECTS_ASSET"))
    BY <1>2 DEF Complete, Optional
  <2>2. <<e, t>> \in EvidencePaths(k)
    <3>1. <<e>> \in Optional(EdgesFrom(k, "SATISFIED_BY")) /\ <<e>> # <<>> /\ <<e>>[1] = e
      BY <1>2 DEF Complete, Optional
    <3>2. <<t>> \in Optional(EdgesFrom(e, "EVIDENCED_BY"))
      BY <1>2 DEF Complete, Optional
    <3>3. <<e>> \o <<t>> = <<e, t>>
      BY TwoParts
    <3>4. PICK f : f = <<e>>
      OBVIOUS
    <3>5. <<t>> \in IF f = <<>> THEN {<<>>} ELSE Optional(EdgesFrom(f[1], "EVIDENCED_BY"))
      BY <3>1, <3>2, <3>4
    <3>6. f \in Optional(EdgesFrom(k, "SATISFIED_BY")) /\ <<e, t>> = f \o <<t>>
      BY <3>1, <3>3, <3>4
    <3> DEFINE Parts(y) ==
                  {y \o x : x \in IF y = <<>> THEN {<<>>} ELSE Optional(EdgesFrom(y[1], "EVIDENCED_BY"))}
    <3>7. <<e, t>> \in Parts(f)
      BY <3>5, <3>6
    <3>8. EvidencePaths(k) = UNION {Parts(y) : y \in Optional(EdgesFrom(k, "SATISFIED_BY"))}
      BY DEF EvidencePaths
    <3> HIDE DEF Parts
    <3> QED
      BY <3>6, <3>7, <3>8, Zenon
  <2>3. path = <<p, o, k>> \o <<a>> \o <<e, t>>
    BY <1>2, ThreeParts DEF Complete
  <2>4. path \in PathsThrough(o, k)
    <3>1. PICK x : x = <<p, <<a>>, <<e, t>>>>
      OBVIOUS
    <3>2. x[1] = p /\ x[2] = <<a>> /\ x[3] = <<e, t>>
      BY <3>1
    <3>3. p \in EdgesFrom(o, "DERIVED_FROM") \cap OfType("Provision")
      BY <1>2 DEF Complete
    <3>4. x \in (EdgesFrom(o, "DERIVED_FROM") \cap OfType("Provision"))
                 \X Optional(EdgesFrom(k, "AFFECTS_ASSET")) \X EvidencePaths(k)
      BY <2>1, <2>2, <3>1, <3>3
    <3>5. path = (<<x[1], o, k>> \o x[2]) \o x[3]
      BY <2>3, <3>2
    <3> QED
      BY <3>4, <3>5, Zenon DEF PathsThrough
  <2>5. o \in OfType("Obligation") /\ k \in EdgesFrom(o, "MAPS_TO_CONTROL") \cap OfType("Control")
    BY <1>2 DEF Complete
  <2> QED
    BY <2>4, <2>5 DEF InMemoryProofPaths
<1> QED
  BY <1>1, <1>2

(* The rows of the production query are the complete paths of the test double, *)
(* once the content has passed.                                                *)
LEMMA RowsAreComplete ==
    ASSUME PassingIsClosedAndTyped, report = {}, NEW path
    PROVE  path \in Neo4jProofPaths <=>
                \E p, o, k, a, e, t : Complete(path, p, o, k, a, e, t)
<1>1. ASSUME path \in Neo4jProofPaths
      PROVE  \E p, o, k, a, e, t : Complete(path, p, o, k, a, e, t)
  <2>1. path = <<path[1], path[2], path[3], path[4], path[5], path[6]>>
    BY <1>1 DEF Neo4jProofPaths
  <2>2. /\ path[1] \in OfType("Provision") /\ path[2] \in OfType("Obligation")
        /\ path[3] \in OfType("Control")
        /\ path[1] \in EdgesFrom(path[2], "DERIVED_FROM")
        /\ path[3] \in EdgesFrom(path[2], "MAPS_TO_CONTROL")
        /\ path[4] \in EdgesFrom(path[3], "AFFECTS_ASSET")
        /\ path[5] \in EdgesFrom(path[3], "SATISFIED_BY")
        /\ path[6] \in EdgesFrom(path[5], "EVIDENCED_BY")
    BY <1>1 DEF Neo4jProofPaths
  <2>3. Complete(path, path[1], path[2], path[3], path[4], path[5], path[6])
    BY <2>1, <2>2, Zenon DEF Complete
  <2> QED
    BY <2>3, Zenon
<1>2. ASSUME NEW p, NEW o, NEW k, NEW a, NEW e, NEW t, Complete(path, p, o, k, a, e, t)
      PROVE  path \in Neo4jProofPaths
  <2>1. a \in OfType("Asset") /\ e \in OfType("EvidenceRequirement") /\ t \in OfType("TestAsset")
    BY <1>2, TypedEdges DEF Complete
  <2>2. /\ path[1] = p /\ path[2] = o /\ path[3] = k /\ path[4] = a /\ path[5] = e /\ path[6] = t
        /\ path \in OfType("Provision") \X OfType("Obligation") \X OfType("Control")
                    \X OfType("Asset") \X OfType("EvidenceRequirement") \X OfType("TestAsset")
    BY <1>2, <2>1 DEF Complete
  <2> QED
    BY <1>2, <2>2 DEF Complete, Neo4jProofPaths
<1> QED
  BY <1>1, <1>2

(* As long as the tools name their nodes as the view expects, every node is    *)
(* named so.                                                                   *)
AllNamed(f) == \A id \in DOMAIN f : Named(id, f[id])

ToolsNamed == \A x \in added : "node" \in DOMAIN x => Named(x.node, x.type)

NamingIInv == ToolsNamed => AllNamed(nodes)

LEMMA NamedPut ==
    ASSUME NEW f, AllNamed(f), NEW ids, NEW type, \A id \in ids : Named(id, type)
    PROVE  AllNamed(Put(f, ids, type)) /\ AllNamed(SetDefault(f, ids, type))
<1>1. AllNamed(Put(f, ids, type))
  BY DEF Put, AllNamed
<1>2. AllNamed(SetDefault(f, ids, type))
  BY DEF SetDefault, AllNamed
<1> QED
  BY <1>1, <1>2

(* The agent's prefixes are those the view expects. *)
LEMMA AgentNames ==
    /\ \A id : Named(id, "Regulation") /\ Named(id, "Actor")
    /\ \A keys : \A id \in Ids("provision", keys) : Named(id, "Provision")
    /\ \A keys : \A id \in Ids("obligation", keys) : Named(id, "Obligation")
    /\ \A keys : \A id \in Ids("control", keys) : Named(id, "Control")
    /\ \A keys : \A id \in Ids("asset", keys) : Named(id, "Asset")
<1>1. /\ DOMAIN PATH_NODE_TYPES = 1..6
      /\ PATH_NODE_TYPES[1] = "Provision" /\ PATH_NODE_TYPES[2] = "Obligation"
      /\ PATH_NODE_TYPES[3] = "Control" /\ PATH_NODE_TYPES[4] = "Asset"
      /\ PATH_NODE_TYPES[5] = "EvidenceRequirement" /\ PATH_NODE_TYPES[6] = "TestAsset"
  BY DEF PATH_NODE_TYPES
<1>2. /\ CANONICAL_NODE_TYPES[1] = "provision" /\ CANONICAL_NODE_TYPES[2] = "obligation"
      /\ CANONICAL_NODE_TYPES[3] = "control" /\ CANONICAL_NODE_TYPES[4] = "asset"
  BY DEF CANONICAL_NODE_TYPES
<1>3. \A i \in 1..6 : i = 1 \/ i = 2 \/ i = 3 \/ i = 4 \/ i = 5 \/ i = 6
  OBVIOUS
<1> QED
  BY <1>1, <1>2, <1>3, IdsPrefix DEF Named

LEMMA NodesWithNamed ==
    ASSUME NEW o, AllNamed(nodes)
    PROVE  AllNamed(NodesWith(o))
<1>1. PICK f1, f2, f3, f4, f5, f6 :
            /\ f1 = Put(nodes, Ids("regulation", {o.version}), "Regulation")
            /\ f2 = SetDefault(f1, Ids("regulation", SupersededBy(o)), "Regulation")
            /\ f3 = SetDefault(f2, Ids("provision", {o.anchor}), "Provision")
            /\ f4 = Put(f3, Ids("obligation", {o.clause}), "Obligation")
            /\ f5 = SetDefault(f4, {ActorNodeId(n) : n \in o.actors}, "Actor")
            /\ f6 = SetDefault(f5, Ids("control", o.controls), "Control")
            /\ NodesWith(o) = SetDefault(f6, Ids("asset", o.assets), "Asset")
  BY NodesWithFacts, Zenon
<1>2. AllNamed(f1)
  BY <1>1, NamedPut, AgentNames
<1>3. AllNamed(f2)
  BY <1>1, <1>2, NamedPut, AgentNames
<1>4. AllNamed(f3)
  BY <1>1, <1>3, NamedPut, AgentNames
<1>5. AllNamed(f4)
  BY <1>1, <1>4, NamedPut, AgentNames
<1>6. AllNamed(f5)
  BY <1>1, <1>5, NamedPut, AgentNames
<1>7. AllNamed(f6)
  BY <1>1, <1>6, NamedPut, AgentNames
<1> QED
  BY <1>1, <1>7, NamedPut, AgentNames

LEMMA NamingNext == NamingIInv /\ [Next]_vars => NamingIInv'
<1> SUFFICES ASSUME NamingIInv, [Next]_vars, ToolsNamed'
             PROVE  AllNamed(nodes')
  BY DEF NamingIInv
<1>1. ASSUME NEW o \in Obligations, MapObligation(o)
      PROVE  AllNamed(nodes')
  <2>1. AllNamed(nodes)
    BY <1>1 DEF MapObligation, NamingIInv, ToolsNamed
  <2> QED
    BY <1>1, <2>1, NodesWithNamed DEF MapObligation
<1>2. ASSUME NEW x \in Additions, AddNode(x)
      PROVE  AllNamed(nodes')
  <2>1. ToolsNamed /\ Named(x.node, x.type)
    BY <1>2 DEF AddNode, ToolsNamed
  <2>2. \A id \in {x.node} : Named(id, x.type)
    BY <2>1
  <2> QED
    BY <1>2, <2>1, <2>2, NamedPut DEF AddNode, NamingIInv
<1>3. ASSUME NEW x \in Additions, AddRelationship(x)
      PROVE  AllNamed(nodes')
  BY <1>3 DEF AddRelationship, NamingIInv, ToolsNamed
<1>4. ASSUME Validate \/ UNCHANGED vars
      PROVE  AllNamed(nodes')
  BY <1>4 DEF Validate, vars, NamingIInv, ToolsNamed
<1> QED
  BY <1>1, <1>2, <1>3, <1>4 DEF Next

(* A row of nodes that are named after their types can be drawn. *)
LEMMA NamedRowsAreDrawn ==
    ASSUME AllNamed(nodes), NEW path \in Neo4jProofPaths
    PROVE  Renderable(path)
<1>1. /\ path = <<path[1], path[2], path[3], path[4], path[5], path[6]>>
      /\ path[1] \in OfType("Provision") /\ path[2] \in OfType("Obligation")
      /\ path[3] \in OfType("Control") /\ path[4] \in OfType("Asset")
      /\ path[5] \in OfType("EvidenceRequirement") /\ path[6] \in OfType("TestAsset")
  BY DEF Neo4jProofPaths
<1>2. Len(path) = 6 /\ DOMAIN path = 1..6 /\ Len(CANONICAL_NODE_TYPES) = 6
  BY <1>1 DEF CANONICAL_NODE_TYPES
<1>3. /\ DOMAIN PATH_NODE_TYPES = 1..6
      /\ PATH_NODE_TYPES[1] = "Provision" /\ PATH_NODE_TYPES[2] = "Obligation"
      /\ PATH_NODE_TYPES[3] = "Control" /\ PATH_NODE_TYPES[4] = "Asset"
      /\ PATH_NODE_TYPES[5] = "EvidenceRequirement" /\ PATH_NODE_TYPES[6] = "TestAsset"
  BY DEF PATH_NODE_TYPES
<1>4. \A i \in 1..6 : path[i] \in DOMAIN nodes /\ nodes[path[i]] = PATH_NODE_TYPES[i]
  <2> TAKE i \in 1..6
  <2>1. i = 1 \/ i = 2 \/ i = 3 \/ i = 4 \/ i = 5 \/ i = 6
    OBVIOUS
  <2> QED
    BY <1>1, <1>3, <2>1 DEF OfType
<1>5. \A i \in 1..6 : path[i][1] = CANONICAL_NODE_TYPES[i]
  BY <1>3, <1>4 DEF AllNamed, Named
<1> QED
  BY <1>2, <1>5 DEF Renderable

(* The two stores have the same paths drawn of content that passes, and the    *)
(* view refuses no row unless a tool named a node otherwise                    *)
(* (publisher/in_memory_store.py and publisher/neo4j_store.py against          *)
(* visualization/proof_path_renderer.py).                                      *)
THEOREM DrawnPathsAgreeAlways == Spec => []DrawnPathsAgree
<1>1. PassingIsClosedAndTyped /\ NamingIInv => DrawnPathsAgree
  <2> SUFFICES ASSUME PassingIsClosedAndTyped, NamingIInv, report = {}
               PROVE  /\ {p \in InMemoryProofPaths : Renderable(p)}
                            = {p \in Neo4jProofPaths : Renderable(p)}
                      /\ ToolsNamed => \A p \in Neo4jProofPaths : Renderable(p)
    BY DEF DrawnPathsAgree, ToolsNamed
  <2>1. ASSUME NEW path, Renderable(path)
        PROVE  path \in InMemoryProofPaths <=> path \in Neo4jProofPaths
    <3>1. Len(path) = 6
      BY <2>1 DEF Renderable, CANONICAL_NODE_TYPES
    <3> QED
      BY <3>1, CompletePaths, RowsAreComplete, Zenon
  <2>2. ToolsNamed => \A p \in Neo4jProofPaths : Renderable(p)
    BY NamedRowsAreDrawn DEF NamingIInv
  <2> QED
    BY <2>1, <2>2
<1>2. Init => NamingIInv
  BY DEF Init, NamingIInv, AllNamed
<1> QED
  BY <1>1, <1>2, NamingNext, PassingIsClosedAndTypedAlways, PTL DEF Spec

================================================================================
