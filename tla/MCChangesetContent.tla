--------------------------- MODULE MCChangesetContent ---------------------------
(* The instance of ChangesetContent that TLC checks. *)
EXTENDS ChangesetContent

Obligation(clause, anchor, version, actors, controls, assets) ==
    [clause |-> clause, anchor |-> anchor, version |-> version,
     actors |-> actors, controls |-> controls, assets |-> assets]

(* Two revisions of one clause, the second without an actor; a clause of the  *)
(* same paragraph whose actor is matched with an asset; one of a new version. *)
MCObligations ==
    {Obligation("c1", "p1", "v1", {"entity"}, {"k"}, {"x"}),
     Obligation("c1", "p1", "v1", {}, {}, {}),
     Obligation("c2", "p1", "v1", {"system"}, {}, {}),
     Obligation("c3", "p2", "v2", {"new"}, {"k"}, {})}

MCExisting == << <<"asset", "x">>, <<"actor", "operator">> >>

(* An exact match, two that are equally good, and one that is not good enough. *)
MCSimilarity == [entity |-> <<70, 100>>, system |-> <<60, 60>>, new |-> <<0, 59>>]

Node(id, type) == [node |-> id, type |-> type]

(* The additions of the demonstrations, a node that is named otherwise, and    *)
(* three mistakes.                                                             *)
MCAdditions ==
    {Node(<<"evidence", "e">>, "EvidenceRequirement"),
     Node(<<"testasset", "t">>, "TestAsset"),
     Node(<<"test", "t">>, "TestAsset"),
     Relationship(<<"evidence", "e">>, "EVIDENCED_BY", <<"test", "t">>),
     Relationship(<<"control", "k">>, "AFFECTS_ASSET", <<"asset", "x">>),
     Relationship(<<"control", "k">>, "SATISFIED_BY", <<"evidence", "e">>),
     Relationship(<<"evidence", "e">>, "EVIDENCED_BY", <<"testasset", "t">>),
     Relationship(<<"control", "k">>, "EVIDENCED_BY", <<"testasset", "t">>),
     Relationship(<<"provision", "p1">>, "REFERENCES", <<"provision", "p3">>),
     Relationship(<<"provision", "p1">>, "MENTIONS", <<"provision", "p1">>)}
================================================================================
