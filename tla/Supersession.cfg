\* Two versions with the article and one that has moved it, two proposers, a reader.
SPECIFICATION Spec
CONSTANTS
    Versions = {v1, v2, moved}
    Mapped = {{v1}, {v2, moved}}
    SameArticle = {v1, v2}
    Proposers = {p1, p2}
    Readers = {r1}
    None = None
    MaxSnapshots = 3
INVARIANTS
    TypeOK
    OncePublishedIsAcyclic
    HistoryIsAPath
PROPERTIES
    EveryWalkEnds
CHECK_DEADLOCK FALSE
