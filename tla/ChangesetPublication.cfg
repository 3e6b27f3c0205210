\* Two change sets that pass the rules and one that does not, two threads.
SPECIFICATION Spec
CONSTANTS
    Changesets = {c1, c2, bad}
    Passing = {c1, c2}
    Workers = {w1, w2}
    None = None
    MaxRequests = 7
SYMMETRY Symmetry
INVARIANTS
    TypeOK
    OnlyApprovedPublished
    LinkIsOwnSnapshot
    SerialLineage
    LineageIsAnswered
PROPERTIES
    SerialPublishedIsFinal
    ImplementsLineage
CHECK_DEADLOCK FALSE
