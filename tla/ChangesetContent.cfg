\* Four obligations of three clauses, the additions of the demonstrations, one that is named
\* otherwise, and three mistakes.
SPECIFICATION Spec
CONSTANTS
    Obligations <- MCObligations
    Existing <- MCExisting
    Similarity <- MCSimilarity
    Additions <- MCAdditions
    Versions = {"v1", "v2"}
    None = None
    MaxObligations = 3
INVARIANTS
    TypeOK
    MappingFailsOnActorsOnly
    PassingIsClosedAndTyped
    DrawnPathsAgree
CHECK_DEADLOCK FALSE
