\* A known and an unknown instrument; artifacts that are sound, refused by the
\* gate of one host or of both, or without a structure; two hosts.
SPECIFICATION Spec
CONSTANTS
    Texts <- MCTexts
    Instruments = {nis2, other}
    Known = {nis2}
    Versions = {v1}
    Artifacts <- MCArtifacts
    Contents <- MCContents
    Workers <- MCWorkers
    BrokenWords <- MCBrokenWords
    Thresholds = {50, 75}
    None = None
    MaxRequests = 3
INVARIANTS
    TypeOK
    RowsHaveTheirArtifact
    AnswersNameWhatWasPosted
    RefusalIsFinal
    SerialVersionIsPinned
    StructureIsFaithful
CHECK_DEADLOCK FALSE
