\* Does a conflict always mean that other content is registered?
SPECIFICATION Spec
CONSTANTS
    Texts <- MCTexts
    Instruments = {nis2, other}
    Known = {nis2}
    Versions = {v1}
    Artifacts <- MCArtifacts
    Contents <- MCContents
    Workers <- MCWorkers
    BrokenWords <- MCBrokenWords
    Thresholds = {50, 75}
    None = None
    MaxRequests = 3
INVARIANTS
    ConflictMeansOtherContent
CHECK_DEADLOCK FALSE
