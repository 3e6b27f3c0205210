\* Does every article keep its own text?
SPECIFICATION Spec
CONSTANTS
    Texts <- MCTexts
    Instruments = {nis2, other}
    Known = {nis2}
    Versions = {v1}
    Artifacts <- MCArtifacts
    Contents <- MCContents
    Workers <- MCWorkers
    BrokenWords <- MCBrokenWords
    Thresholds = {50, 75}
    None = None
    MaxRequests = 3
INVARIANTS
    ArticlesHaveText
CHECK_DEADLOCK FALSE
