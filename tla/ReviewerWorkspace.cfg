\* Two revisions, a client and a command, two decisions, a window of one tick.
SPECIFICATION Spec
CONSTANTS
    Revisions = {r1, r2}
    Clients = {client}
    Reviewers = {cli}
    Values = {v1, v2, bad}
    v1 = v1
    v2 = v2
    bad = bad
    Broken = bad
    Extracted <- MCExtracted
    ClientEdits <- MCClientEdits
    None = None
    MaxDecisions = 2
    Window = 1
    MaxRequests = 1
SYMMETRY Symmetry
INVARIANTS
    TypeOK
    StaleFindingsAreVisible
    PreviewIsRecorded
PROPERTIES
    RateLimitHolds
CHECK_DEADLOCK FALSE
