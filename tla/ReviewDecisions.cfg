\* Two threads, two field values and the broken one, three decisions.
SPECIFICATION Spec
CONSTANTS
    Revisions = {r1}
    Workers = {w1, w2}
    Values = {v1, v2, bad}
    Broken = bad
    None = None
    MaxDecisions = 3
SYMMETRY Symmetry
INVARIANTS
    TypeOK
    StatusFollowsHistory
    ContentAlwaysReplays
    HistoryIsGenuine
    SerialHistoryComplete
    SerialContentExplained
    SerialEscalationHolds
CHECK_DEADLOCK FALSE
