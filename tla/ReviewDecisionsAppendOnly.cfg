\* Does a decision ever drop an earlier history entry?
SPECIFICATION Spec
CONSTANTS
    Revisions = {r1}
    Workers = {w1, w2}
    Values = {v1, v2, bad}
    Broken = bad
    None = None
    MaxDecisions = 3
SYMMETRY Symmetry
PROPERTIES
    HistoryAppendOnly
CHECK_DEADLOCK FALSE
