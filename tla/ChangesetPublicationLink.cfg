\* Is every published snapshot linked from its change set, whatever dies?
SPECIFICATION Spec
CONSTANTS
    Changesets = {c1, c2, bad}
    Passing = {c1, c2}
    Workers = {w1, w2}
    None = None
    MaxRequests = 7
SYMMETRY Symmetry
INVARIANTS
    EverySnapshotLinked
CHECK_DEADLOCK FALSE
