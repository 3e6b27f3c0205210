\* One clause with two revisions and two decisions, two change sets, two
\* publishers and snapshots, one late update, one export or view.
SPECIFICATION Spec
CONSTANTS
    Clauses <- MCClauses
    Mappings <- MCMappings
    Publishers = {p1, p2}
    Exports = {e1}
    None = None
    MaxRevisions = 2
    MaxDecisions = 2
    MaxChangesets = 2
    MaxSnapshots = 2
    MaxOverwrites = 1
SYMMETRY Symmetry
INVARIANTS
    TypeOK
    AnswersWereApproved
    LeftOutForAReason
    SerialChainNamesLatest
CHECK_DEADLOCK FALSE
