\* Three documents, two threads, two jobs and one restart.
SPECIFICATION Spec
CONSTANTS
    Documents <- MCDocuments
    Paragraphs <- MCParagraphs
    Known <- MCKnown
    Vocabulary = {"operator", "manufacturer"}
    Articles = {"Article 4", "Article 9"}
    Workers = {w1, w2}
    None = None
    MaxJobs = 2
    MaxRestarts = 1
INVARIANTS
    TypeOK
    RunStoresPrefix
    RevisionHasItsCall
PROPERTIES
    EveryJobEnds
CHECK_DEADLOCK FALSE
