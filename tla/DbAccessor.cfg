CONSTANTS
    Thread = {p, q, r}
    NoThread = NoThread
    Key = {k1}
    Value = {v1, v2}
    None = None
    MaxNesting = 2
SPECIFICATION LiveSpec
INVARIANTS
    TypeOK
    IsolationExclusive
    CacheCoherent
    ReaderConsistent
PROPERTIES
    CommitEnds
