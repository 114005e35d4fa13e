CONSTANTS
    Thread = {p, q, r}
    NoThread = NoThread
    MaxRecursion = 2
SPECIFICATION LiveSpec
INVARIANTS
    TypeOK
    ReadersCounted
PROPERTIES
    ImplementsRWLock
    WriterEnters
