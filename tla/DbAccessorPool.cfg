CONSTANTS
    Thread = {p, q}
    NoThread = NoThread
    Key = {k1}
    Value = {v1, v2}
    None = None
    MaxNesting = 2
SPECIFICATION PoolSpec
SYMMETRY ThreadSymmetry
INVARIANTS
    IsolationExclusive
