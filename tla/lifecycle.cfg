CONSTANTS
    Files = {f1, f2}
    Requests = {r1}
    Managers = {m1, m2}
    Flushers = {g1, g2}
    None = None
    MaxGen = 3
    MaxCharges = 1
SPECIFICATION FairSpec
INVARIANTS
    TypeOK
    LedgerIsDisk
    ChargesKept
    NoStrayFlusher
PROPERTIES
    OperationsEnd
