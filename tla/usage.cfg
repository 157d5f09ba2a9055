CONSTANTS
    Keys = {k1}
    NoKey = NoKey
    Requests = {r1, r2}
    Traffic <- Kinds
    MaxCost = 1
    Limit <- BothLimits
    WeekLen = 1
    MaxNow = 2
SPECIFICATION Spec
SYMMETRY Symmetry
INVARIANTS
    TypeOK
    LiveUsageDurable
    OverspendBounded
PROPERTIES
    DurableSpec
