CONSTANTS
    Ids = {k1, k2}
    NoId = NoId
    Plans = {p1}
    NoPlan = NoPlan
    MaxEvents = 3
SPECIFICATION Spec
SYMMETRY Symmetry
CHECK_DEADLOCK FALSE
INVARIANTS
    QuietListIsServer
    BlockedByCalls
    ConfirmedRunsAlone
    PlainInForce
PROPERTIES
    PlainKept
