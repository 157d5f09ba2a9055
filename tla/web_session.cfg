CONSTANTS
    Keys = {a, b}
    PanelKeys = {a}
    Secrets = {m}
    NoKey = NoKey
    MaxMoves = 2
    MaxRequests = 1
    MaxChanges = 1
SPECIFICATION FairSpec
CHECK_DEADLOCK FALSE
INVARIANTS
    ShownInForce
    VerifiedAsItself
PROPERTIES
    AnswersSignNobodyIn
    RestoringEnds
