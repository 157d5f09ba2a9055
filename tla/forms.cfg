CONSTANTS
    Models = {m1, m2}
    Priced = {m1}
    None = None
    MaxClicks = 6
    MaxHistory = 4
SPECIFICATION Spec
CHECK_DEADLOCK FALSE
INVARIANTS
    TypeOK
    
    PlanNotWrittenBack
    TickedIsListed
    SecretIsShown
