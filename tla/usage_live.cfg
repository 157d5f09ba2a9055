CONSTANTS
    Keys = {k1}
    NoKey = NoKey
    Requests = {r1, r2}
    Traffic = {"per_call"}
    MaxCost = 1
    Limit <- DailyLimitOnly
    WeekLen = 2
    MaxNow = 1
SPECIFICATION FairSpec
PROPERTIES
    ChargesDecided
    ErasureReachesDisk
