CONSTANTS
    Tabs = {a, b}
    Keys = {"k1"}
    MaxMoves = 3
SPECIFICATION FairSpec
CHECK_DEADLOCK FALSE
INVARIANTS
    FiltersAsAsked
    QuietShowsAsked
PROPERTIES
    LoadingEnds
