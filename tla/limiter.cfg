CONSTANTS
    Ids = {k1}
    Threads = {t1, t2}
    Rpms = {0, 1, 2}
    Minute = 2
    MaxWall = 3
    MaxGrants = 7
SPECIFICATION Spec
SYMMETRY Symmetry
INVARIANTS
    TypeOK
    BurstBounded
PROPERTIES
    DenialJustified
