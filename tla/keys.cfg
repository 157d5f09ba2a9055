CONSTANTS
    Ids <- TwoKeys
    Secrets = {s1, s2}
    Plans = {p1}
    Policies = {c1}
    None = None
    Patches = {h1}
    Learners = {t1}
SPECIFICATION Spec
SYMMETRY Symmetry
INVARIANTS
    TypeOK
    MemorySaved
    PreviewHonest
    RevokedStaysDead
    BindingsKept
