CONSTANTS
    Ids <- OneKey
    Secrets = {s1, s2}
    Plans = {p1}
    Policies = {c1}
    None = None
    Patches = {h1}
    Learners = {}
SPECIFICATION Spec
INVARIANTS
    RevokedInvalid
