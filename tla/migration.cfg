CONSTANTS
    Runs = {r1, r2, r3}
    Plugin = Plugin
    NoFile = NoFile
SPECIFICATION MigrationSpec
SYMMETRY Symmetry
INVARIANTS
    VisibleComplete
    SuccessDurable
    NoLitter
PROPERTIES
    NeverReplaced
