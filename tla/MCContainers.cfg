SPECIFICATION Spec
CONSTANTS
    Projects <- MCProjects
    SigningKeys = {"key"}
    Passes = {"a"}
    Slots = {"work"}
    Keys = {"k1", "k2"}
    Weight <- MCWeight
    MaxEntries = 9
    Budget = 40
    MaxRatio = 2
    Grace = 2
    MaxDepth = 3
    Lower <- MCLower
    Hidden = {".git"}
    PoidFiles = {"old.poid"}
    cli = cli
    reader = reader
    Programs = {cli, reader}
    Stdlib <- MCStdlib
    MaxIds = 1
    MaxEdits = 3
INVARIANTS
    AlwaysConforms
    NothingProhibited
    DataKept
    ConsentCovers

SYMMETRY Symmetry
CHECK_DEADLOCK FALSE
