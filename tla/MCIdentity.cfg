\* Two files at two places, two ids, two windows before a restart.
CONSTANTS
    Paths = {p1, p2}
    Modes = {"vault", "embedded"}
    Tiers = {"kv"}
    MaxFiles = 2
    MaxIds = 2
    MaxReaders = 2
    NoFile = NoFile
    NoDoc = NoDoc
SYMMETRY PathSymmetry
SPECIFICATION Spec
INVARIANTS
    TypeOK
    NoSilentSharing
    MemoryFollowsFile
    AskedOnce
CHECK_DEADLOCK FALSE
