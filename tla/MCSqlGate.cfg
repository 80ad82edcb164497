\* Isolation: two callers race for the gate, with and without tokens.
CONSTANTS
    Clients = {c1, c2}
    Tokens = {t1, t2, t3}
    Writes = {w1}
    Flushers = {}
    Ops = {"exec", "begin", "commit", "snapshot"}
    Texts = {"write", "BEGIN", "COMMIT"}
    NoTx = NoTx
SPECIFICATION Spec
SYMMETRY Symmetry
INVARIANTS
    GateMatchesConnection
    NoDirtyRead
    PersistedWasCommitted
    SnapshotIsClean
