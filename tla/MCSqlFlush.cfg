\* Write-behind: one caller with every kind of SQL text, and a flush.
CONSTANTS
    Clients = {c1}
    Tokens = {t1, t2}
    Writes = {w1}
    Flushers = {f1}
    Ops = {"exec", "begin", "commit", "rollback"}
    Texts = {"write", "BEGIN", "COMMIT", "ROLLBACK"}
    NoTx = NoTx
SPECIFICATION Spec
INVARIANTS
    TypeOK
    UnsavedIsQueued
    CleanMeansDurable
    CalmFlushDrains
PROPERTY ImplementsStore
