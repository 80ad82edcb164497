\* Progress: three callers keep opening transactions ahead of each other.
CONSTANTS
    Clients = {c1, c2, c3}
    Tokens = {t1, t2, t3}
    Writes = {}
    Flushers = {}
    Ops = {"begin", "commit"}
    Texts = {}
    NoTx = NoTx
SPECIFICATION FairSpec
PROPERTIES
    AbandonedTxEnds
    CallsAreAnswered
