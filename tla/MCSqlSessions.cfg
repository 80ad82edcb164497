\* Two windows on one document and its connection, which may go and come back.
CONSTANTS
    Conns = {c1}
    Docs = {d1}
    Windows = {w1, w2}
    Missing = Missing
SPECIFICATION Spec
INVARIANTS
    NoForeignTx
PROPERTIES
    StatementsEnd
    QuietCloseEndsSession
CHECK_DEADLOCK FALSE
