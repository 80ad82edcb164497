\* Two connections and three credentials; two windows on one document.
CONSTANTS
    Conns = {c1, c2}
    Docs = {d1}
    Windows = {w1, w2}
    Kinds = {"sql", "net"}
    MaxSecrets = 3
    Missing = Missing
    Local = Local
SYMMETRY ConnectionSymmetry
SPECIFICATION Spec
INVARIANTS
    RemovedIsGone
    FitsUnlessCut
PROPERTY
    DeclineStands
CHECK_DEADLOCK FALSE
