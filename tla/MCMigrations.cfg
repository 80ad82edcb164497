SPECIFICATION Spec
CONSTANTS
    Scripts = {1, 3}
    Releases <- ThreeReleases
INVARIANTS
    TypeOK
    StoredAgrees
    ReadyIsCurrent
    NoRerun
