\* One window that switches slots while its application writes.
CONSTANTS
    Windows = {w1}
    Slots = {s0, s1}
    DefaultSlot = s0
    Keys = {k1}
    Lens = {1, 2}
    Quota = 4
    MaxQueue = 2
    Tiers = {"kv"}
SPECIFICATION Spec
INVARIANTS
    TypeOK
    OnlyLateStray
    MirrorIsAhead
    SwitchDrains
    WithinQuota
