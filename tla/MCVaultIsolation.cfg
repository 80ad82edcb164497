CONSTANTS
    Windows = {w1}
    Slots = {s0, s1}
    DefaultSlot = s0
    Keys = {k1}
    Lens = {1}
    Quota = 9
    MaxQueue = 2
    Tiers = {"kv", "sql"}
SPECIFICATION Spec
INVARIANT SlotIsolation
