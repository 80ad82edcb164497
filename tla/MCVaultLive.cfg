\* Both tiers: the application keeps clearing its store and changing its
\* database while the switch drains.
CONSTANTS
    Windows = {w1}
    Slots = {s0, s1}
    DefaultSlot = s0
    Keys = {}
    Lens = {}
    Quota = 0
    MaxQueue = 1
    Tiers = {"kv", "sql"}
SPECIFICATION FairSpec
INVARIANT OnlyLateOverwrites
PROPERTY SwitchEnds
