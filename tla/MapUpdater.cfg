SPECIFICATION FairSpec
CONSTANTS
    BaseMap = {m1, m2}
    InstanceMap = {i1, i2}
    Worker = {w1, w2}
    NoMap = NoMap
    HighWaterMark = 2
CHECK_DEADLOCK FALSE
INVARIANTS
    WorldOwnsMaps
    OneUpdatePerMap
PROPERTIES
    ImplementsBarrier
    TickEnds
