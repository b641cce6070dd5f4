SPECIFICATION FairSpec
CONSTANTS
    Worker = {w1, w2}
    Synch = {c1, c2}
    Thread = {t1, t2, t3}
    NoThread = NoThread
    Ops = 4
CHECK_DEADLOCK FALSE
INVARIANTS
    ExecutedOnce
    DelayedInOrder
PROPERTIES
    WaitsEnd
