SPECIFICATION TaskSpec
CONSTANTS
    Size = 2
    Tasks = 3
    loopBreaker = 2
    Losses = 2
    Deadlocks = 2
CHECK_DEADLOCK FALSE
INVARIANTS
    LossIsConfined
    
