SPECIFICATION TaskSpec
CONSTANTS
    Size = 2
    Tasks = 1
    loopBreaker = 5
    Losses = 1
    Deadlocks = 0
CHECK_DEADLOCK FALSE
INVARIANT AllOrNothing
