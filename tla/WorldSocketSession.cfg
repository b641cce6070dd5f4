SPECIFICATION Spec
CONSTANTS
    Sizes = {3}
    Short = 2
    OutBufferSize = 3
    HighWaterMark = 3
    Sessions = {1, 2}
    MaxReceived = 2
    MaxSent = 1
CHECK_DEADLOCK FALSE
INVARIANT SessionIsProtected
