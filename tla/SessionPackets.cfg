SPECIFICATION PacketFairSpec
CONSTANTS
    Kinds <- MCKinds
    MaxPackets = 3
INVARIANTS
    OnePlace
    OvertakenOnlyIfDelayed
    LoginMeansNoPlayer
PROPERTIES
    MapKeepsPlayer
    UpdateEnds
    NotBlocked
CHECK_DEADLOCK FALSE
