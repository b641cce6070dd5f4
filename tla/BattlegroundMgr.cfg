CONSTANTS
    NULL = NULL
    p1 = p1
    p2 = p2
    p3 = p3
    Players = {p1, p2, p3}
    BgIds = {1}
    MinPlayersPerTeam = 1
    MaxPlayersPerTeam = 2
    CounterSize = 16
    MaxEvents = 3
    Unreliable = {p1, p3}
    Race <- MCRace
    Parties <- MCParties

SPECIFICATION Spec

INVARIANTS
    InvitedIsExact
    InvitationIsLive
    SlotIsTrue

PROPERTIES
    LateEventIsHarmless
    InvitationEnds
    OfflineIsRemoved
