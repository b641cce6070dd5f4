CONSTANTS
    NULL = NULL
    p1 = p1
    p2 = p2
    p3 = p3
    Players = {p1, p2, p3}
    BgIds = {1}
    MinPlayersPerTeam = 1
    MaxPlayersPerTeam = 1
    CounterSize = 16
    MaxEvents = 3
    Unreliable = {}
    Race <- MCRace
    Parties <- MCSolo

SPECIFICATION Spec

INVARIANT TeamFits
