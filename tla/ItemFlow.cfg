CONSTANTS
    NULL = NULL
    p1 = p1
    p2 = p2
    p3 = p3
    a = a
    b = b
    loot = loot
    Players = {p1, p2, p3}
    Items = {a, b, loot}
    LootItems = {loot}
    BagSize = 1
    MaxMoney = 1
    TradedCount = 1
    Gold = {0, 1}
    BindOnEquip = {a}
    BindedNotWith = {}
    Owned <- MCOwned
    StartMoney <- MCMoney
    Scenes <- MCScenes

SPECIFICATION Spec

INVARIANTS
    TradeIsMutual
    OneOwner
    DiskFollows
    RollIsSound

PROPERTIES
    AcceptStands
    
    

\* Everybody may have logged out.
CHECK_DEADLOCK FALSE
