SPECIFICATION IdsSpec
CONSTANTS
    MapThread = {w1, w2}
    MaxId = 6
    Chunk = 2
    Word = 4
    DbId = {1, 3, 5}
SYMMETRY Symmetry
CHECK_DEADLOCK FALSE
INVARIANTS
    
    IssuedIsMarked
