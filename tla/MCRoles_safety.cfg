SPECIFICATION Spec
CONSTANTS
    People = {p1, p2, p3, p4}
    Nobody = nobody
    MaxDepth = 2
    Hands = {h1, h2}
    LastDay = 2
    MaxMoves = 1
SYMMETRY Symmetry
ACTION_CONSTRAINT TwoInPairs
INVARIANTS SeesOwnTree
PROPERTIES HistoryKept
