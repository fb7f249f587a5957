SPECIFICATION Spec
CONSTANTS
    Last = 2
    Sessions = {s1, s2}
    Places = {p1, p2}
    Bosses = {m1}
    None = None
SYMMETRY Symmetry
INVARIANTS LineUnbroken
PROPERTIES HistoryKept GapsAreStale SeparationStands
CHECK_DEADLOCK FALSE
