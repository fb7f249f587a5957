SPECIFICATION Spec
CONSTANTS
    Last = 2
    Sessions = {s1, s2}
    Places = {p1}
    Bosses = {m1}
    None = None
SYMMETRY Symmetry
INVARIANT ChangesLeaveNoGap
CHECK_DEADLOCK FALSE
