\* What documents say of this module and the code does not do: each of these is
\* violated. Run with -continue, or with all but one of them taken out.
SPECIFICATION Spec
CONSTANTS
    Last = 1
    Writable = {1}
    Cards = {c1}
    Lines = {l1, l2}
    MaxPoints = 1
    None = None
    Sessions = {s1, s2}
SYMMETRY Symmetry
INVARIANTS SnapshotAtOneMoment
PROPERTIES ScoresFixed
CHECK_DEADLOCK FALSE
