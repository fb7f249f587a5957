SPECIFICATION Spec
CONSTANTS
    Last = 2
    Writable = {1, 2}
    Cards = {c1}
    Lines = {l1, l2}
    MaxPoints = 1
    None = None
    Sessions = {s1, s2}
ACTION_CONSTRAINT OnlyFirstScored
SYMMETRY Symmetry
INVARIANTS TargetOfLines AwardedIsSum SubjectToldTotal
PROPERTIES AcknowledgedFinal
CHECK_DEADLOCK FALSE
