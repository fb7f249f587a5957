\* What documents say of this module and the code does not do: each of these is
\* violated. Run with -continue, or with all but one of them taken out.
SPECIFICATION Spec
CONSTANTS
    Goals = {g1}
    People = {p1, p2}
    None = None
    Sessions = {s1}
    Weights = {1, 2}
    Full = 2
    MaxEdits = 1
    MaxActual = 0
    MaxChanges = 1
SYMMETRY Symmetry
INVARIANTS NoteClearedOnResubmit SignatureCurrent ApproverNamed RefusalExplained
PROPERTIES LockedWeightsChecked LockedSetFrozen ClosedFrozen ApprovalTold
CHECK_DEADLOCK FALSE
