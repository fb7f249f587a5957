SPECIFICATION Spec
CONSTANTS
    Goals = {g1}
    People = {p1,p2,p3}
    None = None
    Sessions = {s1, s2}
    Weights = {1, 2}
    Full = 2
    MaxEdits = 1
    MaxActual = 1
    MaxChanges = 2
SYMMETRY Symmetry
ACTION_CONSTRAINT Small
INVARIANTS GateKept SignaturesFitState MailTruthful
PROPERTIES OutcomeStands FrozenButForLate
CHECK_DEADLOCK FALSE
