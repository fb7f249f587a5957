SPECIFICATION Spec
CONSTANTS
    Self = e
    Supervisors = {b1, b2}
    Sessions = {s1, s2}
    Answers = {x1}
    Null = Null
    Ratings = {q1}
    None = None
    MaxAttainment = 1
SYMMETRY Symmetry
ACTION_CONSTRAINT OneAtATime
INVARIANTS SubmittedScored
PROPERTIES RatingsFinal NoQuietUnsubmit FrozenButForLateSaves
CHECK_DEADLOCK FALSE
