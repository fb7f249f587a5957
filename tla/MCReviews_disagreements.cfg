\* What documents say of this module and the code does not do: each of these is
\* violated. Run with -continue, or with all but one of them taken out.
SPECIFICATION Spec
CONSTANTS
    Self = e
    Supervisors = {b1, b2}
    Sessions = {s1, s2}
    Answers = {x1}
    Null = Null
    Ratings = {q1}
    None = None
    MaxAttainment = 1
SYMMETRY Symmetry
INVARIANTS SignedReviewsFinal
PROPERTIES AnswersFrozen SignedWhenComplete SignedOnce SupervisorRated ScoreOfAnswers
CHECK_DEADLOCK FALSE
