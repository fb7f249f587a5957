\* What documents say of this module and the code does not do: each of these is
\* violated. Run with -continue, or with all but one of them taken out.
SPECIFICATION Spec
CONSTANTS
    Plans = {p1}
    Slots = {m1}
    Outcomes = {successful, extended}
    SubjectWrites = {}
    None = None
    MaxReviews = 2
    Sessions = {s1, s2}
INVARIANTS CreatedIsFound RefusedOnlyTwice
PROPERTY ReviewedWhileActive
