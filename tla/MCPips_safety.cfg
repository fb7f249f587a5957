SPECIFICATION Spec
CONSTANTS
    Plans = {p1}
    Slots = {m1, m2}
    Outcomes = {successful, extended}
    SubjectWrites = {p1}
    None = None
    MaxReviews = 2
    Sessions = {s1, s2, s3}
INVARIANTS
    LateReviewsInFlight
PROPERTIES
    ImplementsLifecycle

