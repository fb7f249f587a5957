\* README, section 7: an action that is taken back while its lesson completes.
SPECIFICATION DevSpec
CONSTANTS
    e = e
    m = m
    pm = pm
    DevPlans = {pm}
    Places = {n1}
    Resources = {r1}
    People = {e, m}
    OwnerOf <- Owners
    Covers <- Covered
    Days = {d1, d2}
    Null = Null
    Requests = {s1, s2}
SYMMETRY Symmetry
PROPERTY LearningCloses
