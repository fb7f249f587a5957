SPECIFICATION DevSpec
CONSTANTS
    e = e
    m = m
    pm = pm
    DevPlans = {pm}
    Places = {n1}
    Resources = {r1}
    People = {e, m}
    OwnerOf <- Owners
    Covers <- Covered
    Days = {d1, d2}
    Null = Null
    Requests = {s1, s2}
SYMMETRY Symmetry
INVARIANTS DriftOnlyByHand
PROPERTY FollowsLifecycle
