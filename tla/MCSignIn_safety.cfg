SPECIFICATION FairSpec
CONSTANTS
    m1 = m1
    u = u
    v = v
    me = me
    reports = reports
    Employees = {e1}
    Subjects = {u, v}
    Mails = {m1}
    ClaimOf <- Claims
    Asks <- TwoOfOne
    None = None
    MaxWrites = 1
PROPERTIES BoundForGood LeaverShutOut SignInSettles
CHECK_DEADLOCK FALSE
