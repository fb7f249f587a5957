\* What documents say of this module and the code does not do: each of these is
\* violated. Run with -continue, or with all but one of them taken out.
SPECIFICATION RelayUpSpec
CONSTANTS
    Recipients = {alice}
    Nobody = nobody
    Keys = {k}
    NoKey = noKey
    Workers = {w1}
    Batch = 1
    GiveUp = 2
    MaxQueued = 2
    MaxRows = 3
    MaxFaults = 0
INVARIANTS OnePerMilestone NoReclaimInProgress DigestCovers
PROPERTY HeldDelivered
CHECK_DEADLOCK FALSE
