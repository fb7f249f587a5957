SPECIFICATION DaysSpec
CONSTANTS
    Recipients = {alice}
    Nobody = nobody
    Keys = {k}
    NoKey = noKey
    Workers = {w1, w2}
    Batch = 2
    GiveUp = 2
    MaxQueued = 2
    MaxRows = 3
    MaxFaults = 1
INVARIANTS DuplicateOnlyIfSuspect SentWasDelivered
PROPERTIES Settles QueuedDelivered
CHECK_DEADLOCK FALSE
