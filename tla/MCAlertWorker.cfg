SPECIFICATION FairSpec
CONSTANTS
    h1 = h1
    h2 = h2
    ann = ann
    bob = bob
    Hits = {h1, h2}
    Subs <- MCSubs
    UserOf <- MCUserOf
    Limit = 2
    MaxTries = 2
    MaxFaults = 2
    MaxWindows = 1
INVARIANTS
    NotSentTwice
    WithinLimit
    LeakHealsOnNextCall
PROPERTIES
    EndsServed
CHECK_DEADLOCK FALSE
