SPECIFICATION FairSpec
CONSTANTS
    t1 = t1
    t2 = t2
    t3 = t3
    ann = ann
    price = price
    Turns = {t1, t2, t3}
    UserOf <- MCUserOf
    Foreign = {t3}
    Facts = {price}
    Texts <- MCTexts
    NoWords = ""
    FactsIn <- MCFactsIn
    Advice = {"buy now"}
    MaxRounds = 2
    DailyQuota = 4
    RateLimit = 1
    MaxFaults = 1
INVARIANTS
    SurfacedIsChecked
    CallsWithinQuota
    ChatterOnlyWhenSpent
PROPERTIES
    EndsSaved
CHECK_DEADLOCK FALSE
