SPECIFICATION FairSpec
CONSTANTS
    m1 = m1
    m5 = m5
    a = a
    b = b
    c = c
    d = d
    Jobs = {a, b, c, d}
    JobTf <- MCTf
    JobTs <- MCTs
    Rules <- MCRules
    RuleTfs <- MCRuleTfs
    Firing <- MCFiring
    TFs = {m1, m5}
    MaxTs = 2
    Session = {1}
    MaxFaults = 1
INVARIANTS
    FannedOutOnce
    KeyImpliesRow
    UnalertedAccounted
PROPERTIES
    EndsRecorded
CHECK_DEADLOCK FALSE
