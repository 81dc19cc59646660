SPECIFICATION Spec
CONSTANTS
    btc = btc
    doge = doge
    short = short
    long = long
    Symbols = {btc}
    Known = {btc}
    TargetTFs = {short}
    Step <- MCStep
    StrictMax = 2
    CoverNum = 1
    CoverDen = 2
    MaxCatchup = 2
    MaxMinute = 6
    MaxFaults = 0
    MaxSweeps = 1
INVARIANTS
    SparseWindowIsRetried
CHECK_DEADLOCK FALSE
