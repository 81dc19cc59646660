SPECIFICATION FairSpec
CONSTANTS
    btc = btc
    doge = doge
    short = short
    long = long
    Symbols = {btc, doge}
    Known = {btc}
    TargetTFs = {short}
    Step <- MCStep
    StrictMax = 2
    CoverNum = 2
    CoverDen = 3
    MaxCatchup = 2
    MaxMinute = 2
    MaxFaults = 1
    MaxSweeps = 1
INVARIANTS
    TypeOK
    AnnouncedIsStored
    LossAccounted
PROPERTIES
    HeldSettles
    ImplementsCandleFeed
CHECK_DEADLOCK FALSE
