SPECIFICATION Spec
CONSTANTS
    btc = btc
    doge = doge
    short = short
    long = long
    Symbols = {btc}
    Known = {btc}
    TargetTFs = {short}
    Step <- MCStep
    StrictMax = 1
    CoverNum = 1
    CoverDen = 2
    MaxCatchup = 2
    MaxMinute = 6
    MaxFaults = 2
    MaxSweeps = 0
INVARIANTS
    HigherRowsSound
PROPERTIES
    HigherTFsInOrder
    NoWindowSkipped
CHECK_DEADLOCK FALSE
