SPECIFICATION FairSpec
CONSTANTS
    Configs <- MCConfigs
    StrategyOf <- MCStrategyOf
    Models = {3}
    Emits <- MCEmits
    HistoryBars = 2
    MaxLag = 1
    MaxBatch = 2
    Ttl = 3
    MaxBar = 4
    MaxFaults = 1
INVARIANTS
    StoredOnce
    
PROPERTIES
    JobsEnd
CHECK_DEADLOCK FALSE
