SPECIFICATION Spec
CONSTANTS
    Users = {"ann", "bob"}
    Targets = {"chat"}
    Scopes = {"orb 1m", "orb 5m"}
    Params = {"p", "q"}
    MaxRequests = 5
    MaxEdits = 3
    Backtests = {"x", "y"}
    Results = {"r1", "r2"}
    MaxPollFailures = 3
    MaxTrouble = 2
    Equities = {"TCS", "INFY"}
    Quarters = 4
    Lookback = 2
    Delays = {0, 1}
    Retention = 2
    Holidays = {1}
    LastDay = 2
    MaxMissed = 3
INVARIANTS
    SessionStored
CHECK_DEADLOCK FALSE
