SPECIFICATION Spec
CONSTANTS
    Keys = {"BTC 1m", "BTC 5m"}
    NoKey = "none"
    Views = {"candles", "price", "signals", "hits"}
    PerDay = 2
    MaxHits = 2
    SeenCap = 2
    MaxLive = 2
    MaxItems = 3
    MaxFaults = 1
    MaxMoves = 2
    Sessions <- MCSessions
    NoSession = "none"
    MaxAsked = 2
    MaxVisits = 2
    MaxDown = 1
INVARIANTS
    
    ChatInSession
PROPERTIES
    ChangeWithinDay
    Reconnects
CHECK_DEADLOCK FALSE
