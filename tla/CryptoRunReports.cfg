SPECIFICATION Spec
CONSTANTS
    None = None
    FailedFetch = FailedFetch
    NoStrategy = NoStrategy
    Tickers = {"BTC", "ETH"}
    Dates = {"d1", "d2"}
    Strategies = {"balanced", "derivatives"}
    Requests <- SomeRequests
    GraphStrategy = NoStrategy
    DefaultStrategy = "balanced"
    CheckpointEnabled = TRUE
    MaxRuns = 2
    MaxMoves = 1
INVARIANTS
    ReportsFromOwnSnapshot
CHECK_DEADLOCK FALSE
