SPECIFICATION Spec
CONSTANTS
    None = None
    Procs = {"p1", "p2"}
    Instruments = {"BTC"}
    SnapshotIds = {"s1", "s2"}
    Requests <- RacingRequests
    StartingBalance = 1440000
    FeeBps = 5
    SlippageBps = 20
    MaxLots = 6
INVARIANTS
    NetPosition
