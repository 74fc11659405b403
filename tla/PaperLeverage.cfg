SPECIFICATION Spec
CONSTANTS
    None = None
    Procs = {"p1"}
    Instruments = {"BTC"}
    SnapshotIds = {"s1", "s2", "s3"}
    Requests <- LeverageRequests
    StartingBalance = 2880000
    FeeBps = 5
    SlippageBps = 20
    MaxLots = 6
INVARIANTS
    MarginConservation
