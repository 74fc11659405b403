SPECIFICATION Spec
CONSTANTS
    None = None
    Procs = {"p1", "p2"}
    Instruments = {"BTC", "ETH"}
    SnapshotIds = {"s1", "s2", "s3", "s4"}
    Requests <- DeskRequests
    StartingBalance = 1512000
    FeeBps = 5
    SlippageBps = 20
    MaxLots = 6
INVARIANTS
    NetPosition
    ProfitIdentity
    ReportAddsUp
