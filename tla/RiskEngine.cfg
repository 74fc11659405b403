SPECIFICATION Spec
CONSTANTS
    None = None
    Proposals <- SomeProposals
    Snapshots <- SomeSnapshots
    RiskPerTrade = 10000
    MaxLeverage = 300
    MaxPosition = 100000
    MinRewardRisk = 150
    MaxSpread = 30
    MaxDataAge = 1
    MaxWait = 2
INVARIANTS
    TypeOK
    ApprovesExactlySoundTrades
    LossWithinBudget
    OnlyReduces
    RiskierNeverLarger
CHECK_DEADLOCK FALSE
