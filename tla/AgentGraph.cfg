SPECIFICATION DisplaySpec
CONSTANTS
    Setups <- SomeSetups
INVARIANTS
    TypeOK
    BalancedDebate
    BalancedRisk
    OwnMessagesOnly
    StepBudget
    CompletedIsDone
    TrackerAgrees
PROPERTIES
    NeverReopened
    Terminates
CHECK_DEADLOCK FALSE
