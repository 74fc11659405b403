SPECIFICATION Spec
CONSTANTS
    None = None
    Procs = {"p1"}
    CryptoTickers = {"BTC"}
    StockTickers = {"NVDA"}
    MaxEntries = 2
    SameLessons = 1
    CrossLessons = 1
    HoldingDays = 1
    DayLength = 3
    MaxHours = 5
    MaxDecisions = 3
INVARIANTS
    TypeOK
    OwnOutcome
    DueIsResolved
    ToldTheNewest
PROPERTIES
    PendingNeverPruned
    ImplementsJournal
