SPECIFICATION DataSpec
CONSTANTS
    CandleOrder <- OneInterval
    Period <- TwoAndThree
    CacheTTL = 2
    MaxDataAge = 1
    MaxRetries = 2
    MaxClock = 3
    MaxCalls = 2
    None = None
    Threads = {t1, t2}
    MaxStale = 0
    MaxTries = 2
    Histories <- NoneOrGapOrAll
    FirstDay = 2
    MaxDay = 3
    Absent = Absent
    Methods = {"get_stock_data", "get_indicators", "get_macro_indicators",
               "get_verified_market_snapshot", "get_fundamentals", "get_news"}
    Configs <- DefaultOrYahoo
    PathSets <- OneAtATime
    MaxToolCalls = 2
INVARIANTS
    DataTypeOK
    PartsWithinTTL
    StaleVerdict
    ServedFits
    PoisonOnlyByCrash
    VerdictIsWarranted
PROPERTY
    EveryCallReturns
CHECK_DEADLOCK FALSE
