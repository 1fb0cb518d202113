SPECIFICATION FairSpec
CONSTANTS
    w1 = w1
    w2 = w2
    t1 = t1
    b1 = b1
    Runs <- MCRuns
    Workers <- MCWorkers
    Tickers <- MCTickers
    NoRun = NoRun
    MaxAttempts = 2
    MinimumKept = 0
INVARIANTS SucceededIsStored NothingStranded
PROPERTY EveryRunEnds
