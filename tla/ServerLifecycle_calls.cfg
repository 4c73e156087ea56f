SPECIFICATION FairSpec
CONSTANTS
    Servers = {s1}
    Threads = {t1, t2}
    NoServer = NoServer
    MaxSets = 2
INVARIANTS
    ServerOutlivesRunThread
    StartEventAlive
    StartResultIsTrue
PROPERTIES
    StartReturns
    StopReturns
