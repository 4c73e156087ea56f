SPECIFICATION FairSpec
CONSTANTS
    Calls = {c1, c2}
    Threads = {t1, t2}
    NoCall = NoCall
PROPERTIES
    StopServerReturns
    IoReturnsAfterStop
