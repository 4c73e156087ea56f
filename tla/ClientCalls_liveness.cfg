SPECIFICATION FairSpec
CONSTANTS
    Calls = {c1}
    Threads = {t1, t2, t3}
    NoCall = NoCall
PROPERTY
    CancelReturns
