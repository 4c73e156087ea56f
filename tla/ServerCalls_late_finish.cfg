SPECIFICATION Spec
CONSTANTS
    Calls = {c1, c2}
    Threads = {t1}
    NoCall = NoCall
PROPERTY
    NoFinishAfterShutdown
