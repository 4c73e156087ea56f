SPECIFICATION Spec
CONSTANTS
    Calls = {c1, c2}
    Threads = {t1, t2, t3}
    NoCall = NoCall
SYMMETRY Symmetry
INVARIANTS
    ActiveCallsAlive
    TaskKeepsCall
    RunningCallCancellable
    ReportedOkMeansOk
    SignalLostOnlyIfCancelled
