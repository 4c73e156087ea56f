SPECIFICATION Spec
CONSTANTS
    Protos <- MCProtos
    WellKnown <- MCWellKnown
    Finalizers = {complete, run}
    StackDepth = 4
    NoMessage = NoMessage
CHECK_DEADLOCK FALSE
INVARIANTS
    LayoutIsSound
    CrashOnlyIfMalformed
