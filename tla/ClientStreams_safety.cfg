SPECIFICATION FairSpec
CONSTANTS
    MaxMessages = 2
    UseOccurrence = TRUE
    CopyThrows = TRUE
CHECK_DEADLOCK FALSE
INVARIANTS
    StreamIsDelivered
    StreamOkMeansOk
    HalfClosedOnce
PROPERTY
    WaiterWakes
