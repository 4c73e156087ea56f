SPECIFICATION Spec
CONSTANTS
    W32 = 16
    W64 = 24
    NoOneof = NoOneof
    Double2DArray = "Double2D"
    String2DArray = "String2D"
    Metadata <- MCMetadata
    Enums <- MCEnums
    Exchanged <- MCExchanged
    Clusters <- MCClusters
    PeerMessages <- MCPeerMessages
    TogglesSet <- MCTogglesSet
    MaxNesting = 3
    MaxExchanges = 2
CHECK_DEADLOCK FALSE
INVARIANTS
    ReceivedIsSent
    SentIsReadable
    SliceIsFilled
    PeerIsUnderstood
    UnpackedIsPacked
