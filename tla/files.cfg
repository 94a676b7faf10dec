SPECIFICATION FairSpec
CONSTANTS
    Transfer = {1, 2}
    Size <- Sizes
    Lengths <- Drifting
    ChunkSize = 2
    Capacity = 2
    Faults = {"cancel", "hangup", "source", "sink"}
INVARIANTS
    TypeOK
    StoredInPlace
    ReceivedIsWhole
    CleanBetweenFiles
    NeverBothWait
PROPERTIES
    DeliverySpec
    TransferCompletes
    HangUpEndsCalls
CHECK_DEADLOCK FALSE
