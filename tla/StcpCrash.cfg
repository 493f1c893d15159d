SPECIFICATION Spec
CHECK_DEADLOCK FALSE
CONSTANTS
    STCP_MSS = 1
    RECEIVER_WINDOW_SIZE = 3
    SeqMod = 5
    InitialSeqNums = {0, 4}
    WriteSizes = {2}
    ReadSizes = {2}
    MaxBytes = 2
    Mortal = {"active", "passive"}
INVARIANTS
    TypeOK
    Inv
    CleanEof
    FinAckSound
    GracefulDone
    QuiescentClose
PROPERTIES
    StreamSpec
