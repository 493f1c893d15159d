SPECIFICATION Spec
CHECK_DEADLOCK FALSE
CONSTANTS
    STCP_MSS = 2
    RECEIVER_WINDOW_SIZE = 3
    SeqMod = 6
    InitialSeqNums = {5}
    WriteSizes = {2, 3}
    ReadSizes = {1, 2}
    MaxBytes = 3
    Mortal = {}
INVARIANTS
    DeliveredInOrder
    NeverOutOfOrder
