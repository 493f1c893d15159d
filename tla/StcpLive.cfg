SPECIFICATION FairSpec
CHECK_DEADLOCK FALSE
CONSTANTS
    STCP_MSS = 1
    RECEIVER_WINDOW_SIZE = 3
    SeqMod = 4
    InitialSeqNums = {3}
    WriteSizes = {1}
    ReadSizes = {1}
    MaxBytes = 1
    Mortal = {"passive"}
PROPERTIES
    CloseCompletes
    WritesArrive
    
