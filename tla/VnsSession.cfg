SPECIFICATION FairSpec
CHECK_DEADLOCK FALSE
CONSTANTS
    Width = 2
    Names = {"eth1", "eth2"}
    MaskValue <- LittleEndian
    BadLine = BadLine
    Files <- SmallFiles
    Hardware <- Interfaces
    LengthSize = 2
    MaxLength = 4
    MaxCommands = 4
    Backlog = 2
INVARIANTS
    FramesIntact
    RoutesVerified
    LongestPrefix
PROPERTIES
    CommandsHandled
