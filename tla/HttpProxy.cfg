SPECIFICATION FairSpec
CHECK_DEADLOCK FALSE
CONSTANTS
    Clients = {c1, c2}
    Requests <- SmallRequests
    Responses <- SmallResponses
    BufferSize = 3
INVARIANTS
    
    NoneForgotten
    NoSocketKept
PROPERTIES
    ChildrenReaped
    ConnectionsEnd
