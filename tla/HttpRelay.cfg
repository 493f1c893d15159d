SPECIFICATION Spec
CHECK_DEADLOCK FALSE
CONSTANTS
    Clients = {c1, c2}
    Requests <- SmallRequests
    Responses <- SmallResponses
    BufferSize = 3
INVARIANT
    RelaysResponse
