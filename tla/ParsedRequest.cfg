SPECIFICATION RequestSpec
CONSTANTS
    Keys = {"Host", "Joined", "Accept"}
    Values = {"a", "bc"}
    NULL = "NULL"
    DEFAULT_NHDRS = 2
    Joined = "Joined"
    NoColon = NoColon
    RequestLines <- WithAndWithoutPort
    HeaderLines <- FewLines
    Strlen <- Lengths
    MaxHeaders = 4
INVARIANTS
    InBounds
    IsMap
    FreedOnce
    UnparseExact
