CONSTANTS
    Numbers = {0, 1, 2}
    Unquoted <- MCUnquoted
    NotImplemented <- MCNotImplemented
    Ids = {"e1", "e2", "e+1"}
    Types = {"T1", "T2"}
    Attrs = {"a", "b"}
    Times = {1, 2}
    MaxRequests = 2
    Regex <- MCRegex
    Creations <- MCCreations
    Updates <- MCUpdates
    Paths <- MCPaths
SPECIFICATION Spec
INVARIANTS
    
    CacheDecidesAsQuery
    FilterDecidesAsQuery
