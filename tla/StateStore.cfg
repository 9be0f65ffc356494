CONSTANTS
    Clients = {a, b}
    Keys = {k1, k2}
    Values <- MCValues
    Absent = Absent
    Malformed = Malformed
    Missing = Missing
    Size <- MCSize
    Foreign = {0, 1, 2}
    Limit = 2
    Steps = 3
SPECIFICATION FairSpec
INVARIANT TypeOK
PROPERTIES
    MalformedIsKept
    WritesFit
    EntriesSurvive
    ImplementsDurableStore
    OperationsReturn
