SPECIFICATION Spec
CONSTANTS
    i1 = i1
    i2 = i2
    NoId = NoId
    Ids <- MCIds
    MaxOutstanding = 2
    MaxLines = 4
SYMMETRY IdSymmetry
INVARIANTS
    RegistryMatchesWork
    CancelledStaysSilent
    NothingUnexpected
    DrainedAtExit
PROPERTIES
    ImplementsRequests
