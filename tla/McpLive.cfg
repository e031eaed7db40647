SPECIFICATION FairSpec
CONSTANTS
    i1 = i1
    i2 = i2
    NoId = NoId
    Ids <- MCIds
    MaxOutstanding = 2
    MaxLines = 3
PROPERTIES
    RequestsResolved
    ServerStops
