SPECIFICATION Spec
CONSTANTS
    a = a
    b = b
    User = User
    NoFile = NoFile
    Link = Link
    NoName = NoName
    Proc <- MCProc
    Name <- MCName
    Scenario <- MCScenario
    MaxMoves = 1
    MaxFaults = 1
    MaxSignals = 2
INVARIANTS
    NothingHalfPublished
    StatusIsHonest
PROPERTIES
    FilesAreFinal
    SecondSignalEnds
CHECK_DEADLOCK FALSE
