SPECIFICATION Spec
CONSTANTS
    Schema <- MCSchema
    Table <- MCTable
    Tried = {}
    MaxDdl = 2
    MaxFaults = 1
    Vertices <- MCVertices
    Ids <- MCIds
    Dependency <- MCDependency
    Kinds <- MCKinds
    Graphs = {}
    PathQueries = {}
    RootQueries = {}
    NoRoot <- MCNoRoot
    MaxRoots = 2
    DeadQueries = {}
    Start <- MCStart
    Migrations <- MCMigrations
    Plans = {}
    Whole <- MCWhole
    Days <- MCDays
    MaxMigrations = 2
    MaxWaivers = 1
    Cases = {}
    Guess <- MCGuess
    Rules <- MCRules
    Naming <- MCNaming
    Parts <- MCParts
    Sessions = {}
    Compiled <- MCCompiled
    Bytes <- MCBytes
    Overlong <- MCOverlong
    Unprintable <- MCUnprintable
    SqlNames <- MCSqlNames
    MaxPath = 3
    MaxRows = 2
    MaxSql = 2
    MaxTotal = 3
    MaxEdits = 1
    Trials = {}
    Hops = 4
    MaxTroubles = 1
    MaxMoves = 1
    Sites <- FPlace
    QueryName <- FQueryName
    Trees <- FTrees
    Beyond <- FBeyond
    Contents <- FContents
    NotText <- FNotText
    Askable <- FAskable
    Documents <- FDocuments
    MaxBytes = 2
    MaxScans = 2
    MaxChanges = 1
INVARIANT
    NothingForeign
CHECK_DEADLOCK FALSE
