SPECIFICATION Spec
CONSTANTS
    Schema <- MCSchema
    Table <- MCTable
    Tried <- MCTried
    MaxDdl = 2
    MaxFaults = 1
    Vertices <- MCVertices
    Ids <- MCIds
    Dependency <- MCDependency
    Kinds <- MCKinds
    Graphs <- MCGraphs
    PathQueries <- MCPathQueries
    RootQueries <- MCRootQueries
    NoRoot <- MCNoRoot
    MaxRoots = 2
    DeadQueries <- MCDeadQueries
    Start <- MCStart
    Migrations <- MCMigrations
    Plans <- MCPlans
    Whole <- MCWhole
    Days <- MCDays
    MaxMigrations = 2
    MaxWaivers = 1
    Cases <- MCCases
    Guess <- MCGuess
    Rules <- MCRules
    Naming <- MCNaming
    Parts <- MCParts
    Sessions <- MCSessions
    Compiled <- MCCompiled
    Bytes <- MCBytes
    Overlong <- MCOverlong
    Unprintable <- MCUnprintable
    SqlNames <- MCSqlNames
    MaxPath = 3
    MaxRows = 2
    MaxSql = 2
    MaxTotal = 3
    MaxEdits = 1
    Trials <- MCTrials
    Hops = 4
    MaxTroubles = 1
    MaxMoves = 1
    Sites <- FPlace
    QueryName <- FQueryName
    Trees <- FTrees
    Beyond <- FBeyond
    Contents <- FContents
    NotText <- FNotText
    Askable <- FAskable
    Documents <- FDocuments
    MaxBytes = 2
    MaxScans = 2
    MaxChanges = 1
INVARIANTS
    CompleteMeansCollected
    AcceptedIsReal
    PlaintextIsReported
    PathsExact
    RootsExact
    ComponentsExact
    CandidatesExact
    NothingSlipsThrough
    GraphIsTheDocuments
    ReadBackWhole
    ReportsAreHonest
    ImportsAreExact
    ProbesAreSafe
    FilesAttached
CHECK_DEADLOCK FALSE
