SPECIFICATION AnalysisSpec
CONSTANTS
    scan1 = scan1
    scan2 = scan2
    scan3 = scan3
    EnvKey = EnvKey
    NoKey = NoKey
    Procs <- MCProcs
    Pids <- MCPids
    Pid <- MCPid
    MaxRemovals = 1
    MaxFailures = 1
    MaxPowerLosses = 1
    Sides <- MCSides
    Bodies <- MCBodies
    Variables <- MCVariables
    Functions <- MCFunctions
    MaxText = 4
    MaxVariables = 2
    MaxBytes = 7
    Catalog <- MCCatalog
    Database <- MCDatabase
    MaxScopes = 3
    Texts <- MCTexts
    Owners <- MCOwners
    Catalogs <- MCCatalogs
    MaxScans = 3
SYMMETRY PidSymmetry
INVARIANTS
    FoldedIsExecuted
    LimitIsReported
    EffectsAreReal
    CompleteIsWhole
    WarmAgrees
    PublishedKeyWhole
    OneKey
    EntriesWhole
    TempsBelong
    RaceKeepsCache
CHECK_DEADLOCK FALSE
