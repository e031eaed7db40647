SPECIFICATION AnalysisSpec
CONSTANTS
    scan1 = scan1
    scan2 = scan2
    scan3 = scan3
    EnvKey = EnvKey
    NoKey = NoKey
    Procs = {}
    Pids <- MCPids
    Pid <- NoPid
    MaxRemovals = 1
    MaxFailures = 1
    MaxPowerLosses = 1
    Sides = {"dynamic"}
    Bodies <- IntoBodies
    Variables <- MCVariables
    Functions <- MCFunctions
    MaxText = 4
    MaxVariables = 2
    MaxBytes = 7
    Catalog <- MCCatalog
    Database <- MCDatabase
    MaxScopes = 3
    Texts = {}
    Owners <- MCOwners
    Catalogs = {}
    MaxScans = 3
INVARIANTS
    FoldedIsExecuted
CHECK_DEADLOCK FALSE
