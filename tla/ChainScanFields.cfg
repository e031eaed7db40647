SPECIFICATION WorkSpec
CONSTANTS
    Vertices <- MCVertices
    Ids <- MCIds
    Dependency <- MCDependency
    Kinds <- MCKinds
    Graphs <- NoGraphs
    Queries <- MCQueries
    MaxInfix = 1
    MaxSet = 1
    Texts <- FieldTexts
    AlsoNames <- SetNames
INVARIANT
    NeverUndercounts
CHECK_DEADLOCK FALSE
