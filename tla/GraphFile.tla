------------------------------ MODULE GraphFile ------------------------------
(***************************************************************************)
(* The graph written to a file and read back (src/engine/export/src:       *)
(* lib.rs, diagnostics.rs, schema_metadata.rs).  A file is a record of the *)
(* same parts as a graph; what does not fit the vertices read so far is    *)
(* dropped and noted, and the catalogue facts are taken whole or not at    *)
(* all.                                                                    *)
(***************************************************************************)
EXTENDS DocumentGraph

KnownVertexKinds ==
    {"schema", "table", "view", "materialized-view", "sequence", "type",
     "synonym", "column", "index", "constraint", "trigger", "function",
     "procedure", "package", "query"}

KnownEdgeKinds ==
    {"references", "reads", "writes", "calls", "fires", "uses-sequence",
     "uses-type", "contains", "inferred", "derives-from", "depends-on"}

\* The usage that is written is that of the vertices.
Written(g) ==
    [g EXCEPT !.usage =
        [id \in DOMAIN @ \cap DOMAIN g.vertices |-> g.usage[id]]]

\* An owner is what contains a vertex, or what its id says if nothing does.
BelongsTo(g, child, parent) ==
    IF Owners(g, child) = {} THEN StringParent(child) = {parent}
    ELSE Owners(g, child) = {parent}

IsTable(g, id) == IsKind(g, id, {"table", "view", "materialized-view"})

AllBelong(g, columns, table) ==
    \A n \in DOMAIN columns : /\ IsKind(g, columns[n], {"column"})
                              /\ BelongsTo(g, columns[n], table)

IndexFits(g, id, index) ==
    /\ IsKind(g, id, {"index"})
    /\ IsTable(g, index.table)
    /\ BelongsTo(g, id, index.table)
    /\ AllBelong(g, index.columns, index.table)
    /\ index.complete => index.columns /= << >>

ForeignKeyFits(g, id, key) ==
    /\ IsKind(g, id, {"constraint"})
    /\ IsTable(g, key.table)
    /\ BelongsTo(g, id, key.table)
    /\ AllBelong(g, key.columns, key.table)
    /\ \A t \in key.targetTable : /\ IsTable(g, t)
                                  /\ AllBelong(g, key.targetColumns, t)
    /\ key.targetTable = {} => key.targetColumns = << >>
    /\ key.complete => /\ key.columns /= << >>
                       /\ key.targetTable /= {}
                       /\ Len(key.targetColumns) = Len(key.columns)

FactsFit(g, facts) ==
    /\ \A id \in DOMAIN facts.columns : IsKind(g, id, {"column"})
    /\ \A id \in DOMAIN facts.indexes : IndexFits(g, id, facts.indexes[id])
    /\ \A id \in DOMAIN facts.foreignKeys :
          ForeignKeyFits(g, id, facts.foreignKeys[id])

\* The vertices and the edges between them.
ReadVertices(file) ==
    LET known == {id \in DOMAIN file.vertices :
                    file.vertices[id].kind \in KnownVertexKinds}
        edges == {k \in DOMAIN file.edges :
                    k.kind \in KnownEdgeKinds /\ {k.from, k.to} \subseteq known}
    IN  [EmptyGraph EXCEPT
           !.vertices = [id \in known |-> file.vertices[id]],
           !.usage = [id \in known \cap DOMAIN file.usage |-> file.usage[id]],
           !.edges = [k \in edges |-> file.edges[k]],
           !.notes = file.notes \cup
             (IF known = DOMAIN file.vertices THEN {}
              ELSE {<<"unknown vertices dropped">>}) \cup
             (IF edges = DOMAIN file.edges THEN {}
              ELSE {<<"edges dropped">>})]

\* What the analysis said of the vertices and edges that were read.
ReadAnalysis(g, file) ==
    LET analysed == FoldSet(LAMBDA id, h :
                              SetAnalysis(h, id, file.analysis[id]),
                            g, DOMAIN file.analysis)
        origins == UNION {{<<k, o>> : o \in file.origins[k]} :
                            k \in DOMAIN file.origins}
    IN  FoldSet(LAMBDA ko, h : AddOrigin(h, ko[1], ko[2]), analysed, origins)

ReadFacts(g, file) ==
    IF \A facts \in file.metadata : FactsFit(g, facts)
    THEN [g EXCEPT !.metadata = file.metadata]
    ELSE Note(g, <<"invalid schema metadata">>)

Loaded(file) ==
    LET vertices == ReadVertices(file)
    IN  ReadFacts(ReadAnalysis(vertices, file), file)
=============================================================================
