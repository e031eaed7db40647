----------------------------- MODULE BodyReuse -----------------------------
(***************************************************************************)
(* Reuse of the analysis of SQL bodies from one scan to the next:          *)
(* src/engine/parser/src/cache.rs with the fingerprints of scope.rs and    *)
(* the keys of src/engine/cli/src/cache.rs.                                *)
(*                                                                         *)
(* A scan builds a graph from the catalogue and then, owner by owner in    *)
(* document order, restores a stored result or analyses the body and       *)
(* stores what it found.  Between two scans the catalogue may change.  The *)
(* results of all bodies meet in one graph: an edge may have several       *)
(* authors, and a result is cut out of the graph again when it is stored.  *)
(*                                                                         *)
(* A body reads columns c of relations, writes columns c of relations from *)
(* columns c of others, and may call the function f by its name alone.     *)
(* How files are kept, pruned and trusted is CacheFiles; here any entry    *)
(* may be missing at any time.                                             *)
(***************************************************************************)
EXTENDS Naturals, Sequences, FiniteSets, SequencesExt

CONSTANTS
    Owners,       \* the views and routines with a body, in document order
    Catalogs,     \* what the database may contain
    MaxScans

BodyReuseAssumption ==
    /\ IsInjective(Owners)
    /\ MaxScans \in Nat \ {0}
    /\ \A cat \in Catalogs :
          /\ DOMAIN cat = {"columns", "overloads", "body"}
          /\ DOMAIN cat.body = ToSet(Owners)

VARIABLES
    catalog,
    scan,         \* the number of the current scan
    at,           \* how many owners it is done with
    graph,        \* [edges, origins, analysis]
    cache         \* the stored results by key

vars == <<catalog, scan, at, graph, cache>>

-----------------------------------------------------------------------------
(* The graph of the catalogue.  A relation has the columns that            *)
(* cat.columns maps it to; cat.overloads are the signatures of f, "" for   *)
(* none.                                                                   *)

Present(cat, r) == r \in DOMAIN cat.columns

HasColumn(cat, r) == Present(cat, r) /\ "c" \in cat.columns[r]

\* VertexId::routine and resolve_collision: a relation took its id before.
FunctionId(cat, signature) ==
    IF signature # "" THEN <<"f", signature>>
    ELSE IF Present(cat, "f") THEN <<"f", "@function">>
    ELSE <<"f">>

RoutineIds(cat) == {FunctionId(cat, s) : s \in cat.overloads}

Columns(cat, r) == {<<r, c>> : c \in cat.columns[r]}

VertexIds(cat) ==
    {<<r>> : r \in DOMAIN cat.columns}
    \cup UNION {Columns(cat, r) : r \in DOMAIN cat.columns}
    \cup RoutineIds(cat) \cup {<<o>> : o \in ToSet(Owners)}

\* The columns that an owner holds by Contains.
Contained(cat, owner) ==
    IF Present(cat, owner) THEN Columns(cat, owner) ELSE {}

EmptyGraph == [edges |-> << >>, origins |-> << >>, analysis |-> << >>]

At(f, k) == IF k \in DOMAIN f THEN f[k] ELSE {}

Merge(f, g) == [k \in DOMAIN f \cup DOMAIN g |-> At(f, k) \cup At(g, k)]

Record(records, owner, analysis) ==
    [o \in DOMAIN records \cup {owner} |->
        IF o = owner THEN analysis ELSE records[o]]

\* add_edge, add_origin, set_analysis.
Add(g, owner, edges, origins, analysis) ==
    [edges |-> Merge(g.edges, edges),
     origins |-> Merge(g.origins, origins),
     analysis |-> Record(g.analysis, owner, analysis)]

-----------------------------------------------------------------------------
(* Analysis of one body.                                                   *)

Key(u, v, k) == [from |-> u, to |-> v, kind |-> k]

NoOwner == "none"

\* value_effect and flush_reads: what an update of t.c with s.c says about
\* columns.
DmlKeys(cat, owner, body) ==
    LET to == {w \in body.writes : HasColumn(cat, w.to)}
        from == {w \in body.writes : HasColumn(cat, w.from)}
    IN  {Key(<<owner>>, <<w.to, "c">>, "Writes") : w \in to}
        \cup {Key(<<owner>>, <<w.from, "c">>, "Reads") : w \in from}
        \cup {Key(<<w.to, "c">>, <<w.from, "c">>, "DerivesFrom") :
                  w \in to \cap from}

\* enrich_view: what the owner reads, and the lineage of its own column.
ReadKeys(cat, owner, body) ==
    LET found == {r \in body.reads : HasColumn(cat, r)}
    IN  {Key(<<owner>>, <<r>>, "Reads") :
            r \in {x \in body.reads : Present(cat, x)}}
        \cup {Key(<<owner>>, <<r, "c">>, "Reads") : r \in found}
        \cup IF HasColumn(cat, owner)
             THEN {Key(<<owner, "c">>, <<r, "c">>, "DerivesFrom") :
                      r \in found}
             ELSE {}

\* apply_dml_edges: the relations that a statement writes and reads.
RelationKeys(cat, owner, body) ==
    {Key(<<owner>>, <<w.to>>, "Writes") :
        w \in {x \in body.writes : Present(cat, x.to)}}
    \cup {Key(<<owner>>, <<w.from>>, "Reads") :
        w \in {x \in body.writes : Present(cat, x.from)}}

\* resolve_routine: a call is resolved if f has exactly one vertex.
CallKeys(cat, owner, body) ==
    IF body.calls /\ Cardinality(RoutineIds(cat)) = 1
    THEN {Key(<<owner>>, id, "Calls") : id \in RoutineIds(cat)}
    ELSE {}

Candidates(cat, body) ==
    IF body.calls /\ Cardinality(RoutineIds(cat)) > 1
    THEN RoutineIds(cat) ELSE {}

Mentions(body) ==
    body.reads \cup {w.to : w \in body.writes} \cup {w.from : w \in body.writes}

\* The limitations that the body leaves.
Notes(cat, body) ==
    {<<"missing", r>> : r \in {x \in Mentions(body) : ~HasColumn(cat, x)}}
    \cup IF body.calls /\ Cardinality(RoutineIds(cat)) # 1
         THEN {<<"call", "f">>} ELSE {}

BodyKeys(cat, owner, body) ==
    DmlKeys(cat, owner, body) \cup ReadKeys(cat, owner, body)
    \cup RelationKeys(cat, owner, body) \cup CallKeys(cat, owner, body)

\* record_body gives every edge of the owner itself an origin as well; the
\* lineage of another column has the origin of the statement alone.
OriginsOf(cat, owner, body, key) ==
    LET dml == key \in DmlKeys(cat, owner, body)
        plain == ~dml \/ key.from = <<owner>>
    IN  [hash : {body.hash},
         dml : (IF dml THEN {owner} ELSE {})
               \cup (IF plain THEN {NoOwner} ELSE {})]

\* One step of enrich_with_cache, without the cache.
Analysed(g, cat, owner) ==
    LET body == cat.body[owner]
        keys == BodyKeys(cat, owner, body)
    IN  Add(g, owner, [k \in keys |-> {owner}],
            [k \in keys |-> OriginsOf(cat, owner, body, k)],
            [hash |-> body.hash, candidates |-> Candidates(cat, body),
             notes |-> Notes(cat, body)])

-----------------------------------------------------------------------------
(* What a result is stored under.                                          *)

Shape(cat, r) == IF Present(cat, r) THEN {cat.columns[r]} ELSE {}

\* Not in the code: the relations that the body names are left out.
Footprint_OwnOnly(cat, owner) ==
    [own |-> Shape(cat, owner), overloads |-> cat.overloads]

\* scoped_context.
Footprint(cat, owner) ==
    [own |-> Shape(cat, owner), overloads |-> cat.overloads,
     relations |-> [r \in Mentions(cat.body[owner]) |-> Shape(cat, r)]]

\* namespace_hash: everything but the bodies.
Structure(cat) == [columns |-> cat.columns, overloads |-> cat.overloads]

\* load_scoped, store_scoped: a body that defines something else or builds
\* statements is keyed with the whole document.
EntryKey(cat, owner) ==
    LET body == cat.body[owner]
    IN  <<owner, body.hash,
          IF body.wraps THEN <<"document", Structure(cat)>>
          ELSE <<"footprint", Footprint(cat, owner)>> >>

-----------------------------------------------------------------------------
(* capture and restore.                                                    *)

OwnedBy(cat, owner, id) == id = <<owner>> \/ id \in Contained(cat, owner)

\* Every edge from the owner or a column of it, with all its evidence.
OwnEdges(g, cat, owner) ==
    {k \in DOMAIN g.edges : OwnedBy(cat, owner, k.from)}

DmlOrigins(g, cat, owner, key) ==
    {o \in At(g.origins, key) :
        o.hash = cat.body[owner].hash /\ o.dml = owner}

\* The lineage its statements gave to columns of others (dml_origins).
DmlEdges(g, cat, owner) ==
    {k \in DmlKeys(cat, owner, cat.body[owner]) :
        /\ DmlOrigins(g, cat, owner, k) # {}
        /\ owner \in g.edges[k]}

CapturedOrigins(g, cat, owner, key) ==
    IF key \in OwnEdges(g, cat, owner)
    THEN {o \in At(g.origins, key) : o.hash = cat.body[owner].hash}
    ELSE DmlOrigins(g, cat, owner, key)

Captured(g, cat, owner) ==
    LET own == OwnEdges(g, cat, owner)
        keys == own \cup DmlEdges(g, cat, owner)
    IN  [edges |-> [k \in keys |-> IF k \in own THEN g.edges[k]
                                   ELSE g.edges[k] \cap {owner}],
         origins |-> [k \in keys |-> CapturedOrigins(g, cat, owner, k)],
         analysis |-> g.analysis[owner]]

\* A result with an edge of another body alone is not stored.
Storable(result) == \A k \in DOMAIN result.edges : result.origins[k] # {}

DmlEffectOwned(result, cat, owner, key) ==
    LET tagged(k) == \E o \in At(result.origins, k) : o.dml = owner
        write == Key(<<owner>>, key.from, "Writes")
    IN  /\ key.kind = "DerivesFrom"
        /\ write \in DOMAIN result.edges /\ tagged(write) /\ tagged(key)

\* into_result: each origin is of this body and of an edge of the result.
Readable(result, hash) ==
    \A k \in DOMAIN result.origins :
       /\ result.origins[k] # {} => k \in DOMAIN result.edges
       /\ \A o \in result.origins[k] : o.hash = hash

\* accept_edge and candidates_exist.
Accepted(result, cat, owner) ==
    /\ result.analysis.hash = cat.body[owner].hash
    /\ result.analysis.candidates \subseteq VertexIds(cat)
    /\ \A k \in DOMAIN result.edges :
          /\ \/ OwnedBy(cat, owner, k.from)
             \/ DmlEffectOwned(result, cat, owner, k)
          /\ {k.from, k.to} \subseteq VertexIds(cat)
          /\ \E o \in At(result.origins, k) : o.hash = cat.body[owner].hash

-----------------------------------------------------------------------------

Init ==
    /\ catalog \in Catalogs
    /\ scan = 1 /\ at = 0
    /\ graph = EmptyGraph /\ cache = << >>

Owner == Owners[at + 1]

Restorable ==
    LET key == EntryKey(catalog, Owner)
    IN  /\ key \in DOMAIN cache
        /\ Readable(cache[key], catalog.body[Owner].hash)
        /\ Accepted(cache[key], catalog, Owner)

\* cache::reuse with a hit.
Reuse ==
    /\ at < Len(Owners) /\ Restorable
    /\ LET hit == cache[EntryKey(catalog, Owner)]
       IN  graph' = Add(graph, Owner, hit.edges, hit.origins, hit.analysis)
    /\ at' = at + 1
    /\ UNCHANGED <<catalog, scan, cache>>

\* A miss, whatever the reason: analyse the body, then cache::save.
Analyse ==
    /\ at < Len(Owners)
    /\ graph' = Analysed(graph, catalog, Owner)
    /\ LET result == Captured(graph', catalog, Owner)
           key == EntryKey(catalog, Owner)
       IN  cache' = IF Storable(result)
                    THEN [k \in DOMAIN cache \cup {key} |->
                             IF k = key THEN result ELSE cache[k]]
                    ELSE cache
    /\ at' = at + 1
    /\ UNCHANGED <<catalog, scan>>

\* The next scan of a database that may have changed.
NextScan ==
    /\ at = Len(Owners) /\ scan < MaxScans
    /\ catalog' \in Catalogs
    /\ scan' = scan + 1 /\ at' = 0 /\ graph' = EmptyGraph
    /\ UNCHANGED cache

Next == Reuse \/ Analyse \/ NextScan

Spec == Init /\ [][Next]_vars

-----------------------------------------------------------------------------
(* Properties.  The reference is a scan that has no cache.                 *)

Cold(cat) ==
    FoldLeft(LAMBDA g, owner : Analysed(g, cat, owner), EmptyGraph, Owners)

Finished == at = Len(Owners)

\* A scan that takes results from the cache finds the same edges, the same
\* origins of every edge and the same state, candidates and limitations of
\* every body as a scan without a cache, and every piece of its evidence:
\* the fingerprint names all that a result depends on, and a result taken
\* out of a graph with the work of other bodies holds none of their origins.
WarmAgrees ==
    Finished =>
        LET cold == Cold(catalog)
        IN  /\ graph.origins = cold.origins
            /\ graph.analysis = cold.analysis
            /\ DOMAIN graph.edges = DOMAIN cold.edges
            /\ \A k \in DOMAIN cold.edges :
                  cold.edges[k] \subseteq graph.edges[k]

\* A warm scan ends with the edges of a cold one
\* (src/engine/cli/tests/body_cache.rs:1-3: "with or without --cache-dir,
\* empty or full, the same document becomes the same graph.json bytes").
WarmFindsTheSameEdges ==
    Finished => DOMAIN graph.edges = DOMAIN Cold(catalog).edges
=============================================================================
