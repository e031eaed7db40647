----------------------------- MODULE GraphStore -----------------------------
(***************************************************************************)
(* The graph everything is kept in (src/engine/core/src/lib.rs) and the    *)
(* union of the graphs of several databases (core/src/merge.rs).           *)
(*                                                                         *)
(* An id is the escaped names from the schema down to the vertex, with the *)
(* signature of a routine, the kind a colliding vertex was split off with  *)
(* (graph.rs), and the source a merge put before it.  Escaping makes the   *)
(* written form injective, so ids are records here.  Evidence, origins and *)
(* notes are sets: how often and in which order one is kept is left out.   *)
(***************************************************************************)
EXTENDS FiniteSets, SequencesExt

SchemaId(schema) ==
    [source |-> "", path |-> <<schema>>, sig |-> "", split |-> ""]

ObjectId(schema, name) ==
    [source |-> "", path |-> <<schema, name>>, sig |-> "", split |-> ""]

MemberId(schema, object, name) ==
    [source |-> "", path |-> <<schema, object, name>>, sig |-> "",
     split |-> ""]

\* package is {} or {its name}; the empty signature is no signature.
RoutineId(schema, package, name, sig) ==
    [source |-> "", sig |-> sig, split |-> "",
     path |-> <<schema>> \o SetToSeq(package) \o <<name>>]

\* What is before the last separator: {} for a schema.
StringParent(id) ==
    IF Len(id.path) = 1 THEN {}
    ELSE {[id EXCEPT !.path = Front(@), !.sig = "", !.split = ""]}

Level(kind) ==
    CASE kind = "schema" -> "schema"
      [] kind \in {"column", "index", "constraint", "trigger"} -> "member"
      [] OTHER -> "object"

IsDependency(kind) == kind \notin {"contains", "inferred"}

Key(from, to, kind) == [from |-> from, to |-> to, kind |-> kind]

NoMetadata == {}

EmptyGraph ==
    [vertices |-> << >>, edges |-> << >>, usage |-> << >>,
     analysis |-> << >>, origins |-> << >>, notes |-> {},
     metadata |-> NoMetadata]

Assign(f, x, value) ==
    [y \in DOMAIN f \cup {x} |-> IF y = x THEN value ELSE f[y]]

Gather(f, x, values) ==
    Assign(f, x, values \cup IF x \in DOMAIN f THEN f[x] ELSE {})

Has(g, id) == id \in DOMAIN g.vertices

IsKind(g, id, kinds) == Has(g, id) /\ g.vertices[id].kind \in kinds

Note(g, note) == [g EXCEPT !.notes = @ \cup {note}]

\* The first vertex with an id stays.
AddVertex(g, id, vertex) ==
    IF Has(g, id) THEN g
    ELSE [g EXCEPT !.vertices = Assign(@, id, vertex)]

\* One edge for one pair and kind, with the evidence of all.
AddEdge(g, key, evidence) ==
    [g EXCEPT !.edges = Gather(@, key, evidence)]

Contain(g, owner, id) == AddEdge(g, Key(owner, id, "contains"), {})

\* The last observation stays.
SetUsage(g, id, usage) == [g EXCEPT !.usage = Assign(@, id, usage)]

\* Candidates that are no vertices are dropped, and counted.
SetAnalysis(g, id, analysis) ==
    LET kept == {[d EXCEPT !.candidates = @ \cap DOMAIN g.vertices] :
                   d \in analysis.diagnostics}
        told == IF kept = analysis.diagnostics THEN g
                ELSE Note(g, <<"candidates dropped">>)
    IN  IF ~Has(g, id) THEN Note(g, <<"analysis of no vertex">>)
        ELSE [told EXCEPT !.analysis =
                 Assign(@, id, [analysis EXCEPT !.diagnostics = kept])]

AddOrigin(g, key, origin) ==
    IF key \in DOMAIN g.edges
    THEN [g EXCEPT !.origins = Gather(@, key, {origin})]
    ELSE Note(g, <<"origin of no edge">>)

Outgoing(g, id) == {k \in DOMAIN g.edges : k.from = id}

Incoming(g, id) == {k \in DOMAIN g.edges : k.to = id}

Owners(g, id) ==
    {k.from : k \in {j \in Incoming(g, id) : j.kind = "contains"}}

Owned(g, id) ==
    {k.to : k \in {j \in Outgoing(g, id) : j.kind = "contains"}}

-----------------------------------------------------------------------------
(* The same graph seen at a coarser level (core/src/lib.rs:535-782). *)

\* The next vertex up: the only owner, or what the id says if nothing owns
\* it.  Two owners are no answer.
Up(g, id) ==
    LET owners == Owners(g, id)
    IN  IF owners = {} THEN StringParent(id)
        ELSE IF Cardinality(owners) = 1 THEN owners ELSE {}

\* {} or the ancestor of an id at a level.  No document owns deeper than
\* schema, package, routine, so three steps up are enough.
Ancestor(g, id, level) ==
    LET at(v) == Level(g.vertices[v].kind) = level
        climb[n \in 0..3] ==
          IF n = 0 THEN {id} \cap DOMAIN g.vertices
          ELSE UNION {IF at(v) THEN {} ELSE Up(g, v) : v \in climb[n - 1]}
                 \cap DOMAIN g.vertices
    IN  {v \in UNION {climb[n] : n \in 0..3} : at(v)}

Only(set) == CHOOSE x \in set : TRUE

\* Counts are added up, the earliest known start is kept.
TotalUsage(g, ids) ==
    LET scanned == {i \in ids : g.usage[i].scans /= {}}
        starts  == UNION {g.usage[i].since : i \in ids}
    IN  [reads |-> MapThenSumSet(LAMBDA i : g.usage[i].reads, ids),
         scans |-> IF scanned = {} THEN {}
                   ELSE {MapThenSumSet(LAMBDA i : Only(g.usage[i].scans),
                                       scanned)},
         since |-> IF starts = {} THEN {} ELSE {Min(starts)}]

\* An edge that falls together is dropped, one that was a loop stays.  What
\* is known of an edge or of an analysis goes where the edge or the object
\* goes; the catalogue facts are dropped.
Project(g, level) ==
    LET of == [v \in DOMAIN g.vertices |-> Ancestor(g, v, level)]
        up(id) == IF id \in DOMAIN of THEN of[id] ELSE {}
        key(k) == {Key(f, t, k.kind) : f \in up(k.from), t \in up(k.to)}
        stays(k) ==
          key(k) /= {} /\ (up(k.from) = up(k.to) => k.from = k.to)
        edges == UNION {key(k) : k \in {j \in DOMAIN g.edges : stays(j)}}
        kept == UNION {of[v] : v \in DOMAIN of}
        used == UNION {up(i) : i \in DOMAIN g.usage}
        moved(d) == [d EXCEPT !.candidates = UNION {up(c) : c \in @}]
    IN  [vertices |-> [v \in kept |-> g.vertices[v]],
         edges    |-> [e \in edges |->
             UNION {g.edges[k] :
                      k \in {j \in DOMAIN g.edges : stays(j) /\ e \in key(j)}}],
         usage    |-> [v \in used |->
             TotalUsage(g, {i \in DOMAIN g.usage : v \in up(i)})],
         analysis |-> [v \in kept \cap DOMAIN g.analysis |->
             [g.analysis[v] EXCEPT !.diagnostics = {moved(d) : d \in @}]],
         origins  |-> [e \in edges \cap UNION {key(k) : k \in DOMAIN g.origins}
             |-> UNION {g.origins[k] :
                          k \in {j \in DOMAIN g.origins : e \in key(j)}}],
         notes    |-> g.notes,
         metadata |-> NoMetadata]

-----------------------------------------------------------------------------
(* The union of the graphs of several sources (core/src/merge.rs). *)

NamespacedId(name, id) == [id EXCEPT !.source = name]

\* A bug: only the table of an index gets its new id.
IndexTableIn(name, index) == [index EXCEPT !.table = NamespacedId(name, @)]

NamespacedIds(name, ids) == [n \in DOMAIN ids |-> NamespacedId(name, ids[n])]

IndexIn(name, index) ==
    [index EXCEPT !.table = NamespacedId(name, @),
                  !.columns = NamespacedIds(name, @)]

ForeignKeyIn(name, key) ==
    [key EXCEPT !.table = NamespacedId(name, @),
                !.columns = NamespacedIds(name, @),
                !.targetTable = {NamespacedId(name, t) : t \in @},
                !.targetColumns = NamespacedIds(name, @)]

\* The graph with the source before every id, those in the catalogue facts,
\* in the candidates and in the owner of a DML effect included.
Namespaced(g, name) ==
    LET id(i) == NamespacedId(name, i)
        set(ids) == {id(i) : i \in ids}
        old(i) == [i EXCEPT !.source = ""]
        key(k) == Key(id(k.from), id(k.to), k.kind)
        oldKey(k) == Key(old(k.from), old(k.to), k.kind)
        keys(ks) == {key(k) : k \in ks}
        named(d) == [d EXCEPT !.candidates = set(@)]
        origin(o) == [o EXCEPT !.owner = set(@)]
        facts(m) ==
          [columns |-> [i \in set(DOMAIN m.columns) |-> m.columns[old(i)]],
           indexes |-> [i \in set(DOMAIN m.indexes) |->
                           IndexIn(name, m.indexes[old(i)])],
           foreignKeys |-> [i \in set(DOMAIN m.foreignKeys) |->
                               ForeignKeyIn(name, m.foreignKeys[old(i)])],
           complete |-> m.complete]
    IN  [vertices |-> [i \in set(DOMAIN g.vertices) |-> g.vertices[old(i)]],
         edges    |-> [k \in keys(DOMAIN g.edges) |-> g.edges[oldKey(k)]],
         usage    |-> [i \in set(DOMAIN g.usage) |-> g.usage[old(i)]],
         analysis |-> [i \in set(DOMAIN g.analysis) |->
             [g.analysis[old(i)] EXCEPT !.diagnostics = {named(d) : d \in @}]],
         origins  |-> [k \in keys(DOMAIN g.origins) |->
             {origin(o) : o \in g.origins[oldKey(k)]}],
         notes    |-> {<<name>> \o n : n \in g.notes},
         metadata |-> {facts(m) : m \in g.metadata}]

Both(f, g) ==
    [x \in DOMAIN f \cup DOMAIN g |-> IF x \in DOMAIN f THEN f[x] ELSE g[x]]

\* What is known of the catalogues of both: nothing unless both have facts,
\* and complete only if both are.
BothFacts(left, right) ==
    {[columns |-> Both(m.columns, n.columns),
      indexes |-> Both(m.indexes, n.indexes),
      foreignKeys |-> Both(m.foreignKeys, n.foreignKeys),
      complete |-> m.complete /\ n.complete] : m \in left, n \in right}

NoFacts ==
    [columns |-> << >>, indexes |-> << >>, foreignKeys |-> << >>,
     complete |-> TRUE]

\* The union of namespaced graphs.
Union(g, h) ==
    [vertices |-> Both(g.vertices, h.vertices),
     edges    |-> Both(g.edges, h.edges),
     usage    |-> Both(g.usage, h.usage),
     analysis |-> Both(g.analysis, h.analysis),
     origins  |-> Both(g.origins, h.origins),
     notes    |-> g.notes \cup h.notes,
     metadata |-> BothFacts(g.metadata, h.metadata)]
=============================================================================
