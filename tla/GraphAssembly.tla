---------------------------- MODULE GraphAssembly ----------------------------
(***************************************************************************)
(* From catalogue documents to reports: the graph of each document is      *)
(* built item by item (source/src/graph.rs, dependencies.rs), what the     *)
(* analysis of the SQL bodies found is added, the graphs of several        *)
(* databases are merged (cli/src/merge.rs), the graph is written and read  *)
(* back, and the reports are made of what was read.  What the analysis of  *)
(* a body finds comes from outside this module.                            *)
(***************************************************************************)
EXTENDS GraphReports

CONSTANTS
    Cases,     \* documents with the findings of the analysis, and what is done
    Guess,     \* the tables a column name may refer to, by its name
    Rules,     \* the rules the graph is held against
    Naming     \* the place each source and the single graph have outside

VARIABLES
    case,      \* what is tried
    documents, \* the documents whose graph is not begun
    tasks,     \* what is left of the document at hand
    local,     \* its graph so far
    locals,    \* the graphs that are done, by source
    whole,     \* the graph that is written
    file,      \* what was written, or what somebody made of it
    damaged,   \* whether somebody did
    report,    \* the reports
    stage

assemblyVars == <<case, documents, tasks, local, locals, whole, file, damaged,
                  report, stage>>

GraphAssemblyAssumption ==
    \A c \in Cases : /\ c.command \in {"analyze", "merge"}
                     /\ c.command = "analyze" => Len(c.documents) = 1

Task(what, schema, object, item) ==
    [what |-> what, schema |-> schema, object |-> object, item |-> item]

Mapped(op(_), seq) == [n \in DOMAIN seq |-> op(seq[n])]

\* The members of packages come after everything a package may be.
SchemaTasks(s) ==
    <<Task("schema", s.name, "", "")>> \o
    Mapped(LAMBDA o : Task("object", s.name, "", o), s.objects) \o
    Mapped(LAMBDA r : Task("routine", s.name, "", r),
           SelectSeq(s.routines, LAMBDA r : r.package = {}) \o
           SelectSeq(s.routines, LAMBDA r : r.package /= {}))

ForeignKeyTasks(s) ==
    FlattenSeq(Mapped(LAMBDA o :
        Mapped(LAMBDA c : Task("foreign key", s.name, o, c),
               SelectSeq(o.constraints, LAMBDA c : c.kind = "fk")),
        s.objects))

\* Foreign keys come after all schemas, because they may lead to any; facts
\* and dependencies after that, and the bodies last.  A merge keeps the
\* dependencies on other databases for later.
IsForeign(document, dependency) ==
    \E d \in dependency.to.database :
       \A c \in document.context : c.database /= {d}

DocumentTasks(c, document) ==
    LET kept == {d \in document.dependencies :
                   c.command = "merge" => ~IsForeign(document, d)}
    IN  FlattenSeq(Mapped(SchemaTasks, document.schemas)) \o
        FlattenSeq(Mapped(ForeignKeyTasks, document.schemas)) \o
        <<Task("facts", "", "", document)>> \o
        Mapped(LAMBDA d : Task("dependency", "", document, d),
               SetToSeq(kept)) \o
        Mapped(LAMBDA b : Task("body", "", "", b),
               SetToSeq(c.bodies[document.source])) \o
        <<Task("guesses", "", "", document)>>

\* Each document that is merged says its source, and no two have the same.
Mergeable(cs) ==
    /\ \A n \in DOMAIN cs : cs[n].context /= {}
    /\ \A m, n \in DOMAIN cs : cs[m].source = cs[n].source => m = n

Init ==
    /\ case \in Cases
    /\ documents = case.documents
    /\ tasks = << >> /\ local = EmptyGraph /\ locals = << >>
    /\ whole = EmptyGraph /\ file = EmptyGraph /\ damaged = FALSE
    /\ report = << >> /\ stage = "build"

Begin ==
    /\ stage = "build" /\ tasks = << >> /\ documents /= << >>
    /\ local = EmptyGraph
    /\ case.command = "merge" => Mergeable(case.documents)
    /\ tasks' = DocumentTasks(case, Head(documents))
    /\ UNCHANGED <<case, documents, local, locals, whole, file, damaged,
                   report, stage>>

\* The task at hand is done, with what it makes of the graph.
Does(what, graph) ==
    /\ stage = "build" /\ tasks /= << >> /\ Head(tasks).what = what
    /\ local' = graph
    /\ tasks' = Tail(tasks)
    /\ UNCHANGED <<case, documents, locals, whole, file, damaged, report,
                   stage>>

BuildSchema == Does("schema", AddSchema(local, Head(tasks).schema))

BuildObject ==
    Does("object", AddObject(local, Head(tasks).schema, Head(tasks).item))

BuildRoutine ==
    Does("routine", AddRoutine(local, Head(tasks).schema, Head(tasks).item))

BuildForeignKey ==
    Does("foreign key", AddForeignKey(local, Head(tasks).schema,
                                      Head(tasks).object, Head(tasks).item))

BuildFacts == Does("facts", AttachFacts(local, Head(tasks).item))

BuildDependency ==
    Does("dependency",
         AddDependency(local, Head(tasks).object, Head(tasks).item))

\* What the analysis of a body found: reads and writes of its own, and where
\* the values of columns come from.  A value that no view defines is put down
\* to the body that moves it.
BodyKeys(b) ==
    {<<Key(b.body, r.to, "reads"), [hash |-> b.hash, role |-> r.role,
                                    owner |-> {}]>> : r \in b.reads} \cup
    {<<Key(b.body, w, "writes"), [hash |-> b.hash, role |-> "relation",
                                  owner |-> {}]>> : w \in b.writes} \cup
    {<<Key(d.from, d.to, "derives-from"),
       [hash |-> b.hash, role |-> "value",
        owner |-> IF StringParent(d.from) = {b.body} THEN {} ELSE {b.body}]>> :
       d \in b.derives}

AddBody(g, b) ==
    LET known == {k \in BodyKeys(b) : {k[1].from, k[1].to} \subseteq
                                        DOMAIN g.vertices}
        add(k, h) == AddOrigin(AddEdge(h, k[1], {<<"body", b.hash>>}),
                               k[1], k[2])
        found == FoldSet(add, g, known)
    IN  SetAnalysis(found, b.body, [state |-> b.state,
                                    diagnostics |-> b.diagnostics])

BuildBody == Does("body", AddBody(local, Head(tasks).item))

\* The guess by name (parser/src/lib.rs:628-702): a column x_id with no
\* declared key, and the one table of its schema whose name fits and that has
\* a column id.
Guessed(g, document) ==
    LET tables(s) == {o \in ToSet(s.objects) : o.kind = "table"}
        has(o, name) == \E c \in ToSet(o.columns) : c.name = name
        declared(o) == UNION {ToSet(c.columns) : c \in
                         {d \in ToSet(o.constraints) : d.kind = "fk"}}
        fits(s, c) == {t \in tables(s) : t.name \in Guess[c] /\ has(t, "id")}
        keys(s, o) ==
          {Key(ObjectId(s.name, o.name), ObjectId(s.name, Only(fits(s, c)).name),
               "inferred") :
             c \in {x.name : x \in {y \in ToSet(o.columns) :
                      /\ y.name \in DOMAIN Guess \ declared(o)
                      /\ Cardinality(fits(s, y.name)) = 1}}}
        doubtful(s, o) == \E c \in ToSet(o.columns) :
                            /\ c.name \in DOMAIN Guess \ declared(o)
                            /\ Cardinality(fits(s, c.name)) > 1
        all == UNION {UNION {keys(s, o) : o \in tables(s)} :
                        s \in ToSet(document.schemas)}
        told == IF \E s \in ToSet(document.schemas) : \E o \in tables(s) :
                     doubtful(s, o)
                THEN Note(g, <<"guess ambiguous">>) ELSE g
    IN  FoldSet(LAMBDA k, h : AddEdge(h, k, {<<"inferred", "name">>}),
                told, all)

BuildGuesses ==
    Does("guesses", IF case.inferred /\ case.command = "analyze"
                    THEN Guessed(local, Head(tasks).item) ELSE local)

\* The document is done.
Finish ==
    /\ stage = "build" /\ tasks = << >> /\ local /= EmptyGraph
    /\ locals' = Assign(locals, Head(documents).source, local)
    /\ local' = EmptyGraph
    /\ documents' = Tail(documents)
    /\ UNCHANGED <<case, tasks, whole, file, damaged, report, stage>>

Take ==
    /\ stage = "build" /\ documents = << >> /\ case.command = "analyze"
    /\ whole' = locals[case.documents[1].source]
    /\ stage' = "whole"
    /\ UNCHANGED <<case, documents, tasks, local, locals, file, damaged,
                   report>>

\* The only document of a database, if there is only one.
Collecting(cs, database) ==
    {n \in DOMAIN cs : \E c \in cs[n].context : c.database = {database}}

CrossEdge(g, document, dependency) ==
    LET targets == Collecting(case.documents, Only(dependency.to.database))
        target  == case.documents[Only(targets)]
        from == Resolve(locals[document.source], document, dependency.from)
        to   == IF Cardinality(targets) /= 1 THEN {}
                ELSE Resolve(locals[target.source], target, dependency.to)
    IN  IF from = {} \/ to = {}
        THEN Note(g, <<"cross", dependency.to.name>>)
        ELSE AddEdge(g, Key(NamespacedId(document.source, Only(from)),
                            NamespacedId(target.source, Only(to)),
                            "depends-on"),
                     {<<"catalog", "depends">>})

\* The graphs side by side, and the dependencies between databases.
Merge ==
    /\ stage = "build" /\ documents = << >> /\ case.command = "merge"
    /\ LET names == DOMAIN locals
           united == FoldSet(LAMBDA s, g : Union(g, Namespaced(locals[s], s)),
                             [EmptyGraph EXCEPT !.metadata = {NoFacts}],
                             names)
           foreign == UNION {{<<case.documents[n], d>> :
                                d \in {e \in case.documents[n].dependencies :
                                         IsForeign(case.documents[n], e)}} :
                               n \in DOMAIN case.documents}
       IN  whole' = FoldSet(LAMBDA f, g : CrossEdge(g, f[1], f[2]),
                            united, foreign)
    /\ stage' = "whole"
    /\ UNCHANGED <<case, documents, tasks, local, locals, file, damaged,
                   report>>

Refuse ==
    /\ stage = "build" /\ documents = case.documents
    /\ case.command = "merge" /\ ~Mergeable(case.documents)
    /\ stage' = "refused"
    /\ UNCHANGED <<case, documents, tasks, local, locals, whole, file, damaged,
                   report>>

Write ==
    /\ stage = "whole"
    /\ file' = Written(whole)
    /\ stage' = "written"
    /\ UNCHANGED <<case, documents, tasks, local, locals, whole, damaged,
                   report>>

\* Somebody removes a vertex from the file, or gives it a kind this version
\* does not know.
Damage ==
    /\ stage = "written" /\ case.edited /\ ~damaged
    /\ damaged' = TRUE
    /\ \E id \in DOMAIN file.vertices :
          \/ file' = [file EXCEPT !.vertices =
                         [v \in DOMAIN @ \ {id} |-> @[v]],
                         !.usage = [v \in DOMAIN @ \ {id} |-> @[v]]]
          \/ file' = [file EXCEPT !.vertices[id].kind = "later"]
          \/ file' = [file EXCEPT !.vertices[id].kind = "sequence"]
    /\ UNCHANGED <<case, documents, tasks, local, locals, whole, report,
                   stage>>

Read ==
    /\ stage = "written"
    /\ local' = Loaded(file)
    /\ stage' = "read"
    /\ UNCHANGED <<case, documents, tasks, locals, whole, file, damaged,
                   report>>

Report ==
    /\ stage = "read"
    /\ report' = [lint |-> Lint(local, case.shown), unused |-> Unused(local),
                  rules |-> [level \in {"schema", "object"} |->
                               RulesAt(local, level, Rules)],
                  broken |-> Violations(local, Rules),
                  jobs |-> Jobs(local), events |-> Events(local, Naming),
                  since |-> Difference(whole, local)]
    /\ stage' = "reported"
    /\ UNCHANGED <<case, documents, tasks, local, locals, whole, file, damaged>>

Next ==
    \/ Begin \/ BuildSchema \/ BuildObject \/ BuildRoutine \/ BuildForeignKey
    \/ BuildFacts \/ BuildDependency \/ BuildBody \/ BuildGuesses \/ Finish
    \/ Take \/ Merge \/ Refuse \/ Write \/ Damage \/ Read \/ Report

Spec == Init /\ [][Next]_assemblyVars

-----------------------------------------------------------------------------
(* What a document says, without ids: who is in it, and in whom. *)

ObjectKinds ==
    {"table", "view", "materialized-view", "sequence", "type", "synonym"}

Entity(schema, under, kind, name, sig, package) ==
    [schema |-> schema, under |-> under, kind |-> kind, name |-> name,
     sig |-> sig, package |-> package]

ObjectEntities(s, o) ==
    LET members(seq, kind) == {Entity(s.name, {o.name}, kind, x.name, "", {}) :
                                 x \in ToSet(seq)}
    IN  {Entity(s.name, {}, ObjectKind(o), o.name, "", {})} \cup
        members(o.columns, "column") \cup
        members(o.constraints, "constraint") \cup
        members(o.indexes, "index") \cup
        {Entity(s.name, {o.name}, "trigger", t, "", {}) : t \in ToSet(o.triggers)}

Entities(document) ==
    UNION {UNION {ObjectEntities(s, o) : o \in ToSet(s.objects)} \cup
           {Entity(s.name, {}, RoutineKind(r), r.name, r.sig, r.package) :
              r \in ToSet(s.routines)} :
             s \in ToSet(document.schemas)}

\* The kinds and names of what an entity is in: the object of a member, the
\* package of a routine if it was collected, the schema otherwise.
OwnerOf(document, e) ==
    LET package == {p \in e.package : \E f \in Entities(document) :
                      /\ f.kind = "package" /\ f.name = p
                      /\ f.schema = e.schema}
    IN  CASE e.under /= {} ->
               {<<f.kind, f.name>> : f \in {g \in Entities(document) :
                   /\ g.schema = e.schema /\ g.name \in e.under
                   /\ g.kind \in ObjectKinds}}
          [] package /= {} -> {<<"package", p>> : p \in package}
          [] OTHER -> {<<"schema", e.schema>>}

\* An entity, and a vertex, as they can be seen.
Described(document, e) ==
    [schema |-> e.schema, kind |-> e.kind, name |-> e.name, sig |-> e.sig,
     owner |-> OwnerOf(document, e)]

Seen(g, v) ==
    [schema |-> g.vertices[v].schema, kind |-> g.vertices[v].kind,
     name |-> g.vertices[v].name, sig |-> v.sig,
     owner |-> {<<g.vertices[o].kind, g.vertices[o].name>> :
                  o \in Owners(g, v)}]

Of(g, source) == {v \in DOMAIN g.vertices : v.source = source}

\* The vertices that look like an entity.
Standing(g, document, source, e) ==
    {v \in Of(g, source) : Seen(g, v) = Described(document, e)}

\* Every entity has a vertex of its own, every vertex but the schemas is one.
VerticesMatch(g, document, source) ==
    LET entities == Entities(document)
        vertices == {v \in Of(g, source) : g.vertices[v].kind /= "schema"}
        described == {Described(document, e) : e \in entities}
        alike(d) == {e \in entities : Described(document, e) = d}
        standing(d) == {v \in vertices : Seen(g, v) = d}
    IN  /\ {Seen(g, v) : v \in vertices} = described
        /\ \A d \in described :
              Cardinality(standing(d)) = Cardinality(alike(d))
        /\ {g.vertices[v].name : v \in Of(g, source) \ vertices} =
           {s.name : s \in ToSet(document.schemas)}

\* The tables of a document that a foreign key may mean, and their columns.
TablesNamed(document, schema, name) ==
    UNION {{<<s.name, o>> : o \in {p \in ToSet(s.objects) : p.name = name}} :
             s \in {t \in ToSet(document.schemas) : t.name = schema}}

\* Each foreign key that is declared: its schema, its table, its constraint.
DeclaredKeys(document) ==
    UNION {UNION {{<<s.name, o, c>> :
                     c \in {d \in ToSet(o.constraints) : d.kind = "fk"}} :
                    o \in ToSet(s.objects)} : s \in ToSet(document.schemas)}

TableVertex(g, document, source, schema, o) ==
    Standing(g, document, source,
             Entity(schema, {}, ObjectKind(o), o.name, "", {}))

ColumnVertex(g, document, source, schema, o, name) ==
    Standing(g, document, source,
             Entity(schema, {o.name}, "column", name, "", {}))

ReferenceEdges(g, document, source) ==
    LET target(d) == LET r == Only(d[3].referenced)
                     IN  TablesNamed(document, TargetSchema(d[1], r), r.table)
        pairs(d) == {n \in DOMAIN d[3].columns :
                       /\ n \in DOMAIN Only(d[3].referenced).columns
                       /\ Only(d[3].referenced).columns[n] /= ""}
        near(d, n) == ColumnVertex(g, document, source, d[1], d[2],
                                   d[3].columns[n])
        far(d, t, n) == ColumnVertex(g, document, source, t[1], t[2],
                                     Only(d[3].referenced).columns[n])
        edges(d, t) ==
          {<<f, v>> : f \in TableVertex(g, document, source, d[1], d[2]),
                     v \in TableVertex(g, document, source, t[1], t[2])} \cup
          UNION {near(d, n) \X far(d, t, n) : n \in pairs(d)}
    IN  UNION {UNION {edges(d, t) : t \in target(d)} :
                 d \in {e \in DeclaredKeys(document) : e[3].referenced /= {}}}

\* The one entity a reference means: directly in the schema, or a column of
\* one that is.
Meant(document, r) ==
    LET fits(e) == /\ e.schema = r.schema /\ e.name = r.name
                   /\ e.under = {} /\ e.package = {}
                   /\ \A k \in r.kind : e.kind = k
                   /\ \A s \in r.sig : e.sig = s
        found == {e \in Entities(document) : fits(e)}
        member(e) == {f \in Entities(document) :
                        /\ f.schema = e.schema /\ f.under = {e.name}
                        /\ f.kind = "column" /\ f.name \in r.member}
    IN  IF Cardinality(found) /= 1 THEN {}
        ELSE IF r.member = {} THEN found ELSE member(Only(found))

\* The document a reference is about: the one it stands in unless it names
\* another database, and then the only one of that.
Home(c, n, r) ==
    LET own == \A d \in r.database : \E x \in c.documents[n].context :
                                        x.database = {d}
    IN  IF own THEN {n}
        ELSE IF c.command = "merge" /\ Cardinality(
                  Collecting(c.documents, Only(r.database))) = 1
        THEN Collecting(c.documents, Only(r.database)) ELSE {}

SourceOf(c, n) == IF c.command = "merge" THEN c.documents[n].source ELSE ""

DependencyEdges(g, c) ==
    LET ends(n, r) ==
          UNION {UNION {Standing(g, c.documents[h], SourceOf(c, h), e) :
                          e \in Meant(c.documents[h], r)} : h \in Home(c, n, r)}
    IN  UNION {UNION {ends(n, d.from) \X ends(n, d.to) :
                        d \in c.documents[n].dependencies} :
                 n \in DOMAIN c.documents}

EdgesOf(g, kind) ==
    {<<k.from, k.to>> : k \in {j \in DOMAIN g.edges : j.kind = kind}}

\* The graph says what the documents say: every entity is one vertex in the
\* right owner whatever its name collides with, a foreign key and a reported
\* dependency join exactly the entities they name, never one of another
\* database or of two that fit, and it does not matter in which order the
\* documents came (graph.rs:27-680, dependencies.rs:10-207, merge.rs:52-133,
\* cli/merge.rs:20-118).
GraphIsTheDocuments ==
    stage = "whole" =>
      /\ \A n \in DOMAIN case.documents :
            VerticesMatch(whole, case.documents[n], SourceOf(case, n))
      /\ EdgesOf(whole, "references") =
           UNION {ReferenceEdges(whole, case.documents[n], SourceOf(case, n)) :
                    n \in DOMAIN case.documents}
      /\ EdgesOf(whole, "depends-on") = DependencyEdges(whole, case)

\* Everything in a graph is about what is in it.
Sound(g) ==
    /\ \A k \in DOMAIN g.edges : {k.from, k.to} \subseteq DOMAIN g.vertices
    /\ DOMAIN g.origins \subseteq DOMAIN g.edges
    /\ DOMAIN g.usage \cup DOMAIN g.analysis \subseteq DOMAIN g.vertices
    /\ \A id \in DOMAIN g.analysis : \A d \in g.analysis[id].diagnostics :
          d.candidates \subseteq DOMAIN g.vertices

\* A graph that was written is read back unchanged, its catalogue facts
\* included: the check that would drop all of them for one that does not fit
\* never meets one that the builder or the merge made.  Of a file somebody
\* changed nothing is read that is about a vertex that is gone, and what is
\* dropped is told (export/src/lib.rs:244-390, diagnostics.rs:126-180,
\* schema_metadata.rs:126-295).
ReadBackWhole ==
    stage = "read" =>
      /\ ~damaged => local = whole
      /\ Sound(local)
      /\ local = file \/ file.notes /= local.notes

-----------------------------------------------------------------------------
(* What the reports say, held against the documents. *)

\* The primary key as the catalogue gives it.
DeclaredKey(o) ==
    LET placed == {c \in ToSet(o.columns) : c.key > 0}
        stated == SetToSortSeq(placed, LAMBDA a, b : a.key < b.key)
        keys == SelectSeq(o.constraints, LAMBDA c : c.kind = "pk")
    IN  IF placed /= {} THEN [n \in DOMAIN stated |-> stated[n].name]
        ELSE IF keys = << >> THEN << >> ELSE Head(keys).columns

\* A foreign key that some index or the primary key serves.
Served(o, c) ==
    \/ \E i \in ToSet(o.indexes) : /\ i.complete = "yes" /\ ~i.filtered
                                   /\ StartsWith(i.columns, c.columns)
    \/ StartsWith(DeclaredKey(o), c.columns)

FindingsOn(rule, document, source, e) ==
    {f \in report.lint.findings :
        /\ f.rule = rule
        /\ f.subject \in Standing(whole, document, source, e)}

Confirmed(findings) == {f \in findings : f.status = "confirmed"}

LintIsTrue(document, source) ==
    LET on(rule, d) == FindingsOn(rule, document, source,
            Entity(d[1], {d[2].name}, "constraint", d[3].name, "", {}))
        bare(s, o) == FindingsOn("table-without-primary-key", document, source,
            Entity(s.name, {}, "table", o.name, "", {}))
    IN  /\ \A d \in DeclaredKeys(document) :
             /\ Confirmed(on("fk-index-prefix", d)) /= {} =>
                  /\ ~Served(d[2], d[3])
                  /\ \A i \in ToSet(d[2].indexes) : i.complete = "yes"
             /\ report.lint.complete =>
                  Served(d[2], d[3]) \/ on("fk-index-prefix", d) /= {}
             /\ report.lint.status = 0 =>
                  Served(d[2], d[3]) /\ Confirmed(on("fk-type-mismatch", d)) = {}
        /\ \A s \in ToSet(document.schemas) : \A o \in ToSet(s.objects) :
              Confirmed(bare(s, o)) /= {} =>
                DeclaredKey(o) = << >> /\ Collected(document)

\* The bodies that depend on a table, by what was found in them and by what
\* the database reports.
Dependents(document, source, s, o) ==
    LET table == Standing(whole, document, source,
                          Entity(s.name, {}, ObjectKind(o), o.name, "", {}))
        own == table \cup UNION {Owned(whole, t) : t \in table}
        bodies == IF document.source \in DOMAIN case.bodies
                  THEN case.bodies[document.source] ELSE {}
        touches(b) == \E id \in {r.to : r \in b.reads} \cup b.writes :
                        NamespacedId(source, id) \in own
    IN  ({NamespacedId(source, b.body) : b \in {c \in bodies : touches(c)}}
           \ own) \cup
        {p[1] : p \in {q \in DependencyEdges(whole, case) :
                         q[2] \in own /\ IsKind(whole, q[1], BodyKinds)}}

TableUseIsTrue(document, source, s, o) ==
    LET told == {c \in report.unused.candidates :
                   c.id \in Standing(whole, document, source,
                     Entity(s.name, {}, "table", o.name, "", {}))}
        idle == /\ \E u \in o.usage : u.reads = 0 /\ u.scans \in {{}, {0}}
                /\ \A i \in ToSet(o.indexes) : \A u \in i.usage : u.reads = 0
    IN  /\ told /= {} <=> idle
        /\ \A c \in told :
             /\ c.bodies = Cardinality(Dependents(document, source, s, o))
             /\ c.unsure <=> \/ \E u \in o.usage : u.scans = {}
                             \/ \E i \in ToSet(o.indexes) : i.usage = {}

\* An index nobody reads may still be what a foreign key needs.
IndexUseIsTrue(document, source, s, o, i) ==
    LET told == {c \in report.unused.candidates :
                   c.id \in Standing(whole, document, source,
                     Entity(s.name, {o.name}, "index", i.name, "", {}))}
        keys == {d \in ToSet(o.constraints) :
                   /\ d.kind = "fk" /\ StartsWith(i.columns, d.columns)
                   /\ i.complete = "yes" /\ ~i.filtered}
        names(ids) == {whole.vertices[id].name : id \in ids}
    IN  /\ told /= {} <=> \E u \in i.usage : u.reads = 0
        /\ \A c \in told : ~c.unsure => names(c.serves) =
                                          {d.name : d \in keys}

UnusedIsTrue(document, source) ==
    \A s \in ToSet(document.schemas) :
      \A o \in {p \in ToSet(s.objects) : ObjectKind(p) = "table"} :
        /\ TableUseIsTrue(document, source, s, o)
        /\ \A i \in ToSet(o.indexes) : IndexUseIsTrue(document, source, s, o, i)

\* What is in one graph and not, or as something else, in the other is told.
DifferenceIsTrue ==
    LET same(id) == /\ Has(whole, id) /\ Has(local, id)
                    /\ whole.vertices[id].kind = local.vertices[id].kind
        apart == {id \in DOMAIN whole.vertices \cup DOMAIN local.vertices :
                    ~same(id)}
        told == report.since
    IN  /\ apart = told.added \cup told.removed \cup told.changed
        /\ told.added = {} /\ told.addedEdges = {}
        /\ \A k \in DOMAIN whole.edges :
              (k \in told.removedEdges) <=> (k \notin DOMAIN local.edges)

\* Whether something in one schema depends on something in another.
Crosses(rule) ==
    \E k \in DOMAIN whole.edges :
       /\ IsDependency(k.kind) /\ k.kind \in rule.kinds
       /\ k.from.path[1] = rule.from.path[1]
       /\ k.to.path[1] = rule.to.path[1]

\* A rule between two schemas is broken at the level its patterns are meant
\* for exactly if something crosses; at another level it is told.
RulesAreTrue ==
    \A r \in Rules :
       LET names(violations) == {v[1] : v \in violations}
           told(level) == report.rules[level].unmatched
       IN  IF r.from.below
           THEN /\ r.name \in names(report.broken) <=> Crosses(r)
                /\ r.name \in names(report.rules["object"].violations) <=>
                     Crosses(r)
                /\ r.name \in told("schema")
           ELSE \/ r.name \in told("schema")
                \/ r.name \in names(report.rules["schema"].violations) <=>
                     Crosses(r)

\* A confirmed finding of the lint is true of the catalogue, a lint that calls
\* itself complete has looked at every foreign key, and strict passes only if
\* each is served.  The objects reported as unused are those no use of which
\* was seen, with all bodies that depend on them and the foreign keys they
\* serve.  A rule is not passed because the level hides what breaks it, and
\* no difference between two graphs is kept quiet (schema_lint.rs:225-597,
\* unused.rs:71-231, analysis/src/lib.rs:700-749, main.rs:812-826, 2117-2171).
ReportsAreHonest ==
    stage = "reported" =>
      /\ DifferenceIsTrue
      /\ ~damaged =>
           /\ \A n \in DOMAIN case.documents :
                 /\ LintIsTrue(case.documents[n], SourceOf(case, n))
                 /\ UnusedIsTrue(case.documents[n], SourceOf(case, n))
           /\ RulesAreTrue

\* What a body does, as it was found in it.
TableOf(id) == [id EXCEPT !.path = SubSeq(@, 1, 2)]

JobOf(source, b) ==
    LET id(i) == NamespacedId(source, i)
        view == IsView(whole, id(b.body))
        columns == {r \in b.reads : Len(r.to.path) = 3}
    IN  [inputs   |-> {id(TableOf(r.to)) : r \in b.reads} \cup
                      {id(TableOf(d.to)) : d \in b.derives},
         outputs  |-> {id(TableOf(w)) : w \in b.writes} \cup
                      {id(TableOf(d.from)) : d \in b.derives} \cup
                      (IF view THEN {id(b.body)} ELSE {}),
         direct   |-> {<<id(d.from), id(d.to)>> : d \in b.derives},
         indirect |-> {<<id(r.to), r.role>> : r \in
                         {c \in columns : c.role \in {"join", "predicate"}}}]

Found == UNION {{<<SourceOf(case, n), b>> :
                   b \in case.bodies[case.documents[n].source]} :
                  n \in DOMAIN case.documents}

Idles(p) == p[2].reads = {} /\ p[2].writes = {} /\ p[2].derives = {}

\* Each body that makes something is a job with its own inputs, outputs and
\* derivations and with nothing of another body, also if two bodies derive the
\* same column from the same column, and also after a merge and a file.  No
\* two datasets of different sources get one name in the events; what was not
\* wholly analysed is marked (lineage.rs:35-192, openlineage.rs:47-450,
\* merge.rs:98-108, main.rs:1084-1234).
LineageIsAttributed ==
    stage = "reported" /\ ~damaged =>
      LET making == {p \in Found : ~Idles(p) /\ JobOf(p[1], p[2]).outputs /= {}}
          id(p) == NamespacedId(p[1], p[2].body)
          outside(d) == Identity(whole, Naming, d)
          named(p) == JobOf(p[1], p[2]).inputs \cup JobOf(p[1], p[2]).outputs
          all == UNION {named(p) : p \in making}
          clash == \E d, e \in all :
                      d.source /= e.source /\ outside(d) = outside(e)
      IN  /\ report.jobs = [j \in {id(p) : p \in making} |->
                LET p == CHOOSE q \in making : id(q) = j
                IN  JobOf(p[1], p[2])]
          /\ report.events.refused <=> clash
          /\ ~clash =>
               /\ {e.job : e \in report.events.events} = {id(p) : p \in making}
               /\ \A e \in report.events.events : \A p \in making :
                     id(p) = e.job => /\ e.partial <=> p[2].state /= "complete"
                                      /\ e.inputs = {outside(d) :
                                           d \in JobOf(p[1], p[2]).inputs}
=============================================================================
