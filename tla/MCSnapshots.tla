---------------------------- MODULE MCSnapshots -----------------------------
(***************************************************************************)
(* Snapshots over small catalogues, directories, graphs and documents.     *)
(***************************************************************************)
EXTENDS Snapshots, Integers, FiniteSets, TLC

-----------------------------------------------------------------------------
(* Two schemas with one table each, and settings that vary either the       *)
(* connection or what the user may see of one table, never both: they do    *)
(* not meet before the limitations are put together.                        *)

MCSchema == {"app", "ops"}
MCTable == {"t"}

MCRel == MCSchema \X MCTable

Everything == [r \in MCRel |-> "all"]

Quiet == [policy |-> "required", local |-> FALSE, server |-> "takes",
          may |-> Everything, filter |-> {}, version |-> 2,
          streaming |-> FALSE]

MCTried ==
    {[Quiet EXCEPT !.policy = p, !.local = l, !.server = s] :
        p \in {"never", "prefer", "required"}, l \in BOOLEAN,
        s \in {"takes", "refuses", "fails"}}
    \cup
    {[Quiet EXCEPT !.may = m, !.filter = f] :
        m \in {[Everything EXCEPT ![r] = p] :
                 r \in MCRel, p \in {"all", "noColumns", "none"}},
        f \in {{}, {"app"}, {"app", "gone"}}}
    \cup
    {[Quiet EXCEPT !.policy = "prefer", !.server = "refuses",
                   !.version = v, !.streaming = w] :
        v \in {1, 2}, w \in BOOLEAN}

-----------------------------------------------------------------------------
(* Small graphs for the queries: five vertices, one unregistered id.  The  *)
(* trunk with every subset of the web has diamonds, cycles that share a    *)
(* vertex, parallel edges, a self edge and an edge that is no dependency.  *)

Edge(u, v, k) == [from |-> u, to |-> v, kind |-> k]

MCVertices == 1..5
MCIds == 1..6
MCNoRoot == 0
MCDependency == {1, 2}          \* Reads, Calls
MCKinds == {0, 1, 2}            \* 0: Contains

Trunk == {Edge(1, 2, 1), Edge(1, 3, 1), Edge(2, 4, 1), Edge(3, 5, 0)}

Web == {Edge(3, 4, 2), Edge(4, 5, 1), Edge(5, 1, 1), Edge(4, 2, 1),
        Edge(2, 4, 2), Edge(3, 3, 1), Edge(3, 6, 1)}

MCGraphs == {Trunk \cup g : g \in SUBSET Web}

MCPathQueries ==
    [from : {1}, to : {4, 5}, reverse : {FALSE}, maxPaths : {1, 9},
     maxDepth : {2, 5}, maxVisited : {3, 9}, maxEdges : {9}]
    \cup [from : {4}, to : {1, 4, 6}, reverse : BOOLEAN, maxPaths : {9},
          maxDepth : {0, 9}, maxVisited : {0, 9}, maxEdges : {3, 9}]

MCRootQueries ==
    [roots : {<<1>>, <<1, 2>>, <<2, 5, 3, 2>>}, depth : {2, 5},
     reverse : {FALSE}, maxResults : {9}, maxVisited : {9}, maxEdges : {9}]
    \cup [roots : {<<2, MCNoRoot>>, <<1, 6, 4>>}, depth : {0, 5},
          reverse : BOOLEAN, maxResults : {1}, maxVisited : {1, 3},
          maxEdges : {3}]

MCDeadQueries ==
    [consumers : {{1, 2, 3, 4, 5}, {1, 2, 4}}, retain : {{}, {3}},
     possible : {{}, {<<1, 4>>, <<2, 2>>}, {<<5, 3>>}, {<<1, 4>>, <<5, 3>>}}]

-----------------------------------------------------------------------------
(* A schema with a table, a view that reads it and a function, and what a  *)
(* migration may do to it.                                                 *)

Column == [type |-> "int", nullable |-> FALSE, default |-> {"0"}, place |-> 1]

Index == [unique |-> FALSE, def |-> "i1"]

T == [kind |-> "table", columns |-> "c" :> Column, constraints |-> "k" :> "k1",
      indexes |-> "i" :> Index, triggers |-> "g" :> {"q1"}, body |-> {"d1"}]

V == [kind |-> "view", columns |-> << >>, constraints |-> << >>,
      indexes |-> << >>, triggers |-> << >>, body |-> {"q1"}]

F == [kind |-> "function", language |-> "sql", body |-> {"q1"}]

D == [context |-> [source |-> "app", scope |-> "all", collected |-> TRUE],
      schemas |-> {"s", "r"}, objects |-> "t" :> T @@ "v" :> V,
      routines |-> "f" :> F, depends |-> {<<"v", "t">>}]

MCStart == {D}

MCWhole == {"q1", "q2", "k1", "k2", "i1", "i2"}

MCDays == {1, 2}

Without(f, n) == [m \in DOMAIN f \ {n} |-> f[m]]

\* CREATE TABLE is the definition of a table in SQLite.
TableEdits(t) ==
    {[t EXCEPT !.columns = c, !.body = {"d2"}] :
        c \in {[t.columns EXCEPT !["c"] = x] :
                  x \in {[Column EXCEPT !.type = "text"],
                         [Column EXCEPT !.nullable = TRUE],
                         [Column EXCEPT !.default = {}],
                         [Column EXCEPT !.place = 2]}}
              \cup {"n" :> [Column EXCEPT !.default = d] @@ t.columns :
                       d \in {{}, {"0"}}}}
    \cup {[t EXCEPT !.constraints = k] :
             k \in {"k" :> "k2", "k" :> "odd", "k2" :> "k2" @@ t.constraints}}
    \cup {[t EXCEPT !.indexes = i] :
             i \in {<< >>, "i" :> [Index EXCEPT !.def = "i2"]}
                   \cup {"j" :> [Index EXCEPT !.unique = u] @@ t.indexes :
                            u \in BOOLEAN}}
    \cup {[t EXCEPT !.triggers = g] :
             g \in {"g" :> {"q2"}, "g" :> {}, "h" :> {"q1"} @@ t.triggers}}
    \cup {[t EXCEPT !.body = {"d3"}]}

ViewEdits(v) ==
    {[v EXCEPT !.body = b] : b \in {{"q2"}, {"odd"}, {}}}
    \cup {[v EXCEPT !.kind = "table", !.body = {"d2"}]}

RoutineEdits(f) ==
    {[f EXCEPT !.body = {"q2"}], [f EXCEPT !.language = "c"],
     [f EXCEPT !.kind = "procedure"],
     [f EXCEPT !.kind = "procedure", !.body = {"q2"}]}

MCMigrations(old) ==
    {[old EXCEPT !.objects = "t" :> t @@ @] :
        t \in IF "t" \in DOMAIN old.objects THEN TableEdits(old.objects["t"])
              ELSE {T}}
    \cup {[old EXCEPT !.objects = "v" :> v @@ @] :
             v \in IF "v" \in DOMAIN old.objects
                   THEN ViewEdits(old.objects["v"]) ELSE {V}}
    \cup {[old EXCEPT !.routines = "f" :> f @@ @] :
             f \in IF "f" \in DOMAIN old.routines
                   THEN RoutineEdits(old.routines["f"]) ELSE {F}}
    \cup {[old EXCEPT !.objects = Without(@, "v"), !.depends = {}],
          [old EXCEPT !.routines = Without(@, "f")],
          [old EXCEPT !.routines = "p" :> F @@ @],
          [old EXCEPT !.depends = @ \cup {<<"f", "t">>}],
          [old EXCEPT !.depends = @ \cup {<<"f", "gone">>}],
          [old EXCEPT !.schemas = @ \cup {"x"}],
          [old EXCEPT !.schemas = {"s"}],
          [old EXCEPT !.context.collected = FALSE],
          [old EXCEPT !.context.source = "ops"],
          [old EXCEPT !.context.source = ""]}

Plain == [strict |-> FALSE, complete |-> FALSE, baseline |-> FALSE,
          write |-> FALSE, sarif |-> FALSE, limited |-> FALSE,
          signal |-> FALSE, maxChanges |-> 9, asOf |-> 0, policy |-> {}]

Strict == [Plain EXCEPT !.strict = TRUE]

WithPolicy(threshold, severity) ==
    [Strict EXCEPT !.policy = {[threshold |-> threshold,
                                severity |-> severity]}]

Write == [Plain EXCEPT !.write = TRUE]

Gate == [Strict EXCEPT !.baseline = TRUE]

MCPlans ==
    {<<Write, [Gate EXCEPT !.write = TRUE, !.complete = TRUE], Gate>>,
     <<Write, [Gate EXCEPT !.policy = {[threshold |-> 3, severity |-> << >>]},
                           !.asOf = 1]>>,
     <<[Plain EXCEPT !.sarif = TRUE, !.maxChanges = 1],
       [WithPolicy(3, << >>) EXCEPT !.asOf = 2]>>,
     <<[WithPolicy(4, "object-removed" :> 4) EXCEPT !.complete = TRUE],
       WithPolicy(3, << >>)>>,
     <<[Strict EXCEPT !.complete = TRUE, !.limited = TRUE]>>,
     <<[Write EXCEPT !.signal = TRUE], Gate>>,
     <<[Write EXCEPT !.maxChanges = 1],
       [Plain EXCEPT !.baseline = TRUE]>>}

-----------------------------------------------------------------------------
(* Small documents for GraphAssembly: names that collide, packages that    *)
(* are there or not, foreign keys with and without an index, references    *)
(* that fit one object, none or two, bodies, and two databases.            *)

GColumn(name, type, key) ==
    [name |-> name, type |-> type, key |-> key, ordinal |-> 1]

GObject(name, kind, columns) ==
    [name |-> name, kind |-> kind, columns |-> columns,
     constraints |-> << >>, indexes |-> << >>, triggers |-> << >>,
     usage |-> {}]

GIndex(name, columns) ==
    [name |-> name, columns |-> columns, unique |-> FALSE,
     filtered |-> FALSE, complete |-> "yes", usage |-> {}]

GUsage(reads, scanned) == {[reads |-> reads, scans |-> scanned, since |-> {1}]}

GConstraint(name, kind, columns) ==
    [name |-> name, kind |-> kind, columns |-> columns, referenced |-> {}]

GForeignKey(name, columns, schema, table, referenced) ==
    [name |-> name, kind |-> "fk", columns |-> columns,
     referenced |-> {[schema |-> schema, table |-> table,
                      columns |-> referenced]}]

GRoutine(name, kind, sig, package) ==
    [name |-> name, kind |-> kind, sig |-> sig, package |-> package,
     usage |-> {}]

GSchema(name, objects, listed) ==
    [name |-> name, objects |-> objects, routines |-> listed]

GContext(database, wholly) ==
    {[database |-> database, complete |-> wholly]}

GDocument(source, context, schemas) ==
    [source |-> source, context |-> context, schemas |-> schemas,
     dependencies |-> {}]

GNoBodies == [s \in {"a", "b", "c"} |-> {}]

GCase(command, docs) ==
    [command |-> command, documents |-> docs, bodies |-> GNoBodies,
     inferred |-> FALSE, edited |-> FALSE, shown |-> 20]

GAlone(schemas) ==
    GCase("analyze", <<GDocument("a", GContext({}, TRUE), schemas)>>)

\* Names that columns, constraints, indexes and triggers of a table share.
GMemberClashes ==
    {GAlone(<<GSchema("s", <<[GObject("t", "table",
                                <<GColumn("x", "int4", 1)>>) EXCEPT
                                !.constraints = c, !.indexes = i,
                                !.triggers = g]>>, << >>)>>) :
       c \in {<< >>, <<GConstraint("x", "unique", <<"x">>)>>,
              <<GConstraint("y", "unique", <<"x">>)>>},
       i \in {<< >>, <<GIndex("x", <<"x">>)>>, <<GIndex("y", <<"x">>)>>,
              <<GIndex("x", <<"x">>), GIndex("x", <<"x">>)>>},
       g \in {<< >>, <<"x">>, <<"y">>}}

\* Routines that share a name with a table, with each other, and members of a
\* package that is there, that is not, or whose name a table has.
GRoutines ==
    {GRoutine("t", "function", "", {}), GRoutine("t", "procedure", "", {}),
     GRoutine("f", "function", "int", {}), GRoutine("f", "procedure", "int", {}),
     GRoutine("f", "function", "text", {}), GRoutine("t", "package", "", {}),
     GRoutine("x", "function", "", {"t"}), GRoutine("p", "package", "", {}),
     GRoutine("x", "procedure", "", {"p"})}

GRoutineClashes ==
    {GAlone(<<GSchema("s", <<GObject("t", "table",
                               <<GColumn("x", "int4", 1)>>)>>, r)>>) :
       r \in {<<m>> : m \in GRoutines} \cup
             {<<m, n>> : m, n \in GRoutines}} \cup
    {GAlone(<<GSchema("s", <<GObject("t", "table",
                               <<GColumn("x", "int4", 1)>>)>>,
                      <<GRoutine("x", "procedure", "", {"t"})>> \o r)>>) :
       r \in {<<m, n>> : m, n \in {q \in GRoutines : q.name = "t"}}}

\* A table and one that refers to it: what the key names, what the primary key
\* is known from, the indexes, the types, how much was collected.
GParents ==
    {GObject("p", "table", <<GColumn("b", "int4", 2), GColumn("a", "int4", 1)>>),
     [GObject("p", "table", <<GColumn("a", "int4", 0), GColumn("b", "int4", 0)>>)
        EXCEPT !.constraints = <<GConstraint("k", "pk", <<"b", "a">>)>>],
     GObject("p", "table", <<GColumn("a", "int4", 0), GColumn("b", "int4", 0)>>)}

GKeys ==
    {GForeignKey("r", <<"x">>, {}, "p", <<"a">>),
     GForeignKey("r", <<"x", "y">>, {}, "p", <<"a", "b">>),
     GForeignKey("r", <<"x", "y">>, {"s"}, "p", <<"", "">>),
     GForeignKey("r", <<"x">>, {}, "p", <<"">>),
     GForeignKey("r", <<"x">>, {"u"}, "p", <<"a">>),
     GForeignKey("r", <<"x">>, {}, "q", <<"a">>),
     GConstraint("r", "fk", <<"x">>)}

GIndexes ==
    {<< >>, <<GIndex("i", <<"x">>)>>, <<GIndex("i", <<"x", "y">>)>>,
     <<GIndex("i", <<"y", "x">>)>>,
     <<[GIndex("i", <<"x", "y">>) EXCEPT !.filtered = TRUE]>>,
     <<[GIndex("i", <<"x">>) EXCEPT !.complete = "no"]>>,
     <<[GIndex("i", <<"y">>) EXCEPT !.complete = "unknown"]>>,
     <<[GIndex("i", <<"x", "y">>) EXCEPT !.usage = GUsage(0, {})]>>,
     <<GIndex("i", <<"x">>), GIndex("r", <<"x">>)>>}

GChild(key, indexes, place, type) ==
    [GObject("c", "table", <<GColumn("x", type, place),
                             GColumn("y", "int4", 0)>>) EXCEPT
       !.constraints = <<key>>, !.indexes = indexes]

GReferenceCase(context, parent, child, shown) ==
    [GCase("analyze", <<GDocument("a", context,
         <<GSchema("s", <<child, parent>>, << >>)>>)>>)
       EXCEPT !.shown = shown]

GReferences ==
    {GReferenceCase(GContext({}, TRUE), p, GChild(k, i, 1, "int4"), 20) :
       p \in GParents, k \in GKeys, i \in GIndexes} \cup
    {GReferenceCase(GContext({}, TRUE), p, GChild(k, << >>, n, t), m) :
       p \in {GObject("p", "table", <<GColumn("a", "int4", 1)>>)},
       k \in {GForeignKey("r", <<"y">>, {}, "p", <<"a">>),
              GForeignKey("r", <<"x">>, {}, "p", <<"a">>)},
       n \in 0..2, t \in {"int4", "serial", "text", "unknown"}, m \in {0, 20}} \cup
    {GReferenceCase(x, p, GChild(k, i, n, "int4"), 20) :
       x \in {{}, GContext({}, FALSE)}, p \in GParents,
       k \in {GForeignKey("r", <<"x">>, {}, "p", <<"a">>)},
       i \in {<< >>, <<GIndex("i", <<"x">>)>>,
              <<[GIndex("i", <<"x">>) EXCEPT !.complete = "unknown"]>>},
       n \in 0..1}

GRef(database, name, kind, sig, member) ==
    [database |-> database, schema |-> "s", name |-> name, kind |-> kind,
     sig |-> sig, member |-> member]

\* What the database reports: by name, by kind, by signature, a column, and
\* objects of this database, of another one and of one nobody collected.
GRefs ==
    {GRef({}, "t", {}, {}, {}), GRef({}, "t", {"table"}, {}, {}),
     GRef({}, "t", {}, {}, {"x"}), GRef({}, "v", {"view"}, {}, {}),
     GRef({}, "f", {"function"}, {}, {}),
     GRef({}, "f", {"function"}, {"int"}, {}),
     GRef({}, "x", {"function"}, {}, {})}

GDependent ==
    <<GSchema("s", <<GObject("t", "table", <<GColumn("x", "int4", 1)>>),
                     GObject("v", "view", <<GColumn("x", "int4", 0)>>)>>,
              <<GRoutine("f", "function", "int", {}),
                GRoutine("f", "function", "text", {}),
                GRoutine("f", "procedure", "int", {}),
                GRoutine("t", "function", "", {}),
                GRoutine("p", "package", "", {}),
                GRoutine("x", "function", "", {"p"})>>)>>

GDependencies ==
    {GCase("analyze", <<[GDocument("a", GContext({"d"}, TRUE), GDependent)
         EXCEPT !.dependencies = {[from |-> f, to |-> t]}]>>) :
       f \in GRefs \cup {GRef({"e"}, "v", {}, {}, {})},
       t \in GRefs \cup {GRef({"d"}, "t", {"table"}, {}, {}),
                         GRef({"e"}, "t", {"table"}, {}, {})}}

GSmall(name) ==
    <<GSchema("s", <<GObject(name, "table", <<GColumn("x", "int4", 1)>>)>>,
              << >>)>>

GTwo(first, second, third, dependency) ==
    {[GCase("merge", <<[GDocument("b", GContext(first, TRUE), GSmall("v"))
                          EXCEPT !.dependencies = dependency],
                       GDocument("a", second, GSmall("t"))>> \o third)
        EXCEPT !.inferred = TRUE]}

GMerges ==
    UNION {GTwo({"d"}, x, c, {[from |-> GRef({}, "v", {}, {}, {}), to |-> t]}) :
       x \in {GContext({"e"}, TRUE), GContext({"e"}, FALSE),
              GContext({"d"}, TRUE), GContext({}, TRUE), {}},
       c \in {<< >>, <<GDocument("c", GContext({"e"}, TRUE), GSmall("t"))>>,
              <<GDocument("b", GContext({"e"}, TRUE), GSmall("t"))>>},
       t \in {GRef({"e"}, "t", {}, {}, {}), GRef({"e"}, "u", {}, {}, {}),
              GRef({"d"}, "v", {}, {}, {})}}

\* Two databases with foreign keys of their own.
GMergedReferences ==
    {GCase("merge", <<GDocument("b", GContext({}, TRUE),
                        <<GSchema("s", <<GChild(k, i, 0, "int4"), p>>, << >>)>>),
                      GDocument("a", GContext({}, TRUE),
                        <<GSchema("s", <<GChild(k, << >>, 1, "text"), p>>,
                                  << >>)>>)>>) :
       k \in GKeys, p \in GParents, i \in GIndexes}

\* Bodies: a view, a routine and a trigger over one table, with their usage.
GUsed(tables, indexes) ==
    <<GSchema("s",
        <<[GObject("t", "table", <<GColumn("x", "int4", 1),
                                   GColumn("n_id", "int4", 0),
                                   GColumn("p_id", "int4", 0)>>) EXCEPT
             !.usage = tables, !.triggers = <<"g">>,
             !.indexes = <<[GIndex("i", <<"x">>) EXCEPT !.usage = indexes]>>],
          GObject("n", "table", <<GColumn("id", "int4", 1)>>),
          GObject("ns", "table", <<GColumn("no", "int4", 1)>>)>>, << >>),
      GSchema("r", <<GObject("v", "view", <<GColumn("x", "int4", 0)>>)>>,
              <<GRoutine("f", "procedure", "", {})>>)>>

GId(path) == [source |-> "", path |-> path, sig |-> "", split |-> ""]

GTx == GId(<<"s", "t", "x">>)

GBody(path, hash, reads, writes, derives) ==
    [body |-> GId(path), hash |-> hash, reads |-> reads, writes |-> writes,
     derives |-> derives, state |-> "complete", diagnostics |-> {}]

GView ==
    GBody(<<"r", "v">>, "h1",
          {[to |-> GId(<<"s", "t">>), role |-> "relation"],
           [to |-> GTx, role |-> "value"], [to |-> GTx, role |-> "predicate"]},
          {}, {[from |-> GId(<<"r", "v", "x">>), to |-> GTx]})

GWriters ==
    {GBody(<<"r", "f">>, "h2", {}, {}, {}),
     GBody(<<"r", "f">>, "h2", {[to |-> GTx, role |-> "join"]}, {}, {}),
     GBody(<<"r", "f">>, "h2", {[to |-> GTx, role |-> "predicate"]},
           {GId(<<"s", "n">>)}, {[from |-> GId(<<"s", "n", "id">>),
                                  to |-> GTx]}),
     \* It writes through the view: what the view defines, it derives too.
     GBody(<<"r", "f">>, "h2", {}, {GId(<<"r", "v">>)},
           {[from |-> GId(<<"r", "v", "x">>), to |-> GTx]})}

GTrigger ==
    [GBody(<<"s", "t", "g">>, "h3", {[to |-> GTx, role |-> "predicate"]},
           {GId(<<"s", "t">>)}, {}) EXCEPT
       !.state = "partial",
       !.diagnostics = {[code |-> "ambiguous",
                         candidates |-> {GId(<<"r", "f">>)}]}]

GBodyCase(command, sources, bodies, tables, indexes, edited) ==
    [GCase(command, [n \in DOMAIN sources |->
         GDocument(sources[n], GContext({}, TRUE), GUsed(tables, indexes))])
       EXCEPT !.bodies = [s \in {"a", "b", "c"} |->
                            IF s = sources[1] THEN bodies ELSE {GView}],
              !.inferred = TRUE, !.edited = edited]

GBodies ==
    {GBodyCase("analyze", <<"a">>, {GView, w} \cup g, GUsage(0, {0}), {},
               edited) :
       w \in GWriters, g \in {{}, {GTrigger}}, edited \in BOOLEAN} \cup
    {[GBodyCase("analyze", <<"a">>, {GView}, {}, {}, FALSE) EXCEPT
        !.documents[1].schemas[1].objects[3].columns[1].name = "id"]} \cup
    {GBodyCase("merge", s, {GView, w, GTrigger}, {}, {}, FALSE) :
       w \in GWriters, s \in {<<"a", "b">>, <<"b", "a">>, <<"a", "c">>}} \cup
    {GBodyCase("analyze", <<"a">>, {GView}, t, i, FALSE) :
       t \in {{}, GUsage(0, {}), GUsage(0, {0}), GUsage(0, {2}),
              GUsage(3, {1})},
       i \in {{}, GUsage(0, {}), GUsage(1, {})}}

MCCases == GMemberClashes \cup GRoutineClashes \cup GReferences \cup
           GDependencies \cup GMerges \cup GMergedReferences \cup GBodies

MCGuess == "n_id" :> {"n", "ns"} @@ "p_id" :> {"p", "ps"}

\* The dots of the names that have any.
MCParts ==
    [n \in {"s", "r", "t", "v", "n", "ns", "f", "a", "b", "c", "p"} |-> <<n>>]

\* The third source has the place of the first.
MCNaming ==
    [s \in {"", "a", "b", "c"} |->
       [namespace |-> "db",
        database |-> IF s = "" THEN {} ELSE IF s = "c" THEN {"a"} ELSE {s}]]

GPattern(path, below) == [path |-> path, below |-> below]

MCRules ==
    {[name |-> "r uses s", from |-> GPattern(<<"r">>, TRUE),
      to |-> GPattern(<<"s">>, TRUE),
      kinds |-> {"reads", "writes", "derives-from"}],
     [name |-> "schema r writes s", from |-> GPattern(<<"r">>, FALSE),
      to |-> GPattern(<<"s">>, FALSE), kinds |-> {"writes"}]}

-----------------------------------------------------------------------------
(* Small documents, manifests and logs for Imports: schemas in and out of  *)
(* scope, names that are taken, models with and without their text and     *)
(* their file, two of them with one file, rows out of order.               *)

IRoutine(kind, id, schema) ==
    [name |-> <<kind, id>>, schema |-> schema, kind |-> "function",
     body |-> "a", member |-> {}, used |-> FALSE, source |-> {}]

IObject(id, kept) ==
    [schema |-> "s", name |-> id, kind |-> "table", used |-> FALSE,
     kept |-> kept]

ICatalog ==
    [version |-> 1, reader |-> {"native"}, producer |-> {}, features |-> {},
     unknown |-> {},
     context |-> {[source |-> "app", database |-> {"db"}, filter |-> {}]},
     schemas |-> {"s", "r", "very long"},
     objects |-> {IObject(<<"own", "m">>, 1)},
     routines |-> {IRoutine("own", "m", "r")}, dependencies |-> {},
     limitations |-> {}]

\* The same document in the second version of the format.
INewer ==
    [ICatalog EXCEPT !.version = 2, !.reader = {}, !.producer = {"native"},
                     !.features = {{}}]

IContext(source, database, filter) ==
    {[source |-> source, database |-> database, filter |-> filter]}

IOdd ==
    {[ICatalog EXCEPT !.context = c] :
        c \in {{}, IContext("app", {}, {}), IContext("", {"db"}, {}),
               IContext("app", {"db"}, {{"s"}})}} \cup
    {[ICatalog EXCEPT !.objects = @ \cup {IObject(<<"dbt", "m">>, 1)}],
     [ICatalog EXCEPT !.objects = @ \cup {IObject(<<"own", "m">>, 2)}],
     [ICatalog EXCEPT !.routines = @ \cup {IRoutine("dbt", "m", "r")}],
     [ICatalog EXCEPT !.routines = @ \cup {[IRoutine("own", "n", "r")
                                              EXCEPT !.kind = "query"]}],
     [ICatalog EXCEPT !.unknown = {"extra"}, !.producer = {"native"}],
     [ICatalog EXCEPT !.reader = {""}], [ICatalog EXCEPT !.version = 3],
     INewer, [INewer EXCEPT !.reader = {"native"}],
     [INewer EXCEPT !.producer = {""}], [INewer EXCEPT !.dependencies = {"d"}],
     [INewer EXCEPT !.features = {{"dependencies-v9"}}],
     [INewer EXCEPT !.dependencies = {"d"},
                    !.features = {{"catalog-dependencies-v1", "usage-v1"}}]}

IModel(id, code, path) ==
    [wellFormed |-> TRUE, key |-> id, id |-> id, type |-> "model",
     schema |-> "s", database |-> "db", code |-> code, path |-> path,
     original |-> {}]

IManifest(listing) ==
    [kind |-> "dbt", file |-> "regular", wellFormed |-> TRUE,
     root |-> "directory", version |-> 2, entries |-> listing]

IDay(month, day) == <<2024, month, day, 0, 0, 0, 0>>

IRow(id, at, sql) ==
    [wellFormed |-> TRUE, id |-> id, schema |-> "s", at |-> at, code |-> {sql},
     executions |-> 1]

ILog(rows) ==
    [kind |-> "log", file |-> "regular", wellFormed |-> TRUE, root |-> "",
     version |-> 2, source |-> "app", database |-> "db", sampling |-> "all",
     from |-> IDay(2, 28), to |-> IDay(3, 1), entries |-> rows]

ICodes == {{}, {"a"}, {"bb"}}

IPath(name) == {<<name>>}

IPaths == {{}, IPath("p"), IPath("q")}

\* Paths that are not what they look like: of no SQL file, in a directory that
\* is missing, out of the project, absolute, too long, or written otherwise.
IOddPaths ==
    {IPath("p.txt"), {<<"d", "p">>}, {<<"..", "p">>}, {<<"/", "p">>},
     {<<".", "d", "d", "p">>}, {<<".", "p">>}, {<<".">>}}

\* One model, and everything that may be odd about it.
IModels ==
    LET m == IModel("m", {"a"}, IPath("p"))
    IN  {IModel("m", c, p) : c \in ICodes, p \in IPaths} \cup
        {IModel("m", {"a"}, p) : p \in IOddPaths} \cup
        {[m EXCEPT !.key = "k"], [m EXCEPT !.type = "test"],
         [m EXCEPT !.type = ""], [m EXCEPT !.wellFormed = FALSE],
         [m EXCEPT !.schema = "r"], [m EXCEPT !.schema = "t"],
         [m EXCEPT !.schema = "very long"],
         [m EXCEPT !.database = "other"], [m EXCEPT !.code = {""}],
         IModel("m", {"ccc"}, {}), IModel("m\n", {"a"}, {})}

IManifests ==
    {IManifest(<<m>>) : m \in IModels} \cup
    {IManifest(<<IModel("m", c, p), IModel("n", d, q)>>) :
        c \in ICodes, p \in IPaths, d \in {{}, {"a"}},
        q \in {IPath("p"), IPath("q"), {<<".", "p">>}}} \cup
    {[IManifest(<<IModel("m", c, IPath("p"))>>) EXCEPT !.root = ""] :
        c \in {{}, {"a"}}} \cup
    {[IManifest(<<IModel("m", {"a"}, {})>>) EXCEPT !.version = 1],
     [IManifest(<<IModel("m", {"a"}, {})>>) EXCEPT !.root = "link"],
     [IManifest(<<IModel("m", {"a"}, {})>>) EXCEPT !.file = "link"],
     [IManifest(<<IModel("m", {"a"}, {})>>) EXCEPT !.wellFormed = FALSE],
     IManifest(<<IModel("m", {"a"}, {}), IModel("n", {"a"}, {}),
                 IModel("o", {"a"}, {})>>)}

ILogs ==
    LET row == IRow("m", IDay(2, 29), "a")
        log == ILog(<<row>>)
    IN  {ILog(<<row, IRow("n", t, "a")>>) :
           t \in {IDay(2, 27), IDay(2, 28), IDay(2, 30), IDay(3, 1), << >>,
                  <<2024, 3, 1, 0, 0, 1, 0>>, <<2024, 2, 29, 24, 0, 0, 0>>,
                  <<2023, 2, 29, 0, 0, 0, 0>>}} \cup
        {ILog(<<row, row>>), ILog(<<row, IRow("n", IDay(2, 29), "bb")>>),
         ILog(<<IRow("m", IDay(2, 29), "")>>), ILog(<<[row EXCEPT !.id = ""]>>),
         ILog(<<[row EXCEPT !.schema = "r"]>>),
         ILog(<<[row EXCEPT !.wellFormed = FALSE]>>),
         [log EXCEPT !.source = "other"], [log EXCEPT !.database = "other"],
         [log EXCEPT !.sampling = ""], [log EXCEPT !.sampling = "m\n"],
         [log EXCEPT !.root = "directory"],
         [log EXCEPT !.to = IDay(2, 27)], [log EXCEPT !.to = << >>],
         [log EXCEPT !.from = <<2023, 2, 29, 0, 0, 0, 0>>,
                     !.to = <<2023, 3, 1, 0, 0, 0, 0>>]}

ISession(base, given) == [stored |-> base, inputs |-> given]

\* One import into a plain document, a few into odd ones, and one after
\* another: of the other kind, and of the same.
MCSessions ==
    LET one   == IManifest(<<IModel("m", {}, IPath("p"))>>)
        two   == IManifest(<<IModel("m", {"a"}, IPath("p")),
                             IModel("n", {}, IPath("q"))>>)
        log   == ILog(<<IRow("m", IDay(3, 1), "a")>>)
        moved == [one EXCEPT !.entries[1].schema = "r"]
        empty == IManifest(<< >>)
    IN  {ISession(ICatalog, <<i>>) : i \in IManifests \cup ILogs} \cup
        {ISession(c, <<i>>) : c \in IOdd, i \in {one, log, moved}} \cup
        {ISession(ICatalog, s) :
            s \in {<<one, log, two>>, <<log, two, log>>, <<empty, one>>,
                   <<two, moved>>}}

\* A year has 365 days, and 97 of four hundred have one more.
ASSUME CalendarIsGregorian ==
    LET long == {y \in 1 .. 400 : DaysIn(y, 2) = 29}
    IN  /\ Cardinality(long) = 97
        /\ \A y \in 1 .. 400 :
              MapThenSumSet(LAMBDA m : DaysIn(y, m), 1 .. 12)
                = IF y \in long THEN 366 ELSE 365

MCOverlong == {"very long"}

MCUnprintable == {"m\n"}

MCSqlNames == {"p", "q"}

\* "closed" is a link, what is no file, or what is no text.
MCCompiled ==
    {<<"p">> :> x @@ <<"q">> :> y : x \in {"absent", "closed", "a", "bb"},
                                   y \in {"absent", "a"}}

MCBytes == "" :> 0 @@ "a" :> 1 @@ "bb" :> 2 @@ "ccc" :> 3

-----------------------------------------------------------------------------
(* Small directories for ProbeRun: outputs that are new, old, links to     *)
(* files, to nothing, to the database and its log, to themselves, and a    *)
(* database that is itself behind a link; and small databases.             *)

PEntry(is, to) == [is |-> is, to |-> to]
PNothing == PEntry("nothing", <<"", "">>)
PLink(a, b) == PEntry("link", <<a, b>>)
PFile(a, b) == PEntry("file", <<a, b>>)

PEmpty ==
    [n \in ({"db", "data", "out", "end"} \X {""}) \cup
            ({"db", "data"} \X {"wal"}) \cup ({"tmp"} \X {"p", "q"})
       |-> PNothing]

\* The SQLite file under its name, and behind a link.
PPlain  == <<"db", "">> :> PFile("app", "db") @@ PEmpty
PBehind == <<"db", "">> :> PLink("data", "") @@
           <<"data", "">> :> PFile("app", "db") @@ PEmpty

POutputs ==
    {PNothing, PFile("user", "old"), PFile("app", "db"),
     PEntry("device", <<"", "">>)} \cup
    {PLink(n, m) : n \in {"db", "data"}, m \in {"", "wal"}} \cup
    {PLink("out", ""), PLink("end", "")}

PWith(base, output, end) ==
    <<"out", "">> :> output @@ <<"end", "">> :> end @@ base

\* What a link to "end" may find there.
PDirectories(base) ==
    {PWith(base, o, PNothing) : o \in POutputs} \cup
    {PWith(base, PLink("end", ""), e) :
        e \in {PFile("user", "old"), PLink("data", "wal"), PLink("out", "")}}

PGo(stream)     == [go |-> TRUE, stream |-> stream]
PKotlin(stream) == [go |-> FALSE, stream |-> stream]

PTrial(folder, probes) ==
    [dialect |-> "sqlite", directory |-> folder, perm |-> "private",
     writable |-> TRUE, filter |-> {}, holds |-> [a |-> "tables"],
     probes |-> probes, dependencies |-> FALSE, lenient |-> TRUE,
     moved |-> {PNothing, PLink("db", ""), PFile("app", "db")}]

\* One probe of each kind into every directory, two of them into one where
\* they may disturb each other.
PAlone == {[p |-> m] : m \in {PGo(TRUE), PGo(FALSE),
                               PKotlin(TRUE), PKotlin(FALSE)}}

PBoth  == {[p |-> PGo(TRUE), q |-> PKotlin(FALSE)],
           [p |-> PKotlin(TRUE), q |-> PGo(FALSE)]}

PAliased ==
    {PTrial(d, m) : m \in PAlone,
       d \in PDirectories(PPlain) \cup PDirectories(PBehind)}

PShared ==
    {[PTrial(PWith(PPlain, o, e), m) EXCEPT !.moved = {PNothing}] :
       m \in PBoth, o \in {PNothing, PLink("end", "")},
       e \in {PNothing, PFile("user", "old")}}

PDenied ==
    UNION {{[t EXCEPT !.perm = "readonly"], [t EXCEPT !.writable = FALSE]} :
       t \in {PTrial(PWith(PPlain, o, PNothing), m) :
                m \in PAlone, o \in {PFile("user", "old"), PNothing}}}

\* Databases on a server, of which the names say nothing.
PServed ==
    LET served(d, m, holds, filter, lenient, dependencies) ==
          [PTrial(PWith(PEmpty, PNothing, PNothing), m) EXCEPT
             !.dialect = d, !.holds = holds, !.filter = filter,
             !.lenient = lenient, !.dependencies = dependencies,
             !.moved = {}]
        two    == [a |-> "tables", b |-> "routines"]
        others == {[a |-> "routines", b |-> "nothing"],
                   [a |-> "tables", b |-> "nothing"]}
    IN  {served("postgres", m, two, f, l, FALSE) :
           m \in PAlone, l \in BOOLEAN, f \in {{}, {"a"}, {"b"}, {"a", "c"}}}
          \cup
        {served(d, m, h, {}, TRUE, TRUE) :
           d \in {"oracle", "postgres"}, m \in PAlone, h \in others}
          \cup
        {[t EXCEPT !.dependencies = TRUE] :
           t \in {PTrial(PWith(PPlain, PNothing, PNothing), m) : m \in PAlone}}

\* Kotlin writes to a loop if there is no file to compare it with.
PLooped ==
    {[PTrial(PWith(PEmpty, PLink("out", ""), PNothing), m) EXCEPT
        !.dialect = "oracle", !.moved = {}] : m \in PAlone}

MCTrials == PAliased \cup PShared \cup PDenied \cup PServed \cup PLooped

-----------------------------------------------------------------------------
(* Small directories and documents for SqlFiles: two files, one of them in *)
(* a directory, an ignored directory, two paths that are one when \ is /,  *)
(* a name that cannot be a path; documents with queries of earlier scans   *)
(* and with routines in their way.                                         *)

FPath(above, relative, name) ==
    [above |-> above, relative |-> relative, name |-> name]

\* 1 is a.sql, 2 the directory d with d/b.sql, 4 the file d\b.sql, 5 the
\* directory target with a file, 7 a file whose name is not UTF-8.
FPlace ==
    0 :> FPath({}, 0, "plain") @@ 1 :> FPath({0}, 1, "sql") @@
    2 :> FPath({0}, 0, "plain") @@ 3 :> FPath({0, 2}, 2, "sql") @@
    4 :> FPath({0}, 2, "sql") @@ 5 :> FPath({0}, 0, "ignored") @@
    6 :> FPath({0, 5}, 3, "sql") @@ 7 :> FPath({0}, 0, "unusable")

FContents == {<<"b", "b">>, <<"c", "c", "c">>}

FNotText == {"?"}

FFile == [kind |-> "file", content |-> <<"a">>]
FDir == [kind |-> "dir"]
FLink == [kind |-> "link"]
FNone == [kind |-> "none"]

\* Absent from one document; the others are ambiguous without it.
FAskable == {"t"}

FTree(f) == [p \in 0..7 |-> IF p \in DOMAIN f THEN f[p] ELSE FNone]

FNested == 0 :> FDir @@ 1 :> FFile @@ 2 :> FDir @@ 3 :> FFile

FTrees ==
    {FTree(FNested), FTree(0 :> FDir @@ 1 :> FFile @@ 5 :> FDir @@ 6 :> FFile),
     FTree(0 :> FLink), FTree(4 :> FFile @@ FNested),
     FTree(7 :> FFile @@ FNested), FTree(2 :> FLink @@ FNested),
     FTree(1 :> [FFile EXCEPT !.content = <<"?">>] @@ FNested)}

\* Links lead to a directory with the same two files, and to nothing else.
FForeign == [kind |-> "file", content |-> <<"x">>]

FBeyond == FTree(0 :> FDir @@ 1 :> FForeign @@ 2 :> FDir @@ 3 :> FForeign)

FQueryName == 1 :> 11 @@ 2 :> 12 @@ 3 :> 13

FRoutine(name, kind, source) ==
    [name |-> name, kind |-> kind, body |-> <<"z">>, source |-> source]

\* The query of an earlier scan, a query that was imported from the file, a
\* function with the name of the query, one without any of this.
FOwn == FRoutine(11, "query", {1})
FImported == FRoutine(5, "query", {1})
FTaken == FRoutine(12, "function", {})
FOther == FRoutine(20, "function", {})

FDocuments ==
    {"s" :> <<>>} \cup
    {"t" :> list @@ "s" :> <<FOther>> :
        list \in {<<FOther, FOwn>>, <<FImported>>, <<FTaken>>,
                  <<FOwn, FOther, FOwn>>, <<FOther, FOther>>}}
=============================================================================
