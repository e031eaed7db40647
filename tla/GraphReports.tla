---------------------------- MODULE GraphReports ----------------------------
(***************************************************************************)
(* What is reported of a graph: the lint of the catalogue facts            *)
(* (analysis/src/schema_lint.rs), the objects no use of which was seen     *)
(* (unused.rs), forbidden dependencies (analysis/src/lib.rs), and the      *)
(* lineage of every SQL body (lineage.rs) with the names it gets outside   *)
(* (export/src/openlineage.rs).                                            *)
(***************************************************************************)
EXTENDS GraphFile

CONSTANT Parts      \* the parts a name is in when its dots are not escaped

StartsWith(s, prefix) == IsPrefix(prefix, s)

\* The primary key of a table that is complete: its places are 1, 2, ...
KeyColumns(facts, table) ==
    {c \in DOMAIN facts.columns :
        facts.columns[c].key > 0 /\ StringParent(c) = {table}}

KeyObserved(facts, table) ==
    LET columns == KeyColumns(facts, table)
    IN  /\ columns /= {}
        /\ {facts.columns[c].key : c \in columns} = 1..Cardinality(columns)

PrimaryKey(facts, table) ==
    SetToSortSeq(KeyColumns(facts, table),
                 LAMBDA a, b : facts.columns[a].key < facts.columns[b].key)

Indexes(facts, table) ==
    {i \in DOMAIN facts.indexes : facts.indexes[i].table = table}

\* A bug: an index that leaves rows out is taken for a whole one.
UsableIfKnown(index) == index.complete

Usable(index) == index.complete /\ ~index.filtered

\* An index with the columns first in its key, or the primary key.
CoveredByIndex(facts, table, columns) ==
    \E i \in Indexes(facts, table) :
       /\ Usable(facts.indexes[i])
       /\ StartsWith(facts.indexes[i].columns, columns)

CoveredByKey(facts, table, columns) ==
    /\ KeyObserved(facts, table)
    /\ StartsWith(PrimaryKey(facts, table), columns)

Unobserved(facts, table) ==
    \/ \E i \in Indexes(facts, table) : ~facts.indexes[i].complete
    \/ ~KeyObserved(facts, table)

Finding(rule, status, subject, columns) ==
    [rule |-> rule, status |-> status, subject |-> subject,
     columns |-> columns]

Advisory(finding) ==
    finding.rule \in {"table-without-primary-key", "duplicate-index"}

IndexFindings(g, facts) ==
    LET known(k) == k.complete /\ k.columns /= << >> /\ Has(g, k.table)
        covered(k) == \/ CoveredByIndex(facts, k.table, k.columns)
                      \/ CoveredByKey(facts, k.table, k.columns)
        status(k) == IF known(k) /\ ~Unobserved(facts, k.table)
                     THEN "confirmed" ELSE "unverified"
    IN  {Finding("fk-index-prefix", status(facts.foreignKeys[id]), id,
                 facts.foreignKeys[id].columns) :
           id \in {i \in DOMAIN facts.foreignKeys :
                     LET k == facts.foreignKeys[i]
                     IN  ~(known(k) /\ covered(k))}}

\* The serial types are the integers they stand for.
NormalizedType(type) == IF type = "serial" THEN "int4" ELSE type

TypeFindings(facts) ==
    LET target(k) == IF k.targetColumns /= << >> THEN k.targetColumns
                     ELSE IF k.targetTable = {} THEN << >>
                     ELSE PrimaryKey(facts, Only(k.targetTable))
        type(c) == NormalizedType(facts.columns[c].type)
        unread(near, far) ==
          \/ ~({near, far} \subseteq DOMAIN facts.columns)
          \/ "unknown" \in {type(near), type(far)}
        ofPair(id, near, far) ==
          IF unread(near, far)
          THEN {Finding("fk-type-mismatch", "unverified", id, <<near>>)}
          ELSE IF type(near) = type(far) THEN {}
          ELSE {Finding("fk-type-mismatch", "confirmed", id, <<near>>)}
        ofKey(id, k) ==
          IF Len(target(k)) /= Len(k.columns)
          THEN {Finding("fk-type-mismatch", "unverified", id, k.columns)}
          ELSE UNION {ofPair(id, k.columns[n], target(k)[n]) :
                        n \in DOMAIN k.columns}
    IN  UNION {ofKey(id, facts.foreignKeys[id]) :
                 id \in {i \in DOMAIN facts.foreignKeys :
                           facts.foreignKeys[i].complete}}

KeyFindings(g, facts) ==
    {Finding("table-without-primary-key",
             IF facts.complete THEN "confirmed" ELSE "unverified", t, << >>) :
       t \in {v \in DOMAIN g.vertices : /\ g.vertices[v].kind = "table"
                                        /\ KeyColumns(facts, v) = {}}}

\* An index of the name of a constraint that is no foreign key belongs to it.
BacksConstraint(g, table, index) ==
    \E k \in Outgoing(g, table) :
       /\ Has(g, index) /\ IsKind(g, k.to, {"constraint"})
       /\ g.vertices[k.to].name = g.vertices[index].name
       /\ \A facts \in g.metadata : k.to \notin DOMAIN facts.foreignKeys

\* All but one of the indexes with the same key: the one that is kept backs a
\* constraint if any does.  (The code takes the first in the order of ids.)
DuplicateFindings(g, facts) ==
    LET whole == {i \in DOMAIN facts.indexes :
                    Usable(facts.indexes[i]) /\
                    facts.indexes[i].columns /= << >>}
        like(i) == {j \in whole :
            /\ facts.indexes[j].table = facts.indexes[i].table
            /\ facts.indexes[j].columns = facts.indexes[i].columns
            /\ facts.indexes[j].unique = facts.indexes[i].unique}
        backing(s) == {i \in s : BacksConstraint(g, facts.indexes[i].table, i)}
        kept(s) == IF backing(s) = {} THEN Only(s) ELSE Only(backing(s))
    IN  {Finding("duplicate-index", "unverified", i, facts.indexes[i].columns) :
           i \in {j \in whole : j /= kept(like(j))}}

DiagnosticFindings(g) ==
    UNION {{Finding(d.code, "unverified", id, << >>) :
              d \in {e \in g.analysis[id].diagnostics :
                       e.code \in {"unresolved", "ambiguous"}}} :
             id \in DOMAIN g.analysis}

FactFindings(g, facts) ==
    IndexFindings(g, facts) \cup TypeFindings(facts) \cup
    KeyFindings(g, facts) \cup DuplicateFindings(g, facts)

\* The lint of a graph of which at most max findings are shown, and the exit
\* status it has when it is strict (main.rs:812-826).
Lint(g, max) ==
    LET findings == DiagnosticFindings(g) \cup
                    UNION {FactFindings(g, m) : m \in g.metadata}
        unknown == \E f \in findings :
                     f.rule = "fk-index-prefix" /\ f.status = "unverified"
        blocking == {f \in findings : f.status = "confirmed" /\ ~Advisory(f)}
        complete == /\ g.metadata /= {} /\ ~unknown
                    /\ Cardinality(findings) <= max
    IN  [findings |-> findings, complete |-> complete,
         status |-> IF ~complete THEN 2 ELSE IF blocking /= {} THEN 1 ELSE 0]

-----------------------------------------------------------------------------
(* What no use of was seen (analysis/src/unused.rs). *)

IndexesOf(g, table) == {i \in Owned(g, table) : IsKind(g, i, {"index"})}

Observed(g, id) == id \in DOMAIN g.usage

Idle(g, id) ==
    /\ g.usage[id].reads = 0
    /\ IsKind(g, id, {"table"}) =>
         /\ \A n \in g.usage[id].scans : n = 0
         /\ \A i \in IndexesOf(g, id) : Observed(g, i) => g.usage[i].reads = 0

BodyKinds ==
    {"view", "materialized-view", "function", "procedure", "package", "query",
     "trigger"}

\* The bodies outside a table that depend on it or on a member of it.
BodyDependents(g, table) ==
    LET own == {table} \cup Owned(g, table)
    IN  {k.from : k \in {j \in DOMAIN g.edges :
            /\ IsDependency(j.kind) /\ j.to \in own /\ j.from \notin own
            /\ IsKind(g, j.from, BodyKinds)}}

\* The foreign keys an index serves, if it is whole.
Serves(facts, index) ==
    {id \in DOMAIN facts.foreignKeys :
        LET k == facts.foreignKeys[id]
            i == facts.indexes[index]
        IN  /\ Usable(i) /\ k.table = i.table /\ k.columns /= << >>
            /\ StartsWith(i.columns, k.columns)}

IdleTable(g, id) ==
    [id |-> id, bodies |-> Cardinality(BodyDependents(g, id)),
     unsure |-> \/ g.usage[id].scans = {}
                \/ \E i \in IndexesOf(g, id) : ~Observed(g, i),
     unique |-> FALSE, backs |-> FALSE, serves |-> {}]

IdleIndex(g, id) ==
    LET known == \E m \in g.metadata : id \in DOMAIN m.indexes
        facts == Only(g.metadata)
    IN  [id |-> id, bodies |-> 0, unsure |-> ~known,
         unique |-> known /\ facts.indexes[id].unique,
         backs  |-> known /\ BacksConstraint(g, facts.indexes[id].table, id),
         serves |-> IF known THEN Serves(facts, id) ELSE {}]

Unused(g) ==
    LET watched == {id \in DOMAIN g.vertices :
                      g.vertices[id].kind \in {"table", "index"}}
        idle == {id \in watched : Observed(g, id) /\ Idle(g, id)}
    IN  [candidates |-> {IF IsKind(g, id, {"table"}) THEN IdleTable(g, id)
                         ELSE IdleIndex(g, id) : id \in idle},
         unobserved |-> {id \in watched : ~Observed(g, id)}]

-----------------------------------------------------------------------------
(* Forbidden dependencies (analysis/src/lib.rs:632-749, main.rs:2117-2173). *)

\* A pattern is an id, or everything below it.  The code matches a glob with
\* the whole id; here the source that a merge puts before an id is not
\* compared, so that a pattern stands for a glob that lets any source be there
\* (*r.* for r.*).  A glob without that matches nothing on a merged graph, and
\* only a report with --level says so.
Matches(pattern, id) ==
    IF pattern.below THEN IsStrictPrefix(pattern.path, id.path)
    ELSE id.path = pattern.path

Violations(g, rules) ==
    UNION {{<<r.name, k>> : k \in {j \in DOMAIN g.edges :
               /\ IsDependency(j.kind) /\ j.kind \in r.kinds
               /\ Matches(r.from, j.from) /\ Matches(r.to, j.to)}} :
             r \in rules}

Unmatched(g, rules) ==
    {r.name : r \in {s \in rules : \E p \in {s.from, s.to} :
                        \A v \in DOMAIN g.vertices : ~Matches(p, v)}}

\* The rules on a projection: a pattern that matches nothing there is told.
RulesAt(g, level, rules) ==
    LET projected == Project(g, level)
    IN  [violations |-> Violations(projected, rules),
         unmatched |-> Unmatched(projected, rules)]

\* What one graph has and another has not (analysis/src/lib.rs:756-837).
Difference(old, new) ==
    LET both == DOMAIN old.vertices \cap DOMAIN new.vertices
    IN  [added    |-> DOMAIN new.vertices \ DOMAIN old.vertices,
         removed  |-> DOMAIN old.vertices \ DOMAIN new.vertices,
         changed  |-> {id \in both :
                         old.vertices[id].kind /= new.vertices[id].kind},
         addedEdges   |-> DOMAIN new.edges \ DOMAIN old.edges,
         removedEdges |-> DOMAIN old.edges \ DOMAIN new.edges]

-----------------------------------------------------------------------------
(* Lineage by SQL body (analysis/src/lineage.rs). *)

IsView(g, id) == IsKind(g, id, {"view", "materialized-view"})

\* {} or the table or view a vertex belongs to.
DatasetOf(g, id) ==
    IF IsTable(g, id) THEN {id}
    ELSE IF IsKind(g, id, {"column"})
    THEN {p \in StringParent(id) : IsTable(g, p)}
    ELSE {}

OriginsOf(g, key) == IF key \in DOMAIN g.origins THEN g.origins[key] ELSE {}

\* The bodies one derived value is due to: those its origins name, and the
\* view of the output column if an origin names none or there is none.
Makers(g, key) ==
    LET origins == OriginsOf(g, key)
        named == UNION {o.owner : o \in origins}
        defined == IF origins = {} \/ \E o \in origins : o.owner = {}
                   THEN StringParent(key.from) ELSE {}
    IN  {o \in named \cup defined : IsKind(g, o, BodyKinds)}

Derived(g) ==
    {k \in DOMAIN g.edges : /\ k.kind = "derives-from"
                            /\ DatasetOf(g, k.from) /= {}
                            /\ DatasetOf(g, k.to) /= {}}

BodyEdges(g, id, kind) ==
    {k \in Outgoing(g, id) : k.kind = kind /\ DatasetOf(g, k.to) /= {}}

Datasets(g, ids) == UNION {DatasetOf(g, id) : id \in ids}

Job(g, id) ==
    LET derived == {k \in Derived(g) : id \in Makers(g, k)}
        reads   == BodyEdges(g, id, "reads")
        writes  == BodyEdges(g, id, "writes")
        uses(k) == {o.role : o \in OriginsOf(g, k)} \cap {"join", "predicate"}
        shown   == derived /= {} \/ reads /= {} \/ writes /= {}
    IN  [inputs   |-> Datasets(g, {k.to : k \in derived \cup reads}),
         outputs  |-> Datasets(g, {k.from : k \in derived} \cup
                                  {k.to : k \in writes}) \cup
                      (IF IsView(g, id) /\ shown THEN {id} ELSE {}),
         direct   |-> {<<k.from, k.to>> : k \in derived},
         indirect |-> UNION {{<<k.to, u>> : u \in uses(k)} :
                               k \in {j \in reads :
                                        IsKind(g, j.to, {"column"})}}]

\* The bodies that make something.
Jobs(g) ==
    LET bodies == {id \in DOMAIN g.vertices : IsKind(g, id, BodyKinds)}
        making == {id \in bodies : Job(g, id).outputs /= {}}
    IN  [id \in making |-> Job(g, id)]

-----------------------------------------------------------------------------
(* The names outside (export/src/openlineage.rs, main.rs:1084-1234). *)

\* naming gives each source its place, and the place of a single graph is
\* naming[""]: a namespace, and {} or a database.  The dots in names are not
\* escaped there.
Identity(g, naming, id) ==
    LET vertex == g.vertices[id]
        place  == naming[id.source]
    IN  <<place.namespace,
          (IF place.database = {} THEN << >> ELSE Parts[Only(place.database)])
             \o Parts[vertex.schema] \o Parts[vertex.name]>>

\* The datasets the event of a job names.
Referenced(g, jobs, id) ==
    LET job == jobs[id]
        made == {p \in job.direct : StringParent(p[1]) \cap job.outputs /= {}}
        used == {p[2] : p \in made} \cup
                (IF IsView(g, id) THEN {p[1] : p \in job.indirect} ELSE {})
    IN  job.inputs \cup job.outputs \cup
        (UNION {StringParent(c) : c \in used} \cap DOMAIN g.vertices)

\* Two datasets of one name, if they do not have their place from one source:
\* those an option can tell apart.
Collisions(g, jobs, naming) ==
    LET named == UNION {Referenced(g, jobs, id) : id \in DOMAIN jobs}
    IN  {p \in named \X named :
           /\ p[1] /= p[2]
           /\ Identity(g, naming, p[1]) = Identity(g, naming, p[2])}

AcrossSources(p) == p[1].source /= p[2].source

\* The events: nothing if datasets of different sources would be one.  What
\* a body that is no view only used is left out and told, and so is what was
\* not analysed.
Events(g, naming) ==
    LET jobs == Jobs(g)
        refused == \E p \in Collisions(g, jobs, naming) : AcrossSources(p)
        event(id) ==
          [job      |-> id,
           inputs   |-> {Identity(g, naming, d) : d \in jobs[id].inputs},
           outputs  |-> {Identity(g, naming, d) : d \in jobs[id].outputs},
           direct   |-> {p \in jobs[id].direct :
                           StringParent(p[1]) \subseteq jobs[id].outputs},
           indirect |-> IF IsView(g, id) THEN jobs[id].indirect ELSE {},
           partial  |-> id \in DOMAIN g.analysis /\
                        g.analysis[id].state /= "complete"]
    IN  [refused |-> refused,
         events  |-> IF refused THEN {} ELSE {event(id) : id \in DOMAIN jobs},
         omitted |-> {id \in DOMAIN jobs :
                        ~IsView(g, id) /\ jobs[id].indirect /= {}}]
=============================================================================
