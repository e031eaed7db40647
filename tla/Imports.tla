------------------------------- MODULE Imports -------------------------------
(***************************************************************************)
(* SQL from outside the database: a dbt manifest or a query log is         *)
(* attached to a catalogue document as query routines                      *)
(* (src/engine/source/src/imports.rs; run of src/engine/cli/src/import.rs).*)
(* A manifest names files with the compiled SQL; they are read one by one  *)
(* while somebody may write them.  The result is written and may be what   *)
(* the next import begins with.  How the two files are published is in     *)
(* Commands.  What is optional is a set of at most one value; the name of  *)
(* a query is the reserved prefix of its kind with its identity.  A digest *)
(* is what it is taken of.                                                 *)
(***************************************************************************)
EXTENDS DocumentCodec, Sequences, FiniteSetsExt

CONSTANTS
    Sessions,    \* documents, and the manifests and logs imported in turn
    Compiled,    \* what a project may have at the paths of its models
    Bytes,       \* the length of each body
    Overlong,    \* the identifiers that are too long
    Unprintable, \* the texts with a control character
    SqlNames,    \* the names of files with SQL
    MaxPath,     \* the components a path may have
    MaxRows, MaxSql, MaxTotal,
    MaxEdits     \* bounds the model

VARIABLES
    stored,      \* the document at hand, as it is written
    inputs,      \* what is not yet imported
    project,     \* the file at each path: its text, "absent" or "closed"
    importing,   \* the import under way: the document it has read, its input
                 \* and what is left of it
    taken,       \* the queries it has taken so far
    held,        \* what each path has held since it began
    edits,
    history      \* the imports that are over: what each began with, its input,
                 \* what paths held, whether it was refused, its report

importVars == <<stored, inputs, project, importing, taken, held, edits, history>>

\* A log row has its SQL; a model may have it, and at most one path.
IsEntry(kind, entry) ==
    /\ \A a, b \in entry.code : a = b
    /\ IF kind = "log" THEN entry.code # {}
       ELSE \A p, q \in entry.path : p = q

IsInput(input) ==
    /\ input.kind \in {"dbt", "log"}
    /\ input.entries \in Seq({input.entries[m] : m \in DOMAIN input.entries})
    /\ \A m \in DOMAIN input.entries : IsEntry(input.kind, input.entries[m])

ASSUME ImportsAssumption ==
    /\ MaxRows \in Nat /\ MaxSql \in Nat /\ MaxTotal \in Nat
    /\ \A body \in DOMAIN Bytes : Bytes[body] \in Nat
    /\ DOMAIN Bytes \cap {"absent", "closed"} = {}
    /\ \A s \in Sessions :
          /\ IsFiniteSet(s.stored.objects) /\ IsFiniteSet(s.stored.routines)
          /\ s.inputs \in Seq({s.inputs[n] : n \in DOMAIN s.inputs})
          /\ \A n \in DOMAIN s.inputs : IsInput(s.inputs[n])

-----------------------------------------------------------------------------
(* What a text has to be. *)

\* validate_identifier.
Identifier(text) == text \notin Overlong

\* required_string.
Required(text) == text # "" /\ text \notin Unprintable /\ Identifier(text)

ContextOf(c) == CHOOSE x \in c.context : TRUE

\* A document that says which database it is of can be imported into.
HasScope(c) ==
    \E x \in c.context : /\ x.source # "" /\ Identifier(x.source)
                         /\ \E d \in x.database : d # "" /\ Identifier(d)

SchemaInScope(c, schema) ==
    /\ Identifier(schema) /\ schema \in c.schemas
    /\ \A x \in c.context : \A chosen \in x.filter : schema \in chosen

\* A point in time: year, month, day, hour, minute, second and nanosecond.
Leap(year) == year % 4 = 0 /\ (year % 100 # 0 \/ year % 400 = 0)

DaysIn(year, month) ==
    CASE month \in {1, 3, 5, 7, 8, 10, 12} -> 31
      [] month \in {4, 6, 9, 11} -> 30
      [] month = 2 -> IF Leap(year) THEN 29 ELSE 28
      [] OTHER -> 0

Timestamp(t) ==
    /\ Len(t) = 7
    /\ t[3] \in 1 .. DaysIn(t[1], t[2])
    /\ t[4] <= 23 /\ t[5] <= 59 /\ t[6] <= 59

NotAfter(s, t) ==
    s = t \/ \E i \in 1 .. 7 : /\ s[i] < t[i]
                               /\ \A j \in 1 .. i - 1 : s[j] = t[j]

\* read_bounded: no link, a regular file, and within its limit.
ReadWhole(input) == input.file = "regular"

\* canonical_project_root.
RootGood(input) == input.root \in {"", "directory"}

\* What is asked of a manifest or a log before its entries.  A log is of the
\* same source and database, over a window, and of no project.
HeaderGood(c, input) ==
    /\ ReadWhole(input) /\ input.wellFormed
    /\ IF input.kind = "dbt" THEN RootGood(input)
       ELSE /\ input.root = ""
            /\ input.source = ContextOf(c).source
            /\ input.database \in ContextOf(c).database
            /\ input.sampling # "" /\ input.sampling \notin Unprintable
            /\ Timestamp(input.from) /\ Timestamp(input.to)
            /\ NotAfter(input.from, input.to)

-----------------------------------------------------------------------------
(* Compiled SQL: what the manifest says, what its file says, or both.  A   *)
(* path is the sequence of its components, "/" first if it is absolute.    *)

Relative(path) == SelectSeq(path, LAMBDA part : part # ".")

\* A path that leaves the project, or does not end in .sql, is refused even
\* where it would not be read.
PathGood(path) ==
    /\ Len(path) \in 1 .. MaxPath
    /\ \A i \in DOMAIN path : path[i] \notin Unprintable \cup {"/", ".."}
    /\ Relative(path) # << >>
    /\ Relative(path)[Len(Relative(path))] \in SqlNames

\* There is a file to read if a path and a project root were given.
FileOf(input, node) ==
    IF input.root = "" THEN {} ELSE {Relative(path) : path \in node.path}

\* A directory that is missing is not the same as a file that is.
FileAt(path) ==
    IF path \in DOMAIN project THEN project[path]
    ELSE IF Len(path) = 1 THEN "absent" ELSE "closed"

\* A link, what is no file or no text, or a directory that is missing, is
\* never passed over; a missing file only if its text is not needed.
Readable(input, node) ==
    \A p \in FileOf(input, node) :
       \/ FileAt(p) = "absent" /\ node.code # {}
       \/ FileAt(p) \in DOMAIN Bytes /\ Bytes[FileAt(p)] <= MaxSql

FileText(input, node) ==
    {FileAt(p) : p \in FileOf(input, node)} \ {"absent"}

\* A bug: the path of a file that is there is put down as the source.
SourceUnread(input, node) ==
    IF FileText(input, node) = {} THEN {} ELSE FileOf(input, node)

\* The path is the source only if the file holds the text that is imported.
Source(input, node) ==
    IF FileText(input, node) # {} /\ node.code \in {{}, FileText(input, node)}
    THEN FileOf(input, node) ELSE {}

\* A manifest without the text of a model needs its file.
Text(input, node) ==
    IF node.code # {} THEN node.code ELSE FileText(input, node)

-----------------------------------------------------------------------------
(* One entry. *)

\* Not every node of a manifest is a model.
Imported(input, entry) == input.kind = "dbt" => entry.type = "model"

NameOf(input, entry) ==
    IF input.kind = "dbt" THEN <<"dbt", entry.id>>
    ELSE <<"log", input.source, entry.id>>

QueryRoutine(input, entry, body, source) ==
    [schema |-> entry.schema, name |-> NameOf(input, entry), kind |-> "query",
     body |-> body, member |-> {}, used |-> FALSE, source |-> source]

\* A query with what the report will say of it.
Pending(input, entry, body, source) ==
    [id      |-> NameOf(input, entry),
     routine |-> QueryRoutine(input, entry, body, source),
     entry   |-> [id |-> NameOf(input, entry), schema |-> entry.schema,
                  bytes |-> Bytes[body], digest |-> body, source |-> source,
                  original |-> IF input.kind = "dbt" THEN entry.original
                               ELSE {},
                  seen |-> IF input.kind = "dbt" THEN {}
                           ELSE {<<entry.at, entry.executions>>}]]

PendingOf(input, entry) ==
    IF input.kind = "log"
    THEN {Pending(input, entry, body, {}) : body \in entry.code}
    ELSE {Pending(input, entry, body, Source(input, entry)) :
             body \in Text(input, entry)}

\* add_sql_budget: each query, and all of them, fit the limits.
FitsBudget(entries) ==
    /\ \A e \in entries : e.bytes <= MaxSql
    /\ MapThenSumSet(LAMBDA e : e.bytes, entries) <= MaxTotal

\* Of a node that is no model only its type is looked at.
ModelGood(c, input, node) ==
    /\ node.wellFormed /\ Required(node.id) /\ node.id = node.key
    /\ Required(node.schema) /\ SchemaInScope(c, node.schema)
    /\ Required(node.database) /\ node.database \in ContextOf(c).database
    /\ node.code # {""}
    /\ \A path \in node.path : PathGood(path)
    /\ Readable(input, node)
    /\ Text(input, node) # {}
    /\ Source(input, node) = {}
       \/ \A q \in taken : q.routine.source # Source(input, node)

\* A log row says when it was seen.
RowGood(c, input, row) ==
    /\ row.wellFormed /\ Required(row.id) /\ Required(row.schema)
    /\ SchemaInScope(c, row.schema)
    /\ Timestamp(row.at)
    /\ NotAfter(input.from, row.at) /\ NotAfter(row.at, input.to)
    /\ row.code # {""}

\* Each query is there once.
EntryGood(c, input, entry) ==
    /\ IF input.kind = "log" THEN RowGood(c, input, entry)
       ELSE ModelGood(c, input, entry)
    /\ \A q \in taken : q.id # NameOf(input, entry)
    /\ Cardinality(taken) < MaxRows
    /\ FitsBudget({q.entry : q \in taken \cup PendingOf(input, entry)})

-----------------------------------------------------------------------------
(* Conflicts with what the document has, and the result. *)

\* Importing is done once for each kind, into the document as it was
\* collected.
NeverImported(c, kind) == \A r \in c.routines : r.name[1] # kind

\* A routine without a signature has the id an object of its name has.
Unclaimed(c) ==
    \A q \in taken : \A o \in c.objects :
       <<o.schema, o.name>> # <<q.routine.schema, q.routine.name>>

\* Not reached, for the names are reserved: another routine of the name is in
\* the way.
NameFree(c) ==
    \A q \in taken : LET found == {r \in c.routines : r.name = q.routine.name}
                     IN  /\ Cardinality(found) <= 1
                         /\ \A r \in found : /\ r.schema = q.routine.schema
                                             /\ r.kind = "query"
                                             /\ r.source = q.routine.source

Note(input, queries) == <<input.kind, Cardinality(queries)>>

WithQueries(c, input, queries) ==
    [c EXCEPT !.routines = @ \cup {q.routine : q \in queries},
              !.limitations = @ \cup {Note(input, queries)}]

\* run writes the digest of the file into the report it was given.
ReportOn(c, input, queries) ==
    [kind     |-> input.kind,
     source   |-> ContextOf(c).source,
     imported |-> Cardinality(queries),
     entries  |-> {q.entry : q \in queries},
     digest   |-> {<<q.id, q.routine.body>> : q \in queries},
     input    |-> input,
     catalog  |-> stored,
     notes    |-> {Note(input, queries)}]

-----------------------------------------------------------------------------
ImportInit ==
    /\ \E s \in Sessions : stored = s.stored /\ inputs = s.inputs
    /\ project \in Compiled
    /\ importing = {} /\ taken = {} /\ held = {} /\ edits = 0
    /\ history = << >>

Holding(files) == {<<p, files[p]>> : p \in DOMAIN files}

\* The next import reads the document as it is written.
BeginImport ==
    /\ importing = {} /\ inputs # << >> /\ Decodable(stored)
    /\ importing' = {[catalog |-> Decoded(stored), input |-> Head(inputs),
                      left |-> Head(inputs).entries]}
    /\ inputs' = Tail(inputs)
    /\ held' = Holding(project)
    /\ UNCHANGED <<stored, project, taken, edits, history>>

\* What the program checks before it takes the next entry.
Takable(job) ==
    /\ HasScope(job.catalog) /\ HeaderGood(job.catalog, job.input)
    /\ LET entry == Head(job.left)
       IN  IF Imported(job.input, entry)
           THEN EntryGood(job.catalog, job.input, entry)
           ELSE Required(entry.type)

TakeEntry(job) ==
    /\ job.left # << >> /\ Takable(job)
    /\ taken' = taken \cup IF Imported(job.input, Head(job.left))
                           THEN PendingOf(job.input, Head(job.left)) ELSE {}
    /\ importing' = {[job EXCEPT !.left = Tail(@)]}
    /\ UNCHANGED <<stored, inputs, project, held, edits, history>>

EndImport(job, refused, result, report) ==
    /\ importing' = {} /\ taken' = {} /\ held' = {}
    /\ stored' = result
    /\ history' = Append(history, [refused |-> refused, held |-> held,
                                   input |-> job.input, before |-> stored,
                                   report |-> report])
    /\ UNCHANGED <<inputs, project, edits>>

Acceptable(job) ==
    /\ HasScope(job.catalog) /\ HeaderGood(job.catalog, job.input)
    /\ NeverImported(job.catalog, job.input.kind)
    /\ Unclaimed(job.catalog) /\ NameFree(job.catalog)
    /\ Encodable(WithQueries(job.catalog, job.input, taken), job.input.version)

ApplyImport(job) ==
    /\ job.left = << >> /\ Acceptable(job)
    /\ EndImport(job, FALSE,
                 Encoded(WithQueries(job.catalog, job.input, taken),
                         job.input.version),
                 {ReportOn(job.catalog, job.input, taken)})

\* Whatever is wrong, the document stays as it was.
RefuseImport(job) ==
    /\ IF job.left = << >> THEN ~Acceptable(job) ELSE ~Takable(job)
    /\ EndImport(job, TRUE, stored, {})

\* The project is compiled again, or its files are moved.
EditProject ==
    /\ importing # {} /\ edits < MaxEdits
    /\ \E files \in Compiled : /\ files # project
                               /\ project' = files
                               /\ held' = held \cup Holding(files)
    /\ edits' = edits + 1
    /\ UNCHANGED <<stored, inputs, importing, taken, history>>

ImportNext ==
    \/ BeginImport
    \/ \E job \in importing : \/ TakeEntry(job)
                              \/ ApplyImport(job)
                              \/ RefuseImport(job)
    \/ EditProject

ImportSpec == ImportInit /\ [][ImportNext]_importVars

-----------------------------------------------------------------------------
Wanted(input) == {n \in DOMAIN input.entries :
                     Imported(input, input.entries[n])}

\* The query an entry asks for, its text and its file as somebody may have
\* seen them while the import ran, and what the report says of it.
Answers(h, entry, r) ==
    LET paths   == IF h.input.kind = "log" THEN {}
                   ELSE {Relative(path) : path \in entry.path}
        pending == Pending(h.input, entry, r.body, r.source)
    IN  /\ r = pending.routine
        /\ r.source \in {{}, paths}
        /\ \A p \in r.source : <<p, r.body>> \in h.held
        /\ IF entry.code = {} THEN r.source # {} ELSE r.body \in entry.code
        /\ \A report \in h.report : /\ pending.entry \in report.entries
                                    /\ <<pending.id, r.body>> \in report.digest

\* An entry is within the scope of the document, and a row within the window
\* of its log.
WithinScope(c, input, entry) ==
    /\ entry.schema \in c.schemas
    /\ \A x \in c.context : \A chosen \in x.filter : entry.schema \in chosen
    /\ IF input.kind = "log"
       THEN NotAfter(input.from, entry.at) /\ NotAfter(entry.at, input.to)
       ELSE entry.database \in ContextOf(c).database

VertexName(r) == <<r.schema, r.name>>

\* What an import that is not refused made of the document: after is how it is
\* written, and read again.
Exact(h, after) ==
    LET old    == Decoded(h.before)
        new    == Decoded(after)
        added  == new.routines \ old.routines
        amount == Cardinality(Wanted(h.input))
    IN  /\ Decodable(after)
        /\ added # {} => \E declared \in after.features :
                            "external-queries-v1" \in declared
        /\ new = [old EXCEPT !.routines = @ \cup added,
                             !.limitations = @ \cup {<<h.input.kind, amount>>}]
        /\ \A m \in Wanted(h.input) :
              /\ \E r \in added : Answers(h, h.input.entries[m], r)
              /\ WithinScope(old, h.input, h.input.entries[m])
        /\ Cardinality(added) = amount /\ amount <= MaxRows
        /\ \A r \in added :
              /\ \A o \in old.objects : VertexName(o) # VertexName(r)
              /\ \A s \in old.routines : VertexName(s) # VertexName(r)
              /\ \A s \in added : /\ VertexName(s) = VertexName(r) => s = r
                                  /\ s.source = r.source => s = r \/ r.source = {}
        /\ \A report \in h.report :
              /\ report.catalog = h.before /\ report.input = h.input
              /\ report.imported = amount
              /\ Cardinality(report.entries) = amount
              /\ Cardinality(report.digest) = amount
              /\ FitsBudget(report.entries)
        /\ h.report # {}

\* What the n-th import made of the document.
After(n) == IF n = Len(history) THEN stored ELSE history[n + 1].before

\* An import that is refused leaves the document as it was and reports
\* nothing.  One that is not adds one query for each model or row and touches
\* nothing else: in the schema and with the SQL it names, never with a file as
\* its source that held another text, within the scope and the limits, and
\* with an id that nothing else in the document has.  The report lists these
\* queries and no others, the document is read as it was meant, and only by
\* who knows of queries (imports.rs:127-609, 628-668, 873-1003,
\* cli/import.rs:45-76, codec.rs).
ImportsAreExact ==
    \A n \in DOMAIN history :
       IF history[n].refused
       THEN After(n) = history[n].before /\ history[n].report = {}
       ELSE Exact(history[n], After(n))
=============================================================================
