---------------------------- MODULE CatalogRead ----------------------------
(***************************************************************************)
(* The way of a catalogue from a database into the engine: the connection  *)
(* is opened (src/engine/source/src/transport.rs), the catalogue is read   *)
(* by one query after another (postgres.rs), the document is cut down to   *)
(* the requested schemas (context.rs), written as a stream of records and  *)
(* read again (ndjson.rs, codec.rs).                                       *)
(*                                                                         *)
(* The queries share no transaction: tables come and go between them.  A   *)
(* user may lack privileges, which empties answers without an error.  The  *)
(* stream may be cut anywhere or hold two runs, one after the other.  What *)
(* the reader at the far end may rely on is the mark catalog_complete and  *)
(* the limitations.                                                        *)
(*                                                                         *)
(* A document holds each schema once; its schemas are kept by their names, *)
(* and the order in which they are read and written is left open.          *)
(***************************************************************************)
EXTENDS Naturals

CONSTANTS
    Schema,      \* the schemas of the database
    Table,       \* table names
    Tried,       \* the settings to be tried
    MaxDdl,      \* bound: tables created or dropped during the read
    MaxFaults    \* bound: queries that fail

Rel == Schema \X Table

Plaintext == "connection-not-encrypted"
Unread == "query failed or catalogue not visible"
NotCollected == "requested schema was not collected"
NoTrailer == "legacy NDJSON has no final trailer"

VARIABLES
    setting,     \* the connection, the privileges and the command line
    db,          \* the tables there are
    transport,   \* how the connection was opened
    phase,
    todo,        \* the schemas still to be read
    pending,     \* tables of the current schema whose columns are not read
    doc,         \* [schemas, limits, complete] of the collector
    found,       \* the current schema, its objects, and what it lacks
    text,        \* the records that are still to be sent
    got,         \* what the reader at the far end has made of it
    always,      \* tables that were there all the time
    ever,        \* tables that were there at some time
    ddl, faults

collectVars == <<setting, db, transport, phase, todo, pending, doc, found,
                 text, got, always, ever, ddl, faults>>

-----------------------------------------------------------------------------
(* Opening the connection. *)

Policy == {"never", "prefer", "required"}

\* What the server does with a TLS request: take it, refuse it, or fail.
Server == {"takes", "refuses", "fails"}

Privilege == {"all", "noColumns", "none"}

\* A setting: policy (the TLS mode), local (no network between), server, may
\* (the privilege on each table), filter (the schemas asked for), version (of
\* the stream) and streaming (a probe writes the stream while it reads).
ASSUME CatalogReadAssumption ==
    /\ MaxDdl \in Nat /\ MaxFaults \in Nat
    /\ \A s \in Tried :
          /\ s.policy \in Policy /\ s.server \in Server
          /\ s.local \in BOOLEAN /\ s.streaming \in BOOLEAN
          /\ s.may \in [Rel -> Privilege]
          /\ s.version \in {1, 2}

\* known: without a network, and with every policy but prefer, what the
\* transport will be is clear before.
Known(s) == s.local \/ s.policy # "prefer"

Attempt(s, mode) ==
    CASE mode = "plaintext" -> "ok"
      [] mode = "tls" /\ s.server = "takes" -> "ok"
      [] mode = "tls" /\ s.server = "refuses" -> "refused"
      [] OTHER -> "failed"

\* What sqlx does with the mode of the URL; its own prefer falls back alone.
AsGiven(s) ==
    CASE s.policy = "never" -> "plaintext"
      [] s.policy = "required" -> "tls"
      [] s.policy = "prefer" -> IF s.server = "refuses" THEN "plaintext"
                                ELSE "tls"

\* Not in the code.
FallsBack_Always(outcome) == outcome # "ok"

\* after_tls_attempt: only a refusal leads to the second attempt.
FallsBack(outcome) == outcome = "refused"

Opened(s) ==
    IF Known(s)
    THEN IF Attempt(s, AsGiven(s)) # "ok" THEN "none"
         ELSE IF s.local THEN "local"
         ELSE IF s.policy = "required" THEN "encrypted" ELSE "plaintext"
    ELSE LET first == Attempt(s, "tls")
         IN  IF first = "ok" THEN "encrypted"
             ELSE IF FallsBack(first) THEN "tlsRefused" ELSE "none"

Fail == phase' = "failed"

Open ==
    /\ phase = "open"
    /\ transport' = Opened(setting)
    /\ IF transport' = "none" THEN Fail ELSE phase' = "schemas"
    /\ UNCHANGED <<setting, db, todo, pending, doc, found, text, got, always,
                   ever, ddl, faults>>

-----------------------------------------------------------------------------
(* Reading the catalogue. *)

\* A required query fails: the scan ends with an error.
QueryFails ==
    /\ phase \in {"schemas", "objects", "columns", "routines"}
    /\ faults < MaxFaults
    /\ faults' = faults + 1
    /\ Fail
    /\ UNCHANGED <<setting, db, transport, todo, pending, doc, found, text,
                   got, always, ever, ddl>>

\* A query that may fail does: that is a limitation.
Tolerated(ok) ==
    IF ok THEN UNCHANGED faults
    ELSE faults < MaxFaults /\ faults' = faults + 1

Nothing == << >>

NothingFound(s) == [schema |-> s, objects |-> {}, lacks |-> FALSE]

\* schema_list.
ListSchemas ==
    /\ phase = "schemas"
    /\ todo' = Schema
    /\ phase' = "objects"
    /\ UNCHANGED <<setting, db, transport, pending, doc, found, text, got,
                   always, ever, ddl, faults>>

Object(t, columns) == [name |-> t, columns |-> columns]

\* read_objects: information_schema shows what the user has a privilege on.
ReadObjects ==
    /\ phase = "objects"
    /\ \E s \in todo :
          /\ pending' = {t \in Table : <<s, t>> \in db
                            /\ setting.may[<<s, t>>] # "none"}
          /\ found' = NothingFound(s)
    /\ phase' = "columns"
    /\ UNCHANGED <<setting, db, transport, todo, doc, text, got, always, ever,
                   ddl, faults>>

\* read_columns and the other queries about one table, which may be gone.
ReadColumns ==
    /\ phase = "columns"
    /\ \E t \in pending :
          LET r == <<found.schema, t>>
          IN  /\ pending' = pending \ {t}
              /\ found' = [found EXCEPT !.objects = @ \cup
                    {Object(t, r \in db /\ setting.may[r] = "all")}]
    /\ UNCHANGED <<setting, db, transport, phase, todo, doc, text, got, always,
                   ever, ddl, faults>>

\* What pg_class and pg_attribute know, whatever the privileges, and the
\* reader has not collected.
Uncollected ==
    {t \in Table : <<found.schema, t>> \in db
                   /\ Object(t, TRUE) \notin found.objects}

\* check_catalog_visibility.
CheckVisibility ==
    /\ phase = "columns" /\ pending = {}
    /\ \E ok \in BOOLEAN :
          /\ Tolerated(ok)
          /\ found' = [found EXCEPT !.lacks = ~ ok \/ Uncollected # {}]
    /\ phase' = "routines"
    /\ UNCHANGED <<setting, db, transport, todo, pending, doc, text, got,
                   always, ever, ddl>>

\* Not in the code.
StillComplete_LastSchema(lacks) == ~ lacks

StillComplete(lacks) == doc.complete /\ ~ lacks

\* A schema more.
With(schemas, name, objects) ==
    [s \in DOMAIN schemas \cup {name} |->
        IF s = name THEN objects ELSE schemas[s]]

\* The rest of read_schema: routines that could not be read are a gap of the
\* catalogue, usage statistics that could not be read are not.
FinishSchema ==
    /\ phase = "routines"
    /\ \E routines, usage \in BOOLEAN :
          /\ routines \/ usage
          /\ Tolerated(routines /\ usage)
          /\ LET lacks == found.lacks \/ ~ routines
             IN  doc' = [schemas  |-> With(doc.schemas, found.schema,
                                           found.objects),
                         limits   |-> IF lacks \/ ~ usage
                                      THEN doc.limits \cup {Unread}
                                      ELSE doc.limits,
                         complete |-> StillComplete(lacks)]
    /\ todo' = todo \ {found.schema}
    /\ phase' = "objects"
    /\ UNCHANGED <<setting, db, transport, pending, found, text, got, always,
                   ever, ddl>>

\* record_limitation.
OverNetwork(t) == t \in {"plaintext", "tlsRefused"}

\* pg_depend, if it was asked for, and the limitation of the connection.
Conclude ==
    /\ phase = "objects" /\ todo = {}
    /\ \E deps \in BOOLEAN :
          /\ Tolerated(deps)
          /\ doc' = [doc EXCEPT
               !.complete = @ /\ deps,
               !.limits = @ \cup (IF deps THEN {} ELSE {Unread})
                            \cup (IF OverNetwork(transport) THEN {Plaintext}
                                  ELSE {})]
    /\ phase' = "annotate"
    /\ UNCHANGED <<setting, db, transport, todo, pending, found, text, got,
                   always, ever, ddl>>

SchemaNames(d) == DOMAIN d.schemas

\* context::annotate: the schemas that were asked for.
Annotate ==
    /\ phase = "annotate"
    /\ LET missing == setting.filter \ SchemaNames(doc)
       IN  doc' = IF setting.filter = {} THEN doc ELSE
              [schemas  |-> [s \in SchemaNames(doc) \cap setting.filter |->
                               doc.schemas[s]],
               limits   |-> IF missing = {} THEN doc.limits
                            ELSE doc.limits \cup {NotCollected},
               complete |-> doc.complete /\ missing = {}]
    /\ phase' = "write"
    /\ UNCHANGED <<setting, db, transport, todo, pending, found, text, got,
                   always, ever, ddl, faults>>

-----------------------------------------------------------------------------
(* The stream. *)

SchemaRecord(s) == [type |-> "schema", name |-> s]

ObjectRecord(s, o) == [type |-> "object", schema |-> s, data |-> o]

\* A probe writes while it reads: its header cannot say that the catalogue is
\* complete, its trailer repeats the context.  document_to_ndjson writes a
\* finished document: its header has the context, its trailer has not.
Header ==
    [type |-> "document", version |-> setting.version,
     complete |-> doc.complete /\ ~ setting.streaming]

Trailer == [type |-> "limitations", limits |-> doc.limits,
            context |-> setting.streaming, complete |-> doc.complete]

ObjectRecords == UNION {{ObjectRecord(s, o) : o \in doc.schemas[s]} :
                          s \in SchemaNames(doc)}

Records ==
    {Header, Trailer} \cup {SchemaRecord(s) : s \in SchemaNames(doc)}
        \cup ObjectRecords

\* The header comes first, the objects of a schema right after it, and the
\* trailer last.
Sendable(r) ==
    /\ r.type # "document" => Header \notin text
    /\ r.type = "schema" =>
          \A q \in text : q.type = "object" => SchemaRecord(q.schema) \in text
    /\ r.type = "object" => SchemaRecord(r.schema) \notin text
    /\ r.type = "limitations" => text = {r}

\* Half a line, which is not JSON.
Torn == [type |-> "torn"]

\* What may come next: the next record, a line that is cut, or the header of
\* another run of the same command into the end of the same file.
Coming == {r \in text : Sendable(r)} \cup {Torn, Header}

NotRead == [header |-> FALSE, version |-> 0, schemas |-> << >>, last |-> {},
            limits |-> {}, complete |-> FALSE, trailer |-> FALSE]

Transfer ==
    /\ phase = "write"
    /\ text' = Records
    /\ got' = NotRead
    /\ phase' = "read"
    /\ UNCHANGED <<setting, db, transport, todo, pending, doc, found, always,
                   ever, ddl, faults>>

\* What makes document_from_reader return an error at a record.
Rejected(r) ==
    \/ r.type = "torn"
    \/ ~ got.header /\ r.type # "document"
    \/ got.version = 2 /\ got.trailer
    \/ got.header /\ r.type = "document"
    \/ r.type = "object" /\ got.last # {r.schema}

Taken(r) ==
    CASE r.type = "document" ->
            [got EXCEPT !.header = TRUE, !.version = r.version,
                        !.complete = r.complete]
      [] r.type = "schema" ->
            [got EXCEPT !.schemas = With(@, r.name, {}), !.last = {r.name}]
      [] r.type = "object" ->
            [got EXCEPT !.schemas[r.schema] = @ \cup {r.data}]
      [] r.type = "limitations" ->
            [got EXCEPT !.limits = @ \cup r.limits, !.trailer = TRUE,
                        !.complete = IF r.context THEN r.complete ELSE @]

ReadRecord ==
    /\ phase = "read"
    /\ \E r \in Coming :
          /\ IF Rejected(r)
             THEN Fail /\ UNCHANGED got
             ELSE got' = Taken(r) /\ UNCHANGED phase
          /\ text' = text \ {r}
    /\ UNCHANGED <<setting, db, transport, todo, pending, doc, found, always,
                   ever, ddl, faults>>

\* The stream is over and had no trailer.
Unfinished(g) ==
    [g EXCEPT !.complete = FALSE, !.limits = @ \cup {NoTrailer}]

\* Not in the code.
TrailerMissing_AnyVersion(g) == FALSE

TrailerMissing(g) == g.version = 2 /\ ~ g.trailer

\* The stream ends, after its last record or anywhere.
EndOfStream ==
    /\ phase = "read"
    /\ IF ~ got.header \/ TrailerMissing(got)
       THEN Fail /\ UNCHANGED got
       ELSE /\ phase' = "accepted"
            /\ got' = IF got.trailer THEN got ELSE Unfinished(got)
    /\ UNCHANGED <<setting, db, transport, todo, pending, doc, found, text,
                   always, ever, ddl, faults>>

-----------------------------------------------------------------------------
\* Somebody else creates or drops a table while the catalogue is read.
Ddl ==
    /\ phase \in {"schemas", "objects", "columns", "routines"}
    /\ ddl < MaxDdl /\ ddl' = ddl + 1
    /\ \E r \in Rel :
          db' = IF r \in db THEN db \ {r} ELSE db \cup {r}
    /\ always' = always \cap db'
    /\ ever' = ever \cup db'
    /\ UNCHANGED <<setting, transport, phase, todo, pending, doc, found, text,
                   got, faults>>

CollectInit ==
    /\ setting \in Tried
    /\ db \in SUBSET Rel
    /\ transport = "none"
    /\ phase = "open"
    /\ todo = {} /\ pending = {} /\ found = Nothing
    /\ doc = [schemas |-> << >>, limits |-> {}, complete |-> TRUE]
    /\ text = {} /\ got = NotRead
    /\ always = db /\ ever = db
    /\ ddl = 0 /\ faults = 0

CollectNext ==
    \/ Open \/ ListSchemas \/ ReadObjects \/ ReadColumns \/ CheckVisibility
    \/ FinishSchema \/ Conclude \/ Annotate \/ QueryFails
    \/ Transfer \/ ReadRecord \/ EndOfStream
    \/ Ddl

CollectSpec == CollectInit /\ [][CollectNext]_collectVars

-----------------------------------------------------------------------------
(* Properties. *)

Collected(s, t, columns) ==
    s \in SchemaNames(got) /\ Object(t, columns) \in got.schemas[s]

Asked(s) == setting.filter = {} \/ s \in setting.filter

\* A document that is accepted and marked complete has every table of the
\* schemas that were asked for which was there all the time, with its columns:
\* no lost privilege, failed query, missing schema, cut or repeated stream is
\* taken for a complete catalogue (postgres.rs:184 read_schema, 217
\* check_catalog_visibility, context.rs:19, ndjson.rs:222-233).
CompleteMeansCollected ==
    phase = "accepted" /\ got.complete =>
       /\ \A r \in always : Asked(r[1]) => Collected(r[1], r[2], TRUE)
       /\ setting.filter \subseteq SchemaNames(got)

\* An accepted document holds only tables that were there while it was read,
\* each under its schema; and one of version 2 holds what was written, all of
\* it and once (ndjson.rs:73-88, 230-233).
AcceptedIsReal ==
    phase = "accepted" =>
       /\ \A s \in SchemaNames(got) : \A o \in got.schemas[s] :
             <<s, o.name>> \in ever
       /\ got.version = 2 =>
             got.schemas = doc.schemas /\ got.limits = doc.limits
                /\ got.complete = doc.complete

\* A catalogue that crossed a network in the clear says so at the far end, or
\* says that it may lack something; it crosses in the clear only if the mode
\* allows it and the server did not offer better (transport.rs:142-176).
PlaintextIsReported ==
    /\ phase = "accepted" /\ OverNetwork(transport) =>
          Plaintext \in got.limits \/ NoTrailer \in got.limits
    /\ transport = "tlsRefused" => setting.server = "refuses"
    /\ OverNetwork(transport) => setting.policy # "required"
=============================================================================
