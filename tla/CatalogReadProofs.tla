------------------------- MODULE CatalogReadProofs -------------------------
(***************************************************************************)
(* What the reader at the far end may rely on, for every set of schemas    *)
(* and tables, every setting and any number of changes and failed queries: *)
(* the three properties of CatalogRead, from one inductive invariant.      *)
(*                                                                         *)
(* The invariant follows the catalogue on its way.  Watched: the tables    *)
(* that were there all the time are there now.  Connected: how the         *)
(* connection was opened follows from the setting.  Read: a document that  *)
(* is called complete has those tables of every schema read so far.        *)
(* Settled: after Annotate it has the schemas that were asked for.         *)
(* Underway: what has left the text is what the reader has.  Accepted: an  *)
(* accepted stream was whole, or is marked.                                *)
(***************************************************************************)
EXTENDS CatalogRead, TLAPS

Objects == [name : Table, columns : BOOLEAN]

SchemaMaps == UNION {[S -> SUBSET Objects] : S \in SUBSET Schema}

Limits == {Plaintext, Unread, NotCollected, NoTrailer}

Before == {"open", "schemas"}

Visiting == {"columns", "routines"}

Reading == {"objects"} \cup Visiting

Closed == {"write", "read", "accepted"}

Phases == Before \cup Reading \cup {"annotate", "failed"} \cup Closed

Documents ==
    [schemas : SchemaMaps, limits : SUBSET Limits, complete : BOOLEAN]

Readers ==
    [header : BOOLEAN, version : {0, 1, 2}, schemas : SchemaMaps,
     last : SUBSET Schema, limits : SUBSET Limits, complete : BOOLEAN,
     trailer : BOOLEAN]

DocTypeOK == doc \in Documents

FoundTypeOK ==
    phase \in Visiting =>
      found \in [schema : Schema, objects : SUBSET Objects, lacks : BOOLEAN]

GotTypeOK == got \in Readers

TypeOK ==
    /\ setting \in Tried
    /\ db \subseteq Rel /\ always \subseteq Rel /\ ever \subseteq Rel
    /\ transport \in {"none", "local", "encrypted", "plaintext", "tlsRefused"}
    /\ phase \in Phases
    /\ todo \subseteq Schema /\ pending \subseteq Table
    /\ ddl \in 0..MaxDdl /\ faults \in 0..MaxFaults
    /\ DocTypeOK /\ FoundTypeOK /\ GotTypeOK

Watched == always \subseteq db /\ db \subseteq ever

Connected ==
    /\ phase = "open" => transport = "none"
    /\ transport # "none" => transport = Opened(setting)
    /\ phase \in {"annotate"} \cup Closed /\ OverNetwork(transport) =>
          Plaintext \in doc.limits

\* Every table of the schema that was there all the time is among the objects.
Full(s, objects) ==
    \A t \in Table : <<s, t>> \in always => Object(t, TRUE) \in objects

\* Every object was a table of the schema at some time.
Seen(s, objects) == \A o \in objects : <<s, o.name>> \in ever

Read ==
    /\ phase \in Reading => todo \cup SchemaNames(doc) = Schema
    /\ phase = "annotate" => SchemaNames(doc) = Schema
    /\ \A s \in SchemaNames(doc) :
          /\ Seen(s, doc.schemas[s])
          /\ doc.complete => Full(s, doc.schemas[s])

Visited ==
    /\ phase \in Visiting => found.schema \in todo /\ Seen(found.schema, found.objects)
    /\ phase = "columns" => \A t \in pending : <<found.schema, t>> \in ever
    /\ phase = "routines" /\ ~ found.lacks => Full(found.schema, found.objects)

Settled ==
    phase \in Closed /\ doc.complete =>
      /\ setting.filter \subseteq SchemaNames(doc)
      /\ \A s \in Schema : Asked(s) => s \in SchemaNames(doc)

\* A reader with only what was written.
Part(g) ==
    /\ SchemaNames(g) \subseteq SchemaNames(doc)
    /\ \A s \in SchemaNames(g) : g.schemas[s] \subseteq doc.schemas[s]

\* A reader that has what was written but for the rest.
AllBut(g, rest) ==
    /\ rest \subseteq Records
    /\ g.header <=> Header \notin rest
    /\ g.header =>
          /\ g.version = setting.version
          /\ g.complete = (doc.complete /\ (g.trailer \/ ~ setting.streaming))
    /\ Part(g)
    /\ \A s \in SchemaNames(doc) :
          /\ s \in SchemaNames(g) <=> SchemaRecord(s) \notin rest
          /\ \A o \in doc.schemas[s] :
                ObjectRecord(s, o) \notin rest <=>
                   s \in SchemaNames(g) /\ o \in g.schemas[s]
    /\ g.trailer => g.header /\ rest = {}
    /\ g.limits = IF g.trailer THEN doc.limits ELSE {}

Underway == phase = "read" => AllBut(got, text)

Accepted ==
    phase = "accepted" =>
      /\ Part(got)
      /\ IF got.trailer
         THEN /\ got.schemas = doc.schemas /\ got.limits = doc.limits
              /\ got.complete = doc.complete
         ELSE /\ got.version # 2 /\ ~ got.complete
              /\ NoTrailer \in got.limits

IInv ==
    /\ TypeOK /\ Watched /\ Connected /\ Read /\ Visited /\ Settled /\ Underway
    /\ Accepted

-----------------------------------------------------------------------------
(* The operators. *)

\* The server refused TLS if the connection fell back, and the data crosses a
\* network in the clear only if the policy does not require TLS.
LEMMA OpenedFacts ==
    ASSUME NEW s \in Tried
    PROVE  /\ Opened(s) \in {"none", "local", "encrypted", "plaintext",
                             "tlsRefused"}
           /\ Opened(s) = "tlsRefused" => s.server = "refuses"
           /\ OverNetwork(Opened(s)) => s.policy # "required"
  <1>1. s.policy \in Policy /\ s.server \in Server
    BY CatalogReadAssumption
  <1>2. CASE Known(s)
    BY <1>1, <1>2 DEF Opened, Known, OverNetwork, Policy
  <1>3. CASE ~ Known(s)
    BY <1>1, <1>3 DEF Opened, Known, OverNetwork, FallsBack, Attempt, Policy,
                      Server
  <1> QED BY <1>2, <1>3

\* The map of a document without schemas.
LEMMA EmptyMap ==
    << >> \in SchemaMaps /\ DOMAIN << >> = {}
  <1>1. DOMAIN << >> = {}
    OBVIOUS
  <1>2. << >> \in [{} -> SUBSET Objects]
    OBVIOUS
  <1> QED BY <1>1, <1>2 DEF SchemaMaps

\* A map is a function from some of the schemas to sets of objects.
LEMMA MapIs ==
    ASSUME NEW m
    PROVE  m \in SchemaMaps <=>
              /\ DOMAIN m \subseteq Schema
              /\ m = [s \in DOMAIN m |-> m[s]]
              /\ \A s \in DOMAIN m : m[s] \subseteq Objects
  BY DEF SchemaMaps

\* Two maps with the same schemas and the same objects are the same.
LEMMA SameMap ==
    ASSUME NEW m \in SchemaMaps, NEW n \in SchemaMaps,
           DOMAIN m = DOMAIN n, \A s \in DOMAIN m : m[s] = n[s]
    PROVE  m = n
  BY MapIs

\* What With makes of a map.
LEMMA WithMap ==
    ASSUME NEW m \in SchemaMaps, NEW s \in Schema, NEW o,
           o \subseteq Objects
    PROVE  /\ With(m, s, o) \in SchemaMaps
           /\ DOMAIN With(m, s, o) = DOMAIN m \cup {s}
           /\ \A x \in DOMAIN m \cup {s} :
                 With(m, s, o)[x] = IF x = s THEN o ELSE m[x]
  BY MapIs DEF With

\* A map with one set of objects replaced.
LEMMA ExceptMap ==
    ASSUME NEW m \in SchemaMaps, NEW s \in DOMAIN m, NEW o \in SUBSET Objects
    PROVE  /\ [m EXCEPT ![s] = o] \in SchemaMaps
           /\ DOMAIN [m EXCEPT ![s] = o] = DOMAIN m
           /\ \A x \in DOMAIN m :
                 [m EXCEPT ![s] = o][x] = IF x = s THEN o ELSE m[x]
  BY MapIs

\* A map cut down to some of its schemas.
LEMMA RestrictedMap ==
    ASSUME NEW m \in SchemaMaps, NEW F
    PROVE  [s \in DOMAIN m \cap F |-> m[s]] \in SchemaMaps
  BY MapIs

-----------------------------------------------------------------------------
(* Opening the connection and reading the catalogue.  While phase is not in *)
(* Closed, Settled, Underway and Accepted say nothing.                      *)

LEMMA InitHolds ==
    CollectInit => IInv
  <1> SUFFICES ASSUME CollectInit PROVE IInv
    OBVIOUS
  <1>1. TypeOK
    BY EmptyMap, CatalogReadAssumption
    DEF CollectInit, TypeOK, DocTypeOK, FoundTypeOK, GotTypeOK, Documents,
        Readers, NotRead, Phases, Before, Visiting
  <1>2. Read
    BY EmptyMap DEF CollectInit, Read, Reading, Visiting, SchemaNames
  <1>3. Watched /\ Connected /\ Visited /\ Settled /\ Underway /\ Accepted
    BY DEF CollectInit, Watched, Connected, Visited, Visiting, Settled,
           Underway, Accepted, Closed
  <1> QED BY <1>1, <1>2, <1>3 DEF IInv

\* A step that fails changes nothing else the invariant is about.
LEMMA FailKeeps ==
    ASSUME IInv, Fail, faults' \in 0..MaxFaults,
           UNCHANGED <<setting, db, todo, pending, doc, found, got, always,
                       ever, ddl>>,
           transport' = transport \/ transport' = Opened(setting)
    PROVE  IInv'
  <1>1. phase' = "failed"
    BY DEF Fail
  <1>2. setting \in Tried
    BY DEF IInv, TypeOK
  <1>3. TypeOK'
    BY <1>1, <1>2, OpenedFacts
    DEF IInv, TypeOK, DocTypeOK, FoundTypeOK, GotTypeOK, Phases, Visiting
  <1>4. Watched' /\ Connected'
    BY <1>1 DEF IInv, Watched, Connected, Closed
  <1>5. Read' /\ Visited'
    BY <1>1 DEF IInv, Read, Visited, Reading, Visiting, SchemaNames, Seen, Full
  <1>6. Settled' /\ Underway' /\ Accepted'
    BY <1>1 DEF Settled, Underway, Accepted, Closed
  <1> QED BY <1>3, <1>4, <1>5, <1>6 DEF IInv

LEMMA OpenKeeps ==
    IInv /\ Open => IInv'
  <1> SUFFICES ASSUME IInv, Open PROVE IInv'
    OBVIOUS
  <1>1. CASE transport' = "none"
    <2>1. Fail /\ faults' \in 0..MaxFaults
      BY <1>1 DEF Open, IInv, TypeOK
    <2> QED BY <2>1, FailKeeps DEF Open
  <1>2. CASE transport' # "none"
    <2>1. phase' = "schemas" /\ transport' = Opened(setting)
      BY <1>2 DEF Open
    <2>2. TypeOK'
      BY <2>1, OpenedFacts
      DEF Open, IInv, TypeOK, DocTypeOK, FoundTypeOK, GotTypeOK, Phases, Before,
          Visiting
    <2>3. Watched' /\ Connected'
      BY <2>1 DEF Open, IInv, Watched, Connected, Closed
    <2>4. Read' /\ Visited'
      BY <2>1
      DEF Open, IInv, Read, Visited, Reading, Visiting, SchemaNames, Seen, Full
    <2>5. Settled' /\ Underway' /\ Accepted'
      BY <2>1 DEF Settled, Underway, Accepted, Closed
    <2> QED BY <2>2, <2>3, <2>4, <2>5 DEF IInv
  <1> QED BY <1>1, <1>2

LEMMA QueryFailsKeeps ==
    IInv /\ QueryFails => IInv'
  <1> SUFFICES ASSUME IInv, QueryFails PROVE IInv'
    OBVIOUS
  <1>1. faults' \in 0..MaxFaults
    BY CatalogReadAssumption DEF QueryFails, IInv, TypeOK
  <1> QED BY <1>1, FailKeeps DEF QueryFails

LEMMA ListSchemasKeeps ==
    IInv /\ ListSchemas => IInv'
  <1> SUFFICES ASSUME IInv, ListSchemas PROVE IInv'
    OBVIOUS
  <1>1. phase' = "objects" /\ todo' = Schema
    BY DEF ListSchemas
  <1>2. TypeOK'
    BY <1>1
    DEF ListSchemas, IInv, TypeOK, DocTypeOK, FoundTypeOK, GotTypeOK, Phases,
        Reading, Visiting
  <1>3. Watched' /\ Connected'
    BY <1>1 DEF ListSchemas, IInv, Watched, Connected, Closed
  <1>4. SchemaNames(doc) \subseteq Schema
    BY MapIs DEF IInv, TypeOK, DocTypeOK, Documents, SchemaNames
  <1>5. Read' /\ Visited'
    BY <1>1, <1>4
    DEF ListSchemas, IInv, Read, Visited, Reading, Visiting, SchemaNames, Seen,
        Full
  <1>6. Settled' /\ Underway' /\ Accepted'
    BY <1>1 DEF Settled, Underway, Accepted, Closed
  <1> QED BY <1>2, <1>3, <1>5, <1>6 DEF IInv

LEMMA ReadObjectsKeeps ==
    IInv /\ ReadObjects => IInv'
  <1> SUFFICES ASSUME IInv, ReadObjects PROVE IInv'
    OBVIOUS
  <1>1. phase = "objects" /\ phase' = "columns"
    BY DEF ReadObjects
  <1>2. PICK s \in todo :
          /\ pending' = {t \in Table : <<s, t>> \in db
                            /\ setting.may[<<s, t>>] # "none"}
          /\ found' = NothingFound(s)
    BY DEF ReadObjects
  <1>3. s \in Schema
    BY DEF IInv, TypeOK
  <1>4. TypeOK'
    BY <1>1, <1>2, <1>3
    DEF ReadObjects, IInv, TypeOK, DocTypeOK, FoundTypeOK, GotTypeOK, Phases,
        Reading, Visiting, NothingFound
  <1>5. Watched' /\ Connected'
    BY <1>1 DEF ReadObjects, IInv, Watched, Connected, Closed
  <1>6. Read'
    BY <1>1
    DEF ReadObjects, IInv, Read, Reading, Visiting, SchemaNames, Seen, Full
  <1>7. Visited'
    BY <1>1, <1>2
    DEF ReadObjects, IInv, Watched, Visited, Visiting, NothingFound, Seen
  <1>8. Settled' /\ Underway' /\ Accepted'
    BY <1>1 DEF Settled, Underway, Accepted, Closed
  <1> QED BY <1>4, <1>5, <1>6, <1>7, <1>8 DEF IInv

LEMMA ReadColumnsKeeps ==
    IInv /\ ReadColumns => IInv'
  <1> SUFFICES ASSUME IInv, ReadColumns PROVE IInv'
    OBVIOUS
  <1>1. phase = "columns" /\ phase' = "columns"
    BY DEF ReadColumns
  <1> DEFINE r(t) == <<found.schema, t>>
             o(t) == Object(t, r(t) \in db /\ setting.may[r(t)] = "all")
  <1>2. PICK t \in pending :
          /\ pending' = pending \ {t}
          /\ found' = [found EXCEPT !.objects = @ \cup {o(t)}]
    BY DEF ReadColumns
  <1>3. t \in Table /\ o(t) \in Objects /\ o(t).name = t
    BY DEF IInv, TypeOK, Objects, Object
  <1>4. /\ found \in [schema : Schema, objects : SUBSET Objects,
                      lacks : BOOLEAN]
        /\ found.schema \in todo /\ Seen(found.schema, found.objects)
        /\ <<found.schema, t>> \in ever
    BY <1>1 DEF IInv, TypeOK, FoundTypeOK, Visiting, Visited
  <1> HIDE DEF o
  <1>5. /\ found' \in [schema : Schema, objects : SUBSET Objects,
                       lacks : BOOLEAN]
        /\ found'.schema = found.schema
        /\ found'.objects = found.objects \cup {o(t)}
    BY <1>2, <1>3, <1>4
  <1>6. TypeOK'
    BY <1>1, <1>2, <1>5
    DEF ReadColumns, IInv, TypeOK, DocTypeOK, FoundTypeOK, GotTypeOK
  <1>7. Watched' /\ Connected'
    BY <1>1 DEF ReadColumns, IInv, Watched, Connected, Closed
  <1>8. Read'
    BY <1>1
    DEF ReadColumns, IInv, Read, Reading, Visiting, SchemaNames, Seen, Full
  <1>9. Seen(found.schema, found.objects)'
    BY <1>3, <1>4, <1>5 DEF ReadColumns, Seen
  <1>10. Visited'
    BY <1>1, <1>2, <1>4, <1>5, <1>9
    DEF ReadColumns, IInv, Visited, Visiting
  <1>11. Settled' /\ Underway' /\ Accepted'
    BY <1>1 DEF Settled, Underway, Accepted, Closed
  <1> QED BY <1>6, <1>7, <1>8, <1>10, <1>11 DEF IInv

LEMMA CheckVisibilityKeeps ==
    IInv /\ CheckVisibility => IInv'
  <1> SUFFICES ASSUME IInv, CheckVisibility PROVE IInv'
    OBVIOUS
  <1>1. phase = "columns" /\ phase' = "routines"
    BY DEF CheckVisibility
  <1>2. PICK ok \in BOOLEAN :
          /\ Tolerated(ok)
          /\ found' = [found EXCEPT !.lacks = ~ ok \/ Uncollected # {}]
    BY DEF CheckVisibility
  <1>3. /\ found \in [schema : Schema, objects : SUBSET Objects,
                      lacks : BOOLEAN]
        /\ found.schema \in todo /\ Seen(found.schema, found.objects)
    BY <1>1 DEF IInv, TypeOK, FoundTypeOK, Visiting, Visited
  <1>4. /\ found' \in [schema : Schema, objects : SUBSET Objects,
                       lacks : BOOLEAN]
        /\ found'.schema = found.schema /\ found'.objects = found.objects
        /\ ~ found'.lacks => Uncollected = {}
    BY <1>2, <1>3
  <1>5. faults' \in 0..MaxFaults
    BY <1>2, CatalogReadAssumption DEF IInv, TypeOK, Tolerated
  <1>6. TypeOK'
    BY <1>1, <1>4, <1>5
    DEF CheckVisibility, IInv, TypeOK, DocTypeOK, FoundTypeOK, GotTypeOK,
        Phases, Reading, Visiting
  <1>7. Watched' /\ Connected'
    BY <1>1 DEF CheckVisibility, IInv, Watched, Connected, Closed
  <1>8. Read'
    BY <1>1
    DEF CheckVisibility, IInv, Read, Reading, Visiting, SchemaNames, Seen, Full
  <1>9. Visited'
    <2>1. ~ found'.lacks => Full(found.schema, found.objects)
      BY <1>4 DEF IInv, Watched, Full, Uncollected
    <2> QED BY <1>1, <1>3, <1>4, <2>1
        DEF CheckVisibility, Visited, Visiting, Seen, Full
  <1>10. Settled' /\ Underway' /\ Accepted'
    BY <1>1 DEF Settled, Underway, Accepted, Closed
  <1> QED BY <1>6, <1>7, <1>8, <1>9, <1>10 DEF IInv

LEMMA FinishSchemaKeeps ==
    IInv /\ FinishSchema => IInv'
  <1> SUFFICES ASSUME IInv, FinishSchema PROVE IInv'
    OBVIOUS
  <1> DEFINE name == found.schema
             old  == doc.schemas
             new  == With(old, name, found.objects)
  <1>1. phase = "routines" /\ phase' = "objects" /\ todo' = todo \ {name}
    BY DEF FinishSchema
  <1>2. PICK routines \in BOOLEAN, usage \in BOOLEAN :
          LET lacks == found.lacks \/ ~ routines
          IN  /\ Tolerated(routines /\ usage)
              /\ doc' = [schemas  |-> new,
                         limits   |-> IF lacks \/ ~ usage
                                      THEN doc.limits \cup {Unread}
                                      ELSE doc.limits,
                         complete |-> StillComplete(lacks)]
    BY DEF FinishSchema
  <1>3. /\ name \in Schema /\ name \in todo /\ found.objects \subseteq Objects
        /\ Seen(name, found.objects)
        /\ ~ found.lacks => Full(name, found.objects)
    BY <1>1 DEF IInv, TypeOK, FoundTypeOK, Visiting, Visited
  <1>4. /\ old \in SchemaMaps /\ doc.limits \in SUBSET Limits
        /\ doc.complete \in BOOLEAN /\ found.lacks \in BOOLEAN
    BY <1>1 DEF IInv, TypeOK, DocTypeOK, Documents, FoundTypeOK, Visiting
  <1>5. /\ new \in SchemaMaps /\ DOMAIN new = DOMAIN old \cup {name}
        /\ \A s \in DOMAIN old \cup {name} :
              new[s] = IF s = name THEN found.objects ELSE old[s]
    <2> HIDE DEF name, old
    <2> QED BY <1>3, <1>4, WithMap
  <1> HIDE DEF new
  <1>6. /\ doc'.schemas = new
        /\ doc'.limits \in SUBSET Limits
        /\ doc'.complete \in BOOLEAN
        /\ doc'.complete => doc.complete /\ ~ found.lacks
        /\ doc' \in Documents
    BY <1>2, <1>4, <1>5 DEF StillComplete, Limits, Documents
  <1>7. faults' \in 0..MaxFaults
    BY <1>2, CatalogReadAssumption DEF IInv, TypeOK, Tolerated
  <1>8. TypeOK'
    BY <1>1, <1>6, <1>7
    DEF FinishSchema, IInv, TypeOK, DocTypeOK, FoundTypeOK, GotTypeOK, Phases,
        Reading, Visiting
  <1>9. Watched' /\ Connected'
    BY <1>1 DEF FinishSchema, IInv, Watched, Connected, Closed
  <1>10. todo' \cup SchemaNames(doc)' = Schema
    BY <1>1, <1>3, <1>5, <1>6 DEF IInv, Read, Reading, Visiting, SchemaNames
  <1>11. ASSUME NEW s \in DOMAIN new
         PROVE  /\ Seen(s, new[s])
                /\ doc'.complete => Full(s, new[s])
    <2>1. CASE s = name
      BY <1>3, <1>5, <1>6, <2>1
    <2>2. CASE s # name
      BY <1>5, <1>6, <2>2 DEF IInv, Read, SchemaNames
    <2> QED BY <2>1, <2>2
  <1>12. Read'
    <2>1. always' = always /\ ever' = ever
      BY DEF FinishSchema
    <2>2. \A s \in SchemaNames(doc') :
            /\ Seen(s, doc.schemas[s])'
            /\ doc'.complete => Full(s, doc.schemas[s])'
      BY <1>6, <1>11, <2>1 DEF SchemaNames, Seen, Full
    <2> QED BY <1>1, <1>10, <2>2 DEF Read, SchemaNames
  <1>13. Visited'
    BY <1>1 DEF Visited, Visiting
  <1>14. Settled' /\ Underway' /\ Accepted'
    BY <1>1 DEF Settled, Underway, Accepted, Closed
  <1> QED BY <1>8, <1>9, <1>12, <1>13, <1>14 DEF IInv

LEMMA ConcludeKeeps ==
    IInv /\ Conclude => IInv'
  <1> SUFFICES ASSUME IInv, Conclude PROVE IInv'
    OBVIOUS
  <1>1. phase = "objects" /\ phase' = "annotate" /\ todo = {}
    BY DEF Conclude
  <1>2. PICK deps \in BOOLEAN :
          /\ Tolerated(deps)
          /\ doc' = [doc EXCEPT
               !.complete = @ /\ deps,
               !.limits = @ \cup (IF deps THEN {} ELSE {Unread})
                            \cup (IF OverNetwork(transport) THEN {Plaintext}
                                  ELSE {})]
    BY DEF Conclude
  <1>3. doc \in Documents
    BY DEF IInv, TypeOK, DocTypeOK
  <1>4. /\ doc'.schemas = doc.schemas
        /\ doc'.complete => doc.complete
        /\ OverNetwork(transport) => Plaintext \in doc'.limits
        /\ doc' \in Documents
    BY <1>2, <1>3 DEF Limits, Documents
  <1>5. faults' \in 0..MaxFaults
    BY <1>2, CatalogReadAssumption DEF IInv, TypeOK, Tolerated
  <1>6. TypeOK'
    BY <1>1, <1>4, <1>5
    DEF Conclude, IInv, TypeOK, DocTypeOK, FoundTypeOK, GotTypeOK, Phases,
        Visiting
  <1>7. Watched' /\ Connected'
    BY <1>1, <1>4 DEF Conclude, IInv, Watched, Connected, OverNetwork
  <1>8. Read' /\ Visited'
    BY <1>1, <1>4
    DEF Conclude, IInv, Read, Visited, Reading, Visiting, SchemaNames, Seen,
        Full
  <1>9. Settled' /\ Underway' /\ Accepted'
    BY <1>1 DEF Settled, Underway, Accepted, Closed
  <1> QED BY <1>6, <1>7, <1>8, <1>9 DEF IInv

LEMMA AnnotateKeeps ==
    IInv /\ Annotate => IInv'
  <1> SUFFICES ASSUME IInv, Annotate PROVE IInv'
    OBVIOUS
  <1> DEFINE filter  == setting.filter
             missing == filter \ SchemaNames(doc)
             kept    == [s \in SchemaNames(doc) \cap filter |-> doc.schemas[s]]
  <1>1. phase = "annotate" /\ phase' = "write"
    BY DEF Annotate
  <1>2. doc \in Documents
    BY DEF IInv, TypeOK, DocTypeOK
  <1>3. SchemaNames(doc) = Schema
    BY <1>1 DEF IInv, Read
  <1>4. kept \in SchemaMaps
    BY <1>2, RestrictedMap DEF SchemaNames, Documents
  <1>5. doc' = IF filter = {} THEN doc ELSE
           [schemas  |-> kept,
            limits   |-> IF missing = {} THEN doc.limits
                         ELSE doc.limits \cup {NotCollected},
            complete |-> doc.complete /\ missing = {}]
    BY DEF Annotate
  <1>6. /\ doc' \in Documents
        /\ doc.limits \subseteq doc'.limits
        /\ doc'.complete => doc.complete
    BY <1>2, <1>4, <1>5 DEF Limits, Documents
  <1>7. /\ SchemaNames(doc') \subseteq SchemaNames(doc)
        /\ \A s \in SchemaNames(doc') : doc'.schemas[s] = doc.schemas[s]
    BY <1>5 DEF SchemaNames
  <1>8. TypeOK'
    BY <1>1, <1>6
    DEF Annotate, IInv, TypeOK, DocTypeOK, FoundTypeOK, GotTypeOK, Phases,
        Closed, Visiting
  <1>9. Watched' /\ Connected'
    BY <1>1, <1>6 DEF Annotate, IInv, Watched, Connected, OverNetwork
  <1>10. Read'
    <2>1. always' = always /\ ever' = ever
      BY DEF Annotate
    <2>2. \A s \in SchemaNames(doc') :
            /\ Seen(s, doc.schemas[s])'
            /\ doc'.complete => Full(s, doc.schemas[s])'
      BY <1>6, <1>7, <2>1 DEF IInv, Read, Seen, Full
    <2> QED BY <1>1, <2>2 DEF Read, Reading, Visiting, SchemaNames
  <1>11. Visited'
    BY <1>1 DEF Visited, Visiting
  <1>12. Settled'
    <2>1. setting' = setting
      BY DEF Annotate
    <2>2. CASE filter = {}
      BY <1>3, <1>5, <2>1, <2>2 DEF Settled, Asked, SchemaNames
    <2>3. CASE filter # {}
      BY <1>5, <2>1, <2>3 DEF Settled, Asked, SchemaNames
    <2> QED BY <2>2, <2>3
  <1>13. Underway' /\ Accepted'
    BY <1>1 DEF Underway, Accepted
  <1> QED BY <1>8, <1>9, <1>10, <1>11, <1>12, <1>13 DEF IInv

\* What was there all the time can only get less, and what was there at some
\* time more.
LEMMA DdlKeeps ==
    IInv /\ Ddl => IInv'
  <1> SUFFICES ASSUME IInv, Ddl PROVE IInv'
    OBVIOUS
  <1>1. phase \in {"schemas"} \cup Reading /\ phase' = phase
    BY DEF Ddl, Reading, Visiting
  <1>2. db' \subseteq Rel /\ ddl' \in 0..MaxDdl
    BY CatalogReadAssumption DEF Ddl, IInv, TypeOK
  <1>3. always' = always \cap db' /\ ever' = ever \cup db'
    BY DEF Ddl
  <1>4. TypeOK'
    BY <1>1, <1>2, <1>3
    DEF Ddl, IInv, TypeOK, DocTypeOK, FoundTypeOK, GotTypeOK
  <1>5. Watched'
    BY <1>3 DEF Watched
  <1>6. Connected'
    BY DEF Ddl, IInv, Connected
  <1>7. Read' /\ Visited'
    BY <1>3
    DEF Ddl, IInv, Read, Visited, SchemaNames, Seen, Full
  <1>8. Settled' /\ Underway' /\ Accepted'
    BY <1>1 DEF Settled, Underway, Accepted, Closed, Reading, Visiting
  <1> QED BY <1>4, <1>5, <1>6, <1>7, <1>8 DEF IInv

-----------------------------------------------------------------------------
(* The stream.  Its records are told apart by their types and their names.  *)

\* What a record is, by its type.
LEMMA RecordTypes ==
    ASSUME NEW r \in Records
    PROVE  /\ r.type = "document" => r = Header
           /\ r.type = "schema" =>
                 \E s \in SchemaNames(doc) : r = SchemaRecord(s)
           /\ r.type = "object" =>
                 \E s \in SchemaNames(doc) : \E o \in doc.schemas[s] :
                    r = ObjectRecord(s, o)
           /\ r.type = "limitations" => r = Trailer
           /\ r.type \in {"document", "schema", "object", "limitations"}
  BY DEF Records, ObjectRecords, Header, Trailer, SchemaRecord, ObjectRecord

\* No record is another one.
LEMMA RecordsDiffer ==
    /\ Header # Trailer
    /\ \A s : SchemaRecord(s) # Header /\ SchemaRecord(s) # Trailer
    /\ \A s, o : ObjectRecord(s, o) # Header /\ ObjectRecord(s, o) # Trailer
    /\ \A s, x : SchemaRecord(s) = SchemaRecord(x) => s = x
    /\ \A s, x, o : SchemaRecord(s) # ObjectRecord(x, o)
    /\ \A s, x, o, y : ObjectRecord(s, o) = ObjectRecord(x, y) =>
                          s = x /\ o = y
  <1>1. /\ Header.type = "document" /\ Trailer.type = "limitations"
        /\ \A s : SchemaRecord(s).type = "schema" /\ SchemaRecord(s).name = s
        /\ \A s, o : /\ ObjectRecord(s, o).type = "object"
                     /\ ObjectRecord(s, o).schema = s
                     /\ ObjectRecord(s, o).data = o
    BY DEF Header, Trailer, SchemaRecord, ObjectRecord
  <1> QED BY <1>1

\* A line that was cut, or the end of the file it is in.
LEMMA TornIsRejected ==
    Rejected(Torn)
  BY DEF Rejected, Torn

LEMMA TransferKeeps ==
    IInv /\ Transfer => IInv'
  <1> SUFFICES ASSUME IInv, Transfer PROVE IInv'
    OBVIOUS
  <1>1. phase = "write" /\ phase' = "read" /\ text' = Records
        /\ got' = NotRead /\ doc' = doc /\ setting' = setting
    BY DEF Transfer
  <1>2. /\ got'.schemas = << >> /\ ~ got'.header /\ ~ got'.trailer
        /\ got'.limits = {} /\ DOMAIN got'.schemas = {}
        /\ got' \in Readers
    BY <1>1, EmptyMap DEF NotRead, Readers
  <1>3. TypeOK'
    BY <1>1, <1>2
    DEF Transfer, IInv, TypeOK, DocTypeOK, FoundTypeOK, GotTypeOK, Phases,
        Closed, Visiting
  <1>4. Watched' /\ Connected'
    BY <1>1 DEF Transfer, IInv, Watched, Connected, Closed
  <1>5. Read' /\ Visited' /\ Settled'
    BY <1>1
    DEF Transfer, IInv, Read, Visited, Settled, Closed, Reading, Visiting,
        SchemaNames, Asked, Seen, Full
  <1>6. Underway'
    <2>1. Records' = Records /\ Header' = Header
      BY <1>1
      DEF Records, Header, Trailer, ObjectRecords, SchemaRecord, ObjectRecord,
          SchemaNames
    <2>2. /\ Header \in Records
          /\ \A s \in SchemaNames(doc) : SchemaRecord(s) \in Records
          /\ \A s \in SchemaNames(doc) : \A o \in doc.schemas[s] :
                ObjectRecord(s, o) \in Records
      BY DEF Records, ObjectRecords
    <2> QED BY <1>1, <1>2, <2>1, <2>2 DEF Underway, AllBut, Part, SchemaNames
  <1>7. Accepted'
    BY <1>1 DEF Accepted
  <1> QED BY <1>3, <1>4, <1>5, <1>6, <1>7 DEF IInv

\* A reader that goes on changes only what it has and what is still to come.
LEMMA TakenKeeps ==
    ASSUME IInv, phase = "read", Underway', GotTypeOK',
           UNCHANGED <<setting, db, transport, phase, todo, pending, doc, found,
                       always, ever, ddl, faults>>
    PROVE  IInv'
  <1>1. TypeOK'
    BY DEF IInv, TypeOK, DocTypeOK, FoundTypeOK
  <1>2. Watched' /\ Connected' /\ Read' /\ Visited' /\ Settled'
    BY DEF IInv, Watched, Connected, Read, Visited, Settled, SchemaNames, Asked,
           Seen, Full
  <1>3. Accepted'
    BY DEF Accepted
  <1> QED BY <1>1, <1>2, <1>3 DEF IInv

\* What reading one record does to the reader, for each kind of record.
LEMMA HeaderTaken ==
    ASSUME IInv, AllBut(got, text), Header \in text, ~ got.header
    PROVE  /\ Taken(Header) \in Readers
           /\ AllBut(Taken(Header), text \ {Header})
  <1> DEFINE g == Taken(Header)
  <1>1. got \in Readers /\ setting.version \in {0, 1, 2}
        /\ doc.complete \in BOOLEAN /\ setting.streaming \in BOOLEAN
    BY CatalogReadAssumption
    DEF IInv, TypeOK, GotTypeOK, DocTypeOK, Documents
  <1>2. /\ Header.type = "document" /\ Header.version = setting.version
        /\ Header.complete = (doc.complete /\ ~ setting.streaming)
    BY DEF Header
  <1>3. g = [got EXCEPT !.header = TRUE, !.version = Header.version,
                        !.complete = Header.complete]
    BY <1>2 DEF Taken
  <1> HIDE DEF g
  <1>4. /\ g \in Readers /\ g.header /\ g.version = setting.version
        /\ g.complete = (doc.complete /\ ~ setting.streaming)
        /\ g.schemas = got.schemas /\ g.limits = got.limits
        /\ g.trailer = got.trailer
    BY <1>1, <1>2, <1>3 DEF Readers
  <1>5. ~ got.trailer
    BY DEF AllBut
  <1> QED BY <1>4, <1>5, RecordsDiffer DEF AllBut, Part, SchemaNames, g

LEMMA SchemaTaken ==
    ASSUME IInv, AllBut(got, text), got.header,
           NEW s \in SchemaNames(doc), SchemaRecord(s) \in text
    PROVE  /\ Taken(SchemaRecord(s)) \in Readers
           /\ AllBut(Taken(SchemaRecord(s)), text \ {SchemaRecord(s)})
  <1> DEFINE r == SchemaRecord(s)
             g == Taken(r)
             m == With(got.schemas, s, {})
  <1>1. got \in Readers /\ got.schemas \in SchemaMaps /\ s \in Schema
    BY MapIs
    DEF IInv, TypeOK, GotTypeOK, DocTypeOK, Documents, Readers, SchemaNames
  <1>2. r.type = "schema" /\ r.name = s
    BY DEF SchemaRecord
  <1>3. g = [got EXCEPT !.schemas = m, !.last = {s}]
    BY <1>2 DEF Taken
  <1>4. /\ m \in SchemaMaps
        /\ DOMAIN m = DOMAIN got.schemas \cup {s}
        /\ \A x \in DOMAIN m : m[x] = IF x = s THEN {} ELSE got.schemas[x]
    BY <1>1, MapIs DEF With
  <1> HIDE DEF g, m, r
  <1>5. /\ g \in Readers /\ g.schemas = m /\ g.header = got.header
        /\ g.version = got.version /\ g.complete = got.complete
        /\ g.limits = got.limits /\ g.trailer = got.trailer
    BY <1>1, <1>3, <1>4 DEF Readers
  <1>6. ~ got.trailer /\ s \notin SchemaNames(got)
    BY DEF AllBut
  <1>7. Part(g)
    BY <1>4, <1>5 DEF AllBut, Part, SchemaNames
  <1>8. ASSUME NEW x \in SchemaNames(doc)
        PROVE  /\ x \in SchemaNames(g) <=> SchemaRecord(x) \notin text \ {r}
               /\ \A o \in doc.schemas[x] :
                     ObjectRecord(x, o) \notin text \ {r} <=>
                        x \in SchemaNames(g) /\ o \in g.schemas[x]
    <2>1. SchemaRecord(x) = r <=> x = s
      BY RecordsDiffer DEF r
    <2>2. \A o : ObjectRecord(x, o) # r
      BY RecordsDiffer DEF r
    <2> QED BY <1>4, <1>5, <1>6, <2>1, <2>2 DEF AllBut, SchemaNames
  <1>9. Header # r
    BY RecordsDiffer DEF r
  <1>10. AllBut(g, text \ {r})
    BY <1>5, <1>6, <1>7, <1>8, <1>9 DEF AllBut
  <1> QED BY <1>5, <1>10 DEF g, r

LEMMA ObjectTaken ==
    ASSUME IInv, AllBut(got, text), got.header,
           NEW s \in SchemaNames(doc), NEW o \in doc.schemas[s],
           ObjectRecord(s, o) \in text, SchemaRecord(s) \notin text
    PROVE  /\ Taken(ObjectRecord(s, o)) \in Readers
           /\ AllBut(Taken(ObjectRecord(s, o)), text \ {ObjectRecord(s, o)})
  <1> DEFINE r == ObjectRecord(s, o)
             g == Taken(r)
             c == got.schemas[s] \cup {o}
             m == [got.schemas EXCEPT ![s] = c]
  <1>1. got \in Readers /\ got.schemas \in SchemaMaps
        /\ s \in DOMAIN got.schemas /\ c \subseteq Objects
    BY MapIs
    DEF IInv, TypeOK, GotTypeOK, DocTypeOK, Documents, Readers, SchemaNames,
        AllBut
  <1>2. r.type = "object" /\ r.schema = s /\ r.data = o
    BY DEF ObjectRecord
  <1>3. g = [got EXCEPT !.schemas = m]
    BY <1>2 DEF Taken
  <1>4. /\ m \in SchemaMaps
        /\ DOMAIN m = DOMAIN got.schemas
        /\ \A x \in DOMAIN m : m[x] = IF x = s THEN c ELSE got.schemas[x]
    BY <1>1, ExceptMap
  <1> HIDE DEF g, m, r
  <1>5. /\ g \in Readers /\ g.schemas = m /\ g.header = got.header
        /\ g.version = got.version /\ g.complete = got.complete
        /\ g.limits = got.limits /\ g.trailer = got.trailer
    BY <1>1, <1>3, <1>4 DEF Readers
  <1>6. ~ got.trailer
    BY DEF AllBut
  <1>7. Part(g)
    BY <1>1, <1>4, <1>5 DEF AllBut, Part, SchemaNames
  <1>8. ASSUME NEW x \in SchemaNames(doc)
        PROVE  /\ x \in SchemaNames(g) <=> SchemaRecord(x) \notin text \ {r}
               /\ \A y \in doc.schemas[x] :
                     ObjectRecord(x, y) \notin text \ {r} <=>
                        x \in SchemaNames(g) /\ y \in g.schemas[x]
    <2>1. SchemaRecord(x) # r
      BY RecordsDiffer DEF r
    <2>2. \A y : ObjectRecord(x, y) = r <=> x = s /\ y = o
      BY RecordsDiffer DEF r
    <2> QED BY <1>1, <1>4, <1>5, <2>1, <2>2 DEF AllBut, SchemaNames
  <1>9. Header # r
    BY RecordsDiffer DEF r
  <1>10. AllBut(g, text \ {r})
    BY <1>5, <1>6, <1>7, <1>8, <1>9 DEF AllBut
  <1> QED BY <1>5, <1>10 DEF g, r

LEMMA TrailerTaken ==
    ASSUME IInv, AllBut(got, text), got.header, text = {Trailer}
    PROVE  /\ Taken(Trailer) \in Readers
           /\ AllBut(Taken(Trailer), text \ {Trailer})
  <1> DEFINE r == Trailer
             g == Taken(r)
  <1>1. /\ got \in Readers /\ doc.limits \subseteq Limits
        /\ doc.complete \in BOOLEAN /\ setting.streaming \in BOOLEAN
    BY CatalogReadAssumption
    DEF IInv, TypeOK, GotTypeOK, DocTypeOK, Documents
  <1>2. /\ r.type = "limitations" /\ r.limits = doc.limits
        /\ r.context = setting.streaming /\ r.complete = doc.complete
    BY DEF Trailer
  <1>3. g = [got EXCEPT !.limits = got.limits \cup r.limits, !.trailer = TRUE,
                        !.complete = IF r.context THEN r.complete
                                     ELSE got.complete]
    BY <1>2 DEF Taken
  <1>4. /\ ~ got.trailer /\ got.limits = {}
        /\ got.complete = (doc.complete /\ ~ setting.streaming)
        /\ got.version = setting.version
    BY DEF AllBut
  <1> HIDE DEF g, r
  <1>5. /\ g \in Readers /\ g.schemas = got.schemas /\ g.header
        /\ g.version = setting.version /\ g.complete = doc.complete
        /\ g.limits = doc.limits /\ g.trailer
    BY <1>1, <1>2, <1>3, <1>4 DEF Readers
  <1>6. text \ {r} = {}
    BY DEF r
  <1>7. \A s \in SchemaNames(doc) :
           /\ SchemaRecord(s) \notin text
           /\ \A o \in doc.schemas[s] : ObjectRecord(s, o) \notin text
    BY RecordsDiffer
  <1>8. Part(g)
    BY <1>5 DEF AllBut, Part, SchemaNames
  <1>9. ASSUME NEW s \in SchemaNames(doc)
        PROVE  /\ s \in SchemaNames(g)
               /\ \A o \in doc.schemas[s] : o \in g.schemas[s]
    BY <1>5, <1>7 DEF AllBut, SchemaNames
  <1>10. g.complete = (doc.complete /\ (g.trailer \/ ~ setting.streaming))
    BY <1>1, <1>5
  <1>11. AllBut(g, {})
    BY <1>5, <1>8, <1>9, <1>10 DEF AllBut
  <1> QED BY <1>5, <1>6, <1>11 DEF g, r

LEMMA ReadRecordKeeps ==
    IInv /\ ReadRecord => IInv'
  <1> SUFFICES ASSUME IInv, ReadRecord PROVE IInv'
    OBVIOUS
  <1>1. phase = "read" /\ AllBut(got, text)
    BY DEF ReadRecord, IInv, Underway
  <1>2. PICK r \in Coming :
          /\ IF Rejected(r)
             THEN Fail /\ UNCHANGED got
             ELSE got' = Taken(r) /\ UNCHANGED phase
          /\ text' = text \ {r}
    BY DEF ReadRecord
  <1>3. UNCHANGED <<setting, db, transport, todo, pending, doc, found, always,
                    ever, ddl, faults>>
    BY DEF ReadRecord
  <1>4. CASE Rejected(r)
    <2>1. Fail /\ UNCHANGED got
      BY <1>2, <1>4
    <2>2. faults' \in 0..MaxFaults
      BY <1>3 DEF IInv, TypeOK
    <2> QED BY <1>3, <2>1, <2>2, FailKeeps
  <1>5. CASE ~ Rejected(r)
    <2>1. got' = Taken(r) /\ phase' = phase
      BY <1>2, <1>5
    <2>2. r # Torn /\ Header.type = "document"
      BY <1>5, TornIsRejected DEF Header
    <2>3. r \in text /\ r \in Records
      BY <1>1, <1>2, <1>5, <2>2 DEF Coming, Rejected, AllBut
    <2>4. Sendable(r) \/ r = Header
      BY <1>2, <2>2 DEF Coming
    <2>5. Taken(r) \in Readers /\ AllBut(Taken(r), text \ {r})
      <3>1. CASE r.type = "document"
        <4>1. r = Header /\ ~ got.header
          BY <1>5, <2>3, <3>1, RecordTypes DEF Rejected
        <4> QED BY <1>1, <2>3, <4>1, HeaderTaken
      <3>2. CASE r.type = "schema"
        <4>1. PICK s \in SchemaNames(doc) : r = SchemaRecord(s)
          BY <2>3, <3>2, RecordTypes
        <4>2. got.header
          BY <1>5, <3>2 DEF Rejected
        <4> QED BY <1>1, <2>3, <4>1, <4>2, SchemaTaken
      <3>3. CASE r.type = "object"
        <4>1. PICK s \in SchemaNames(doc) : \E o \in doc.schemas[s] :
                 r = ObjectRecord(s, o)
          BY <2>3, <3>3, RecordTypes
        <4>2. PICK o \in doc.schemas[s] : r = ObjectRecord(s, o)
          BY <4>1
        <4>3. got.header
          BY <1>5, <3>3 DEF Rejected
        <4>4. SchemaRecord(s) \notin text
          BY <2>2, <2>4, <3>3, <4>2 DEF Sendable, ObjectRecord
        <4> QED BY <1>1, <2>3, <4>2, <4>3, <4>4, ObjectTaken
      <3>4. CASE r.type = "limitations"
        <4>1. r = Trailer /\ got.header
          BY <1>5, <2>3, <3>4, RecordTypes DEF Rejected
        <4>2. text = {Trailer}
          BY <2>2, <2>4, <3>4, <4>1 DEF Sendable
        <4> QED BY <1>1, <4>1, <4>2, TrailerTaken
      <3> QED BY <2>3, <3>1, <3>2, <3>3, <3>4, RecordTypes
    <2>6. GotTypeOK'
      BY <2>1, <2>5 DEF GotTypeOK, Readers, SchemaMaps, Objects, Limits,
                        Plaintext, Unread, NotCollected, NoTrailer
    <2>7. AllBut(got, text)'
      BY <1>2, <1>3, <2>1, <2>5
      DEF AllBut, Part, SchemaNames, Records, ObjectRecords, Header, Trailer,
          SchemaRecord, ObjectRecord
    <2> QED BY <1>1, <1>3, <2>1, <2>6, <2>7, TakenKeeps DEF Underway
  <1> QED BY <1>4, <1>5

\* A stream that was cut is marked, and refused if it is of version 2; one that
\* was not has given everything.
LEMMA EndOfStreamKeeps ==
    IInv /\ EndOfStream => IInv'
  <1> SUFFICES ASSUME IInv, EndOfStream PROVE IInv'
    OBVIOUS
  <1>1. phase = "read" /\ AllBut(got, text)
    BY DEF EndOfStream, IInv, Underway
  <1>2. UNCHANGED <<setting, db, transport, todo, pending, doc, found, text,
                    always, ever, ddl, faults>>
    BY DEF EndOfStream
  <1>3. CASE ~ got.header \/ TrailerMissing(got)
    <2>1. Fail /\ UNCHANGED got
      BY <1>3 DEF EndOfStream
    <2>2. faults' \in 0..MaxFaults
      BY <1>2 DEF IInv, TypeOK
    <2> QED BY <1>2, <2>1, <2>2, FailKeeps
  <1>4. CASE ~ (~ got.header \/ TrailerMissing(got))
    <2>1. /\ phase' = "accepted"
          /\ got' = IF got.trailer THEN got ELSE Unfinished(got)
      BY <1>4 DEF EndOfStream
    <2>2. got \in Readers /\ doc \in Documents /\ got.header
      BY <1>4 DEF IInv, TypeOK, GotTypeOK, DocTypeOK
    <2>3. /\ got' \in Readers /\ got'.schemas = got.schemas
          /\ got'.trailer = got.trailer
          /\ got.trailer => got' = got
          /\ ~ got.trailer => /\ ~ got'.complete /\ NoTrailer \in got'.limits
                              /\ got'.version = got.version
      BY <2>1, <2>2 DEF Unfinished, Readers, Limits
    <2>4. TypeOK'
      BY <1>2, <2>1, <2>3
      DEF IInv, TypeOK, DocTypeOK, FoundTypeOK, GotTypeOK, Phases, Closed,
          Visiting, Readers, Documents, SchemaMaps, Objects, Limits
    <2>5. Watched' /\ Connected' /\ Read' /\ Visited' /\ Settled'
      BY <1>1, <1>2, <2>1
      DEF IInv, Watched, Connected, Read, Visited, Settled, Closed, Reading,
          Visiting, SchemaNames, Asked, Seen, Full
    <2>6. Underway'
      BY <2>1 DEF Underway
    <2>7. Part(got)'
      BY <1>1, <1>2, <2>3 DEF AllBut, Part, SchemaNames
    <2>8. ASSUME got.trailer
          PROVE  /\ got.schemas = doc.schemas /\ got.limits = doc.limits
                 /\ got.complete = doc.complete
      <3>1. text = {} /\ SchemaNames(got) = SchemaNames(doc)
        BY <1>1, <2>8 DEF AllBut, Part
      <3>2. \A s \in SchemaNames(got) : got.schemas[s] = doc.schemas[s]
        BY <1>1, <3>1 DEF AllBut, Part
      <3>3. got.schemas \in SchemaMaps /\ doc.schemas \in SchemaMaps
            /\ got.complete \in BOOLEAN /\ doc.complete \in BOOLEAN
        BY <2>2 DEF Readers, Documents
      <3>4. got.schemas = doc.schemas
        BY <3>1, <3>2, <3>3, SameMap DEF SchemaNames
      <3>5. got.limits = doc.limits /\ got.complete = doc.complete
        BY <1>1, <2>2, <2>8, <3>3 DEF AllBut
      <3> QED BY <3>4, <3>5
    <2>9. ~ got.trailer => got.version # 2
      BY <1>4 DEF TrailerMissing
    <2>10. Accepted'
      BY <1>2, <2>3, <2>7, <2>8, <2>9 DEF Accepted
    <2> QED BY <2>4, <2>5, <2>6, <2>10 DEF IInv
  <1> QED BY <1>3, <1>4

-----------------------------------------------------------------------------
(* The theorems. *)

LEMMA StepKeeps ==
    IInv /\ [CollectNext]_collectVars => IInv'
  <1> SUFFICES ASSUME IInv, [CollectNext]_collectVars PROVE IInv'
    OBVIOUS
  <1>1. CASE UNCHANGED collectVars
    <2>1. UNCHANGED <<setting, db, transport, phase, todo, pending, doc, found,
                      text, got, always, ever, ddl, faults>>
      BY <1>1 DEF collectVars
    <2>2. TypeOK' /\ Watched' /\ Connected'
      BY <2>1
      DEF IInv, TypeOK, DocTypeOK, FoundTypeOK, GotTypeOK, Watched, Connected
    <2>3. Read' /\ Visited' /\ Settled'
      BY <2>1
      DEF IInv, Read, Visited, Settled, SchemaNames, Asked, Seen, Full
    <2>4. Underway' /\ Accepted'
      BY <2>1
      DEF IInv, Underway, Accepted, AllBut, Part, SchemaNames, Records,
          ObjectRecords, Header, Trailer, SchemaRecord, ObjectRecord
    <2> QED BY <2>2, <2>3, <2>4 DEF IInv
  <1> QED
    BY <1>1, OpenKeeps, QueryFailsKeeps, ListSchemasKeeps, ReadObjectsKeeps,
       ReadColumnsKeeps, CheckVisibilityKeeps, FinishSchemaKeeps,
       ConcludeKeeps, AnnotateKeeps, DdlKeeps, TransferKeeps, ReadRecordKeeps,
       EndOfStreamKeeps DEF CollectNext

\* The invariant of the way of a catalogue, for all schemas and tables, every
\* setting and any number of changes and failed queries (transport.rs,
\* postgres.rs, context.rs, ndjson.rs).
THEOREM Inductive ==
    CollectSpec => []IInv
  BY InitHolds, StepKeeps, PTL DEF CollectSpec

\* Types, and that the document never holds a schema twice or one that the
\* database does not have (postgres.rs:172-214).
THEOREM TypeCorrect ==
    CollectSpec => []TypeOK
  <1>1. IInv => TypeOK
    BY DEF IInv
  <1> QED BY <1>1, Inductive, PTL

\* A document that is accepted and marked complete has every table that was
\* there all the time (postgres.rs:184-267, context.rs:19, ndjson.rs:222-233).
THEOREM CompleteDocuments ==
    CollectSpec => []CompleteMeansCollected
  <1>1. IInv => CompleteMeansCollected
    <2> SUFFICES ASSUME IInv, phase = "accepted", got.complete
                 PROVE  /\ \A r \in always :
                              Asked(r[1]) => Collected(r[1], r[2], TRUE)
                        /\ setting.filter \subseteq SchemaNames(got)
      BY DEF CompleteMeansCollected
    <2>1. got.schemas = doc.schemas /\ doc.complete
      BY DEF IInv, Accepted
    <2>2. setting.filter \subseteq SchemaNames(got)
      BY <2>1 DEF IInv, Settled, Closed, SchemaNames
    <2>3. ASSUME NEW r \in always, Asked(r[1])
          PROVE  Collected(r[1], r[2], TRUE)
      <3>1. r[1] \in Schema /\ r[2] \in Table /\ r = <<r[1], r[2]>>
        BY DEF IInv, TypeOK, Rel
      <3>2. r[1] \in SchemaNames(doc)
        BY <2>1, <2>3, <3>1 DEF IInv, Settled, Closed
      <3>3. Full(r[1], doc.schemas[r[1]])
        BY <2>1, <3>2 DEF IInv, Read
      <3> QED BY <2>1, <3>1, <3>2, <3>3 DEF Full, Collected, SchemaNames
    <2> QED BY <2>2, <2>3
  <1> QED BY <1>1, Inductive, PTL

\* An accepted document holds nothing that was not there, and one of version 2
\* is the one that was written (ndjson.rs:73-88, 230-233).
THEOREM RealDocuments ==
    CollectSpec => []AcceptedIsReal
  <1>1. IInv => AcceptedIsReal
    <2> SUFFICES ASSUME IInv, phase = "accepted"
                 PROVE  /\ \A s \in SchemaNames(got) :
                              \A o \in got.schemas[s] : <<s, o.name>> \in ever
                        /\ got.version = 2 =>
                              got.schemas = doc.schemas
                                 /\ got.limits = doc.limits
                                 /\ got.complete = doc.complete
      BY DEF AcceptedIsReal
    <2>1. \A s \in SchemaNames(got) : \A o \in got.schemas[s] :
             <<s, o.name>> \in ever
      BY DEF IInv, Accepted, Part, Read, Seen
    <2>2. got.version = 2 => got.trailer
      BY DEF IInv, Accepted
    <2> QED BY <2>1, <2>2 DEF IInv, Accepted
  <1> QED BY <1>1, Inductive, PTL

\* No catalogue crosses a network in the clear without saying so, or against
\* the policy (transport.rs:127-204).
THEOREM PlaintextKnown ==
    CollectSpec => []PlaintextIsReported
  <1>1. IInv => PlaintextIsReported
    <2> SUFFICES ASSUME IInv PROVE PlaintextIsReported
      OBVIOUS
    <2>1. phase = "accepted" /\ OverNetwork(transport) =>
             Plaintext \in got.limits \/ NoTrailer \in got.limits
      BY DEF IInv, Connected, Accepted, Closed
    <2>2. setting \in Tried
      BY DEF IInv, TypeOK
    <2>3. /\ transport = "tlsRefused" => setting.server = "refuses"
          /\ OverNetwork(transport) => setting.policy # "required"
      BY <2>2, OpenedFacts DEF IInv, Connected, OverNetwork
    <2> QED BY <2>1, <2>3 DEF PlaintextIsReported
  <1> QED BY <1>1, Inductive, PTL
=============================================================================
