---------------------------- MODULE DocumentCodec ----------------------------
(***************************************************************************)
(* A catalogue document as the program holds it and as it is written       *)
(* (src/engine/source/src/codec.rs, document.rs).  The second version of   *)
(* the format names its producer and declares the features it needs.  What *)
(* is optional is a set of at most one value.  A document holds each       *)
(* schema once; columns, constraints, indexes and triggers are in kept.    *)
(***************************************************************************)
EXTENDS Naturals, FiniteSets

Supported ==
    {"catalog-dependencies-v1", "external-queries-v1", "package-members-v1",
     "usage-v1"}

\* What both forms have: context (the source, the database and the schemas
\* asked for), schemas (names), objects, routines, dependencies and limitations.
\* An object is [schema, name, kind, used, kept], a routine is [schema, name,
\* kind, body, member, used, source]; used: it has usage statistics.  The form
\* inside has its reader, the written one version, reader, producer, features
\* and the fields that no reader knows.
Used(d) ==
    \/ \E o \in d.objects : o.used
    \/ \E r \in d.routines : r.used

\* document_features of the form inside, required_features of the written one.
Features(d) ==
    UNION {IF d.dependencies # {} THEN {"catalog-dependencies-v1"} ELSE {},
           IF Used(d) THEN {"usage-v1"} ELSE {},
           IF \E r \in d.routines : r.member # {}
           THEN {"package-members-v1"} ELSE {},
           IF \E r \in d.routines : r.kind = "query"
           THEN {"external-queries-v1"} ELSE {}}

-----------------------------------------------------------------------------
(* Reading. *)

\* validate_v2: whoever writes the second version must say what it takes to
\* read it.
DeclaresItself(w) ==
    /\ w.reader = {}
    /\ w.producer \notin {{}, {""}}
    /\ \E declared \in w.features : /\ declared \subseteq Supported
                                    /\ Features(w) \subseteq declared

\* The first version has no queries; its reader is a field like any other.
Decodable(w) ==
    \/ /\ w.version = 1 /\ w.reader # {}
       /\ "external-queries-v1" \notin Features(w)
    \/ w.version = 2 /\ DeclaresItself(w)

\* The fields of the second version are unknown to the first.
UnknownFields(w) ==
    w.unknown \cup
    IF w.version = 2 THEN {}
    ELSE (IF w.producer # {} THEN {"producer"} ELSE {}) \cup
         (IF w.features # {} THEN {"required_features"} ELSE {})

ObjectIdentity(o) == <<o.schema, o.name, o.kind>>

RoutineIdentity(r) == <<r.schema, r.name, r.kind, r.member>>

Repeated(records, identities) ==
    Cardinality(records) - Cardinality(identities)

\* How often a record repeats the identity of another one.
DuplicateRecordNotes(d) ==
    LET objects  == Repeated(d.objects, {ObjectIdentity(o) : o \in d.objects})
        routines == Repeated(d.routines,
                             {RoutineIdentity(r) : r \in d.routines})
    IN  (IF objects > 0 THEN {<<"duplicate", "object", objects>>} ELSE {})
          \cup
        (IF routines > 0 THEN {<<"duplicate", "routine", routines>>} ELSE {})

IgnoredNote(fields) ==
    IF fields = {} THEN {} ELSE {<<"ignored", fields>>}

\* decode_document, finish_document: what is not understood and what is there
\* twice is said.
Decoded(w) ==
    [reader       |-> IF w.version = 2 THEN w.producer ELSE w.reader,
     context      |-> w.context,
     schemas      |-> w.schemas,
     objects      |-> w.objects,
     routines     |-> w.routines,
     dependencies |-> w.dependencies,
     limitations  |-> w.limitations \cup IgnoredNote(UnknownFields(w))
                        \cup DuplicateRecordNotes(w)]

-----------------------------------------------------------------------------
(* Writing. *)

Encodable(d, version) ==
    /\ version \in {1, 2}
    /\ version = 1 => "external-queries-v1" \notin Features(d)
    /\ version = 2 => d.reader # {""}

Encoded(d, version) ==
    [version      |-> version,
     reader       |-> IF version = 1 THEN d.reader ELSE {},
     producer     |-> IF version = 2 THEN d.reader ELSE {},
     features     |-> IF version = 2 THEN {Features(d)} ELSE {},
     unknown      |-> {},
     context      |-> d.context,
     schemas      |-> d.schemas,
     objects      |-> d.objects,
     routines     |-> d.routines,
     dependencies |-> d.dependencies,
     limitations  |-> d.limitations]
=============================================================================
