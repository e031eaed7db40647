---------------------------- MODULE DocumentGraph ----------------------------
(***************************************************************************)
(* The graph of one catalogue document: src/engine/source/src/graph.rs,    *)
(* and dependencies.rs for what the database itself says depends on what.  *)
(*                                                                         *)
(* A document is a record of schemas with objects (columns, constraints,   *)
(* indexes, triggers) and routines, in the order they were collected, and  *)
(* of dependencies.  What is optional in it is a set of at most one value. *)
(***************************************************************************)
EXTENDS Naturals, GraphStore

ObjectKind(object) ==
    IF object.kind \in {"view", "materialized-view", "sequence", "type",
                        "synonym"}
    THEN object.kind ELSE "table"

RoutineKind(routine) ==
    IF routine.kind \in {"procedure", "package", "query"}
    THEN routine.kind ELSE "function"

\* Where a vertex of a kind goes if its id is taken: to the same vertex if
\* that is of its kind, beside it if it is not, nowhere if that place is
\* taken too.  Each of these leaves a note.
SplitOff(id, kind) == [id EXCEPT !.split = kind]

Place(g, base, kind) ==
    IF ~Has(g, base) \/ IsKind(g, base, {kind}) THEN {base}
    ELSE {SplitOff(base, kind)} \ DOMAIN g.vertices

PlaceNote(g, base, kind) ==
    IF ~Has(g, base) THEN {}
    ELSE IF IsKind(g, base, {kind}) THEN {<<"merged", kind>>}
    ELSE IF Has(g, SplitOff(base, kind)) THEN {<<"omitted", kind>>}
    ELSE {<<"split", kind>>}

\* A member vertex under its object; used is {} or its usage.
AddMember(g, object, name, kind, used) ==
    LET base == [object EXCEPT !.path = Append(@, name)]
        vertex == [kind |-> kind, name |-> name, schema |-> object.path[1]]
        noted == [g EXCEPT !.notes = @ \cup PlaceNote(g, base, kind)]
        add(id) == Contain(AddVertex(noted, id, vertex), object, id)
        counted(id) == IF used = {} THEN add(id)
                       ELSE SetUsage(add(id), id, Only(used))
    IN  IF Place(g, base, kind) = {} THEN noted
        ELSE counted(Only(Place(g, base, kind)))

\* A trigger fires on its table: that needs no parsing.
AddTrigger(g, object, name) ==
    LET base   == [object EXCEPT !.path = Append(@, name)]
        place  == Place(g, base, "trigger")
        member == AddMember(g, object, name, "trigger", {})
    IN  IF place = {} THEN member
        ELSE AddEdge(member, Key(Only(place), object, "fires"),
                     {<<"catalog", "trigger", name>>})

AddSchema(g, schema) ==
    AddVertex(g, SchemaId(schema),
              [kind |-> "schema", name |-> schema, schema |-> schema])

\* An object with its columns, constraints, indexes and triggers, in this
\* order: it decides who keeps a name two of them have.
AddObject(g, schema, object) ==
    LET id == ObjectId(schema, object.name)
        vertex == [kind |-> ObjectKind(object), name |-> object.name,
                   schema |-> schema]
        placed == Contain(AddVertex(g, id, vertex), SchemaId(schema), id)
        counted == IF object.usage = {} THEN placed
                   ELSE SetUsage(placed, id, Only(object.usage))
        columns == FoldLeft(LAMBDA h, c : AddMember(h, id, c.name, "column",
                                                    {}),
                            counted, object.columns)
        constraints == FoldLeft(LAMBDA h, c : AddMember(h, id, c.name,
                                                        "constraint", {}),
                                columns, object.constraints)
        indexes == FoldLeft(LAMBDA h, i : AddMember(h, id, i.name, "index",
                                                    i.usage),
                            constraints, object.indexes)
    IN  FoldLeft(LAMBDA h, t : AddTrigger(h, id, t), indexes, object.triggers)

\* A bug: what has the name of the package is taken for it.
PackageByName(g, schema, name) == {ObjectId(schema, name)} \cap DOMAIN g.vertices

\* The package of a member: the vertex its name alone leads to, or another
\* package of that name in the schema, split off or overloaded.  (The code
\* takes the first of several such in the order of ids.)
Package(g, schema, name) ==
    LET exact == ObjectId(schema, name)
        named == {v \in DOMAIN g.vertices :
                     g.vertices[v] = [kind |-> "package", name |-> name,
                                      schema |-> schema]}
    IN  IF IsKind(g, exact, {"package"}) THEN {exact}
        ELSE IF named = {} THEN {} ELSE {Only(named)}

\* A routine under its schema, or under its package.  A member whose package
\* was not collected is kept, under the schema.
AddRoutine(g, schema, routine) ==
    LET kind == RoutineKind(routine)
        base == RoutineId(schema, routine.package, routine.name, routine.sig)
        noted == [g EXCEPT !.notes = @ \cup PlaceNote(g, base, kind)]
        vertex == [kind |-> kind, name |-> routine.name, schema |-> schema]
        add(id) == AddVertex(noted, id, vertex)
        counted(id) == IF routine.usage = {} THEN add(id)
                       ELSE SetUsage(add(id), id, Only(routine.usage))
        found(h) == UNION {Package(h, schema, p) : p \in routine.package}
        placed(h, id) ==
          IF found(h) /= {} THEN Contain(h, Only(found(h)), id)
          ELSE Contain(IF routine.package = {} THEN h
                       ELSE Note(h, <<"package missing", routine.name>>),
                       SchemaId(schema), id)
    IN  IF Place(g, base, kind) = {} THEN noted
        ELSE LET id == Only(Place(g, base, kind)) IN placed(counted(id), id)

\* {} or the member of a table with a name and a kind.
MemberOf(g, table, name, kind) ==
    {v \in Owned(g, table) : /\ IsKind(g, v, {kind})
                             /\ g.vertices[v].name = name}

TargetSchema(schema, reference) ==
    IF reference.schema = {} THEN schema ELSE Only(reference.schema)

\* A foreign key is an edge between the tables and one for each pair of
\* columns the catalogue names.
AddForeignKey(g, schema, object, constraint) ==
    LET from == ObjectId(schema, object.name)
        reference == Only(constraint.referenced)
        to == ObjectId(TargetSchema(schema, reference), reference.table)
        near(n) == MemberOf(g, from, constraint.columns[n], "column")
        far(n)  == MemberOf(g, to, reference.columns[n], "column")
        pairs == {n \in DOMAIN constraint.columns \cap
                          DOMAIN reference.columns :
                    reference.columns[n] /= ""}
        keys == {Key(from, to, "references")} \cup
                UNION {{Key(l, r, "references") : l \in near(n), r \in far(n)} :
                         n \in pairs}
        evidence == {<<"catalog", "fk", constraint.name>>}
    IN  IF constraint.referenced = {} THEN g
        ELSE IF ~Has(g, to)
        THEN Note(g, <<"target missing", object.name, reference.table>>)
        ELSE [g EXCEPT !.edges =
                 [k \in DOMAIN @ \cup keys |->
                    (IF k \in DOMAIN g.edges THEN g.edges[k] ELSE {}) \cup
                    (IF k \in keys THEN evidence ELSE {})]]

-----------------------------------------------------------------------------
(* The catalogue facts the rules look at (graph.rs:60-237). *)

\* The place of a column in the primary key, from 1: what the columns say,
\* or, if none says anything, the order in the constraint.  0 is no place.
KeyPlace(object, column) ==
    LET stated == \E n \in DOMAIN object.columns : object.columns[n].key > 0
        keys == SelectSeq(object.constraints, LAMBDA c : c.kind = "pk")
        in == {n \in DOMAIN Head(keys).columns :
                 Head(keys).columns[n] = column.name}
    IN  IF stated \/ keys = << >> \/ in = {} THEN column.key ELSE Min(in)

\* The columns a foreign key refers to: those it names, or the primary key of
\* its table, in key order, if it names none.
ReferencedColumns(document, schema, reference) ==
    LET tables == UNION {{s.objects[n] : n \in DOMAIN s.objects} :
                           s \in {t \in ToSet(document.schemas) :
                                    t.name = schema}}
        target == {t \in tables : t.name = reference.table}
        keyed == {c \in ToSet(Only(target).columns) :
                    KeyPlace(Only(target), c) > 0}
    IN  IF \E n \in DOMAIN reference.columns : reference.columns[n] /= ""
        THEN reference.columns
        ELSE IF target = {} THEN << >>
        ELSE LET sorted == SetToSortSeq(keyed, LAMBDA a, b :
                     KeyPlace(Only(target), a) < KeyPlace(Only(target), b))
             IN  [n \in DOMAIN sorted |-> sorted[n].name]

\* The members of a table some names stand for, as far as they were collected.
Members(g, table, names) ==
    LET found == SelectSeq(names, LAMBDA n : MemberOf(g, table, n, "column")
                                               /= {})
    IN  [n \in DOMAIN found |-> Only(MemberOf(g, table, found[n], "column"))]

Collected(document) == \E c \in document.context : c.complete

IndexFacts(g, table, index) ==
    LET columns == Members(g, table, index.columns)
    IN  [table |-> table, columns |-> columns, unique |-> index.unique,
         filtered |-> index.filtered,
         complete |-> /\ index.complete = "yes"
                      /\ Len(columns) = Len(index.columns)]

ForeignKeyFacts(g, document, schema, table, constraint) ==
    LET columns == Members(g, table, constraint.columns)
        reference == Only(constraint.referenced)
        target == ObjectId(TargetSchema(schema, reference), reference.table)
        names == ReferencedColumns(document, TargetSchema(schema, reference),
                                   reference)
        there == IF constraint.referenced = {} THEN {}
                 ELSE {target} \cap DOMAIN g.vertices
        far == IF constraint.referenced = {} THEN << >>
               ELSE Members(g, target, names)
    IN  [table |-> table, columns |-> columns, targetTable |-> there,
         targetColumns |-> far,
         complete |-> /\ Collected(document)
                      /\ columns /= << >>
                      /\ Len(columns) = Len(constraint.columns)
                      /\ there /= {}
                      /\ Len(far) = Len(names)
                      /\ Len(far) = Len(columns)]

\* A producer that says none of these things is not taken for one that found
\* nothing.
StatesFacts(document) ==
    \/ document.context /= {}
    \/ \E s \in ToSet(document.schemas) : \E o \in ToSet(s.objects) :
          \/ \E i \in ToSet(o.indexes) : i.complete /= "unknown" \/ i.filtered
          \/ \E c \in ToSet(o.columns) : c.key > 0

\* The facts of one table: of its columns, its indexes, its foreign keys.
TableFacts(g, document, schema, object) ==
    LET table == ObjectId(schema, object.name)
        column(id) == CHOOSE c \in ToSet(object.columns) :
                        c.name = g.vertices[id].name
        index(id) == CHOOSE i \in ToSet(object.indexes) :
                        i.name = g.vertices[id].name
        keys == {c \in ToSet(object.constraints) : c.kind = "fk"}
        key(id) == CHOOSE c \in keys : c.name = g.vertices[id].name
        of(names, kind) == UNION {MemberOf(g, table, n, kind) : n \in names}
        namesOf(set) == {x.name : x \in set}
    IN  [columns |->
           [id \in of(namesOf(ToSet(object.columns)), "column") |->
              [type |-> column(id).type, key |-> KeyPlace(object, column(id)),
               ordinal |-> column(id).ordinal]],
         indexes |->
           [id \in of(namesOf(ToSet(object.indexes)), "index") |->
              IndexFacts(g, table, index(id))],
         foreignKeys |->
           [id \in of(namesOf(keys), "constraint") |->
              ForeignKeyFacts(g, document, schema, table, key(id))],
         complete |-> Collected(document)]

AttachFacts(g, document) ==
    LET tables == UNION {{<<s.name, o>> : o \in ToSet(s.objects)} :
                           s \in ToSet(document.schemas)}
        none == [NoFacts EXCEPT !.complete = Collected(document)]
        facts == FoldSet(LAMBDA t, m :
                           BothFacts(m, {TableFacts(g, document, t[1], t[2])}),
                         {none}, tables)
    IN  IF StatesFacts(document) THEN [g EXCEPT !.metadata = facts] ELSE g

-----------------------------------------------------------------------------
(* What the database says depends on what (dependencies.rs). *)

KindMatches(kind, expected) ==
    IF expected = {} THEN Level(kind) = "object"
    ELSE kind \in expected \cap {"table", "view", "materialized-view",
           "function", "procedure", "package", "synonym", "sequence", "type"}

SameDatabase(document, reference) ==
    \A d \in reference.database : \E c \in document.context : c.database = {d}

\* {} or the only vertex directly under the schema that fits.  The string
\* parent keeps the members of packages out.
ResolveObject(g, reference) ==
    LET schema == SchemaId(reference.schema)
        overload == RoutineId(reference.schema, {}, reference.name,
                              Only(reference.sig))
        fits(v) ==
          /\ Has(g, v) /\ StringParent(v) = {schema}
          /\ g.vertices[v].name = reference.name
          /\ g.vertices[v].schema = reference.schema
          /\ KindMatches(g.vertices[v].kind, reference.kind)
          /\ reference.sig /= {} => [v EXCEPT !.split = ""] = overload
        found == {v \in Owned(g, schema) : fits(v)}
    IN  IF Cardinality(found) = 1 THEN found ELSE {}

\* {} or the vertex a reference means.
Resolve(g, document, reference) ==
    LET object == ResolveObject(g, reference)
        columns == UNION {UNION {MemberOf(g, v, m, "column") :
                                   m \in reference.member} : v \in object}
    IN  IF ~SameDatabase(document, reference) THEN {}
        ELSE IF reference.member = {} THEN object
        ELSE IF Cardinality(columns) = 1 THEN columns ELSE {}

AddDependency(g, document, dependency) ==
    LET from == Resolve(g, document, dependency.from)
        to   == Resolve(g, document, dependency.to)
    IN  IF from = {} \/ to = {}
        THEN Note(g, <<"dependency", dependency.from.name, dependency.to.name>>)
        ELSE AddEdge(g, Key(Only(from), Only(to), "depends-on"),
                     {<<"catalog", "depends">>})
=============================================================================
