---------------------------- MODULE QueryScopes ----------------------------
(***************************************************************************)
(* The names of a query: the Binder of src/engine/parser/src/scope.rs,     *)
(* which finds for every output column the columns its value comes from,   *)
(* and every column that is read, knowing only the collected relations.    *)
(*                                                                         *)
(* A text is a record.                                                     *)
(*   query   [with, recursive, body, order]; with: of [name, names, query] *)
(*   body    [is, from, items, where, group]          "select"             *)
(*           [is, op, left, right]                    "set"                *)
(*           [is, rows]                               "values"             *)
(*   from    a sequence of [factor, joins]                                 *)
(*   join    [factor, side, on, using]; on: conditions; using: names,      *)
(*           <<"natural">> for NATURAL                                     *)
(*   factor  [is, name, alias]                        "table"              *)
(*           [is, query, alias, names, lateral]       "derived"            *)
(*           [is]                                     "other"              *)
(*   item    [is, expr, alias] "expr"; [is, qual]     "star", "" for all   *)
(*   expr    [bare, atoms]; bare: the expression is one name alone         *)
(*   atom    [is, qual, name] "name"; [is, query]     "query"              *)
(*                                                                         *)
(* Names have been folded by the rules of the dialect and are in one       *)
(* schema.  Not here: windows, calls, semi joins, wildcard options, the    *)
(* nested join with an alias, SQLite's order of USING columns.             *)
(***************************************************************************)
EXTENDS Naturals, Sequences, FiniteSets, SequencesExt

CONSTANTS
    Catalog,      \* the columns of the collected relations, in order
    MaxScopes     \* how deep queries may be nested

-----------------------------------------------------------------------------
(* What the binder says: columns and relations read, and diagnostics.      *)

Saying(reads, notes) == [reads |-> reads, notes |-> notes]

Silent == Saying({}, {})

Together(S) == Saying(UNION {s.reads : s \in S}, UNION {s.notes : s \in S})

Column(name, sources, unknown) ==
    [name |-> name, sources |-> sources, unknown |-> unknown]

Relation(aliases, columns, unknown) ==
    [aliases |-> aliases, columns |-> columns, unknown |-> unknown]

UnknownRelation == Relation({}, << >>, TRUE)

\* A scope is a sequence of frames, the innermost first.
Frame(relations, columns) == [relations |-> relations, columns |-> columns]

EmptyFrame == Frame(<< >>, << >>)

\* Scope::add
Add(frame, relation) ==
    Frame(Append(frame.relations, relation),
          frame.columns \o relation.columns)

AddAll(frame, relations) == FoldLeft(Add, frame, relations)

AnyUnknown(relations) == \E i \in DOMAIN relations : relations[i].unknown

Named(columns, name) == SelectSeq(columns, LAMBDA c : c.name = name)

Called(relations, alias) ==
    SelectSeq(relations, LAMBDA r : alias \in r.aliases)

ColumnsOf(relations) ==
    FlattenSeq([i \in DOMAIN relations |-> relations[i].columns])

Define(f, key, value) ==
    [k \in DOMAIN f \cup {key} |-> IF k = key THEN value ELSE f[k]]

(* Relations and names.                                                    *)

\* A relation that the catalogue has once; others stay unknown.
Table(name) ==
    IF name \in DOMAIN Catalog
    THEN [out |-> Relation({name},
                    [i \in DOMAIN Catalog[name] |->
                        Column(Catalog[name][i], {<<name, Catalog[name][i]>>},
                               FALSE)], FALSE),
          said |-> Saying({<<name>>}, {})]
    ELSE [out |-> UnknownRelation, said |-> Saying({}, {"relation"})]

\* alias: the columns may get new names too.
Renamed(relation, aliases, names) ==
    LET columns ==
            [i \in DOMAIN relation.columns |->
                IF i \in DOMAIN names
                THEN [relation.columns[i] EXCEPT !.name = names[i]]
                ELSE relation.columns[i]]
        tooMany == Len(names) > Len(relation.columns)
    IN [out |-> Relation(aliases, columns, relation.unknown \/ tooMany),
        said |-> Saying({}, IF tooMany THEN {"alias width"} ELSE {})]

\* resolve: the innermost scope that can have the name decides, and an unknown
\* relation can have any.
RECURSIVE Lookup(_, _)
Lookup(atom, frames) ==
    IF frames = << >> THEN [is |-> "nowhere"]
    ELSE LET frame == Head(frames)
             owners == IF atom.qual = "" THEN frame.relations
                       ELSE Called(frame.relations, atom.qual)
             found == Named(IF atom.qual = "" THEN frame.columns
                            ELSE ColumnsOf(owners), atom.name)
         IN IF /\ Len(found) = 1 /\ ~AnyUnknown(owners)
               /\ ~found[1].unknown
            THEN [is |-> "column", sources |-> found[1].sources]
            ELSE IF found # << >> \/ AnyUnknown(owners)
            THEN [is |-> "ambiguous"]
            ELSE IF atom.qual # "" /\ owners # << >> THEN [is |-> "nowhere"]
            ELSE Lookup(atom, Tail(frames))

Found(sources) == [out |-> sources, said |-> Silent]

NotFound(note) == [out |-> {}, said |-> Saying({}, {note})]

Only(columns) ==
    IF Len(columns) = 1 /\ ~columns[1].unknown
    THEN Found(columns[1].sources) ELSE NotFound("unresolved")

Resolve(atom, frames, env, aliases) ==
    IF atom.qual \in DOMAIN env.pseudo
    THEN Only(Named(env.pseudo[atom.qual].columns, atom.name))
    ELSE LET place == Lookup(atom, frames)
             output == Only(Named(aliases, atom.name))
         IN CASE place.is = "column" -> Found(place.sources)
              [] place.is = "ambiguous" -> NotFound("ambiguous")
              [] place.is = "nowhere" ->
                   IF atom.qual = "" /\ output.said = Silent THEN output
                   ELSE IF atom.qual = "" /\ atom.name \in env.scalars
                   THEN Found({})
                   ELSE NotFound("unresolved")

(* Queries.  env has what the names of relations may mean besides the      *)
(* catalogue, the variables, and how deep the query is.                    *)

RECURSIVE Query(_, _, _), Body(_, _, _), Visit(_, _, _, _, _)

\* The value of a subquery comes from all of its columns.
SubqueryValue(r) ==
    [out |-> UNION {r.out.columns[i].sources : i \in DOMAIN r.out.columns},
     said |-> r.said]

\* What a name stands for is read.
ReadValue(r) ==
    [out |-> r.out, said |-> Together({r.said, Saying(r.out, {})})]

NameValue(atom, bare, frames, env, role, visible) ==
    LET projected ==
            SelectSeq(visible, LAMBDA c : c.name = atom.name /\ ~c.unknown)
    IN IF /\ bare /\ role = "ordering" /\ atom.qual = ""
          /\ Len(projected) = 1
       THEN Found(projected[1].sources)
       ELSE Resolve(atom, frames, env, visible)

\* ExprVisitor: a name, or a subquery that sees the scope.
VisitAtom(atom, bare, frames, env, role, aliases) ==
    IF atom.is = "query"
    THEN SubqueryValue(Query(atom.query, env, frames))
    ELSE ReadValue(NameValue(atom, bare, frames, env, role,
                             IF bare \/ role = "predicate" THEN aliases
                             ELSE << >>))

Gathered(results) ==
    [out |-> UNION {r.out : r \in results},
     said |-> Together({r.said : r \in results})]

Visit(expr, frames, env, role, aliases) ==
    Gathered({VisitAtom(expr.atoms[i], expr.bare, frames, env, role, aliases)
                : i \in DOMAIN expr.atoms})

VisitAll(exprs, frames, env, role, aliases) ==
    Together({Visit(exprs[i], frames, env, role, aliases).said :
                i \in DOMAIN exprs})

\* The result of a query under another name.
KnownBy(r, aliases, names) ==
    LET named == Renamed(r.out, aliases, names)
    IN [out |-> named.out, said |-> Together({r.said, named.said})]

\* factor: a CTE hides a local relation, which hides the catalogue.
Factor(factor, env, visible) ==
    CASE factor.is = "table" ->
           LET aliases == {IF factor.alias = "" THEN factor.name
                           ELSE factor.alias}
               r == CASE factor.name \in DOMAIN env.ctes ->
                           [out |-> env.ctes[factor.name], said |-> Silent]
                      [] factor.name \in DOMAIN env.local
                            /\ factor.name \notin DOMAIN env.ctes ->
                           [out |-> env.local[factor.name], said |-> Silent]
                      [] OTHER -> Table(factor.name)
           IN [r EXCEPT !.out.aliases = aliases]
      [] factor.is = "derived" ->
           KnownBy(Query(factor.query, env, IF factor.lateral THEN visible
                                            ELSE Tail(visible)),
                   {factor.alias}, factor.names)
      [] OTHER ->
           [out |-> UnknownRelation, said |-> Saying({}, {"unsupported"})]

\* using: one column for each key that both sides have once.
Preserved(side, left, right) ==
    CASE side = "left" -> left
      [] side = "right" -> right
      [] OTHER -> Column(left.name, left.sources \cup right.sources,
                         left.unknown \/ right.unknown)

Using(group, right, keys, side) ==
    LET both(key) == <<Named(group.columns, key), Named(right.columns, key)>>
        once == SelectSeq(keys, LAMBDA k : /\ Len(both(k)[1]) = 1
                                           /\ Len(both(k)[2]) = 1)
        merged == [i \in DOMAIN once |->
                    Preserved(side, both(once[i])[1][1], both(once[i])[2][1])]
        others(columns) ==
            SelectSeq(columns, LAMBDA c : c.name \notin ToSet(keys))
    IN [out |-> Frame(group.relations \o right.relations,
                      merged \o others(group.columns)
                             \o others(right.columns)),
        said |-> Saying(UNION {both(k)[1][1].sources \cup both(k)[2][1].sources
                                 : k \in ToSet(once)},
                        IF once = keys THEN {} ELSE {"using"})]

JoinKeys(join, group, right) ==
    IF join.using # <<"natural">> THEN join.using
    ELSE LET common == SelectSeq(group.columns,
                        LAMBDA c : Named(right.columns, c.name) # << >>)
         IN [i \in DOMAIN common |-> common[i].name]

\* The relations of both sides, with merged keys or without.
Group(left, right, keys, side) ==
    IF keys = << >>
    THEN [out |-> Frame(left.relations \o right.relations,
                        left.columns \o right.columns),
          said |-> Silent]
    ELSE Using(left, right, keys, side)

Joined(acc, r, join) ==
    LET right == Add(EmptyFrame, r.out)
        group == Group(acc.out, right, JoinKeys(join, acc.out, right),
                       join.side)
    IN [out |-> group.out,
        said |-> Together({acc.said, r.said, group.said})]

Conditions(group, on, frame, outer, env) ==
    [group EXCEPT !.said =
        Together({@, VisitAll(on, <<AddAll(frame, group.out.relations)>>
                                    \o outer, env, "join", << >>)})]

\* join: the frame is that of the FROM items before.
JoinStep(acc, join, frame, outer, env) ==
    Conditions(Joined(acc, Factor(join.factor, env,
                                  <<AddAll(frame, acc.out.relations)>>
                                    \o outer), join),
               join.on, frame, outer, env)

Alone(r) == [out |-> Add(EmptyFrame, r.out), said |-> r.said]

Join(from, frame, outer, env) ==
    FoldLeft(LAMBDA acc, join : JoinStep(acc, join, frame, outer, env),
             Alone(Factor(from.factor, env, <<frame>> \o outer)), from.joins)

Beside(acc, r) ==
    [out |-> Frame(acc.out.relations \o r.out.relations,
                   acc.out.columns \o r.out.columns),
     said |-> Together({acc.said, r.said})]

JoinNext(acc, from, outer, env) ==
    Beside(acc, Join(from, acc.out, outer, env))

FromClause(froms, outer, env) ==
    FoldLeft(LAMBDA acc, from : JoinNext(acc, from, outer, env),
             [out |-> EmptyFrame, said |-> Silent], froms)

Expanded(columns) ==
    [out |-> columns,
     said |-> Saying(UNION {columns[i].sources : i \in DOMAIN columns}, {})]

OutputOf(alias, r) ==
    [out |-> <<Column(alias, r.out, r.said.notes # {})>>, said |-> r.said]

\* An item of the projection; a wildcard needs to know its relations.
Item(item, frames, env) ==
    LET frame == Head(frames)
        named == Called(frame.relations, item.qual)
    IN CASE item.is = "expr" ->
              OutputOf(item.alias, Visit(item.expr, frames, env, "projection",
                                         << >>))
         [] item.is = "star" /\ item.qual = "" ->
              LET r == Expanded(frame.columns)
                  unsure == \/ frame.relations = << >>
                            \/ AnyUnknown(frame.relations)
              IN [r EXCEPT !.said.notes = IF unsure THEN {"wildcard"} ELSE {}]
         [] item.is = "star" /\ item.qual # "" ->
              IF Len(named) = 1 /\ ~AnyUnknown(named)
              THEN Expanded(named[1].columns)
              ELSE [out |-> << >>, said |-> Saying({}, {"wildcard"})]

Selected(body, env, from, frames, items) ==
    LET columns == FlattenSeq([i \in DOMAIN items |-> items[i].out])
    IN [out |-> Relation({}, columns, AnyUnknown(from.out.relations)),
        frames |-> frames,
        said |-> Together(
            {from.said} \cup {items[i].said : i \in DOMAIN items}
            \cup {VisitAll(body.where, frames, env, "predicate", << >>),
                  VisitAll(body.group, frames, env, "grouping", columns)})]

Projected(body, env, from, frames) ==
    Selected(body, env, from, frames,
             [i \in DOMAIN body.items |-> Item(body.items[i], frames, env)])

SelectFrom(body, env, outer, from) ==
    Projected(body, env, from, <<from.out>> \o outer)

Select(body, env, outer) ==
    SelectFrom(body, env, outer, FromClause(body.from, outer, env))

\* Not in the code: every operation mixes the values of both sides.
Combined_Mixes(op, left, right) ==
    LET both(l, r) == Column(l.name, l.sources \cup r.sources,
                             l.unknown \/ r.unknown)
    IN [out |-> Relation({}, [i \in DOMAIN left.columns |->
                                both(left.columns[i], right.columns[i])],
                         left.unknown \/ right.unknown),
        said |-> Silent]

\* combine_set_operation: EXCEPT takes its values from the left alone.
Combined(op, left, right) ==
    LET width == IF Len(left.columns) < Len(right.columns)
                 THEN Len(left.columns) ELSE Len(right.columns)
        both(l, r) ==
            Column(l.name,
                   IF op = "except" THEN l.sources
                   ELSE l.sources \cup r.sources,
                   l.unknown \/ r.unknown)
        same == Len(left.columns) = Len(right.columns)
    IN [out |-> Relation({},
                  [i \in DOMAIN left.columns |->
                      IF i <= width THEN both(left.columns[i], right.columns[i])
                      ELSE left.columns[i]],
                  left.unknown \/ right.unknown \/ ~same),
        said |-> Saying({}, IF same THEN {} ELSE {"set width"})]

\* A row after the other; the first one has the width.
RowValues(cells, frames) ==
    [out |-> Relation({},
               [j \in DOMAIN cells[1] |->
                   Column("column", UNION {cells[i][j].out :
                                             i \in DOMAIN cells}, FALSE)],
               FALSE),
     frames |-> frames,
     said |-> Together(UNION {{cells[i][j].said : j \in DOMAIN cells[i]} :
                                 i \in DOMAIN cells})]

ValueRows(rows, env, frames) ==
    RowValues([i \in DOMAIN rows |-> [j \in DOMAIN rows[i] |->
                  Visit(rows[i][j], frames, env, "projection", << >>)]],
              frames)

BothSides(op, left, right, outer) ==
    LET r == Combined(op, left.out, right.out)
    IN [out |-> r.out,
        frames |-> <<Frame(<< >>, r.out.columns)>> \o outer,
        said |-> Together({left.said, right.said, r.said})]

Body(body, env, outer) ==
    CASE body.is = "select" -> Select(body, env, outer)
      [] body.is = "values" ->
           ValueRows(body.rows, env, <<EmptyFrame>> \o outer)
      [] body.is = "set" ->
           BothSides(body.op, Body(body.left, env, outer),
                     Body(body.right, env, outer), outer)

\* A CTE sees those before it; a recursive one does not know itself.
Bound(acc, name, r) ==
    [env |-> [acc.env EXCEPT !.ctes = Define(@, name, r.out)],
     said |-> Together({acc.said, r.said})]

BindCte(acc, cte, recursive, outer) ==
    LET env == IF recursive
               THEN [acc.env EXCEPT
                       !.ctes = Define(@, cte.name, UnknownRelation)]
               ELSE acc.env
    IN Bound(acc, cte.name, KnownBy(Query(cte.query, env, outer), {cte.name},
                                    cte.names))

Ordered(r, with, order) ==
    [out |-> r.out,
     said |-> Together({with.said, r.said,
                        VisitAll(order, r.frames, with.env, "ordering",
                                 r.out.columns)})]

QueryWith(query, with, outer) ==
    Ordered(Body(query.body, with.env, outer), with, query.order)

Query(query, env, outer) ==
    IF env.depth >= MaxScopes
    THEN [out |-> UnknownRelation, said |-> Saying({}, {"depth"})]
    ELSE QueryWith(query,
            FoldLeft(LAMBDA acc, cte :
                        BindCte(acc, cte, query.recursive, outer),
                     [env |-> [env EXCEPT !.depth = @ + 1], said |-> Silent],
                     query.with),
            outer)
=============================================================================
