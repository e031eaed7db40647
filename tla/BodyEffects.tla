---------------------------- MODULE BodyEffects ----------------------------
(***************************************************************************)
(* What a stored body does to tables and columns: collect_trigger_stmt,    *)
(* apply_trigger and apply_routine of src/engine/parser/src/lib.rs with    *)
(* collect_reads of body_relations.rs, DmlAnalyzer and enrich_view of      *)
(* scope.rs.                                                               *)
(*                                                                         *)
(* The statements are gone through twice.  The first pass collects the     *)
(* relations that are read and written and keeps the statements that move  *)
(* columns; the second one finds the columns of those with the Binder of   *)
(* QueryScopes, and folds temporary tables, which have no vertices, into   *)
(* the columns that flowed into them.  What could not be decided is noted, *)
(* and a body with notes counts as partial.                                *)
(*                                                                         *)
(* A body is [owner, kind, transition, variables] and, for a view,         *)
(* [columns, query], for a routine or a trigger [table, statements].       *)
(*   insert [is, table, source, names, query, sets]; source: "query" or    *)
(*          "set"                                                          *)
(*   update [is, target, joins, from, sets, where]                         *)
(*   merge  [is, target, source, on, clauses]; clauses: [is, sets]         *)
(*          "update", [is, names, row] "insert", [is] "delete"             *)
(*   create [is, table, temporary, names, query], into [the same], declare *)
(*          [is, table, columns] for a temporary table without query       *)
(*   delete [is, table, where], drop [is, table], select [is, query],      *)
(*   if     [is, then]                                                     *)
(*   set    [targets, value]; targets: of [qual, name]; value: [is, expr]  *)
(*          "expr", [is, exprs] "tuple", [is, query] "query"               *)
(***************************************************************************)
EXTENDS QueryScopes, BodyMeaning

CONSTANT
    Texts         \* the bodies

BodyEffectsAssumption ==
    /\ MaxScopes \in Nat
    /\ \A name \in DOMAIN Catalog :
          name \in DOMAIN Database /\ Catalog[name] = Database[name]
    /\ \A text \in Texts : text.kind \in {"view", "routine", "trigger"}

VARIABLES
    body,
    phase,        \* "collect", "columns", "view", "done"
    at,           \* the next statement
    parsed,       \* what the first pass collected
    analyzer,     \* what the second pass has found
    edges,        \* of the graph: [kind, from, to]
    does          \* what the database does with this body

vars == <<body, phase, at, parsed, analyzer, edges, does>>

-----------------------------------------------------------------------------
(* The relations and the qualified names in a text.  A CTE is seen by      *)
(* those after it and by the body of its query, a recursive one by all.    *)

Seen(tables, names) == [tables |-> tables, names |-> names]

AllSeen(S) == Seen(UNION {s.tables : s \in S}, UNION {s.names : s \in S})

RECURSIVE InQuery(_, _), InBody(_, _)

InExpr(expr, ctes) ==
    AllSeen({IF expr.atoms[i].is = "query"
             THEN InQuery(expr.atoms[i].query, ctes)
             ELSE Seen({}, {<<expr.atoms[i].qual, expr.atoms[i].name>>}) :
                i \in DOMAIN expr.atoms})

InExprs(exprs, ctes) == AllSeen({InExpr(exprs[i], ctes) : i \in DOMAIN exprs})

InFactor(factor, ctes) ==
    CASE factor.is = "table" -> Seen({factor.name} \ ctes, {})
      [] factor.is = "derived" -> InQuery(factor.query, ctes)
      [] OTHER -> Seen({}, {})

InJoins(joins, ctes) ==
    AllSeen({InFactor(joins[i].factor, ctes) : i \in DOMAIN joins}
            \cup {InExprs(joins[i].on, ctes) : i \in DOMAIN joins})

InFroms(froms, ctes) ==
    AllSeen({InFactor(froms[i].factor, ctes) : i \in DOMAIN froms}
            \cup {InJoins(froms[i].joins, ctes) : i \in DOMAIN froms})

InBody(b, ctes) ==
    CASE b.is = "select" ->
           AllSeen({InFroms(b.from, ctes), InExprs(b.where, ctes),
                    InExprs(b.group, ctes)}
                   \cup {InExpr(b.items[i].expr, ctes) :
                           i \in {j \in DOMAIN b.items :
                                    b.items[j].is = "expr"}})
      [] b.is = "set" -> AllSeen({InBody(b.left, ctes), InBody(b.right, ctes)})
      [] b.is = "values" ->
           AllSeen({InExprs(b.rows[i], ctes) : i \in DOMAIN b.rows})

InQuery(query, ctes) ==
    LET upTo(n) == {query.with[i].name : i \in 1..n}
        all == Len(query.with)
        visible(i) == ctes \cup upTo(IF query.recursive THEN all ELSE i - 1)
    IN AllSeen({InBody(query.body, ctes \cup upTo(all)),
                InExprs(query.order, ctes \cup upTo(all))}
               \cup {InQuery(query.with[i].query, visible(i)) : i \in 1..all})

InSets(sets) ==
    AllSeen({CASE sets[i].value.is = "expr" -> InExpr(sets[i].value.expr, {})
               [] sets[i].value.is = "tuple" ->
                    InExprs(sets[i].value.exprs, {})
               [] sets[i].value.is = "query" ->
                    InQuery(sets[i].value.query, {}) : i \in DOMAIN sets})

InClause(clause) ==
    CASE clause.is = "update" -> InSets(clause.sets)
      [] clause.is = "insert" -> InExprs(clause.row, {})
      [] clause.is = "delete" -> Seen({}, {})

InStatement(s) ==
    CASE s.is = "insert" ->
           IF s.source = "query" THEN InQuery(s.query, {}) ELSE InSets(s.sets)
      [] s.is = "update" ->
           AllSeen({InFactor(s.target, {}), InJoins(s.joins, {}),
                    InFroms(s.from, {}), InSets(s.sets),
                    InExprs(s.where, {})})
      [] s.is = "merge" ->
           AllSeen({InFactor(s.target, {}), InFactor(s.source, {}),
                    InExprs(s.on, {})}
                   \cup {InClause(s.clauses[i]) : i \in DOMAIN s.clauses})
      [] s.is \in {"create", "into", "select"} -> InQuery(s.query, {})
      [] s.is = "delete" -> InExprs(s.where, {})
      [] s.is \in {"declare", "drop"} -> Seen({}, {})

-----------------------------------------------------------------------------
(* The first pass.                                                         *)

IsColumnDml(s) == s.is \in {"insert", "update", "merge", "create", "into"}

\* UPDATE u .. FROM x u: the target is x, if only one item is called u.
Promoted(s) ==
    LET called == SelectSeq(s.from, LAMBDA f : /\ f.factor.is = "table"
                                               /\ f.factor.alias # ""
                                               /\ f.factor.alias
                                                    = s.target.name)
    IN IF s.target.alias = "" /\ Len(called) = 1 THEN {called[1].factor}
       ELSE {}

TargetOf(s) ==
    IF Promoted(s) = {} THEN s.target ELSE CHOOSE f \in Promoted(s) : TRUE

WriteTargets(s) ==
    CASE s.is = "update" -> {TargetOf(s).name}
      [] s.is = "merge" -> {s.target.name}
      [] s.is \in {"insert", "create", "into", "delete"} -> {s.table}
      [] OTHER -> {}

Exclusions(s) ==
    WriteTargets(s) \cup IF s.is = "update" THEN {s.target.name} ELSE {}

Temporary(s) ==
    IF \/ s.is = "declare"
       \/ s.is \in {"create", "into"} /\ s.temporary
    THEN {s.table} ELSE {}

NothingParsed ==
    [writes |-> {}, reads |-> {}, local |-> {}, fired |-> {}, dml |-> << >>,
     dropped |-> FALSE, notes |-> {}]

\* collect_trigger_stmt; a statement that was seen before is not kept again.
RECURSIVE Collected(_, _)
Collected(p, s) ==
    IF s.is = "if"
    THEN FoldLeft(LAMBDA q, t : Collected(q, t),
            [p EXCEPT !.notes = @ \cup
                IF \E i \in DOMAIN s.then : IsColumnDml(s.then[i])
                THEN {"control flow"} ELSE {}], s.then)
    ELSE LET seen == InStatement(s)
             local == p.local \cup Temporary(s)
             rows == IF "inserted" \in body.transition THEN body.transition
                     ELSE {}
         IN [writes |-> p.writes \cup (WriteTargets(s) \ local),
             reads |-> p.reads
                       \cup (seen.tables \
                                (Exclusions(s) \cup local \cup rows)),
             local |-> local,
             fired |-> p.fired \cup {n[2] : n \in {m \in seen.names :
                                              m[1] \in {"new", "old"}}},
             dml |-> IF IsColumnDml(s) /\ s \notin ToSet(p.dml)
                     THEN Append(p.dml, s) ELSE p.dml,
             dropped |-> p.dropped \/ s.is = "drop",
             notes |-> p.notes]

-----------------------------------------------------------------------------
(* The second pass: one statement after the other.  Operators take what    *)
(* has been found, [local, reads, notes, effects].                         *)

Edge(kind, from, to) == [kind |-> kind, from |-> from, to |-> to]

Owner == <<body.owner>>

\* Temporary tables can be followed only if the order of all statements is
\* known.
AllowLocalTemps == parsed.notes \cap {"control flow", "temp state"} = {}

\* inserted and deleted, or new and old, have the columns of the table.
Transition ==
    IF "inserted" \in body.transition \/ parsed.fired # {}
    THEN [n \in body.transition |-> Table(body.table).out] ELSE << >>

Env(a) ==
    [ctes |-> << >>, local |-> a.local, pseudo |-> Transition,
     scalars |-> body.variables, depth |-> 0]

Note(a, note) == [a EXCEPT !.notes = @ \cup {note}]

Say(a, said) ==
    [a EXCEPT !.reads = @ \cup said.reads, !.notes = @ \cup said.notes]

SayAll(a, exprs, frames, role) ==
    Say(a, VisitAll(exprs, frames, Env(a), role, << >>))

\* A result whose columns are not all known.
Unsure(r) == r.unknown \/ \E i \in DOMAIN r.columns : r.columns[i].unknown

SourcesOf(columns) == [i \in DOMAIN columns |-> columns[i].sources]

RelationFromName(a, name) ==
    IF name \in DOMAIN a.local
    THEN [out |-> [a.local[name] EXCEPT !.aliases = {name}], said |-> Silent]
    ELSE Table(name)

\* assignment_positions: nothing, unless every target is one column of the
\* relation.
Places(relation, target) ==
    {i \in DOMAIN relation.columns : relation.columns[i].name = target.name}

Positions(relation, targets) ==
    IF \A i \in DOMAIN targets :
          /\ targets[i].qual \in {""} \cup relation.aliases
          /\ Cardinality(Places(relation, targets[i])) = 1
    THEN {[i \in DOMAIN targets |->
             CHOOSE j \in Places(relation, targets[i]) : TRUE]}
    ELSE {}

\* physical_column_at.
Physical(relation, position) ==
    LET c == relation.columns[position]
    IN IF c.unknown \/ Cardinality(c.sources) # 1 THEN {} ELSE c.sources

\* A value that depends on what the column held before is noted.
ValueEffect(a, target, sources) ==
    [a EXCEPT
        !.effects = @ \cup {Edge("Writes", Owner, target)}
                      \cup {Edge("DerivesFrom", target, s) :
                              s \in sources \ {target}},
        !.notes = @ \cup IF target \in sources THEN {"self"} ELSE {}]

PutAll(a, relation, positions, sources) ==
    FoldLeft(LAMBDA b, i :
                IF Physical(relation, positions[i]) = {} THEN b
                ELSE ValueEffect(b, CHOOSE c \in Physical(relation,
                                                positions[i]) : TRUE,
                                 sources[i]),
             a, [i \in DOMAIN positions |-> i])

\* Not in the code: a new value replaces what other rows hold.
MergeLocal_Replaces(a, name, position, sources, unknown) ==
    [a EXCEPT !.local[name].columns[position].sources = sources,
              !.local[name].columns[position].unknown = unknown]

\* merge_local_column: what a temporary table may hold grows.
MergeLocal(a, name, position, sources, unknown) ==
    [a EXCEPT !.local[name].columns[position].sources = @ \cup sources,
              !.local[name].columns[position].unknown = @ \/ unknown]

\* target_columns: an INSERT without a list has a shape that is not known.
TargetPositions(relation, names, width) ==
    IF names = << >> \/ Len(names) # width THEN {}
    ELSE Positions(relation, [i \in DOMAIN names |->
                                [qual |-> "", name |-> names[i]]])

AllPhysical(relation, positions) ==
    \A i \in DOMAIN positions : Physical(relation, positions[i]) # {}

PhysicalTargets(relation, names, width) ==
    {p \in TargetPositions(relation, names, width) : AllPhysical(relation, p)}

IntoColumns(a, relation, names, sources) ==
    LET targets == PhysicalTargets(relation, names, Len(sources))
    IN IF TargetPositions(relation, names, Len(sources)) = {}
       THEN Note(a, "target")
       ELSE IF targets = {} THEN a
       ELSE PutAll(a, relation, CHOOSE p \in targets : TRUE, sources)

\* positional_target_columns.
ByPosition(a, relation, sources) ==
    LET known == SelectSeq([i \in DOMAIN relation.columns |-> i],
                           LAMBDA i : Physical(relation, i) # {})
    IN IF Len(known) # Len(sources) THEN Note(a, "target")
       ELSE PutAll(a, relation, known, sources)

\* append_local_columns; a list of names takes the first column of each name.
AppendLocal(a, name, names, columns) ==
    LET local == a.local[name].columns
        places(n) == {i \in DOMAIN local : local[i].name = n}
        position(i) ==
            IF names = << >> THEN i
            ELSE CHOOSE j \in places(names[i]) :
                    \A k \in places(names[i]) : j <= k
        fits == /\ Len(columns) = IF names = << >> THEN Len(local)
                                  ELSE Len(names)
                /\ \A i \in DOMAIN names : places(names[i]) # {}
    IN IF ~fits THEN Note(a, "target")
       ELSE FoldLeft(LAMBDA b, i : MergeLocal(b, name, position(i),
                                       columns[i].sources, columns[i].unknown),
                     a, [i \in DOMAIN columns |-> i])

\* One SET of an INSERT, with the value r.
InsertSet(a, s, set, relation, local, r) ==
    LET positions == Positions(relation, set.targets)
        one == IF Len(set.targets) = 1 THEN positions ELSE {}
        p == CHOOSE p \in one : TRUE
    IN CASE one = {} -> Note(Say(a, r.said), "target")
         [] one # {} /\ local ->
              MergeLocal(Say(a, r.said), s.table, p[1], r.out, FALSE)
         [] one # {} /\ ~local ->
              PutAll(Say(a, r.said), relation, p, <<r.out>>)

InsertRows(a, s, relation, local, r) ==
    CASE Unsure(r.out) -> Note(Say(a, r.said), "source")
      [] ~Unsure(r.out) /\ local ->
           AppendLocal(Say(a, r.said), s.table, s.names, r.out.columns)
      [] ~Unsure(r.out) /\ ~local ->
           IntoColumns(Say(a, r.said), relation, s.names,
                       SourcesOf(r.out.columns))

\* The values are in a scope that has the target.
Inserted(a, s) ==
    LET target == RelationFromName(a, s.table)
        local == s.table \in DOMAIN a.local /\ AllowLocalTemps
        frames == <<Add(EmptyFrame, target.out)>>
    IN CASE s.source = "query" ->
              InsertRows(Say(a, target.said), s, target.out, local,
                         Query(s.query, Env(a), frames))
         [] s.source = "set" ->
              FoldLeft(LAMBDA d, set :
                          InsertSet(d, s, set, target.out, local,
                                    Visit(set.value.expr, frames, Env(d),
                                          "value", << >>)),
                       Say(a, target.said), s.sets)

\* The keys of a join are read in its scope, and so are its conditions.
SourceScope(said, join, scope, env) ==
    LET key(k) == Resolve([is |-> "name", qual |-> "", name |-> k], <<scope>>,
                          env, << >>)
        natural == join.using = <<"natural">>
        keys == IF natural
                THEN {scope.columns[i].sources : i \in DOMAIN scope.columns}
                ELSE {key(k).out : k \in ToSet(join.using)}
        unclear == IF natural THEN {}
                   ELSE UNION {key(k).said.notes : k \in ToSet(join.using)}
    IN [out |-> scope,
        said |-> Together({said, Saying(UNION keys, unclear),
                           VisitAll(join.on, <<scope>>, env, "join", << >>)})]

AddSource(acc, join, r, env) ==
    SourceScope(Together({acc.said, r.said}), join, Add(acc.out, r.out), env)

\* The joins behind an item of FROM that is the target itself.
UpdateSource(acc, join, env) ==
    AddSource(acc, join, Factor(join.factor, env, <<acc.out>>), env)

SameTarget(f, g) ==
    /\ f.is = "table" /\ g.is = "table"
    /\ f.name = g.name /\ f.alias = g.alias

UpdateScope(a, s) ==
    LET target == TargetOf(s)
        first == JoinNext([out |-> EmptyFrame, said |-> Silent],
                          [factor |-> target,
                           joins |-> IF Promoted(s) = {} THEN s.joins
                                     ELSE << >>],
                          << >>, Env(a))
        next(acc, from) ==
            IF SameTarget(target, from.factor)
            THEN FoldLeft(LAMBDA c, join : UpdateSource(c, join, Env(a)), acc,
                          from.joins)
            ELSE JoinNext(acc, from, << >>, Env(a))
    IN FoldLeft(next, first, s.from)

OneOf(r) == [out |-> Column("", r.out, r.said.notes # {}), said |-> r.said]

SingleValue(r, several) ==
    [out |-> IF several THEN {} ELSE {<<r.out>>},
     said |-> IF several THEN Saying({}, {"source"}) ELSE r.said]

TupleValues(rs) ==
    [out |-> {[i \in DOMAIN rs |-> rs[i].out]},
     said |-> Together({rs[i].said : i \in DOMAIN rs})]

SubqueryValues(r) ==
    [out |-> IF r.out.unknown THEN {} ELSE {r.out.columns}, said |-> r.said]

\* One value, or those of a tuple or a subquery: a set of at most one
\* sequence of columns, and what was said.
Values(value, several, frames, env) ==
    LET one(expr) == OneOf(Visit(expr, frames, env, "value", << >>))
    IN CASE value.is = "expr" -> SingleValue(one(value.expr), several)
         [] value.is = "tuple" ->
              TupleValues([i \in DOMAIN value.exprs |-> one(value.exprs[i])])
         [] value.is = "query" ->
              SubqueryValues(Query(value.query, env, frames))

PutColumns(a, target, name, local, positions, columns) ==
    CASE Len(positions) # Len(columns) -> Note(a, "target")
      [] Len(positions) = Len(columns) /\ local ->
           FoldLeft(LAMBDA d, i : MergeLocal(d, name, positions[i],
                                     columns[i].sources, columns[i].unknown),
                    a, [i \in DOMAIN positions |-> i])
      [] Len(positions) = Len(columns) /\ ~local ->
           IF AllPhysical(target, positions)
           THEN PutAll(a, target, positions, SourcesOf(columns))
           ELSE Note(PutAll(a, target, positions, SourcesOf(columns)),
                     "target")

\* One SET of an UPDATE, with the values r.
UpdateSet(a, set, target, name, local, r) ==
    LET positions == Positions(target, set.targets)
    IN CASE positions = {} -> Note(a, "target")
         [] positions # {} /\ r.out = {} -> Say(a, r.said)
         [] positions # {} /\ r.out # {} ->
              PutColumns(Say(a, r.said), target, name, local,
                         CHOOSE p \in positions : TRUE,
                         CHOOSE c \in r.out : TRUE)

UpdateSets(a, s, frames) ==
    LET name == TargetOf(s).name
        local == name \in DOMAIN a.local /\ AllowLocalTemps
    IN FoldLeft(LAMBDA b, set :
                   UpdateSet(b, set, frames[1].relations[1], name, local,
                             Values(set.value, Len(set.targets) > 1, frames,
                                    Env(b))),
                a, s.sets)

UpdateIn(a, s, scope) ==
    SayAll(UpdateSets(Say(a, scope.said), s, <<scope.out>>), s.where,
           <<scope.out>>, "predicate")

Updated(a, s) == UpdateIn(a, s, UpdateScope(a, s))

\* Every value is in the scope of both relations; a temporary target has no
\* case of its own.
MergeSet(a, set, target, r) ==
    LET positions == Positions(target, set.targets)
        one == {p \in positions : AllPhysical(target, p)}
    IN CASE positions = {} \/ Len(set.targets) # 1 -> Note(a, "target")
         [] positions # {} /\ Len(set.targets) = 1 /\ one = {} -> a
         [] one # {} /\ Len(set.targets) = 1 ->
              PutAll(Say(a, r.said), target, CHOOSE p \in one : TRUE,
                     <<r.out>>)

MergeRow(a, names, target, row) ==
    LET mapped == PhysicalTargets(target, names, Len(row)) # {}
        said == Together({row[i].said : i \in DOMAIN row})
    IN IntoColumns(IF mapped THEN Say(a, said) ELSE a, target, names,
                   [i \in DOMAIN row |-> row[i].out])

MergeClause(a, clause, target, frames) ==
    LET value(expr, env) == Visit(expr, frames, env, "value", << >>)
    IN CASE clause.is = "update" ->
              FoldLeft(LAMBDA b, set :
                          MergeSet(b, set, target,
                                   value(set.value.expr, Env(b))),
                       a, clause.sets)
         [] clause.is = "insert" ->
              MergeRow(a, clause.names, target,
                       [i \in DOMAIN clause.row |->
                           value(clause.row[i], Env(a))])
         [] clause.is = "delete" -> a

MergeFrom(a, s, target, frames) ==
    FoldLeft(LAMBDA b, c : MergeClause(b, c, target.out, frames),
             SayAll(a, s.on, frames, "predicate"), s.clauses)

MergeSource(a, s, target, scope) ==
    LET source == Factor(s.source, Env(a), <<scope>>)
    IN MergeFrom(Say(Say(a, target.said), source.said), s, target,
                 <<Add(scope, source.out)>>)

MergeTarget(a, s, target) ==
    MergeSource(a, s, target, Add(EmptyFrame, target.out))

Merged(a, s) ==
    MergeTarget(a, s, Factor(s.target, Env(a), <<EmptyFrame>>))

\* CREATE TABLE .. AS and SELECT .. INTO: a temporary table is its columns.
CreatedFrom(a, s, r) ==
    LET b == Say(a, r.said)
        named == Renamed(r.out, {}, s.names).out
        target == RelationFromName(a, s.table)
        sources == SourcesOf(r.out.columns)
        local == [b EXCEPT !.local = Define(@, s.table, named)]
    IN CASE Unsure(r.out) -> Note(b, "source")
         [] ~Unsure(r.out) /\ s.names # << >>
               /\ Len(s.names) # Len(r.out.columns) -> Note(b, "target")
         [] OTHER ->
              IF s.temporary
              THEN IF AllowLocalTemps THEN local ELSE Note(b, "temp state")
              ELSE IF s.is = "create" /\ Unsure(target.out)
              THEN Note(Say(local, target.said), "target")
              ELSE IF s.names = << >>
              THEN ByPosition(Say(b, target.said), target.out, sources)
              ELSE IntoColumns(Say(b, target.said), target.out, s.names,
                               sources)

Created(a, s) == CreatedFrom(a, s, Query(s.query, Env(a), << >>))

-----------------------------------------------------------------------------
NothingFound == [local |-> << >>, reads |-> {}, notes |-> {}, effects |-> {}]

Names ==
    [n \in DOMAIN Database |-> Entry(Stored(n), TRUE)]

ViewDoes(r) ==
    [NothingDone(Names) EXCEPT
        !.flows = UNION {{<<<<body.owner, body.columns[i]>>, c>> :
                            c \in r.out[i].from} :
                    i \in DOMAIN body.columns \cap DOMAIN r.out},
        !.mentions = r.mentions, !.reads = r.reads,
        !.ok = r.ok /\ Len(body.columns) \in {0, Len(r.out)}]

\* What the database does: a trigger sees the rows of its table under other
\* names, a view is one query.
BodyDoes ==
    LET rows == body.transition \cap {"inserted", "deleted"}
        row == IF rows = {} /\ body.transition # {}
               THEN <<{[b EXCEPT !.bare = FALSE] :
                   b \in Bindings(Stored(body.table), body.transition)}>>
               ELSE << >>
        names == [n \in DOMAIN Names \cup rows |->
                    IF n \in rows THEN Entry(Stored(body.table), FALSE)
                    ELSE Names[n]]
    IN IF body.kind = "view"
       THEN ViewDoes(QueryMeaning(body.query, Names, << >>, {}))
       ELSE Meaning(body.statements, names, row, body.variables)

\* The bodies of the catalogue have been accepted by the database.
Init ==
    /\ body \in Texts
    /\ does = BodyDoes
    /\ does.ok
    /\ phase = IF body.kind = "view" THEN "view" ELSE "collect"
    /\ at = 1
    /\ parsed = NothingParsed
    /\ analyzer = NothingFound
    /\ edges = {}

Collect ==
    /\ phase = "collect" /\ at <= Len(body.statements)
    /\ parsed' = Collected(parsed, body.statements[at])
    /\ at' = at + 1
    /\ UNCHANGED <<body, does, phase, analyzer, edges>>

\* invalidate_temp_state_if_unsafe and apply_dml_edges.
ApplyObjects ==
    LET found(names) == {<<n>> : n \in (names \ parsed.local) \cap
                                       DOMAIN Catalog}
        named == (parsed.writes \cup parsed.reads) \ parsed.local
    IN /\ phase = "collect" /\ at > Len(body.statements)
       /\ edges' = {Edge("Writes", Owner, t) : t \in found(parsed.writes)}
                   \cup {Edge("Reads", Owner, t) : t \in found(parsed.reads)}
       /\ parsed' = [parsed EXCEPT !.notes = @
             \cup (IF parsed.dropped /\ parsed.local # {}
                   THEN {"temp state"} ELSE {})
             \cup (IF named \subseteq DOMAIN Catalog THEN {}
                   ELSE {"missing"})]
       /\ analyzer' = [NothingFound EXCEPT !.local = Transition]
       /\ phase' = "columns" /\ at' = 1
       /\ UNCHANGED <<body, does>>

Kept == parsed.dml[at]

Analyse(kinds) ==
    /\ phase = "columns" /\ at <= Len(parsed.dml) /\ Kept.is \in kinds
    /\ at' = at + 1
    /\ UNCHANGED <<body, does, phase, parsed, edges>>

Insert == Analyse({"insert"}) /\ analyzer' = Inserted(analyzer, Kept)

Update == Analyse({"update"}) /\ analyzer' = Updated(analyzer, Kept)

MergeInto == Analyse({"merge"}) /\ analyzer' = Merged(analyzer, Kept)

Create == Analyse({"create", "into"}) /\ analyzer' = Created(analyzer, Kept)

\* flush_reads, and the columns of the row that the trigger is fired for.
Flush ==
    LET fired == {<<body.table, c>> : c \in parsed.fired}
        columns == {c \in analyzer.reads : Len(c) = 2}
    IN /\ phase = "columns" /\ at > Len(parsed.dml)
       /\ edges' = edges \cup analyzer.effects
                   \cup {Edge("Reads", Owner, c) : c \in columns \cup fired}
       /\ phase' = "done"
       /\ UNCHANGED <<body, does, at, parsed, analyzer>>

\* enrich_view: outputs become columns by their place, if all are known.
EnrichFrom(r) ==
    LET wide == Len(body.columns) = Len(r.out.columns)
        shaped == r.said.notes \cap {"wildcard", "set width", "alias width",
                                     "depth"} = {}
        column(i) == <<body.owner, body.columns[i]>>
    IN /\ edges' = {Edge("Reads", Owner, t) : t \in r.said.reads}
                   \cup UNION {{Edge("DerivesFrom", column(i), s) :
                                  s \in r.out.columns[i].sources} :
                         i \in IF wide /\ shaped THEN DOMAIN body.columns
                               ELSE {}}
       /\ analyzer' = Say([NothingFound EXCEPT !.notes =
                             IF body.columns = << >> \/ wide THEN {}
                             ELSE {"output width"}], r.said)

EnrichView ==
    /\ phase = "view"
    /\ EnrichFrom(Query(body.query, Env(NothingFound), << >>))
    /\ phase' = "done"
    /\ UNCHANGED <<body, does, at, parsed>>

Next ==
    \/ Collect \/ ApplyObjects \/ Insert \/ Update \/ MergeInto \/ Create
    \/ Flush \/ EnrichView

Spec == Init /\ [][Next]_vars

-----------------------------------------------------------------------------
(* Properties.                                                             *)

Recorded(kind) == {<<e.from, e.to>> : e \in {f \in edges : f.kind = kind}}

\* Every edge that a body leaves in the graph is something that the database
\* does: it writes this table or column, a value passes between these two
\* columns, it reads this table or column (RELEASE-NOTES.md:536-543).
EffectsAreReal ==
    phase = "done" =>
        /\ Recorded("DerivesFrom") \subseteq does.flows
        /\ Recorded("Writes") \subseteq
              {Owner} \X (does.writes \cup does.targets)
        /\ Recorded("Reads") \subseteq
              {Owner} \X (does.reads \cup does.mentions \cup does.seen)

\* A body that is called complete leaves out nothing: neither a table nor a
\* column that a statement reads or writes, nor a value that passes from one
\* stored column to another through whatever temporary tables.
CompleteIsWhole ==
    phase = "done" /\ parsed.notes \cup analyzer.notes = {} =>
        /\ does.flows \subseteq Recorded("DerivesFrom")
        /\ {Owner} \X (does.writes \cup does.targets)
             \subseteq Recorded("Writes")
        /\ {Owner} \X (does.reads \cup does.mentions)
             \subseteq Recorded("Reads")
=============================================================================
