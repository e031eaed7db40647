---------------------------- MODULE QueryMeaning ----------------------------
(***************************************************************************)
(* What the database makes of a query, for the texts of QueryScopes: a     *)
(* reference that knows every relation and decides every name.             *)
(*                                                                         *)
(* A relation is a sequence of [name, from], from being the stored columns *)
(* its value comes from.  The names of relations are one function: a CTE   *)
(* or a temporary table hides what had its name.  A scope is a sequence of *)
(* levels; a level is a set of bindings [quals, name, from, bare], bare    *)
(* when the name can be used without qualifier.  A text that the database  *)
(* would refuse has no meaning (ok is FALSE).                              *)
(***************************************************************************)
EXTENDS Naturals, Sequences, FiniteSets, SequencesExt

CONSTANT
    Database      \* the columns of every relation, collected or not

-----------------------------------------------------------------------------
Stored(name) ==
    [i \in DOMAIN Database[name] |->
        [name |-> Database[name][i], from |-> {<<name, Database[name][i]>>}]]

\* Results: a value, the columns that are mentioned, the stored relations
\* that are read, and whether it is legal.
Meant(out, mentions, reads, ok) ==
    [out |-> out, mentions |-> mentions, reads |-> reads, ok |-> ok]

Mentions(S) == UNION {s.mentions : s \in S}
Reads(S) == UNION {s.reads : s \in S}
Legal(S) == \A s \in S : s.ok

All(out, S) == Meant(out, Mentions(S), Reads(S), Legal(S))

\* What a result adds to the one that it is a part of.
Part(r) == [r EXCEPT !.out = {}]

FromOf(columns) == UNION {columns[i].from : i \in DOMAIN columns}

Matches(level, atom) ==
    {b \in level : /\ b.name = atom.name
                   /\ IF atom.qual = "" THEN b.bare ELSE atom.qual \in b.quals}

\* The innermost level that has the name; it must be unambiguous there, and a
\* qualifier is looked for before the column.
NameMeaning(atom, levels, variables) ==
    LET has(i) == \/ Matches(levels[i], atom) # {}
                  \/ /\ atom.qual # ""
                     /\ \E b \in levels[i] : atom.qual \in b.quals
        hits == {i \in DOMAIN levels : has(i)}
    IN IF hits = {}
       THEN Meant({}, {}, {}, atom.qual = "" /\ atom.name \in variables)
       ELSE LET i == CHOOSE i \in hits : \A j \in hits : i <= j
                found == Matches(levels[i], atom)
                from == UNION {b.from : b \in found}
            IN Meant(from, from, {}, Cardinality(found) = 1)

RECURSIVE QueryMeaning(_, _, _, _), BodyMeaning(_, _, _, _)

ValueOf(r) == [r EXCEPT !.out = FromOf(r.out)]

AllTogether(results) == All(UNION {r.out : r \in results}, results)

\* Variables are named only where no column has the name.
ExprMeaning(expr, names, levels, variables) ==
    LET one(atom) ==
            IF atom.is = "name" THEN NameMeaning(atom, levels, variables)
            ELSE ValueOf(QueryMeaning(atom.query, names, levels, variables))
    IN AllTogether({one(expr.atoms[i]) : i \in DOMAIN expr.atoms})

ExprsMeaning(exprs, names, levels, variables) ==
    All({}, {ExprMeaning(exprs[i], names, levels, variables) :
                i \in DOMAIN exprs})

Bindings(columns, quals) ==
    {[quals |-> quals, name |-> columns[i].name, from |-> columns[i].from,
      bare |-> TRUE] : i \in DOMAIN columns}

Renaming(columns, renames) ==
    [i \in DOMAIN columns |->
        IF i \in DOMAIN renames THEN [columns[i] EXCEPT !.name = renames[i]]
        ELSE columns[i]]

DerivedMeaning(r, factor) ==
    LET columns == Renaming(r.out, factor.names)
    IN [r EXCEPT
           !.out = [level |-> Bindings(columns, {factor.alias}),
                    star |-> columns],
           !.ok = @ /\ Len(factor.names) <= Len(columns)]

\* A factor gives a level and the columns of its wildcard.
FactorMeaning(factor, names, levels, lateral, variables) ==
    IF factor.is = "table"
    THEN LET known == factor.name \in DOMAIN names
             columns == IF known THEN names[factor.name].columns ELSE << >>
             qual == IF factor.alias = "" THEN factor.name ELSE factor.alias
         IN Meant([level |-> Bindings(columns, {qual}), star |-> columns], {},
                  IF known /\ names[factor.name].stored
                  THEN {<<factor.name>>} ELSE {}, known)
    ELSE DerivedMeaning(QueryMeaning(factor.query, names,
                            IF factor.lateral THEN lateral ELSE levels,
                            variables), factor)

\* A key of USING becomes one column; its sides need a qualifier.
KeyFrom(side, left, right) ==
    CASE side = "left" -> left.from
      [] side = "right" -> right.from
      [] OTHER -> left.from \cup right.from

Bare(level, key) == {b \in level : b.bare /\ b.name = key}

Hidden(level, keys) ==
    {IF b.name \in keys THEN [b EXCEPT !.bare = FALSE] ELSE b : b \in level}

JoinedUsing(left, right, keys, side) ==
    LET from(k) == KeyFrom(side, CHOOSE b \in Bare(left.level, k) : TRUE,
                                 CHOOSE b \in Bare(right.level, k) : TRUE)
        key(k) == [quals |-> {}, name |-> k, from |-> from(k), bare |-> TRUE]
        rest(star) == SelectSeq(star, LAMBDA c : c.name \notin ToSet(keys))
    IN [level |-> Hidden(left.level \cup right.level, ToSet(keys))
                  \cup {key(k) : k \in ToSet(keys)},
        star |-> [i \in DOMAIN keys |->
                    [name |-> keys[i], from |-> from(keys[i])]]
                 \o rest(left.star) \o rest(right.star)]

JoinedMeaning(acc, right, join) ==
    LET common == SelectSeq(acc.out.star, LAMBDA c :
                              Bare(right.out.level, c.name) # {})
        keys == IF join.using # <<"natural">> THEN join.using
                ELSE [i \in DOMAIN common |-> common[i].name]
        usable == \A k \in ToSet(keys) :
                    /\ Cardinality(Bare(acc.out.level, k)) = 1
                    /\ Cardinality(Bare(right.out.level, k)) = 1
        group == IF keys = << >> \/ ~usable
                 THEN [level |-> acc.out.level \cup right.out.level,
                       star |-> acc.out.star \o right.out.star]
                 ELSE JoinedUsing(acc.out, right.out, keys, join.side)
        compared == UNION {b.from : b \in UNION
                      {Bare(acc.out.level, k) \cup Bare(right.out.level, k) :
                          k \in ToSet(keys)}}
    IN [All(group, {Part(acc), Part(right)})
           EXCEPT !.mentions = @ \cup compared, !.ok = @ /\ usable]

OnMeaning(group, on, names, levels, variables) ==
    All(group.out, {Part(group), ExprsMeaning(on, names,
                        <<group.out.level>> \o levels, variables)})

JoinMeaning(acc, join, before, names, levels, variables) ==
    OnMeaning(JoinedMeaning(acc, FactorMeaning(join.factor, names, levels,
                                <<before \cup acc.out.level>> \o levels,
                                variables), join),
              join.on, names, levels, variables)

BesideMeaning(acc, group) ==
    All([level |-> acc.out.level \cup group.out.level,
         star |-> acc.out.star \o group.out.star],
        {Part(acc), Part(group)})

FromMeaning(acc, from, names, levels, variables) ==
    BesideMeaning(acc,
        FoldLeft(LAMBDA a, join : JoinMeaning(a, join, acc.out.level, names,
                                              levels, variables),
                 FactorMeaning(from.factor, names, levels,
                               <<acc.out.level>> \o levels, variables),
                 from.joins))

FromsMeaning(froms, names, levels, variables) ==
    FoldLeft(LAMBDA acc, from :
                FromMeaning(acc, from, names, levels, variables),
             Meant([level |-> {}, star |-> << >>], {}, {}, TRUE), froms)

\* The wildcard of one relation has its columns in their order.
StarOf(froms, qual, names, levels, variables) ==
    LET factors == FlattenSeq([i \in DOMAIN froms |->
                      <<froms[i].factor>>
                      \o [j \in DOMAIN froms[i].joins |->
                            froms[i].joins[j].factor]])
        named == SelectSeq(factors, LAMBDA f :
                    qual = IF f.alias = "" THEN f.name ELSE f.alias)
    IN IF Len(named) = 1
       THEN FactorMeaning(named[1], names, levels, levels, variables).out.star
       ELSE << >>

NamedMeaning(name, r) ==
    [r EXCEPT !.out = <<[name |-> name, from |-> r.out]>>]

StarMeaning(columns) == Meant(columns, FromOf(columns), {}, columns # << >>)

ItemMeaning(item, body, from, names, levels, variables) ==
    IF item.is = "expr"
    THEN NamedMeaning(item.alias, ExprMeaning(item.expr, names,
                          <<from.out.level>> \o levels, variables))
    ELSE StarMeaning(IF item.qual = "" THEN from.out.star
                     ELSE StarOf(body.from, item.qual, names, levels,
                                 variables))

\* A bare name in GROUP BY is a column of the input, or else an output; in
\* ORDER BY an output, or else a column of the input.
Outputs(expr, columns) ==
    IF expr.bare /\ expr.atoms[1].is = "name" /\ expr.atoms[1].qual = ""
    THEN {i \in DOMAIN columns : columns[i].name = expr.atoms[1].name}
    ELSE {}

OutputMeaning(columns, chosen) ==
    LET from == UNION {columns[i].from : i \in chosen}
    IN Meant({}, from, {}, Cardinality(chosen) = 1)

GroupMeaning(expr, columns, level, names, levels, variables) ==
    IF Outputs(expr, columns) # {} /\ Matches(level, expr.atoms[1]) = {}
    THEN OutputMeaning(columns, Outputs(expr, columns))
    ELSE ExprMeaning(expr, names, <<level>> \o levels, variables)

OrderMeaning(expr, columns, level, names, levels, variables) ==
    IF Outputs(expr, columns) # {}
    THEN OutputMeaning(columns, Outputs(expr, columns))
    ELSE ExprMeaning(expr, names, <<level>> \o levels, variables)

SelectedMeaning(body, from, items, names, levels, variables) ==
    LET columns == FlattenSeq([i \in DOMAIN items |-> items[i].out])
        where == ExprsMeaning(body.where, names, <<from.out.level>> \o levels,
                              variables)
        groups == {GroupMeaning(body.group[i], columns, from.out.level, names,
                                levels, variables) : i \in DOMAIN body.group}
    IN [All([columns |-> columns, level |-> from.out.level],
            {Part(from), where} \cup groups
            \cup {Part(items[i]) : i \in DOMAIN items})
           EXCEPT !.ok = @ /\ columns # << >>]

ProjectedMeaning(body, from, names, levels, variables) ==
    SelectedMeaning(body, from,
        [i \in DOMAIN body.items |->
            ItemMeaning(body.items[i], body, from, names, levels, variables)],
        names, levels, variables)

SelectMeaning(body, names, levels, variables) ==
    ProjectedMeaning(body, FromsMeaning(body.from, names, levels, variables),
                     names, levels, variables)

SetMeaning(op, left, right) ==
    LET same == Len(left.out.columns) = Len(right.out.columns)
        both(l, r) == [l EXCEPT !.from = IF op = "except" THEN @
                                         ELSE @ \cup r.from]
        columns == IF same
                   THEN [i \in DOMAIN left.out.columns |->
                            both(left.out.columns[i], right.out.columns[i])]
                   ELSE << >>
    IN [All([columns |-> columns, level |-> {}], {left, right})
           EXCEPT !.ok = @ /\ same]

ValuesMeaning(cells) ==
    All([columns |->
           [j \in DOMAIN cells[1] |->
              [name |-> "column",
               from |-> UNION {cells[i][j].out : i \in DOMAIN cells}]],
         level |-> {}],
        UNION {{cells[i][j] : j \in DOMAIN cells[i]} : i \in DOMAIN cells})

BodyMeaning(body, names, levels, variables) ==
    CASE body.is = "select" -> SelectMeaning(body, names, levels, variables)
      [] body.is = "set" ->
           SetMeaning(body.op,
                      BodyMeaning(body.left, names, levels, variables),
                      BodyMeaning(body.right, names, levels, variables))
      [] body.is = "values" ->
           ValuesMeaning([i \in DOMAIN body.rows |->
               [j \in DOMAIN body.rows[i] |->
                   ExprMeaning(body.rows[i][j], names, levels, variables)]])

\* Names of relations: [columns, stored].
Entry(columns, stored) == [columns |-> columns, stored |-> stored]

Naming(names, name, entry) ==
    [n \in DOMAIN names \cup {name} |->
        IF n = name THEN entry ELSE names[n]]

\* A recursive CTE starts from the left side and goes round; two rounds reach
\* every column of the small texts here.
Recursive(cte) ==
    /\ cte.query.body.is = "set"
    /\ cte.query.with = << >>

Round(names, cte, columns, levels, variables) ==
    QueryMeaning(cte.query,
                 Naming(names, cte.name,
                        Entry(Renaming(columns, cte.names), FALSE)),
                 levels, variables)

FirstRound(r) == [r EXCEPT !.out = r.out.columns]

CteRounds(names, cte, levels, variables) ==
    FoldLeft(LAMBDA r, n : Round(names, cte, r.out, levels, variables),
             FirstRound(BodyMeaning(cte.query.body.left, names, levels,
                                    variables)),
             <<1, 2>>)

Defined(acc, cte, r) ==
    [names |-> Naming(acc.names, cte.name,
                      Entry(Renaming(r.out, cte.names), FALSE)),
     r |-> All({}, {acc.r, Part(r)})]

CteMeaning(acc, cte, recursive, levels, variables) ==
    Defined(acc, cte,
            IF recursive /\ Recursive(cte)
            THEN CteRounds(acc.names, cte, levels, variables)
            ELSE QueryMeaning(cte.query, acc.names, levels, variables))

OrderedMeaning(body, with, query, levels, variables) ==
    LET orders == {OrderMeaning(query.order[i], body.out.columns,
                                body.out.level, with.names, levels,
                                variables) : i \in DOMAIN query.order}
        rest == All({}, {with.r} \cup orders)
    IN Meant(body.out.columns, body.mentions \cup rest.mentions,
             body.reads \cup rest.reads, body.ok /\ rest.ok)

WithMeaning(query, with, levels, variables) ==
    OrderedMeaning(BodyMeaning(query.body, with.names, levels, variables),
                   with, query, levels, variables)

QueryMeaning(query, names, levels, variables) ==
    WithMeaning(query,
        FoldLeft(LAMBDA acc, cte : CteMeaning(acc, cte, query.recursive,
                                              levels, variables),
                 [names |-> names, r |-> Meant({}, {}, {}, TRUE)],
                 query.with),
        levels, variables)
=============================================================================
