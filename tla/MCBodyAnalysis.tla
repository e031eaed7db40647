--------------------------- MODULE MCBodyAnalysis ---------------------------
(***************************************************************************)
(* BodyAnalysis over small databases and bodies, and three scans that      *)
(* share the files of the cache, two of which share a process id.          *)
(***************************************************************************)
EXTENDS BodyAnalysis, Sequences, Functions, TLC

CONSTANTS scan1, scan2, scan3

MCSides == {"dynamic", "effects", "reuse", "files"}

MCProcs == {scan1, scan2, scan3}

MCPids == {1, 2}

MCPid == [p \in MCProcs |-> IF p = scan3 THEN 2 ELSE 1]

NoPid == << >>

PidSymmetry == Permutations({scan1, scan2})

-----------------------------------------------------------------------------
(* Small databases for BodyReuse: a procedure p of an earlier schema, a    *)
(* view v and a stored query q; tables t, u and one that no body names.    *)

MCOwners == <<"p", "v", "q">>

Body(hash, wraps, reads, writes, calls) ==
    [hash |-> hash, wraps |-> wraps, reads |-> reads, writes |-> writes,
     calls |-> calls]

Write(to, from) == [to |-> to, from |-> from]

Idle == Body("idle", FALSE, {}, {}, FALSE)
IntoView == Body("into view", FALSE, {}, {Write("v", "t")}, FALSE)
IntoTable == Body("into table", FALSE, {}, {Write("t", "u")}, FALSE)
Wrapper == Body("wrapper", TRUE, {}, {Write("t", "u")}, TRUE)
Caller == Body("caller", FALSE, {"t"}, {}, TRUE)
Reader == Body("reader", FALSE, {"t"}, {}, FALSE)

Holding(columns, overloads, p, v, q) ==
    [columns |-> columns, overloads |-> overloads,
     body |-> "p" :> p @@ "v" :> v @@ "q" :> q]

ViewColumns == "v" :> {"c"}

Tables ==
    {"t" :> {"c"} @@ "u" :> {"c"}, "t" :> {"c", "d"} @@ "u" :> {"c"},
     "t" :> {"d"} @@ "u" :> {"c"}, "u" :> {"c"} @@ "other" :> {"c"}}

MCCatalogs ==
    {Holding(tables @@ ViewColumns, overloads, p, v, q) :
        tables \in Tables, overloads \in {{""}, {"", "int"}},
        p \in {Idle, IntoView, IntoTable}, v \in {Reader},
        q \in {IntoTable, Wrapper}}
    \cup {Holding("t" :> {"c"} @@ f @@ ViewColumns, overloads, Idle, Caller,
                   q) :
        f \in {<< >>, "f" :> {"c"}}, overloads \in {{"int"}, {"a", "int"}},
        q \in {Idle, Caller}}

\* A function without arguments, and later a table of the same name.
NameCatalogs ==
    {Holding("t" :> {"c"} @@ f @@ ViewColumns, {""}, Idle, Caller, q) :
        f \in {<< >>, "f" :> {"c"}}, q \in {Idle, Caller, Wrapper}}

-----------------------------------------------------------------------------
(* Small bodies for ConstantText: two variables, three statements from a   *)
(* pool in a straight line, a branch, a loop or a block with a handler,    *)
(* and two EXECUTEs behind them.                                           *)

MCVariables == {"x", "y"}
MCFunctions == {"f()"}

Set(v, e) == [op |-> "assign", var |-> v, expr |-> e]
Declared(v, n, e) == [op |-> "declare", var |-> v, size |-> n, expr |-> e]
Writes(op, names) == [op |-> op, names |-> names]
Exec(e) == [op |-> "execute", expr |-> e]
ExecInto(e, v) == [op |-> "execute into", expr |-> e, names |-> {v}]
Jump(op, to) == [op |-> op, to |-> to]
Pair(v, e) == [var |-> v, expr |-> e]

Begin == [op |-> "begin"]

Pool ==
    {Set("x", <<"b">>), Set("x", <<"y", "c">>), Set("y", <<"x", "x">>),
     Set("x", <<"f()">>), Exec(<<"x">>), Exec(<<"b", "y">>),
     [op |-> "select",
      pairs |-> <<Pair("x", <<"b">>), Pair("y", <<"x">>)>>],
     Writes("into", {"x"}), Writes("call", {"x", "y"}),
     [op |-> "with"], Declared("y", 0, <<"a">>)}

Head3 ==
    <<Declared("x", 2, <<"a", "b">>), Declared("y", 4, << >>), Begin>>

Ending == <<Exec(<<"x">>), Exec(<<"y", "b">>)>>

Shapes(p, q, r) ==
    {<<p, q, r>>,
     <<p, q, Jump("if", 8), r, Jump("end", 8)>>,
     <<Jump("while", 8), p, q, Jump("end", 4), r>>,
     <<Begin, p, q, [op |-> "exception", from |-> 5, to |-> 9], r>>}

MCBodies ==
    {Head3 \o s \o Ending : s \in UNION {Shapes(t[1], t[2], t[3]) :
                                            t \in Pool \X Pool \X Pool}}

\* The result of a dynamic query goes into the variable.
IntoBodies ==
    {Head3 \o <<p, q>> \o Ending :
        p \in Pool \cup {ExecInto(<<"b">>, "x")},
        q \in {ExecInto(<<"b">>, "x"), ExecInto(<<"x">>, "y")}}

-----------------------------------------------------------------------------
(* Small bodies for BodyEffects: tables x(k, a), y(k, b) and w(m, n) that  *)
(* the catalogue has, a table h(k, c) that it has not, temporary tables t  *)
(* and s, and a parameter p.  Every view and statement over a pool of      *)
(* queries, and every sequence of statements from a pool.                  *)

MCCatalog == "x" :> <<"k", "a">> @@ "y" :> <<"k", "b">> @@ "w" :> <<"m", "n">>
MCDatabase == MCCatalog @@ "h" :> <<"k", "c">>

-----------------------------------------------------------------------------
(* Texts.                                                                  *)

Name(qual, name) == [is |-> "name", qual |-> qual, name |-> name]
Of(qual, name) == [bare |-> TRUE, atoms |-> <<Name(qual, name)>>]
Col(name) == Of("", name)
Expr(atoms) == [bare |-> FALSE, atoms |-> atoms]
Scalar(query) == Expr(<<[is |-> "query", query |-> query]>>)
Equal(q, m, r, n) == <<Expr(<<Name(q, m), Name(r, n)>>)>>
Parameter == Expr(<<Name("", "p")>>)

Tab(name, alias) == [is |-> "table", name |-> name, alias |-> alias]
Derived(query, names, lateral) ==
    [is |-> "derived", query |-> query, alias |-> "y", names |-> names,
     lateral |-> lateral]
One(factor) == <<[factor |-> factor, joins |-> << >>]>>
Join(factor, way, on, using) ==
    [factor |-> factor, side |-> way, on |-> on, using |-> using]
With(factor, join) == <<[factor |-> factor, joins |-> <<join>>]>>

As(expr, alias) == [is |-> "expr", expr |-> expr, alias |-> alias]
Star(qual) == [is |-> "star", qual |-> qual]
Grouped(items, from, where, group) ==
    [is |-> "select", from |-> from, items |-> items, where |-> where,
     group |-> group]
Select(items, from) == Grouped(items, from, << >>, << >>)
SetOf(op, left, right) ==
    [is |-> "set", op |-> op, left |-> left, right |-> right]
Full(with, recursive, core, order) ==
    [with |-> with, recursive |-> recursive, body |-> core, order |-> order]
Query(core) == Full(<< >>, FALSE, core, << >>)
Cte(name, names, query) == <<[name |-> name, names |-> names, query |-> query]>>

X == Tab("x", "")
Y == Tab("y", "")
H == Tab("h", "")

Cols(m, n, table) ==
    Query(Select(<<As(Col(m), m), As(Col(n), n)>>, One(Tab(table, ""))))
KA == Cols("k", "a", "x")
KB == Cols("k", "b", "y")
AllOf(table) == Query(Select(<<Star("")>>, One(Tab(table, ""))))

\* Only y is in its FROM; a is a column of an outer query.
FromY(name) == Query(Select(<<As(Col(name), "m")>>, One(Y)))

-----------------------------------------------------------------------------
(* Queries of two columns.                                                 *)

On == Equal("x", "k", "y", "k")

FromClauses ==
    {One(X), One(H), One(X) \o One(Y), With(X, Join(Y, "inner", On, << >>)),
     With(X, Join(Y, "inner", << >>, <<"natural">>)),
     With(X, Join(H, "inner", << >>, << >>)),
     One(Derived(KA, <<"b", "k">>, FALSE)),
     One(X) \o One(Derived(FromY("b"), <<"k">>, FALSE)),
     One(X) \o One(Derived(FromY("a"), <<"b">>, TRUE))}
    \cup {With(X, Join(Y, way, << >>, <<"k">>)) :
             way \in {"left", "right", "full"}}

Values2 ==
    {Col("k"), Col("a"), Of("x", "k"), Of("y", "k"), Parameter,
     Scalar(FromY("b")), Scalar(FromY("a"))}

Swapped == <<As(Col("a"), "k"), As(Col("k"), "z")>>

Nested(name) ==
    Query(Select(<<As(Scalar(Query(Select(<<As(Scalar(FromY(name)), "z")>>,
                                          One(Y)))), "k"),
                   As(Col("k"), "z")>>, One(X)))

Recursive2 ==
    SetOf("union", KA.body, Select(<<As(Of("r", "k"), "k"),
                                     As(Of("y", "b"), "a")>>,
                                   One(Tab("r", "")) \o One(Y)))

Queries ==
    {Query(Select(<<As(d, "k"), As(e, "b")>>, from)) :
        d \in Values2, e \in Values2, from \in FromClauses}
    \cup {Query(Select(<<Star(qual)>>, from)) :
        qual \in {"", "x", "y"}, from \in FromClauses}
    \cup {Query(Grouped(Swapped, One(X), where, group)) :
        where \in {<< >>, <<Scalar(FromY("k"))>>},
        group \in {<< >>, <<Col("k")>>, <<Col("z")>>}}
    \cup {Full(<< >>, FALSE, Select(Swapped, One(X)), <<order>>) :
        order \in {Col("k"), Col("z"), Of("x", "k"), Expr(<<Name("", "k")>>)}}
    \cup {Full(Cte(name, names, KA), FALSE, AllOf(table).body, << >>) :
        name \in {"y", "h"}, names \in {<< >>, <<"b", "k">>},
        table \in {"y", "h"}}
    \cup {Full(Cte("y", << >>, KB), recursive, KB.body, << >>) :
        recursive \in BOOLEAN}
    \cup {Full(Cte("r", << >>, Query(Recursive2)), TRUE, AllOf("r").body,
               << >>)}
    \cup {Query(SetOf(op, left, right)) :
        op \in {"union", "except"}, left \in {KA.body, KB.body},
        right \in {KA.body, KB.body}}
    \cup {Query([is |-> "values", rows |-> <<<<Parameter, Expr(<< >>)>>>>]),
          Nested("a"), Nested("b")}

-----------------------------------------------------------------------------
(* Statements.                                                             *)

InsertInto(table, names, query) ==
    [is |-> "insert", table |-> table, source |-> "query", names |-> names,
     query |-> query, sets |-> << >>]
InsertSet(table, sets) ==
    [is |-> "insert", table |-> table, source |-> "set", names |-> << >>,
     query |-> << >>, sets |-> sets]
To(name) == <<[qual |-> "", name |-> name]>>
SetTo(name, expr) ==
    [targets |-> To(name), value |-> [is |-> "expr", expr |-> expr]]
SetBoth(value) == [targets |-> To("k") \o To("a"), value |-> value]
Update(target, joins, from, sets, where) ==
    [is |-> "update", target |-> target, joins |-> joins, from |-> from,
     sets |-> sets, where |-> where]
Merge(target, source, on, clauses) ==
    [is |-> "merge", target |-> target, source |-> source, on |-> on,
     clauses |-> clauses]
Make(is, table, temporary, names, query) ==
    [is |-> is, table |-> table, temporary |-> temporary, names |-> names,
     query |-> query]
Delete(table, where) == [is |-> "delete", table |-> table, where |-> where]
If(statement) == [is |-> "if", then |-> <<statement>>]

FromB == <<SetTo("a", Col("b"))>>

Stored ==
    {InsertInto("y", <<"k", "b">>, KA), InsertInto("y", <<"b">>, FromY("b")),
     InsertInto("y", << >>, KA), InsertInto("h", <<"k">>, FromY("k")),
     InsertSet("y", <<SetTo("k", Parameter),
                      SetTo("b", Scalar(Cols("a", "a", "x")))>>),
     InsertSet("y", <<SetTo("b", Scalar(Query(Select(<<As(Col("a"), "m")>>,
                                                     One(X)))))>>),
     Update(X, << >>, One(Y), FromB, On),
     Update(X, <<Join(Y, "inner", On, << >>)>>, << >>, FromB, << >>),
     Update(Tab("u", ""), << >>,
            With(Tab("x", "u"), Join(Y, "inner", Equal("u", "k", "y", "k"),
                                     << >>)), FromB, << >>),
     Update(Tab("u", ""), << >>,
            With(Tab("x", "u"), Join(Y, "inner", << >>, <<"k">>)), FromB,
            << >>),
     Update(X, << >>, << >>, <<SetBoth([is |-> "query", query |-> KB])>>,
            << >>),
     Update(X, << >>, One(Y),
            <<SetBoth([is |-> "tuple", exprs |-> <<Of("y", "k"),
                                                   Col("b")>>])>>, << >>),
     Merge(Y, X, On,
           <<[is |-> "update", sets |-> <<SetTo("b", Col("a"))>>],
             [is |-> "insert", names |-> <<"k", "b">>,
              row |-> <<Of("x", "k"), Col("a")>>],
             [is |-> "delete"]>>),
     Delete("x", <<Col("k")>>), Delete("x", <<Scalar(FromY("k"))>>),
     Delete("x", <<Scalar(Query(Select(<<As(Col("c"), "c")>>, One(H))))>>),
     [is |-> "select", query |-> KB],
     Make("create", "n", FALSE, << >>, KA),
     Make("create", "y", FALSE, << >>, KA),
     Make("create", "y", FALSE, <<"b", "k">>, KA),
     Make("into", "y", FALSE, << >>, KA),
     If(InsertInto("y", <<"k", "b">>, KA)), If(Delete("y", << >>))}

T == Tab("t", "")

OverTemporary ==
    {Make("create", "s", TRUE, << >>, AllOf("t")),
     InsertInto("t", << >>, KB), InsertInto("t", <<"a">>, FromY("b")),
     InsertInto("w", <<"m", "n">>, AllOf("t")),
     InsertInto("w", <<"m", "n">>, AllOf("s")),
     InsertSet("t", <<SetTo("a", Scalar(FromY("b")))>>),
     Update(T, << >>, One(Y), FromB, << >>),
     Update(Y, << >>, One(T), <<SetTo("b", Of("t", "k"))>>, << >>),
     Merge(Y, T, << >>,
           <<[is |-> "update", sets |-> <<SetTo("b", Of("t", "k"))>>]>>),
     [is |-> "drop", table |-> "t"], If(InsertInto("t", << >>, KB))}

Temporaries ==
    {Make("create", "t", TRUE, << >>, KA),
     Make("create", "t", TRUE, <<"a", "k">>, KA),
     Make("into", "t", TRUE, << >>, KA),
     [is |-> "declare", table |-> "t", columns |-> <<"k", "a">>]}

-----------------------------------------------------------------------------
(* Bodies.                                                                 *)

View(query, columns) ==
    [owner |-> "v", kind |-> "view", transition |-> {}, variables |-> {},
     columns |-> columns, query |-> query]
Routine(variables, statements) ==
    [owner |-> "f", kind |-> "routine", transition |-> {},
     variables |-> variables, table |-> "", statements |-> statements]
Trigger(rows, statement) ==
    [owner |-> "g", kind |-> "trigger", transition |-> rows, variables |-> {},
     table |-> "x", statements |-> <<statement>>]

Triggers ==
    {Trigger({"inserted", "deleted"},
             InsertInto("w", <<"m", "n">>,
                Query(Select(<<As(Of("i", "k"), "k"), As(Col("a"), "a")>>,
                             One(Tab("inserted", "i"))))))}
    \cup {Trigger({"new", "old"}, s) : s \in
            {Update(Y, << >>, << >>, <<SetTo("b", Of("new", "a"))>>,
                    Equal("y", "k", "old", "k")),
             Delete("y", <<Of("old", "k")>>)}}

MCTexts ==
    {View(query, columns) : query \in Queries,
        columns \in {<< >>, <<"k", "b">>, <<"k", "a", "k2", "b">>}}
    \cup {Routine({"p"}, <<InsertInto("w", <<"m", "n">>, query)>>) :
            query \in Queries}
    \cup {Routine({"p"}, <<Make("create", "t", TRUE, << >>, query),
                           InsertInto("w", <<"m", "n">>, AllOf("t"))>>) :
            query \in Queries}
    \cup {Routine({"p"}, <<r, s>>) : r \in Stored, s \in Stored}
    \cup {Routine({}, <<first>> \o t) : first \in Temporaries,
            t \in {u \in OverTemporary \X OverTemporary \X OverTemporary :
                      IsInjective(u)}}
    \cup Triggers

\* Parameters that are called like the columns of the target.
NamedTexts ==
    {Routine({"k", "b"},
        <<InsertInto("y", <<"k", "b">>,
            Query([is |-> "values", rows |-> <<<<Expr(<<Name("", m)>>),
                                                 Expr(<<Name("", n)>>)>>>>]))>>)
        : m \in {"k", "b"}, n \in {"k", "b"}}
=============================================================================
