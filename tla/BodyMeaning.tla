---------------------------- MODULE BodyMeaning ----------------------------
(***************************************************************************)
(* What the statements of a body do to the columns of the database, for    *)
(* the statements of BodyEffects: a reference like QueryMeaning.           *)
(*                                                                         *)
(* done is [names, writes, flows, mentions, seen, reads, targets, ok]:     *)
(* what the names of relations mean now, the stored columns that are       *)
(* written, the pairs <<to, from>> of stored columns between which a value *)
(* passes, the columns that are mentioned, those of DELETE and SELECT in   *)
(* seen, and the stored relations that are read or written.  The rows of a *)
(* table that the body creates are not stored: its columns stand for what  *)
(* has flown into them.  The statements of a branch may be executed.       *)
(***************************************************************************)
EXTENDS QueryMeaning

NothingDone(names) ==
    [names |-> names, writes |-> {}, flows |-> {}, mentions |-> {},
     seen |-> {}, reads |-> {}, targets |-> {}, ok |-> TRUE]

\* A statement that reads r and writes the relation called name.
Noted(done, r, name) ==
    [done EXCEPT
        !.mentions = @ \cup r.mentions,
        !.reads = @ \cup (r.reads \ {<<name>>}),
        !.ok = @ /\ r.ok]

IsTable(done, name) == name \in DOMAIN done.names

\* Values reach one column of a relation: a stored one, or one of the body.
Pour(done, name, column, from) ==
    IF done.names[name].stored
    THEN [done EXCEPT
            !.writes = @ \cup {<<name, column>>},
            !.flows = @ \cup {<<<<name, column>>, s>> :
                                s \in from \ {<<name, column>>}},
            !.targets = @ \cup {<<name>>}]
    ELSE [done EXCEPT !.names[name].columns =
            [i \in DOMAIN @ |->
                IF @[i].name = column THEN [@[i] EXCEPT !.from = @ \cup from]
                ELSE @[i]]]

NamesOf(columns) == [i \in DOMAIN columns |-> columns[i].name]

\* columns[i] of the relation gets what froms[i] comes from.
PourAll(done, name, columns, froms) ==
    LET known == IsTable(done, name)
        fits == /\ known
                /\ Len(columns) = Len(froms) /\ IsInjective(columns)
                /\ ToSet(columns) \subseteq
                      ToSet(NamesOf(done.names[name].columns))
    IN IF ~fits THEN [done EXCEPT !.ok = FALSE]
       ELSE FoldLeft(LAMBDA d, i : Pour(d, name, columns[i], froms[i]), done,
                     [i \in DOMAIN columns |-> i])

Froms(columns) == [i \in DOMAIN columns |-> columns[i].from]

\* The result of a query goes into these columns.
PourResult(done, name, columns, r) ==
    PourAll(Noted(done, r, name), name, columns, Froms(r.out))

PourSets(done, s, values) ==
    PourAll(Noted(done, All({}, ToSet(values)), s.table), s.table,
            [i \in DOMAIN values |-> s.sets[i].targets[1].name],
            [i \in DOMAIN values |-> values[i].out])

\* The values of an INSERT see no column of the target, those of INSERT SET
\* do.
InsertMeaning(done, s, levels, variables) ==
    LET columns == done.names[s.table].columns
        own == Bindings(columns, {s.table})
    IN IF ~IsTable(done, s.table) THEN [done EXCEPT !.ok = FALSE]
       ELSE IF s.source = "query"
       THEN PourResult(done, s.table,
                       IF s.names = << >> THEN NamesOf(columns) ELSE s.names,
                       QueryMeaning(s.query, done.names, levels, variables))
       ELSE PourSets(done, s,
               [i \in DOMAIN s.sets |->
                  ExprMeaning(s.sets[i].value.expr, done.names,
                              <<own>> \o levels, variables)])

OneValue(r) == [r EXCEPT !.out = <<r.out>>]

EachValue(rs) == All([i \in DOMAIN rs |-> rs[i].out], ToSet(rs))

RowValue(r) == [r EXCEPT !.out = Froms(r.out)]

\* The values of one SET: [froms, mentions, reads, ok].
SetValues(value, names, levels, variables) ==
    CASE value.is = "expr" ->
           OneValue(ExprMeaning(value.expr, names, levels, variables))
      [] value.is = "tuple" ->
           EachValue([i \in DOMAIN value.exprs |->
               ExprMeaning(value.exprs[i], names, levels, variables)])
      [] value.is = "query" ->
           RowValue(QueryMeaning(value.query, names, levels, variables))

\* The column of the target that a SET names; qual is how the target is
\* called here.
SetTargets(set, qual) ==
    [i \in DOMAIN set.targets |->
        IF set.targets[i].qual \in {"", qual} THEN set.targets[i].name
        ELSE "no column"]

Assigned(done, sets, name, qual, values) ==
    FoldLeft(LAMBDA d, i : PourAll(d, name, SetTargets(sets[i], qual),
                                   values[i].out),
             Noted(done, All({}, {Part(values[i]) : i \in DOMAIN sets}), name),
             [i \in DOMAIN sets |-> i])

SetMeanings(done, sets, name, qual, levels, variables) ==
    Assigned(done, sets, name, qual,
             [i \in DOMAIN sets |->
                SetValues(sets[i].value, done.names, levels, variables)])

KnownAs(factor) == IF factor.alias = "" THEN factor.name ELSE factor.alias

\* The rows that an UPDATE goes through.
UpdateRows(done, s, target, from, levels, variables) ==
    LET where == ExprsMeaning(s.where, done.names,
                              <<from.out.level>> \o levels, variables)
    IN SetMeanings(Noted(done, All({}, {Part(from), where}), target.name),
                   s.sets, target.name, KnownAs(target),
                   <<from.out.level>> \o levels, variables)

\* The target is an item of the FROM clause that has its name, or comes first.
UpdateMeaning(done, s, levels, variables) ==
    LET items == {i \in DOMAIN s.from : /\ s.from[i].factor.is = "table"
                                        /\ KnownAs(s.from[i].factor)
                                             = KnownAs(s.target)}
        found == items # {}
        target == IF found THEN s.from[CHOOSE i \in items : TRUE].factor
                  ELSE s.target
        own == [factor |-> s.target, joins |-> s.joins]
        froms == IF found THEN s.from ELSE <<own>> \o s.from
    IN UpdateRows(done, s, target,
                  FromsMeaning(froms, done.names, levels, variables), levels,
                  variables)

\* One clause of a MERGE after the other; in the values of an INSERT only the
\* source can be named.
MergeInsertMeaning(done, s, clause, values) ==
    PourAll(Noted(done, values, s.target.name), s.target.name, clause.names,
            values.out)

ClauseMeaning(done, s, clause, both, source, variables) ==
    CASE clause.is = "update" ->
           SetMeanings(done, clause.sets, s.target.name, KnownAs(s.target),
                       both, variables)
      [] clause.is = "insert" ->
           MergeInsertMeaning(done, s, clause,
               SetValues([is |-> "tuple", exprs |-> clause.row], done.names,
                         source, variables))
      [] clause.is = "delete" ->
           [done EXCEPT !.targets = @ \cup {<<s.target.name>>}]

MergeRows(done, s, target, source, levels, variables) ==
    LET both == <<target.out.level \cup source.out.level>> \o levels
        on == ExprsMeaning(s.on, done.names, both, variables)
    IN FoldLeft(LAMBDA d, c : ClauseMeaning(d, s, c, both,
                                  <<source.out.level>> \o levels, variables),
                Noted(done, All({}, {Part(target), Part(source), on}),
                      s.target.name),
                s.clauses)

MergeMeaning(done, s, levels, variables) ==
    IF s.target.name \in DOMAIN done.names
    THEN MergeRows(done, s,
            FactorMeaning(s.target, done.names, levels, levels, variables),
            FactorMeaning(s.source, done.names, levels, levels, variables),
            levels, variables)
    ELSE [done EXCEPT !.ok = FALSE]

\* A new table hides a stored one only if it is temporary; a stored one that
\* the body creates itself is written.
NewTable(done, s, r) ==
    LET columns == Renaming(r.out, s.names)
        stored == NamesOf(done.names[s.table].columns)
    IN IF s.names # << >> /\ Len(s.names) # Len(r.out)
       THEN [done EXCEPT !.ok = FALSE]
       ELSE IF IsTable(done, s.table) /\ done.names[s.table].stored
                 /\ ~s.temporary
       THEN IF Len(stored) = Len(columns)
            THEN PourAll(Noted(done, r, s.table), s.table,
                         IF s.names = << >> THEN stored ELSE s.names,
                         Froms(columns))
            ELSE [done EXCEPT !.ok = FALSE]
       ELSE [Noted(done, r, s.table) EXCEPT
               !.ok = /\ @
                      /\ IsTable(done, s.table) => done.names[s.table].stored,
               !.names = Naming(@, s.table, Entry(columns, FALSE))]

CreateMeaning(done, s, levels, variables) ==
    NewTable(done, s, QueryMeaning(s.query, done.names, levels, variables))

DropMeaning(done, s) ==
    IF IsTable(done, s.table) /\ ~done.names[s.table].stored
    THEN [done EXCEPT !.names = [n \in DOMAIN @ \ {s.table} |-> @[n]]]
    ELSE [done EXCEPT !.ok = FALSE]

DeleteMeaning(done, s, levels, variables) ==
    IF ~IsTable(done, s.table) THEN [done EXCEPT !.ok = FALSE]
    ELSE LET entry == done.names[s.table]
             own == Bindings(entry.columns, {s.table})
             r == ExprsMeaning(s.where, done.names, <<own>> \o levels,
                               variables)
         IN [done EXCEPT
               !.reads = @ \cup (r.reads \ {<<s.table>>}),
               !.seen = @ \cup r.mentions,
               !.targets = @ \cup IF entry.stored THEN {<<s.table>>} ELSE {},
               !.ok = @ /\ r.ok]

SelectedRows(done, r) ==
    [done EXCEPT !.reads = @ \cup r.reads, !.ok = @ /\ r.ok,
                 !.seen = @ \cup r.mentions]

RECURSIVE StatementMeaning(_, _, _, _)
StatementMeaning(done, s, levels, variables) ==
    CASE s.is = "insert" -> InsertMeaning(done, s, levels, variables)
      [] s.is = "update" -> UpdateMeaning(done, s, levels, variables)
      [] s.is = "merge" -> MergeMeaning(done, s, levels, variables)
      [] s.is \in {"create", "into"} ->
           CreateMeaning(done, s, levels, variables)
      [] s.is = "declare" ->
           [done EXCEPT
              !.ok = /\ @
                     /\ IsTable(done, s.table) => done.names[s.table].stored,
              !.names = Naming(@, s.table, Entry(
                 [i \in DOMAIN s.columns |->
                    [name |-> s.columns[i], from |-> {}]], FALSE))]
      [] s.is = "delete" -> DeleteMeaning(done, s, levels, variables)
      [] s.is = "drop" -> DropMeaning(done, s)
      [] s.is = "select" ->
           SelectedRows(done, QueryMeaning(s.query, done.names, levels,
                                           variables))
      [] s.is = "if" ->
           FoldLeft(LAMBDA d, t : StatementMeaning(d, t, levels, variables),
                    done, s.then)

Meaning(statements, names, levels, variables) ==
    FoldLeft(LAMBDA d, s : StatementMeaning(d, s, levels, variables),
             NothingDone(names), statements)
=============================================================================
