--------------------------- MODULE DocumentReview ---------------------------
(***************************************************************************)
(* schemagraph review: two catalogue documents are compared                *)
(* (src/engine/source/src/diff.rs), each difference becomes a change with  *)
(* a fingerprint (cli/src/review.rs, review_policy.rs), what depended on   *)
(* it is traced (analysis/src/review.rs), and the exit status says whether *)
(* somebody has to look at it.                                             *)
(*                                                                         *)
(* A team works with it over time: the database changes, somebody accepts  *)
(* the changes seen so far as a baseline or waives one of them for some    *)
(* days, the database changes again, and the gate runs once more.  Hashes  *)
(* are taken to be injective.  Names that collide between kinds of objects *)
(* are left out.                                                           *)
(***************************************************************************)
EXTENDS Naturals, Sequences, FiniteSets

CONSTANTS
    Start,          \* the documents to begin with
    Migrations(_),  \* the documents one change of the database away
    Plans,          \* the command lines to be tried, one after the other
    Whole,          \* the definitions that are understood completely
    Days,           \* the dates on which a waiver may expire
    MaxMigrations,  \* bound: changes of the database
    MaxWaivers      \* bound: waivers that are written

VARIABLES
    before, after,  \* the two documents
    plan,           \* the reviews still to come
    run,            \* the review at work, or the last one
    interrupted,    \* Ctrl+C
    baseline,       \* the baseline file: {} or {its fingerprints}
    waivers,        \* the waivers of the policy file
    approved,       \* what the baseline file stands for (not in the code)
    migrations

vars == <<before, after, plan, run, interrupted, baseline, waivers, approved,
          migrations>>

DocumentReviewAssumption ==
    /\ Days \subseteq Nat \ {0}
    /\ MaxMigrations \in Nat /\ MaxWaivers \in Nat
    /\ \A p \in Plans : \A i \in DOMAIN p :
          /\ p[i].strict \in BOOLEAN /\ p[i].complete \in BOOLEAN
          /\ p[i].baseline \in BOOLEAN /\ p[i].write \in BOOLEAN
          /\ p[i].sarif \in BOOLEAN /\ p[i].limited \in BOOLEAN
          /\ p[i].signal \in BOOLEAN
          /\ p[i].maxChanges \in Nat /\ p[i].asOf \in Days \cup {0}

-----------------------------------------------------------------------------
(* diff.rs: what is new, gone or different in a collection with names. *)

Added(f, g) == {<<n, g[n]>> : n \in DOMAIN g \ DOMAIN f}

Delta(f, g) ==
    [added   |-> Added(f, g),
     removed |-> Added(g, f),
     changed |-> {<<n, f[n], g[n]>> :
                    n \in {m \in DOMAIN f \cap DOMAIN g : f[m] # g[m]}}]

\* A field that differs: {<<old, new>>}.
FieldChange(old, new) == IF old # new THEN {<<old, new>>} ELSE {}

\* object_change and routine_change; usage is not compared.
ObjectChange(o, n) ==
    [kind        |-> FieldChange(o.kind, n.kind),
     columns     |-> Delta(o.columns, n.columns),
     constraints |-> Delta(o.constraints, n.constraints),
     indexes     |-> Delta(o.indexes, n.indexes),
     triggers    |-> Delta(o.triggers, n.triggers),
     bodyChanged |-> o.body # n.body]

RoutineChange(o, n) ==
    [kind        |-> FieldChange(o.kind, n.kind),
     language    |-> FieldChange(o.language, n.language),
     bodyChanged |-> o.body # n.body]

Altered(f, g) == {n \in DOMAIN f \cap DOMAIN g : f[n] # g[n]}

DiffDocuments(old, new) ==
    LET change(id) == ObjectChange(old.objects[id], new.objects[id])
        other(id) == RoutineChange(old.routines[id], new.routines[id])
    IN  [schemas      |-> <<new.schemas \ old.schemas,
                            old.schemas \ new.schemas>>,
         objects      |-> <<DOMAIN new.objects \ DOMAIN old.objects,
                            DOMAIN old.objects \ DOMAIN new.objects,
                            {<<id, change(id)>> :
                               id \in Altered(old.objects, new.objects)}>>,
         routines     |-> <<DOMAIN new.routines \ DOMAIN old.routines,
                            DOMAIN old.routines \ DOMAIN new.routines,
                            {<<id, other(id)>> :
                               id \in Altered(old.routines, new.routines)}>>,
         dependencies |-> <<new.depends \ old.depends,
                            old.depends \ new.depends>>]

-----------------------------------------------------------------------------
(* What is hashed. *)

\* Only views, routines and triggers have a definition that is analysed; the
\* hash of a definition is a result of the analysis.
IsAnalysed(o) == o.kind \in {"view", "materialized-view"}

ObjectHash(doc, id) ==
    IF id \in DOMAIN doc.objects /\ IsAnalysed(doc.objects[id])
    THEN doc.objects[id].body ELSE {}

\* root_id with a kind: a vertex of another kind is not the one.
RoutineHash(doc, id, kinds) ==
    IF id \in DOMAIN doc.routines
         /\ (kinds = {} \/ doc.routines[id].kind \in kinds)
    THEN doc.routines[id].body ELSE {}

-----------------------------------------------------------------------------
(* Changes::collect.  A change is <<kind, vertex, before, after, detail>>;  *)
(* what is not there is {}.                                                *)

When(condition, changes) == IF condition THEN changes ELSE {}

SchemaChanges(schemas) ==
    {<<"schema-added", <<s>>, {}, {}, <<s>> >> : s \in schemas[1]}
    \cup {<<"schema-removed", <<s>>, {}, {}, <<s>> >> : s \in schemas[2]}

\* Structures::detail.
ObjectDetail(doc, id) ==
    LET o == doc.objects[id]
    IN  <<o.kind, ObjectHash(doc, id), o.columns, o.constraints, o.indexes,
          o.triggers>>

RoutineDetail(doc, id) ==
    LET r == doc.routines[id]
    IN  <<r.kind, RoutineHash(doc, id, {}), r.language>>

AddedOrRemoved(diff, old, new) ==
    {<<"object-added", <<id>>, {}, {new.objects[id].kind},
       ObjectDetail(new, id)>> : id \in diff.objects[1]}
    \cup
    {<<"object-added", <<id>>, {}, {new.routines[id].kind},
       RoutineDetail(new, id)>> : id \in diff.routines[1]}
    \cup
    {<<"object-removed", <<id>>, {old.objects[id].kind}, {},
       ObjectDetail(old, id)>> : id \in diff.objects[2]}
    \cup
    {<<"object-removed", <<id>>, {old.routines[id].kind}, {},
       RoutineDetail(old, id)>> : id \in diff.routines[2]}

ColumnAltered(at, old, new) ==
    LET change(kind, b, a) == {<<kind, at, b, a, <<old, new>> >>}
    IN  When(old.type # new.type,
             change("column-type-changed", {old.type}, {new.type}))
        \cup When(old.nullable # new.nullable,
             change("column-nullability-changed", {old.nullable},
                    {new.nullable}))
        \cup When(old.default # new.default,
             change("column-default-changed", old.default, new.default))
        \cup When(old.place # new.place,
             change("column-position-or-key-changed", {}, {}))

Required(column) == ~ column.nullable /\ column.default = {}

ColumnChanges(id, columns) ==
    {<<IF Required(c[2]) THEN "required-column-added" ELSE "column-added",
       <<id, c[1]>>, {}, {c[2].type}, <<c[2]>> >> : c \in columns.added}
    \cup
    {<<"column-removed", <<id, c[1]>>, {c[2].type}, {}, <<c[2]>> >> :
        c \in columns.removed}
    \cup
    UNION {ColumnAltered(<<id, c[1]>>, c[2], c[3]) : c \in columns.changed}

\* One change stands for all constraints (triggers) of an object.
GroupChange(kind, id, delta) ==
    When(delta.added \cup delta.removed # {} \/ delta.changed # {},
         {<<kind, <<id>>, {}, {}, delta>>})

IndexChanges(id, delta) ==
    GroupChange(IF delta.removed # {} \/ delta.changed # {}
                THEN "indexes-changed"
                ELSE IF \E i \in delta.added : i[2].unique
                THEN "unique-index-added" ELSE "index-added", id, delta)

ObjectChanges(id, change, old, new) ==
    {<<"object-kind-changed", <<id>>, {k[1]}, {k[2]}, << >> >> :
        k \in change.kind}
    \cup ColumnChanges(id, change.columns)
    \cup GroupChange("constraints-changed", id, change.constraints)
    \cup IndexChanges(id, change.indexes)
    \cup GroupChange("triggers-changed", id, change.triggers)
    \cup When(change.bodyChanged,
           {<<"definition-changed", <<id>>, ObjectHash(old, id),
              ObjectHash(new, id), << >> >>})

\* definition_with_detail: both hashes are asked for under the old kind.
RoutineChanges(id, change, old, new) ==
    LET was == {k[1] : k \in change.kind}
    IN  {<<"definition-changed", <<id>>, RoutineHash(old, id, was),
           RoutineHash(new, id, was),
           <<change.kind, change.language, change.bodyChanged>> >>}

\* The dependencies that the catalogue itself reports: <<from, to>>.
Present(doc, id) == id \in DOMAIN doc.objects \cup DOMAIN doc.routines

DependencyChanges(dependencies, old, new) ==
    LET of(id, deps) == {d \in deps : d[1] = id}
        gained == dependencies[1]
        lost == dependencies[2]
    IN  {<<"catalog-dependencies-changed", <<id>>, {}, {},
           <<of(id, gained), of(id, lost)>> >> :
            id \in {i \in {d[1] : d \in gained \cup lost} :
                       Present(old, i) \/ Present(new, i)}}

Changes(old, new) ==
    LET diff == DiffDocuments(old, new)
    IN  SchemaChanges(diff.schemas)
        \cup AddedOrRemoved(diff, old, new)
        \cup UNION {ObjectChanges(c[1], c[2], old, new) : c \in diff.objects[3]}
        \cup UNION {RoutineChanges(c[1], c[2], old, new) :
                       c \in diff.routines[3]}
        \cup DependencyChanges(diff.dependencies, old, new)

RequiresReview(c) ==
    c[1] \notin {"schema-added", "object-added", "column-added", "index-added"}

\* source_identity: everything of the context but the mark of completeness.
Identity(doc) == <<doc.context.source, doc.context.scope>>

\* Not in the code.
Fingerprint_NoDetail(old, new, c) ==
    <<Identity(old), Identity(new), <<c[1], c[2], c[3], c[4], << >> >> >>

Fingerprint(old, new, c) == <<Identity(old), Identity(new), c>>

-----------------------------------------------------------------------------
(* What makes a comparison worth nothing, or less than it seems.           *)

\* comparison_notes, and the dependencies that lead nowhere.
Comparable(old, new) ==
    /\ old.context.source # "" /\ Identity(old) = Identity(new)
    /\ old.context.collected /\ new.context.collected
    /\ \A doc \in {old, new} : \A d \in doc.depends :
          Present(doc, d[1]) /\ Present(doc, d[2])

\* A definition that was not collected is not understood either.
Understood(body) == body # {} /\ body \subseteq Whole

\* partial, and the incomplete indexes and foreign keys.
AnalysisComplete(doc) ==
    /\ \A id \in DOMAIN doc.objects :
          LET o == doc.objects[id]
          IN  /\ IsAnalysed(o) => Understood(o.body)
              /\ \A t \in DOMAIN o.triggers : Understood(o.triggers[t])
              /\ \A k \in DOMAIN o.constraints : o.constraints[k] \in Whole
              /\ \A i \in DOMAIN o.indexes : o.indexes[i].def \in Whole
    /\ \A id \in DOMAIN doc.routines :
          doc.routines[id].language = "sql" /\ Understood(doc.routines[id].body)

AllAnalysed(r) == AnalysisComplete(r.old) /\ AnalysisComplete(r.new)

\* report_has_safety_gap.
SafetyGap(r) == ~ Comparable(r.old, r.new) \/ ~ AllAnalysed(r) \/ r.cut

-----------------------------------------------------------------------------
(* One review. *)

Idle == run.phase \in {"idle", "done"}

Begin ==
    /\ Idle /\ plan # << >>
    /\ run' = [phase |-> "load", options |-> Head(plan), old |-> before,
               new |-> after, left |-> {}, shown |-> {}, cut |-> FALSE,
               status |-> 0, suppressed |-> {}, relied |-> {}]
    /\ plan' = Tail(plan)
    /\ interrupted' = FALSE
    /\ UNCHANGED <<before, after, baseline, waivers, approved, migrations>>

ReviewOnly ==
    UNCHANGED <<before, after, plan, interrupted, waivers, migrations>>

Ends(status) ==
    run' = [run EXCEPT !.phase = "report", !.status = status]

\* Both documents are read, analysed and compared.
Load ==
    /\ run.phase = "load"
    /\ IF interrupted THEN Ends(130)
       ELSE run' = [run EXCEPT !.phase = "trace",
                               !.left = Changes(run.old, run.new)]
    /\ UNCHANGED <<baseline, approved>> /\ ReviewOnly

\* review_with_cancellation: the dependents of one change after the other, in
\* a fixed order, until enough are shown.  The walk may meet a limit.
Trace ==
    /\ run.phase = "trace" /\ run.left # {}
    /\ IF interrupted \/ Cardinality(run.shown) = run.options.maxChanges
       THEN run' = [run EXCEPT !.left = {}, !.cut = TRUE]
       ELSE \E limited \in {FALSE, run.options.limited} :
               LET c == CHOOSE x \in run.left : TRUE
               IN  run' = [run EXCEPT !.left = @ \ {c},
                                      !.shown = @ \cup {c},
                                      !.cut = @ \/ limited]
    /\ UNCHANGED <<baseline, approved>> /\ ReviewOnly

HasPolicy(r) == r.options.policy # {}

\* The waivers are in the policy file.
Waivers(r) == IF HasPolicy(r) THEN waivers ELSE {}

\* A waiver needs a day to be judged by, and ends the day after it expires.
Expired(r) ==
    \E w \in Waivers(r) : r.options.asOf = 0 \/ w.expires < r.options.asOf

\* load_baseline and evaluate return an error.
BadInput(r) == (r.options.baseline /\ baseline = {}) \/ Expired(r)

Evaluated(r) ==
    HasPolicy(r) \/ r.options.baseline \/ r.options.write \/ r.options.sarif

Suppressed(r, c) ==
    LET print == Fingerprint(r.old, r.new, c)
    IN  \/ r.options.baseline /\ print \in UNION baseline
        \/ \E w \in Waivers(r) : w.print = print

\* Severities: 0 info, 1 low, 2 medium, 3 high, 4 critical.
Severity(policy, c) ==
    IF c[1] \in DOMAIN policy.severity THEN policy.severity[c[1]]
    ELSE IF RequiresReview(c) THEN 3 ELSE 1

Fails(r, c) ==
    /\ ~ Suppressed(r, c)
    /\ IF HasPolicy(r)
       THEN \E p \in r.options.policy : Severity(p, c) >= p.threshold
       ELSE RequiresReview(c)

Status(r) ==
    IF \/ (r.options.baseline \/ Waivers(r) # {}) /\ SafetyGap(r)
       \/ r.options.strict /\ ~ Comparable(r.old, r.new)
       \/ r.options.complete /\ (~ AllAnalysed(r) \/ r.cut)
    THEN 2
    ELSE IF r.options.strict /\ \E c \in Changes(r.old, r.new) : Fails(r, c)
    THEN 1 ELSE 0

-----------------------------------------------------------------------------
(* What really differs between two documents.  A fact is <<place, value>>. *)

ObjectFacts(id, o) ==
    {<< <<"object", id>>, o.kind>>}
    \cup {<< <<"column", id, c>>, o.columns[c]>> : c \in DOMAIN o.columns}
    \cup {<< <<"constraint", id, k>>, o.constraints[k]>> :
             k \in DOMAIN o.constraints}
    \cup {<< <<"index", id, i>>, o.indexes[i]>> : i \in DOMAIN o.indexes}
    \cup {<< <<"trigger", id, t>>, o.triggers[t]>> : t \in DOMAIN o.triggers}
    \cup {<< <<"body", id>>, b>> : b \in o.body}

Facts(doc) ==
    {<< <<"schema", s>>, TRUE>> : s \in doc.schemas}
    \cup UNION {ObjectFacts(id, doc.objects[id]) : id \in DOMAIN doc.objects}
    \cup {<< <<"routine", id>>, doc.routines[id]>> : id \in DOMAIN doc.routines}
    \cup {<< <<"dependency", d[1], d[2]>>, TRUE>> : d \in doc.depends}

\* The places that differ, with what is there before and after.
Differences(old, new) ==
    LET f == Facts(old) \ Facts(new)
        g == Facts(new) \ Facts(old)
        at(facts, place) == {x[2] : x \in {y \in facts : y[1] = place}}
    IN  {<<place, at(f, place), at(g, place)>> :
           place \in {x[1] : x \in f \cup g}}

\* An ordinary addition: a schema, object or routine with all it brings, a
\* column that may stay empty, an index that forbids nothing.
Ordinary(old, d) ==
    LET sort == d[1][1]
    IN  /\ d[2] = {}
        /\ \/ sort \in {"schema", "object", "routine"}
           \/ ~ Present(old, d[1][2])
           \/ sort = "column" /\ \A c \in d[3] : ~ Required(c)
           \/ sort = "index" /\ \A i \in d[3] : ~ i.unique

\* The place of a difference belongs to a change.
Concerns(c, d) ==
    LET sort == d[1][1]
        sorts ==
          CASE c[1] \in {"schema-added", "schema-removed"} -> {"schema"}
            [] c[1] \in {"object-added", "object-removed"} ->
                 {"object", "routine", "column", "constraint", "index",
                  "trigger", "body"}
            [] c[1] = "object-kind-changed" -> {"object"}
            [] c[1] = "constraints-changed" -> {"constraint"}
            [] c[1] \in {"indexes-changed", "index-added",
                         "unique-index-added"} -> {"index"}
            [] c[1] = "triggers-changed" -> {"trigger"}
            [] c[1] = "definition-changed" -> {"body", "routine"}
            [] c[1] = "catalog-dependencies-changed" -> {"dependency"}
            [] OTHER -> {"column"}
    IN  sort \in sorts /\ SubSeq(d[1], 2, Len(c[2]) + 1) = c[2]

\* Somebody has seen this very difference of these sources.
Approval(r, d) == <<Identity(r.old), Identity(r.new), d>>

Approvals(r) == {Approval(r, d) : d \in Differences(r.old, r.new)}

\* write_baseline: each fingerprint once.
NewBaseline(r) == {Fingerprint(r.old, r.new, c) : c \in Changes(r.old, r.new)}

-----------------------------------------------------------------------------
\* The policy and the baseline are read and applied; a new baseline, of all
\* changes and not only the shown ones, replaces the old one in one step.
Judge ==
    /\ run.phase = "trace" /\ run.left = {}
    /\ LET done == [run EXCEPT
               !.phase = "report", !.status = Status(run),
               !.suppressed = {c \in Changes(run.old, run.new) :
                                  Suppressed(run, c)},
               !.relied = (IF run.options.baseline THEN approved ELSE {})
                             \cup UNION {w.covers : w \in Waivers(run)}]
       IN  IF interrupted
           THEN Ends(130) /\ UNCHANGED <<baseline, approved>>
           ELSE IF BadInput(run) \/ (run.options.write /\ SafetyGap(run))
           THEN Ends(2) /\ UNCHANGED <<baseline, approved>>
           ELSE IF run.options.write
           THEN \/ /\ run' = done
                   /\ baseline' = {NewBaseline(run)}
                   /\ approved' = Approvals(run)
                \/ Ends(2) /\ UNCHANGED <<baseline, approved>>
           ELSE run' = done /\ UNCHANGED <<baseline, approved>>
    /\ ReviewOnly

\* The report is printed; exit_code looks at the signal once more.
Exit ==
    /\ run.phase = "report"
    /\ run' = [run EXCEPT !.phase = "done",
                          !.status = IF interrupted THEN 130 ELSE @]
    /\ UNCHANGED <<baseline, approved>> /\ ReviewOnly

-----------------------------------------------------------------------------
(* The team and its database. *)

Interrupt ==
    /\ ~ Idle /\ run.options.signal /\ ~ interrupted
    /\ interrupted' = TRUE
    /\ UNCHANGED <<before, after, plan, run, baseline, waivers, approved,
                   migrations>>

\* The database changes, and a new snapshot is taken.
Migrate ==
    /\ Idle /\ plan # << >>
    /\ migrations < MaxMigrations /\ migrations' = migrations + 1
    /\ after' \in Migrations(after)
    /\ UNCHANGED <<before, plan, run, interrupted, baseline, waivers, approved>>

\* What is now is what the next change is compared with.
Release ==
    /\ Idle /\ plan # << >> /\ before # after
    /\ before' = after
    /\ UNCHANGED <<after, plan, run, interrupted, baseline, waivers, approved,
                   migrations>>

\* A fingerprint from the last report is waived for some time, for a review
\* still to come.
Waive ==
    /\ run.phase = "done" /\ Evaluated(run)
    /\ \E i \in DOMAIN plan : plan[i].policy # {}
    /\ Cardinality(waivers) < MaxWaivers
    /\ \E c \in run.shown, day \in Days :
          waivers' = waivers \cup
             {[print   |-> Fingerprint(run.old, run.new, c),
               expires |-> day,
               covers  |-> {Approval(run, d) : d \in
                              {x \in Differences(run.old, run.new) :
                                  Concerns(c, x)}}]}
    /\ UNCHANGED <<before, after, plan, run, interrupted, baseline, approved,
                   migrations>>

Init ==
    /\ before \in Start /\ after = before
    /\ plan \in Plans
    /\ run = [phase |-> "idle", status |-> 0]
    /\ interrupted = FALSE
    /\ baseline = {} /\ waivers = {} /\ approved = {}
    /\ migrations = 0

Next ==
    \/ Begin \/ Load \/ Trace \/ Judge \/ Exit
    \/ Interrupt \/ Migrate \/ Release \/ Waive

Spec == Init /\ [][Next]_vars

-----------------------------------------------------------------------------
(* Properties. *)

\* The hash of what changed is not known: the definition of a table (a view
\* that becomes one), or a routine that becomes another kind.
Unhashed(r, d) ==
    LET id == d[1][2]
    IN  \/ /\ d[1][1] = "body"
           /\ \E doc \in {r.old, r.new} :
                 id \in DOMAIN doc.objects /\ ~ IsAnalysed(doc.objects[id])
        \/ /\ d[1][1] = "routine" /\ d[2] # {} /\ d[3] # {}
           /\ {x.kind : x \in d[2]} # {x.kind : x \in d[3]}

\* A policy that leaves the severities and the threshold of the strict gate.
Gated(r) == \A p \in r.options.policy : p.threshold <= 3 /\ p.severity = << >>

\* A strict review ends with 0 only if the two documents can be compared and
\* whoever wrote the baseline or the waiver has seen each difference that is
\* more than an ordinary addition, however the documents changed in between,
\* whatever was not shown, and whenever Ctrl+C came; --require-complete also
\* means that everything was analysed and traced.  The two kinds of definition
\* without a hash are left out: see AcceptedIsTheSame (cli/review.rs:537-762,
\* review_policy.rs:352-478, diff.rs:146-436, ANALYSIS.md:203-208).
NothingSlipsThrough ==
    run.phase = "done" /\ run.status = 0 =>
       /\ run.options.complete =>
             AllAnalysed(run) /\ run.shown = Changes(run.old, run.new)
       /\ run.options.strict => Comparable(run.old, run.new)
       /\ run.options.strict /\ Gated(run) =>
             \A d \in Differences(run.old, run.new) :
                \/ Ordinary(run.old, d) \/ Unhashed(run, d)
                \/ Approval(run, d) \in run.relied

\* "A baseline applies only to the same change, structure, and collection
\* identity" (REVIEW-ACTION.md:44): what a finding that the baseline or a waiver
\* suppresses concerns has been seen before, all of it
\* (review_policy.rs:352-376, cli/review.rs:352-372).
AcceptedIsTheSame ==
    run.phase = "done" /\ run.status \in {0, 1} =>
       \A c \in run.suppressed, d \in Differences(run.old, run.new) :
          Concerns(c, d) => Approval(run, d) \in run.relied
=============================================================================
