# schemagraph: a TLA+ model of its concurrent and stateful parts

schemagraph reads a database catalogue (directly, or as a document written by
one of its probes), parses the bodies of views and routines, and builds a graph
of the dependencies between tables, columns, views, routines and queries. The
graph is then queried, merged, compared with an older one, or served to an agent
over stdio. Most of the program is a pipeline of pure functions. What is hard
to test is where several actors meet (threads, processes, a client), where work
is cut short (cancellation, budgets, end of input), and where a later run meets
what an earlier one left behind (the cache, the output files). The modules here
model those parts, TLC checks them on small instances, and TLAPS proves the most
important results for every size.

## Inventory

Paths are below `src/`. "State" is what outlives a call.

| Component | Source | State | Operations and partners | What makes it correct |
|---|---|---|---|---|
| MCP server | `engine/cli/src/mcp.rs` | registry of tokens, two bounded channels, stop flag, session flag | reader, coordinator and worker threads; a client | one answer per request, cancelled calls silent, bounded outstanding calls, shutdown completes |
| Neighbour search | `engine/analysis/src/budget.rs`, `lib.rs` | the search records | `query`, `impact`; reads a flag another thread sets | `complete` means exact; partial results are sound; budgets hold |
| Cache files and key | `engine/cli/src/cache/trust.rs`, `cache.rs` | key file, entries, temporary files | concurrent scans, the user, the machine | one key, whole files, nobody's file overwritten |
| Other graph queries | `engine/analysis/src/{lib,paths,lineage,retention,unused,schema_lint,search}.rs` | none | called by the command line and the server | all shortest paths unless truncated; nothing live reported dead |
| Multi-root traversal | `engine/analysis/src/traversal.rs` | none | `traverse`, policies | each vertex gets exactly the roots within depth |
| Core graph | `engine/core/src/lib.rs` | vertices, edges, origins, analyses | everything | components and layers follow their definitions |
| Merge | `engine/core/src/merge.rs`, `engine/cli/src/merge.rs` | none | several graphs in, one out | nothing from different sources is conflated |
| Body evidence reuse | `engine/parser/src/cache.rs` | entries by body and footprint | parser, cache files | a warm scan equals a cold one |
| SQL parser | `engine/parser/src/*.rs` | none | one body at a time | names resolve to the innermost scope; limits are reported |
| Catalogue sources | `engine/source/src/{postgres,mysql,sqlite,sql_files}.rs` | connection | database servers | missing rights become limitations |
| Transport | `engine/source/src/transport.rs` | none | database servers | plaintext only where asked for, or refused and recorded |
| NDJSON reader and codec | `engine/source/src/{ndjson,codec,document}.rs` | position in the stream | probes | a cut stream is not a complete catalogue |
| Graph construction | `engine/source/src/{graph,dependencies,bridge_facts}.rs` | none | document in, graph out | unresolved names are not invented |
| Imports | `engine/source/src/imports.rs`, `engine/cli/src/import.rs` | the document | dbt manifests, query logs | all or nothing |
| Diff, review, policy | `engine/source/src/diff.rs`, `engine/analysis/src/review.rs`, `engine/cli/src/{review,review_policy,policy}.rs` | none | two documents or graphs | no approval on incomplete evidence |
| Output staging | `engine/cli/src/output.rs` | output and temporary files | every command that writes | old output survives a failure |
| Command line | `engine/cli/src/{main,cancellation}.rs` | cancellation flag | signals | an interrupted run never exits as complete |
| Exporters | `engine/export/src/*.rs` | none | graph in, text out | formatting only |
| Probes | `probe-go/*.go`, `probe/src/main/kotlin/**` | output file | database drivers | whole file or none; trailer last |
| Scripts, fixtures, workflows | `Scripts/`, `Fixtures/`, `.github/` | - | - | not the program |

The parts meet in three ways. A scan calls source, import, parser, core and
export in this order in one process, and shares only files with other scans. A
query command or the server holds a finished graph that nothing changes any
more; the only thing shared while it works is the cancellation flag or token.
A probe and the engine share a stream or a file, in one direction.

`PROJECT.json` lists each component with its status, and the hazards with the
line where each one bites.

## The modules

| Module | Models | Kind |
|---|---|---|
| `McpRequests` | what the server promises of each message | abstract specification |
| `McpServer` | the three threads of `mcp.rs` | detailed specification |
| `McpServerProofs` | theorems about it | TLAPS |
| `BudgetedWalk` | `walk` of `budget.rs` with `Reach` of `lib.rs` | algorithm step by step, with a reference |
| `BudgetedWalkProofs` | theorems about it | TLAPS |
| `ChainScan` | the scan of a SQL text in front of the parser, `parse_limits.rs` | token by token |
| `ChainDepth` | a writer of SQL beside it, who knows the tree | reference for it |
| `ChainScanProofs` | theorems about the scan, and about the scan beside the tree | TLAPS |
| `BoundedWork` | the walk and the scan, which bound their own work | composition of both |
| `CacheFiles` | key file and entries shared by scans | processes and a file system |
| `CacheFilesProofs` | theorems about it | TLAPS |
| `Commands` | commands that run at once in one directory | processes and a file system |
| `CommandsProofs` | theorems about it | TLAPS |
| `CatalogRead` | connection, catalogue, stream, reader | protocol with a changing database |
| `CatalogReadProofs` | theorems about it | TLAPS |
| `SqlFiles` | the SQL files of a directory, attached to a document | algorithm with files that change |
| `ProbeRun` | the two probes, next to the file they read | processes and a file system |
| `DocumentCodec` | what the document codec accepts, adds, drops and writes | operators |
| `Imports` | dbt manifests and query logs | algorithm with files that change |
| `ImportsProofs` | theorems about it | TLAPS |
| `GraphStore`, `DocumentGraph`, `GraphFile`, `GraphReports`, `GraphAssembly` | document to graph to file to report | operators, composed step by step by the last |
| `ObjectGraph`, `ShortestPaths`, `RootTraversal`, `StrongComponents`, `DeadObjects` | queries of a graph | algorithms step by step, with references |
| `DeadObjectsProofs` | theorems about the last | TLAPS |
| `DocumentReview` | reviews over time | state machine with a team and a database |
| `Snapshots` | all that is done with a snapshot | composition of the rows above from `CatalogRead` on |
| `BodyReuse` | results of body analysis over several scans | state machine, cold scan as reference |
| `ConstantText` | dynamic SQL, and the execution of the body | two machines side by side |
| `QueryScopes`, `BodyEffects` | names of queries, effects of statements | operators, composed by the second |
| `QueryMeaning`, `BodyMeaning` | what the database does | reference for these two |
| `BodyAnalysis` | the analysis of bodies and what a scan keeps of it | composition of `CacheFiles` and the four rows above |
| `MC...` | instances for TLC | |

`Snapshots`, `BodyAnalysis` and `BoundedWork` compose: their initial states choose
what is done (`work`, `side`), and a step is a step of that module while the
variables of the others stay as they are. The properties of each module are
stated under that choice. Modules with theorems are composed by EXTENDS, so that
the property of the run is the definition the theorem names, and the others by
INSTANCE; what is extended has an idle value of its control variable (`phase`,
`pass`, `pc`) in which its properties say nothing. The parts share no variable in
one behaviour because in the program they meet only through finished results: a
document, a graph, a file.

### McpServer

One action is one thing another thread can see: a channel operation, a critical
section of the registry's mutex, a load or store of a token or of the stop flag,
a write to standard output. What a thread does in between is part of the action
that follows it.

| In the model | In the code |
|---|---|
| `inputPc`, `inputLine` | `read_inputs`: about to test the stop flag, blocked in `read_bounded_line`, blocked in `send` |
| `events`, `eventsOpen` | the `sync_channel(1)` from `serve`, and whether its receiver is alive |
| `coordPc`, `msg` | where `coordinate` and then `serve` are, and the line in hand |
| `jobs`, `jobsOpen`, `workerAlive` | the `sync_channel(MAX_OUTSTANDING_JOBS - 1)` and its two ends |
| `registry[id]` | the token registered under `id`; a token is named by the line of its call |
| `cancelled` | the tokens that were set |
| `workerPc`, `job`, `partial` | `worker_loop_with`; `partial` says the evaluation stopped early |
| `out` | the answers written, in order |

Lines are reduced to what the threads do with them: `call`, `cancel`,
`initialize`, `initialized`, `ping`, `list` (every request that the coordinator
answers itself once initialized), `invalid` (every message answered with an
error), `blank`, and the two ends `eof` and `error`. The actions of the
environment are the next line of the client, a panic of the evaluation and the
client closing standard output. A write never blocks in the model; a client
that stops reading without closing would stop the code at that write.

`McpRequests` says what one message may go through (`new`, `pending`,
`cancelled`, `committed`, `answered`, `dropped`). The property
`ImplementsRequests` instantiates it with a status computed from the registry,
the tokens, the worker and the output.

### BudgetedWalk

The search is one process; its environment sets the cancellation flag. Every
read of the flag in the code is a separate step here, so cancellation can fall
between any two edges and in the middle of the output. The queue, the records,
the budgets, the reasons and the report are those of the code; the sort of the
adjacent edges is `IsLeast`. The reference (`Within`, `Distance`, `Parents`,
`Nearest`) defines by layers what a complete report has to contain
(`CompleteIsExact`, `PartialIsSound`). `RecordsAreReal` and `CompleteIsClosed` say
the same without layers, one record and one edge at a time: every record is backed
by the graph and by the record of its `via`, and a complete report has accounted for
every edge of every vertex it may expand. They are lemmas on the way from the code
to the layers, and no run checks them.

### ChainScan and ChainDepth

The parser builds a chain of operators as deep as it is long, and recursion over
that tree can exhaust the stack; so the tokens are counted before anything is
parsed. `ChainScan` is that count: a token is the class the scan tells apart, a
group is a parenthesis, bracket, brace, type angle or CASE, and the loop that closes
several groups at once is one step per group. `ChainDepth` writes SQL token by token
and feeds it to the scan: the writer knows which word is a keyword and which a name,
where a CASE ends and how deep the tree is, and the scan has to find out.
`NeverUndercounts` compares the two at the end of each statement. `ScanIsSound`
is asked of tokens in any order, SQL or not: the loops find the groups they look
for, and nobody is refused who has fewer operators than the limit. The grammar
belongs to the parser library and is external.

### CacheFiles

Each process is one scan; its steps are the system calls on the shared
directories: read, create a temporary file, write, link or rename, remove. A
file has a key, whether it is whole, and whether it was flushed. The
environment crashes processes, fails a call, removes the key file, and stops the
machine, which loses what was not flushed and possibly the new names. Two
processes may have the same process id. All the reasons for which
`resolve_key` refuses (owner, mode, link, length, no home directory) are one
failing alternative, because they all lead to the same place: no key, a
warning, no cache.

### Commands

A command is its list of calls (`todo`): look where an output is going to be,
check the paths, read the input, look once more, stage a file, write it, sync
it, publish it, print. A name of the directory holds a file or a link; a file is
named by who wrote it and has a state up to `synced`. `destination()` is two
calls, `symlink_metadata` (`Look`, or `revisit` before the file is staged) and
`fs::canonicalize` (`Resolve`, `settle`), and what they find is kept in `target`,
the path that is compared and later replaced. `ScanSteps` stages and writes both
artefacts before the first rename, and publishes the document before the graph.
An import claims two names that must not exist and takes the document back if
the report cannot be published.
A query is the only kind with a signal handler: `CANCEL`, the notice on its own
thread, the second signal, and standard streams that may be full. The user of
the directory (`User`) removes and makes entries at any step, between the two
calls of `destination()` too, one call may fail, and any process may be killed.
The rollback of an import compares the file and then removes the name
(`import.rs:196`, `205`), in two steps as in the code.

`FilesAreFinal` says that a command writes no file that has a name and takes no
input away, with one exception that the code leaves open: an output of which
`symlink_metadata` saw a file and which is a link to the input when
`canonicalize` is called. The auxiliary variable `crossed` remembers those
outputs, and the property says that nothing else does it and that the input is
then replaced in one step, by the output in question. The documents do not know of
the exception (see below).

### CatalogRead

One action is one query of the PostgreSQL reader (the others have the same
sequence), one attempt to connect, one record of the stream. Tables come and go
between queries (`MaxDdl`), the schemas stay. What a user may not see is missing
from an answer without an error. A table that is dropped between its listing and
the query of its columns stays in a complete document without columns: the
property asks only for tables that were there all the time (`always`).
`streaming` stands for a probe, which writes a header before it knows anything
and the truth into the trailer. The stream may be cut after any record, or be
followed by a second run. Schemas, objects and records are kept in sets and
functions by name: each occurs once in a document, and no property depends on the
order in which they are read or sent, so that the model leaves it open.

### SqlFiles

Paths, contents and the routines of a document. The files are listed, then the
catalogue is read (anything may happen meanwhile), then they are read one after
another and attached, all or none. Each call that goes by a path is a step of
its own: the look at the root and its listing (`InspectRoot`, `Enter`), the look
at an entry and the listing of a directory (`Visit`, `Enter`), the look at a
file, its opening and the reading of its blocks (`Inspect`, `Open`, `Read`,
`Finish`). `At` resolves a path as the file system does, through the links to
directories above it; a link leads to what `Beyond` has there, outside the
directory. Somebody replaces one entry, a directory too, at any step, or writes
to a file in place while it is read. A file that is open stays what it was when
its path leads elsewhere. A second scan meets the queries of the first one,
which are replaced if they came from the same file.

`FilesAttached` says what of the code holds under all of this: every file once,
every body the whole text its path led to at one moment (or, of a file written
while it is read, a mixture of its texts), nothing lost that was there
throughout, and a text from outside only if the file or a directory above it
became a link during the scan. The comment of the code promises more;
`NothingForeign` is that promise and `sql_files_boundary` refutes it.

### ProbeRun

Go and Kotlin probes in one directory: names with links, files with the
permissions, writer and content, and for each probe where it is, what it decided
about its output and what it collected. A step is what another process can see
between: the look at the output, in Kotlin a second look, the comparison with
the SQLite file and its log, the connection, the opening of the output, each
query, the writing, the rename. The check that a temporary file can be made is
one step, because it removes the file again. `Wal` stands for `-wal` and `-shm`.
A schema takes one query, whose failure leaves it incomplete; what is buffered
is written at once. Usage statistics of Kotlin come before its mark and do not
count, and are left out. The application makes and removes its log at any time,
the user may make the output something else once, one thing may fail, and a probe
may be killed.

### Imports

The document, the manifests and logs that are still to come, the entry at hand,
and the files of the project, which anybody may change before they are read. All
checks of a header, an entry and the whole are guards in the order of the code,
and an entry that fails any of them refuses the import. Limits are scaled down
(two rows, two units for a body, three in all). Digests of SQL are its text.

### The graph: GraphStore to GraphAssembly

`GraphStore` is the graph with its ids, which are the escaped names from the
schema down, with a signature, the kind a colliding vertex was split off with,
and the source a merge put before it. Because escaping is injective, ids are
records. `DocumentGraph` has one operator for each kind of item, which
`GraphAssembly` applies in document order, one step for each: vertices, foreign
keys, indexes, triggers, packages, the dependencies the database reports. What
the parser finds in a body is given (`AddBody`). Then graphs are merged, the
file is written (`GraphFile`), somebody may damage it, it is read, and the
reports are made of what was read (`GraphReports`): lint, unused objects,
forbidden dependencies, differences, lineage and OpenLineage names. The
references (`KeyColumns`, `Found`, `DifferenceIsTrue`, `RulesAreTrue`) speak of
the documents, not of the graph. Patterns of rules are compared without the source
a merge puts before an id, as a glob with a leading `*` is; a literal `r.*`
matches nothing on a merged graph, which is told only with `--level`
(`main.rs:2150`).

### ObjectGraph, ShortestPaths, RootTraversal, StrongComponents, DeadObjects

Each search is a process whose state is that of the code (queue, distances,
parents, frames, counters), with a separate step for every read of the
cancellation flag where it has one, and is compared at its end with a definition
that does not search: walks of minimal length, a search from every single root,
mutual reachability, the greatest set of objects that nothing alive uses. In
`DeadObjects` the queue of the code is a set: an object is queued once at most, and
whichever is taken first, the result is the same.

### DocumentReview

The database changes, a review compares the last document with the new one, and
the team may accept what it saw as a baseline, waive one finding until a day, or
change the policy; then it changes again. `seen` remembers the differences
somebody has looked at. Hashes are injective, so that two findings have one
fingerprint only if the same facts went into it. The files of a review do not
change while it runs. The analysis of bodies is reduced to whether a definition
is understood (`Whole`).

### BodyReuse, ConstantText, QueryScopes, BodyEffects

`BodyReuse` scans a database up to three times; any entry may be missing when it
is looked up. The graph of the scan is compared with one made without a cache.
`WarmAgrees` asks for the same edges, origins and states and for all evidence
of the cold scan, and tolerates more: a routine of an earlier schema that writes
into a column of a view leaves its evidence on an edge that `capture`
(`cache.rs:352`) then stores with the view, and that comes back after the
routine has changed.

`ConstantText` first goes through a body as the extractor does and then runs it,
with every outcome of its conditions, calls and failures. Not modelled: GOTO,
`v = expr` in PL/pgSQL, `UPDATE .. SET @v = c`, `EXEC @rc = p @v OUTPUT`, FOREACH
and GET DIAGNOSTICS.

`QueryScopes` is the Binder of `scope.rs` with its scopes, CTEs, joins, USING,
derived tables and set operations; `BodyEffects` the two passes over the
statements of a view, routine or trigger. They know the collected relations
only. `QueryMeaning` and `BodyMeaning` know every relation and decide every
name as the database does; a text that it would refuse has no meaning, and the
initial states are the bodies that it accepts; the variable `does` holds what the
database does with the body under analysis. Texts are records whose names are
already folded.

## What is checked

Every run is complete: TLC explores every state of its instance (a run that
expects a violation stops there).

| Run | Bounds | Shows |
|---|---|---|
| `mcp_safety` | 2 ids, capacity 2, 4 lines | the registry is exact; cancelled calls stay silent; the impossible errors are impossible; shutdown drains; refinement of `McpRequests` |
| `mcp_live` | 2 ids, capacity 2, 3 lines, fairness | every request taken is resolved; a shutdown that started completes |
| `bounded_work` | search: 6 vertices and two unregistered ids, 66 graphs of up to 10 edges, limits below, at and above what is needed; scan: texts of up to a few operators and open groups over six alphabets | exactness, soundness, limits, cancellation; the scan never undercounts what it reads as SQL |
| `chain_scan_fields` | texts with fields that are called like keywords | a finding |
| `commands` | 11 pairs of command lines over three names; 1 change by the user, 1 failed call, 2 signals each, kills | nothing half published, honest exit status, published files final, the second signal ends a query |
| `snapshots` | collection: 2 schemas of one table, 2 changes, 1 fault; queries: 128 graphs of 5 vertices; review: 2 migrations out of 35, 7 plans, 1 waiver; assembly: 758 cases; imports: 165 sessions; probes: 184 directories and databases, one or two probes, 1 trouble, 1 move; SQL files: 7 trees, 6 documents, 2 scans, 1 change, files of up to 3 blocks | the fourteen properties of its modules |
| `review_baseline`, `sql_files_boundary` | as above | a finding each |
| `body_analysis` | dynamic SQL: 4 shapes over 11 statements, taken three at a time; effects: views and statements over a pool of several hundred queries, sequences over two temporary tables; reuse: 3 scans of 56 databases; files: 3 scans of which 2 share a process id, 1 removal, 1 failed call, 1 power loss, any number of crashes | folded commands are executed, limits reported, effects real and complete, a warm scan agrees; one key, whole files, temporary files kept apart |
| `body_reuse_names`, `constant_text_into`, `body_effects_names` | the cases that matter | a finding each |

**Why the bounds are enough.** A capacity of two gives a job channel of one, so
the registry, the job channel and the event channel can each be full while the
others are not, and all at once. Four lines suffice for initialization and three
calls or cancellations, one more than the capacity; with two ids one of them is
used again. The graphs of the searches (every subset of a web over a fixed
trunk) have cycles, diamonds, parallel edges of two kinds, a self edge, a
containment edge and an edge to an unregistered id; each limit takes values
below, at and above what is needed. Three scans admit a winner and two losers, of
which one shares the winner's process id. Two commands are enough for one to
read or replace what the other writes, and one change by the user for a path to
differ between its check and its use. Two schemas of one table let the first be
whole and the second not, in either order. Two migrations are a change that is
accepted and one that is not. In the assembly each hazard has a family of
documents of its own (names that collide, keys and indexes, packages,
dependencies, two databases, bodies) instead of one large product, because these
meet only through ids. Three statements over two variables are the shortest way
to copy a text, change its source and use the copy; two EXECUTEs behind them see
both. Three scans let a result be stored, invalidated and come back. Each alphabet
of the scan brings together what can be confused: CASE and names, the types of
casts, statements without semicolons, every kind of bracket. Two scans of a
directory are one that attaches and one that meets what is attached.

**What the bounds leave out.** Name resolution stops at three nested scopes;
a sequence of statements repeats none; at most one thing fails in a behaviour,
except crashes in `body_analysis` and kills in `commands`.

**Fairness.** `FairSpec` of `McpServer` assumes weak fairness of the coordinator,
of the worker and of the reader except for `ReadLine`. A thread that can run is
scheduled by the operating system, and each of these actions stays enabled until
its thread takes it: a channel with one consumer keeps its message, a mutex is
held for one step only. Nobody owes the server a line, so `ReadLine` has no
fairness. The evaluation of a tool call is assumed to end, by returning or by a
panic. `Commands` assumes weak fairness of the delivery of a signal that was
sent, for `SecondSignalEnds`; the command itself has none, since it may wait for
a full pipe for ever. Everything else is safety.

**Deadlock** is checked for the server. The other
configurations switch it off: a command exits, a search or a scan of a text, a
review or an analysis of a body ends, and nothing follows.

### Findings

Each is a run that expects a violation, with the sentence of the repository it
contradicts.

- `chain_scan_fields`: a field that is called `union`, `except`, `intersect` or
  `minus` is taken for a set operator, and the operator behind it is not counted
  (`parse_limits.rs:292`), against "it never undercounts" in `parse_limits.rs:83`.
- `review_baseline`: the definition of a table, and of a routine that changes its
  kind, goes into no fingerprint (`review.rs:356`); accepting one change of it
  accepts all later ones, against `REVIEW-ACTION.md:44`.
- `body_reuse_names`: a relation takes the id of a routine; a stored call of the
  routine becomes a call of the relation, against `cli/tests/body_cache.rs:1-3`.
- `constant_text_into`: `EXECUTE .. INTO v` does not invalidate what is known of
  `v`, against `README.md:319-322`.
- `sql_files_boundary`: the root, a directory or a file that becomes a link between
  the look at it and its listing or opening (`sql_files.rs:75`, `109` and `101`,
  `166` and `179`) is followed, against `sql_files.rs:112-113`.
- `body_effects_names`: a parameter that is called like a column of the target of
  an INSERT is taken for the column, against `RELEASE-NOTES.md:540-541`.

### Differences that no run shows

Found while reading; what the models try leaves them out, or the property named
excuses them.

- `ANALYSIS.md:616-618` says that at most 16 calls can be active or queued and that
  requests *beyond* this are refused as busy. The job channel holds 15, the
  sixteenth place is the call the worker holds; while the worker is between two
  jobs, the sixteenth call is refused (`mcp.rs:335`). It costs one retry.
- A foreign key to an uncollected table with the name of a routine leads to the
  routine (`graph.rs:524`), and the facts of the catalogue are then lost when the
  graph is read (`export/src/schema_metadata.rs:279`).
- An index without key columns that is called complete has the same effect.
- `lint` calls itself complete, and `--strict` exits with 0, for an incomplete
  catalogue in which no foreign key was collected (`ANALYSIS.md:215-219` says
  otherwise).
- A package that is itself a member of a package and comes after its own members
  is not found.
- A missing directory refuses an import even if the manifest has the compiled
  SQL; a missing file does not. A manifest without models can be imported again.
- `retain_dml_statement` (`parser/src/lib.rs:878`) keeps one of two equal
  statements although a temporary table changed in between.
- MERGE into a temporary table writes the columns of its source
  (`scope.rs:2519`); a table made by CREATE TABLE AS that is not collected is
  not followed where temporary tables are not allowed (`scope.rs:2643`); ON
  CONFLICT DO UPDATE is not looked at; CREATE TEMP TABLE IF NOT EXISTS counts as
  a replacement; a real table that shares its name with a later temporary one
  loses its edge (`lib.rs:4450`); the ON clause of a join sees earlier comma
  items; an alias of the output that is called like a column of the target is
  looked up in the target in GROUP BY and ORDER BY; `new` and `old` win over an
  alias; UPDATE with NATURAL JOIN reads every column.
- An output that becomes a link to the input between `symlink_metadata` and
  `canonicalize` (`output.rs:142`, `162`), when the file is staged, is replaced
  where the link leads, and the input is lost. `ANALYSIS.md:14-17` says that links
  are rejected and that an output must be distinct from every input. The run
  `commands` reaches these states; `FilesAreFinal` excuses them (`crossed`).
- Kotlin: between two looks at an output that is a link the application may
  remove its log, and the probe then writes the log in place (`OutputFile.kt:63`;
  `Misled` in `ProbesAreSafe`). A failure of `getSchemas` is swallowed
  (`Extractor.kt:449`; `Due`). A failure of the JSON output after the connection
  was closed ends with status 1, not 2 (`Main.kt:110`). A loop of links counts as
  a link to nothing and is refused for SQLite only.

## What is proved

The theorems hold for every value of the constants that satisfies the assumption
named in the module, and rest on nothing else. Each module of proofs has one
inductive invariant (theorem `Inductive`, or as named below); the properties follow
from it in a step.

| Module | Assumption | Properties of a run it states | Also |
|---|---|---|---|
| `McpServerProofs` | `ServerAssumption`: at least two places | all five of `mcp_safety`: `RegistryMatchesWork`, `CancelledStaysSilent`, `NothingUnexpected`, `DrainedAtExit`, `ImplementsRequests` | types |
| `BudgetedWalkProofs` | `WalkAssumption`: finitely many ids | `CompleteIsExact`, `PartialIsSound`, `LimitsBite` | types, budgets, `RecordsAreReal`, `CompleteIsClosed`, prompt cancellation |
| `CacheFilesProofs` | `CacheAssumption` | `PublishedKeyWhole`, `OneKey`, `EntriesWhole`, `TempsBelong`, `RaceKeepsCache` | types, the key stays |
| `CommandsProofs` | `CommandsAssumption`, `FileAssumption` (files differ from the marks) | `NothingHalfPublished`, `StatusIsHonest`, `FilesAreFinal` | types |
| `CatalogReadProofs` | `CatalogReadAssumption` | `CompleteMeansCollected`, `AcceptedIsReal`, `PlaintextIsReported` | types |
| `DeadObjectsProofs` | `DeadAssumption`: finitely many ids | `CandidatesExact` | types |
| `ChainScanProofs` | `ChainScanAssumption`: what texts are | `ScanIsSound`; `NeverUndercounts` where UNION, CASE and ARRAY are no names | `LoopsEnd`, `RefusedForCause` |
| `ImportsProofs` | `ImportsAssumption`: a model has at most one path and one text, a row of a log has its text | `ImportsAreExact` | the invariant behind it |

**McpServer.** The registry equation alone is not inductive, because it says nothing
about *which* call a step may touch. The invariant `IInv` adds that line numbers only
grow (what is in the event channel or in the reader's hand is newer than what the
coordinator holds, and that is newer than every queued job), so that tokens never
repeat; that what the worker holds is older than what is queued; that calls in the
output are in no other place; and which flags each position of a thread implies
(after the end of input the job channel is closed, a dead worker has an empty
channel, a completion event is in the channel or will be posted).

The refinement (`ServerImplementsRequests`) maps every step to one step of one
request of `McpRequests`, or to none. It needs `RInv` beyond `IInv`
(`InductiveForRequests`): the line in the event channel is the one after the line in
hand, and no line is skipped (`OrderInv`); a call the worker skips was cancelled, and
one it is about to answer has not been answered (`DecisionInv`); the registry, which
is what the abstract bound counts, never holds more than `MaxOutstanding` calls
(`BoundInv`); and only requests are answered by the coordinator (`ReplyInv`).
`StatusCases` computes the status once for each place a request can be in, and each
action is then compared by places.

**BudgetedWalk.** `CompleteIsClosed` speaks of the last state only; its inductive
form is that the queue is ordered by distance and spans at most two levels
(`QueueOrdered`, `PopFrontier`, `ScanFrontier`), so that a vertex met again is never
recorded too far away, and that every edge of a vertex that has left the queue is
accounted for or still pending (`ExpandedOK`). An empty queue then leaves nothing
out, and the flags that mark a limited or cancelled search keep it from being called
complete. That the output is never longer than asked for counts ranks.

From there to the reference: the layers are defined by recursion over the depth, and
the induction they need is `InductionTo` of that module, which speaks of a *set* of numbers instead
of a property and can therefore be cited. When a vertex of level d is expanded,
everything up to level d is recorded (`NearRecorded`), so that no record is further
away than the graph has it; `RecordsAreReal` says that it is not nearer. That no
vertex is expanded twice (`OnceOK`), that the budget counts distinct edges
(`ExaminedOK`) and what each reason to stop stands for (`ReasonsOK`) gives
`LimitsBite`.

**CacheFiles.** None of the properties is inductive. That a loser ends up with the
winner's key needs to know what each process remembers of its link (`Raced`); that a
published key is whole needs the temporary file to be flushed and to be the
process's own when it is linked (`Owns`), which in turn needs that two processes
with one id never hold one name; and that only another process with the same id can
cost a scan its cache needs to know who left which file behind (`NamesFit`,
`Leftovers`). The lemma `Locality` says that a step of a process changes nothing of
the others and no key file that is in place, so each action is checked for the
process that takes it.

**Commands.** What a command still has to do is a sequence of steps. The invariant
speaks of the set of steps that are left (`Left`), of their order (`Ordered`: a file
is created, filled, synced, published and reported in this order, and the document
before the graph) and of what makes a remaining step useful (`Whole`); taking the
first step off preserves all three. Each file of a command moves along with it: no
name before its publish step, never touched after it. No other command can give a
name to this command's file, which is all a command needs to know of the others.
For `FilesAreFinal` the invariant also knows of each output where it stands between
the two calls of `destination()`: its target is the name that was given, unless the
output is `crossed`, and one that is to be published has a target (`TargetOK`).

**CatalogRead.** `Watched`: the tables that were there all the time are there now.
`Connected`: how the connection was opened follows from the setting. `Read`: a
document that is called complete has those tables of each schema that was read.
`Visited` and `Settled`: what has been asked for is there or marked. `Underway`: what
has left the text is what the reader has, all but the records still to come.
`Accepted`: an accepted stream was whole, or is marked.

**DeadObjects.** While candidates are spread, the counter of an object is the number
of its dependents not yet accounted for (`Counted`), dependents of candidates are
candidates and no candidate is on a cycle (`Grounded`). When nothing is left to
spread, whoever is no candidate has a dependent that is none; in a finite set in
which that holds of every member, some member is on a cycle (`CycleIn`, which takes
one with the fewest predecessors), so nobody is left without a reason to live
(`SpreadIsFull`). While candidates are taken back, the living stay between what must
live and what is closed under use (`Rescued`); at the end the two coincide.

**ChainScan.** `Stacked` says that the counters of open groups agree with the stack,
that only the first group is the statement, and that the operators of all open
groups together are at most those that were counted. The sum over the stack is a
witness: a sequence of prefix sums, which a step extends, shortens or raises at the
end. From it no chain is longer than the operators of its statement.

That none is shorter than the tree is deep (`NoUndercount`) is the harder half: the
property compares finished statements, and until then the scan's groups are not the
writer's expressions. The scan may hold a CASE open that the parser read as a
column, and at an END it may close that one instead of the right one. `TreeInv`
therefore matches each open expression with a group of its kind (`Matched`); every
group in between is a CASE that the scan no longer trusts, whose segments add up. A
tally, again a witness, counts up to each group operators of segments that go on
(`Tally`), and what an expression owes was counted before the next one began, while
what is beside it in a list is no deeper than some group above it is high
(`Measured`). While a loop closes groups this is stated for the group at which it
will stop (`Target`). `Lex` ties what the scan remembers of the last tokens to where
the writer is, `Spare` says where one operator was counted in advance, and `Shaped`
orders the distrusted CASEs. A few lemmas about opening, leaving and changing the
innermost expression (`Pushes`, `Pops`, `TopChanges`, `CaseEnds`, `AnglesEnd`,
`LooseEnds`, `Closes`) carry the many cases of a word. TLC found the invariant to
hold of the run's instance before it was proved. The hypothesis that UNION, CASE and
ARRAY are no names is needed: the run `chain_scan_fields` refutes the property where
a field is called UNION.

**Imports.** The property speaks of the finished imports only. While one runs
(`Underway`), the document it has read is the one that is stored, what is left is
the end of the input, and the queries taken so far answer exactly the models or
rows before that (`TakenOK`): one query for each, with its schema and its text,
which for a file that is named is a text the file had while the import ran
(`held`), and no two with one id or one file. Two lemmas carry the end of an
import. The names of queries are reserved, so that queries repeat no identity of
a document they are added to and nothing new is noted when it is read again
(`SameNotes`); and what is written is read as it was meant (`ReadAsMeant`), since a
document that was read has what reading adds. `ApplyExact` then compares the
written document with what `Exact` asks, part by part. That `ImportsAreExact`
covers sequences of imports needs no more than that a finished import is not
touched again (`HistoryGrows`).

**Only model-checked.** Liveness under fairness and `ENABLED` are out of the
prover's reach, so `RequestsResolved`, `ServerStops` and `SecondSignalEnds` rest on
TLC. So do the properties of `QueryScopes` and `BodyEffects`, whose operators are
recursive over nested queries. `ShortestPaths`, `RootTraversal`,
`StrongComponents`, `ProbeRun`, `SqlFiles`, `DocumentReview`, `BodyReuse` and
`ConstantText` are within reach and have no proofs yet. `GraphAssembly` is a long
list of conversions against definitions, and TLC evaluates those better than a proof
would state them. A few proved results (`BudgetsKept`, `PromptCancel`,
`RealRecords`, `ClosedReport`, `KeyKept`) are checked by no run.

## The plan

What is left, in this order.

1. Proofs for `ProbeRun`: `OldOrWhole` and `DoneMeansWritten` for any number of
   probes and names.
2. Proofs for `SqlFiles`: all or nothing, for any number of files.
3. `PathsExact` and `RootsExact`, on the lemmas about levels in
   `BudgetedWalkProofs`; `ComponentsExact`, whose invariant is that of the explicit
   stack.
4. `NothingSlipsThrough`: that what is suppressed has been seen.
5. The MySQL and SQLite readers, whose queries differ in what failure means.

## Not modelled

Grammar and lexing (the sqlparser crate) and the splitting of procedural bodies;
the wording of every report and the HTML, Mermaid and SARIF exporters; the rows of
the catalogue queries of sources and probes, package slicing and the parsing of
URLs; argument parsing; text search, hotspots, layers and statistics; bridge
facts; window functions, calls through `search_path`, three-part names, semi joins
and options of wildcards in the parser; and the scripts. They are sequential
conversions whose errors a unit test reaches as well as a model would. The
directory checks of `trust.rs` and the bounded reading of `imports.rs` depend on
file modes and owners that nothing in the program changes; pruning of the cache
and the signature of an entry are left out of `CacheFiles`.
