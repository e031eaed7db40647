------------------------------ MODULE Snapshots ------------------------------
(***************************************************************************)
(* What is done with a snapshot of a database: it is collected by the      *)
(* program itself (CatalogRead) or by probes (ProbeRun), SQL from files    *)
(* and from outside is attached to it (SqlFiles, Imports), its graph is    *)
(* built, merged, written and reported on (GraphAssembly) and answers      *)
(* questions (ShortestPaths, RootTraversal, StrongComponents,              *)
(* DeadObjects), and it is compared with a later one (DocumentReview).     *)
(* Each has its own module.  A behaviour does one of these and leaves the  *)
(* variables of the others alone.  (The neighbour search is in             *)
(* BoundedWork.)                                                           *)
(***************************************************************************)
EXTENDS CatalogRead, DeadObjects, Imports

CONSTANTS PathQueries, RootQueries, NoRoot, MaxRoots,
          Start, Migrations(_), Plans, Whole, Days, MaxMigrations, MaxWaivers,
          Cases, Guess, Rules, Naming, Parts,
          Trials, Hops, MaxTroubles, MaxMoves,
          Sites, QueryName, Trees, Beyond, Contents, NotText, Askable,
          Documents, MaxBytes, MaxScans, MaxChanges

VARIABLES
    work,
    cancel, pc, queue, current, examined, reasons,
    distance, parents, targetDepth, tries, paths, evidence,
    seen, arcs, rootEdges, bits, delta, steps, firstOther, reached,
    uncollected, complete,
    index, low, stack, frames, components, cycles,
    before, after, plan, run, interrupted, baseline, waivers, approved,
    migrations,
    case, documents, tasks, local, locals, whole, file, damaged, report, stage,
    trial, directory, disk, probing, troubles, moves,
    tree, document, step, asked, entries, files, opened, routines, outcome,
    scans, changes, earlier, witnessed, mixed

Paths == INSTANCE ShortestPaths

Roots == INSTANCE RootTraversal

Cycles == INSTANCE StrongComponents

Review == INSTANCE DocumentReview

Assembly == INSTANCE GraphAssembly

Probes == INSTANCE ProbeRun

Local == INSTANCE SqlFiles

ASSUME SnapshotsAssumption ==
    /\ Paths!PathQueriesAssumption
    /\ Roots!RootQueriesAssumption
    /\ Review!DocumentReviewAssumption
    /\ Assembly!GraphAssemblyAssumption
    /\ Probes!ProbeRunAssumption
    /\ Local!SqlFilesAssumption

searchVars == <<query, cancel, queue, current, pending, examined, reasons>>

pathVars == <<distance, parents, targetDepth, tries, found, paths, evidence>>

rootVars == <<seen, arcs, rootEdges, bits, delta, steps, firstOther, reached,
              uncollected, complete>>

cycleVars == <<index, low, stack, frames, components, cycles>>

queryVars == <<graph, pc, searchVars, pathVars, rootVars, cycleVars, deadVars>>

reviewVars == <<before, after, plan, run, interrupted, baseline, waivers,
                approved, migrations>>

assemblyVars == <<case, documents, tasks, local, locals, whole, file, damaged,
                  report, stage>>

probeVars == <<trial, directory, disk, probing, troubles, moves>>

fileVars == <<tree, document, step, asked, entries, files, opened, routines,
              outcome, scans, changes, earlier, witnessed, mixed>>

outsideVars == <<importVars, probeVars, fileVars>>

vars == <<work, collectVars, queryVars, reviewVars, assemblyVars, outsideVars>>

\* The variables of what is not done stay empty.
NoCollection ==
    /\ setting = << >> /\ db = << >> /\ transport = "none" /\ phase = "none"
    /\ todo = << >> /\ doc = << >> /\ text = << >> /\ got = << >>
    /\ always = << >> /\ ever = << >> /\ ddl = 0 /\ faults = 0

NoPaths ==
    /\ distance = << >> /\ parents = << >> /\ targetDepth = << >>
    /\ tries = << >> /\ paths = << >> /\ evidence = << >>

NoRoots ==
    /\ seen = << >> /\ arcs = << >> /\ rootEdges = << >> /\ bits = << >>
    /\ delta = << >> /\ steps = << >> /\ firstOther = << >> /\ reached = << >>
    /\ uncollected = << >> /\ complete = << >>

NoCycles ==
    /\ index = << >> /\ low = << >> /\ stack = << >> /\ frames = << >>
    /\ components = << >> /\ cycles = << >>

NoDead ==
    /\ pass = "none" /\ waiting = {} /\ protected = {}
    /\ remaining = << >> /\ dead = << >>

\* Counting cycles and dead objects cannot be cancelled.
NoSearch ==
    /\ cancel = FALSE /\ current = 0 /\ examined = 0 /\ reasons = {}

NoQuery ==
    /\ NoPaths /\ NoRoots /\ NoCycles /\ NoDead /\ NoSearch
    /\ graph = << >> /\ pc = << >> /\ query = << >> /\ queue = << >>

NoReview ==
    /\ before = << >> /\ after = << >> /\ plan = << >> /\ run = << >>
    /\ interrupted = FALSE /\ baseline = {} /\ waivers = {} /\ approved = {}
    /\ migrations = 0

NoAssembly ==
    /\ case = << >> /\ documents = << >> /\ tasks = << >> /\ local = << >>
    /\ locals = << >> /\ whole = << >> /\ file = << >> /\ damaged = FALSE
    /\ report = << >> /\ stage = << >>

NoImport ==
    /\ stored = << >> /\ inputs = << >> /\ project = << >>
    /\ importing = {} /\ taken = {} /\ held = {} /\ edits = 0
    /\ history = << >>

NoProbe ==
    /\ trial = << >> /\ directory = << >> /\ disk = << >>
    /\ probing = << >> /\ troubles = 0 /\ moves = 0

NoFiles ==
    /\ tree = << >> /\ document = << >> /\ step = << >> /\ asked = << >>
    /\ entries = << >> /\ files = << >> /\ opened = << >>
    /\ routines = << >> /\ mixed = << >>
    /\ outcome = << >> /\ scans = 0 /\ changes = 0 /\ earlier = << >>
    /\ witnessed = << >>

NoOutside == NoImport /\ NoProbe /\ NoFiles

Init ==
    \/ /\ work = "collect" /\ CollectInit
       /\ NoQuery /\ NoReview /\ NoAssembly /\ NoOutside
    \/ /\ work = "paths" /\ Paths!Init
       /\ NoCollection /\ NoRoots /\ NoCycles /\ NoDead /\ NoReview
       /\ NoAssembly /\ NoOutside
    \/ /\ work = "roots" /\ Roots!Init
       /\ found = << >>
       /\ NoCollection /\ NoPaths /\ NoCycles /\ NoDead /\ NoReview
       /\ NoAssembly /\ NoOutside
    \/ /\ work = "cycles" /\ Cycles!Init
       /\ pending = {} /\ found = << >> /\ query = << >> /\ queue = << >>
       /\ NoCollection /\ NoPaths /\ NoRoots /\ NoDead /\ NoSearch /\ NoReview
       /\ NoAssembly /\ NoOutside
    \/ /\ work = "dead" /\ DeadInit
       /\ pc = << >> /\ queue = << >> /\ pending = {} /\ found = << >>
       /\ NoCollection /\ NoPaths /\ NoRoots /\ NoCycles /\ NoSearch
       /\ NoReview /\ NoAssembly /\ NoOutside
    \/ /\ work = "review" /\ Review!Init
       /\ pending = {} /\ found = << >>
       /\ NoCollection /\ NoQuery /\ NoAssembly /\ NoOutside
    \/ /\ work = "assemble" /\ Assembly!Init
       /\ pending = {} /\ found = << >>
       /\ NoCollection /\ NoQuery /\ NoReview /\ NoOutside
    \/ /\ work = "import" /\ ImportInit
       /\ pending = {} /\ found = << >>
       /\ NoCollection /\ NoQuery /\ NoReview /\ NoAssembly
       /\ NoProbe /\ NoFiles
    \/ /\ work = "probe" /\ Probes!Init
       /\ pending = {} /\ found = << >>
       /\ NoCollection /\ NoQuery /\ NoReview /\ NoAssembly
       /\ NoImport /\ NoFiles
    \/ /\ work = "files" /\ Local!Init
       /\ pending = {} /\ found = << >>
       /\ NoCollection /\ NoQuery /\ NoReview /\ NoAssembly
       /\ NoImport /\ NoProbe

OtherQuery ==
    UNCHANGED <<work, setting, db, transport, phase, todo, doc, text, got,
                always, ever, ddl, faults, reviewVars, assemblyVars,
                outsideVars>>

Next ==
    \/ /\ work = "collect" /\ CollectNext
       /\ UNCHANGED <<work, graph, pc, query, cancel, queue, current, examined,
                      reasons, distance, parents, targetDepth, tries, paths,
                      evidence, rootVars, cycleVars, deadVars, reviewVars,
                      assemblyVars, outsideVars>>
    \/ /\ work = "paths" /\ Paths!Next
       /\ OtherQuery /\ UNCHANGED <<rootVars, cycleVars, deadVars>>
    \/ /\ work = "roots" /\ Roots!Next
       /\ OtherQuery /\ UNCHANGED <<pathVars, cycleVars, deadVars>>
    \/ /\ work = "cycles" /\ Cycles!Next
       /\ OtherQuery /\ UNCHANGED <<searchVars, pathVars, rootVars, deadVars>>
    \/ /\ work = "dead" /\ DeadNext
       /\ OtherQuery
       /\ UNCHANGED <<pc, cancel, queue, current, pending, examined, reasons,
                      pathVars, rootVars, cycleVars>>
    \/ /\ work = "review" /\ Review!Next
       /\ UNCHANGED <<work, collectVars, queryVars, assemblyVars, outsideVars>>
    \/ /\ work = "assemble" /\ Assembly!Next
       /\ UNCHANGED <<work, collectVars, queryVars, reviewVars, outsideVars>>
    \/ /\ work = "import" /\ ImportNext
       /\ UNCHANGED <<work, collectVars, queryVars, reviewVars, assemblyVars,
                      probeVars, fileVars>>
    \/ /\ work = "probe" /\ Probes!Next
       /\ UNCHANGED <<work, collectVars, queryVars, reviewVars, assemblyVars,
                      importVars, fileVars>>
    \/ /\ work = "files" /\ Local!Next
       /\ UNCHANGED <<work, collectVars, queryVars, reviewVars, assemblyVars,
                      importVars, probeVars>>

Spec == Init /\ [][Next]_vars

-----------------------------------------------------------------------------
(* The properties of the modules, where they are explained; those of the   *)
(* collection are CatalogRead's, that of the dead objects is DeadObjects', *)
(* that of the imports is Imports'.                                        *)

\* No shortest path is missing from a report without a reason for truncation,
\* and none is wrong (paths.rs:96-228).
PathsExact == work = "paths" => Paths!PathsExact

\* Every root that reaches an object within the depth is named, at the right
\* distance, also behind another root (traversal.rs:107-139, 317-435).
RootsExact == work = "roots" => Roots!RootsExact

\* The components are the classes of mutual reachability, and the cycles those
\* that depend on themselves (core/src/lib.rs:622-700).
ComponentsExact == work = "cycles" => Cycles!ComponentsExact

\* The review gate lets nothing pass that nobody has seen
\* (cli/review.rs:537-762).
NothingSlipsThrough == work = "review" => Review!NothingSlipsThrough

\* The graph says what the documents say, whatever their names collide with
\* and in whatever order they come (source/graph.rs, dependencies.rs, merge.rs).
GraphIsTheDocuments == work = "assemble" => Assembly!GraphIsTheDocuments

\* What is written is read back whole, and a file somebody changed is read
\* without what it no longer supports (export/src/lib.rs:244-390).
ReadBackWhole == work = "assemble" => Assembly!ReadBackWhole

\* The lint, the unused objects, the rules and the differences are true of the
\* documents; a derived value is put down to the bodies that make it and to no
\* other, and no two databases get one name (schema_lint.rs, unused.rs,
\* analysis/src/lib.rs:632-837, lineage.rs, openlineage.rs).
ReportsAreHonest ==
    work = "assemble" =>
        Assembly!ReportsAreHonest /\ Assembly!LineageIsAttributed

\* A probe never writes to the database it reads, leaves the output as it was
\* or whole, and says that a document is complete only if it is (output.go,
\* stream.go:76-112, OutputFile.kt, Extractor.kt:144-210).
ProbesAreSafe == work = "probe" => Probes!ProbesAreSafe

\* The SQL files of a directory are attached once and whole, or not at all
\* (sql_files.rs).
FilesAttached == work = "files" => Local!FilesAttached

\* What a baseline suppresses is what it was written for, as a document
\* promises (REVIEW-ACTION.md:44).
AcceptedIsTheSame == work = "review" => Review!AcceptedIsTheSame

\* No file from outside the directory is attached, as a comment says
\* (sql_files.rs:112-113).
NothingForeign == work = "files" => Local!NothingForeign
=============================================================================
