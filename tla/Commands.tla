------------------------------ MODULE Commands ------------------------------
(***************************************************************************)
(* schemagraph commands that run at the same time in one directory: how a  *)
(* command checks its paths, prepares its files, shows them under their    *)
(* names and ends (src/engine/cli/src/main.rs: main, scan, facts,          *)
(* openlineage, query, impact, path_report; output.rs; import.rs;          *)
(* cancellation.rs).                                                       *)
(*                                                                         *)
(* A scan (and merge, facts, openlineage, with one file each) writes every *)
(* file in full under a temporary name, syncs it and then replaces the     *)
(* entry of the output, the document before the graph.  An import does the *)
(* same with two names that must not exist, and takes the document back    *)
(* when the report cannot be published.  A query prints its report and is  *)
(* the only kind that handles Ctrl+C: the others die of it at once.        *)
(*                                                                         *)
(* destination() asks twice about an output, what is there and, if it is a *)
(* file, for its canonical path; the file is later renamed to that path.   *)
(* The user of the directory removes outputs, puts files there, and makes  *)
(* them links to the input, at any moment, between the two calls too.      *)
(***************************************************************************)
EXTENDS Integers, Sequences

CONSTANTS
    Proc,         \* commands, each run once
    Name,         \* the names in the directory; "in" is an input
    Scenario,     \* the command lines to be tried: functions on Proc
    User,         \* stands for whoever else writes to the directory
    NoFile, Link, \* a name may hold nothing, or a symbolic link to "in"
    NoName,       \* an output that was not asked for, or is "-"
    MaxMoves,     \* bound: changes the user makes
    MaxFaults,    \* bound: calls that fail
    MaxSignals    \* bound: Ctrl+C, for each command

Artifact == {"doc", "out"}

Kind == {"scan", "import", "query"}

Command == [kind : Kind, doc : Name \cup {NoName}, out : Name \cup {NoName}]

ASSUME CommandsAssumption ==
    /\ "in" \in Name /\ NoName \notin Name
    /\ User \notin Proc
    /\ Scenario \subseteq [Proc -> Command]
    \* --output and --report of an import are required, and a query has
    \* neither a document nor a report in a file.
    /\ \A s \in Scenario : \A p \in Proc :
          /\ s[p].kind = "import" => s[p].doc # NoName /\ s[p].out # NoName
          /\ s[p].kind = "query" => s[p].doc = NoName
    /\ MaxMoves \in Nat /\ MaxFaults \in Nat /\ MaxSignals \in Nat

\* A file is named after who wrote it: commands write one for each output.
File == (Proc \X Artifact) \cup ({User} \X Name)

ASSUME FileAssumption ==
    NoFile \notin File /\ Link \notin File /\ NoFile # Link

\* In the place of an exit code: still running, ended by a signal.
Alive == -1
Killed == -2

VARIABLES
    cmd,        \* the command lines
    entry,      \* what each name of the directory holds
    file,       \* how far each file is: "none", "empty", "written", "synced"
    temps,      \* the files that (also) have a temporary name
    todo,       \* what each command has left to do
    target,     \* where each output is going to be; NoName: not known (yet)
    status,     \* what run() returns
    code,       \* how each command ended
    published,  \* which of its files each command has shown
    report,     \* what a query found out: "none", "full", "partial"
    signal,     \* Ctrl+C: [sent, pending, requested, notice] of each command
    moves, faults,
    crossed     \* auxiliary: the outputs that the user made a link between the
                \* two calls that tell where they are going to be

vars == <<cmd, entry, file, temps, todo, target, status, code, published,
          report, signal, moves, faults, crossed>>

places == <<target, crossed>>

disk == <<entry, file, temps>>

Signal == [sent : Nat, pending : Nat, requested : BOOLEAN,
           notice : {"none", "writing", "done"}]

-----------------------------------------------------------------------------
(* What each kind of command does, one step at a time. *)

Op == {"look", "resolve", "check", "read", "revisit", "settle", "create",
       "fill", "sync", "publish", "print", "owned", "remove", "install", "walk"}

Step == [op : Op, of : Artifact]

Do(op, a) == [op |-> op, of |-> a]

\* validate_paths and StagedOutput::new both begin with destination.
LookSteps(a) == <<Do("look", a), Do("resolve", a)>>

StageSteps(a) ==
    <<Do("revisit", a), Do("settle", a), Do("create", a), Do("fill", a),
      Do("sync", a)>>

\* A file that was not asked for is neither checked nor staged.
IfAsked(n, steps) == IF n = NoName THEN <<>> ELSE steps

\* Not in the code: the graph is shown before the document.
ShowSteps_GraphFirst(c) ==
    <<Do(IF c.out = NoName THEN "print" ELSE "publish", "out")>>
    \o IfAsked(c.doc, <<Do("publish", "doc")>>)

\* A graph that goes to "-" is printed.
ShowSteps(c) ==
    IfAsked(c.doc, <<Do("publish", "doc")>>)
    \o <<Do(IF c.out = NoName THEN "print" ELSE "publish", "out")>>

ScanSteps(c) ==
    IfAsked(c.out, LookSteps("out")) \o IfAsked(c.doc, LookSteps("doc"))
    \o <<Do("check", "doc"), Do("read", "doc")>>
    \o IfAsked(c.doc, StageSteps("doc")) \o IfAsked(c.out, StageSteps("out"))
    \o ShowSteps(c)

ImportSteps ==
    <<Do("look", "doc"), Do("look", "out"), Do("check", "doc"),
      Do("read", "doc"), Do("create", "doc"), Do("create", "out"),
      Do("fill", "doc"), Do("sync", "doc"), Do("fill", "out"),
      Do("sync", "out"),
      Do("publish", "doc"), Do("publish", "out")>>

QuerySteps ==
    <<Do("install", "out"), Do("read", "out"), Do("walk", "out"),
      Do("print", "out")>>

\* remove_owned_output: look at the name, then remove the name.
RollbackSteps == <<Do("owned", "doc"), Do("remove", "doc")>>

\* The steps that are left.
Rest(s) == {s[i] : i \in DOMAIN s}

Left(p) == Rest(todo[p])

Path(p, a) == IF a = "doc" THEN cmd[p].doc ELSE cmd[p].out

Steps(c) ==
    CASE c.kind = "scan"   -> ScanSteps(c)
      [] c.kind = "import" -> ImportSteps
      [] c.kind = "query"  -> QuerySteps

TypeOK ==
    /\ cmd \in Scenario
    /\ entry \in [Name -> File \cup {NoFile, Link}]
    /\ file \in [File -> {"none", "empty", "written", "synced"}]
    /\ temps \subseteq Proc \X Artifact
    /\ todo \in [Proc -> Seq(Step)]
    /\ target \in [Proc -> [Artifact -> Name \cup {NoName}]]
    /\ status \in [Proc -> {0, 1, 2, 64}]
    /\ code \in [Proc -> {Alive, Killed, 0, 1, 2, 64, 130}]
    /\ published \in [Proc -> SUBSET Artifact]
    /\ report \in [Proc -> {"none", "full", "partial", "notFound"}]
    /\ signal \in [Proc -> Signal]
    /\ moves \in Nat /\ faults \in Nat
    /\ crossed \subseteq Proc \X Artifact

NoSignal == [sent |-> 0, pending |-> 0, requested |-> FALSE,
             notice |-> "none"]

Init ==
    /\ cmd \in Scenario
    /\ \E there \in SUBSET (Name \ {"in"}) :
          entry = [n \in Name |->
                     IF n = "in" \/ n \in there THEN <<User, n>> ELSE NoFile]
    /\ file = [f \in File |-> IF f[1] = User THEN "synced" ELSE "none"]
    /\ temps = {}
    /\ todo = [p \in Proc |-> Steps(cmd[p])]
    /\ target = [p \in Proc |-> [a \in Artifact |-> NoName]]
    /\ status = [p \in Proc |-> 0]
    /\ code = [p \in Proc |-> Alive]
    /\ published = [p \in Proc |-> {}]
    /\ report = [p \in Proc |-> "none"]
    /\ signal = [p \in Proc |-> NoSignal]
    /\ moves = 0 /\ faults = 0
    /\ crossed = {}

-----------------------------------------------------------------------------
(* Checking the paths. *)

\* The file that a name leads to, and the path of that file.
Inode(n) == IF entry[n] = Link THEN entry["in"] ELSE entry[n]

Canonical(n) == IF entry[n] = Link THEN "in" ELSE n

\* Two paths of one file: they are equal, or the inodes are.
Same(n, m) == n = m \/ (Inode(n) \in File /\ Inode(n) = Inode(m))

\* symlink_metadata: the output of an import must not be there, that of the
\* others must be a regular file if it is.
Acceptable(p, n) ==
    IF cmd[p].kind = "import" THEN entry[n] = NoFile ELSE entry[n] # Link

\* validate_paths.
ScanPathsGood(p) ==
    /\ \A a \in Artifact : Path(p, a) # NoName => ~ Same(target[p][a], "in")
    /\ cmd[p].doc # NoName /\ cmd[p].out # NoName
          => ~ Same(target[p]["doc"], target[p]["out"])

\* run() of import.rs.
ImportPathsGood(p) ==
    /\ \A a \in Artifact : target[p][a] # "in"
    /\ target[p]["doc"] # target[p]["out"]

PathsGood(p) ==
    IF cmd[p].kind = "import" THEN ImportPathsGood(p) ELSE ScanPathsGood(p)

-----------------------------------------------------------------------------
(* The steps. *)

Next1(p, op) ==
    /\ code[p] = Alive /\ todo[p] # <<>>
    /\ Head(todo[p]).op = op

The(p) == Head(todo[p]).of

Mine(p, a) == <<p, a>>

Advance(p) == todo' = [todo EXCEPT ![p] = Tail(@)]

\* An error is returned: what run() still owns is dropped, and NamedTempFile
\* removes its file.
GiveUp(p) ==
    /\ todo' = [todo EXCEPT ![p] = <<>>]
    /\ status' = [status EXCEPT ![p] = 2]
    /\ temps' = {f \in temps : f[1] # p}

\* destination, the first call (the only one for an import): what is not there
\* goes where the path says.
Look(p) ==
    /\ Next1(p, "look") \/ Next1(p, "revisit")
    /\ LET n == Path(p, The(p))
       IN  IF Acceptable(p, n)
           THEN /\ Advance(p) /\ UNCHANGED <<temps, status>>
                /\ target' = [target EXCEPT ![p][The(p)] =
                                 IF entry[n] = NoFile THEN n ELSE NoName]
           ELSE GiveUp(p) /\ UNCHANGED target
    /\ UNCHANGED <<cmd, entry, file, code, published, report, signal, moves,
                   faults, crossed>>

\* destination, the second call: fs::canonicalize of what was there.
Resolve(p) ==
    /\ Next1(p, "resolve") \/ Next1(p, "settle")
    /\ LET n == Path(p, The(p))
       IN  IF target[p][The(p)] = NoName /\ entry[n] = NoFile
           THEN GiveUp(p) /\ UNCHANGED target
           ELSE /\ Advance(p) /\ UNCHANGED <<temps, status>>
                /\ target' = [target EXCEPT ![p][The(p)] =
                                 IF @ = NoName THEN Canonical(n) ELSE @]
    /\ UNCHANGED <<cmd, entry, file, code, published, report, signal, moves,
                   faults, crossed>>

\* The paths are compared, all at once: of what is seen only the verdict is
\* kept.
Check(p) ==
    /\ Next1(p, "check")
    /\ IF PathsGood(p)
       THEN Advance(p) /\ UNCHANGED <<temps, status>>
       ELSE GiveUp(p)
    /\ UNCHANGED <<cmd, entry, file, code, published, report, signal, moves,
                   faults, places>>

\* The catalogue, the document or the graph is read, and everything is
\* computed from it.
Read(p) ==
    /\ Next1(p, "read")
    /\ Advance(p)
    /\ UNCHANGED <<cmd, disk, status, code, published, report, signal, moves,
                   faults, places>>

\* NamedTempFile::new_in.
CreateTemp(p) ==
    /\ Next1(p, "create")
    /\ Advance(p)
    /\ file' = [file EXCEPT ![Mine(p, The(p))] = "empty"]
    /\ temps' = temps \cup {Mine(p, The(p))}
    /\ UNCHANGED <<cmd, entry, status, code, published, report, signal, moves,
                   faults, places>>

Fill(p) ==
    /\ Next1(p, "fill")
    /\ Advance(p)
    /\ file' = [file EXCEPT ![Mine(p, The(p))] = "written"]
    /\ UNCHANGED <<cmd, entry, temps, status, code, published, report, signal,
                   moves, faults, places>>

Synced(p) == file' = [file EXCEPT ![Mine(p, The(p))] = "synced"]

Sync(p) ==
    /\ Next1(p, "sync")
    /\ Advance(p)
    /\ Synced(p)
    /\ UNCHANGED <<cmd, entry, temps, status, code, published, report, signal,
                   moves, faults, places>>

\* Not in the code: an existing file, or the one a link leads to, is opened
\* and written.
Replace_WritesThrough(n, f) ==
    IF entry[n] = NoFile
    THEN entry' = [entry EXCEPT ![n] = f] /\ UNCHANGED file
    ELSE LET old == IF entry[n] = Link THEN entry["in"] ELSE entry[n]
         IN  file' = [file EXCEPT ![old] = "written"] /\ UNCHANGED entry

\* persist: rename replaces the entry of the path it is given, whatever it
\* held.
Replace(n, f) == entry' = [entry EXCEPT ![n] = f] /\ UNCHANGED file

Shown(p) == published' = [published EXCEPT ![p] = @ \cup {The(p)}]

Publish(p) ==
    /\ Next1(p, "publish")
    /\ cmd[p].kind = "import" => entry[target[p][The(p)]] = NoFile
    /\ Replace(target[p][The(p)], Mine(p, The(p)))
    /\ temps' = temps \ {Mine(p, The(p))}
    /\ Shown(p)
    /\ Advance(p)
    /\ UNCHANGED <<cmd, status, code, report, signal, moves, faults, places>>

\* A publication that does not happen: the document of an import that is
\* already there is taken back.
NotPublished(p) ==
    /\ GiveUp(p)
    /\ UNCHANGED <<cmd, entry, file, code, published, report, signal, moves,
                   places>>

RollBack(p) ==
    /\ todo' = [todo EXCEPT ![p] = RollbackSteps]
    /\ status' = [status EXCEPT ![p] = 2]
    /\ temps' = temps \ {Mine(p, "out")}
    /\ UNCHANGED <<cmd, entry, file, code, published, report, signal, moves,
                   places>>

\* persist_noclobber finds the name taken.
NameTaken(p) ==
    /\ Next1(p, "publish")
    /\ cmd[p].kind = "import" /\ entry[target[p][The(p)]] # NoFile
    /\ IF The(p) = "out" THEN RollBack(p) ELSE NotPublished(p)
    /\ UNCHANGED faults

\* The name still holds this command's file, or the rollback is over.
Owned(p) ==
    /\ Next1(p, "owned")
    /\ IF entry[cmd[p].doc] = Mine(p, "doc")
       THEN Advance(p)
       ELSE todo' = [todo EXCEPT ![p] = <<>>]
    /\ UNCHANGED <<cmd, disk, status, code, published, report, signal, moves,
                   faults, places>>

\* fs::remove_file: removes what the name holds now.
Remove(p) ==
    /\ Next1(p, "remove")
    /\ entry' = [entry EXCEPT ![cmd[p].doc] = NoFile]
    /\ Advance(p)
    /\ UNCHANGED <<cmd, file, temps, status, code, published, report, signal,
                   moves, faults, places>>

\* A call fails: out of space, no permission, a closed pipe, a bad input.
Fails(p) ==
    /\ code[p] = Alive /\ todo[p] # <<>> /\ faults < MaxFaults
    /\ faults' = faults + 1
    /\ IF /\ cmd[p].kind = "import"
          /\ Head(todo[p]) = Do("publish", "out")
       THEN RollBack(p)
       ELSE NotPublished(p)

-----------------------------------------------------------------------------
(* Ctrl+C. *)

\* cancellation::install.
Install(p) ==
    /\ Next1(p, "install")
    /\ Advance(p)
    /\ UNCHANGED <<cmd, disk, status, code, published, report, signal, moves,
                   faults, places>>

Installed(p) == cmd[p].kind = "query" /\ Do("install", "out") \notin Left(p)

\* The report and the status: a name is not in the graph, in the JSON of query
\* and impact or as a root of a language traversal (ROOT_NOT_FOUND_EXIT_CODE).
Outcome == {<<"full", 0>>, <<"partial", 0>>, <<"notFound", 1>>,
            <<"notFound", 64>>}

\* The search ends, with all of the answer or with what it had when it saw
\* the flag.
Walk(p) ==
    /\ Next1(p, "walk")
    /\ \E o \in Outcome :
          /\ o[1] = "partial" => signal[p].requested
          /\ report' = [report EXCEPT ![p] = o[1]]
          /\ status' = [status EXCEPT ![p] = o[2]]
    /\ Advance(p)
    /\ UNCHANGED <<cmd, disk, code, published, signal, moves, faults, places>>

\* Standard output may be full for ever: no fairness is assumed of this step.
PrintOut(p) ==
    /\ Next1(p, "print")
    /\ Shown(p)
    /\ Advance(p)
    /\ UNCHANGED <<cmd, disk, status, code, report, signal, moves, faults,
                   places>>

\* Not in the code.
ExitCode_Plain(p) == status[p]

\* cancellation::exit_code.
ExitCode(p) == IF signal[p].requested THEN 130 ELSE status[p]

Exit(p) ==
    /\ code[p] = Alive /\ todo[p] = <<>>
    /\ code' = [code EXCEPT ![p] = ExitCode(p)]
    /\ UNCHANGED <<cmd, disk, todo, status, published, report, signal, moves,
                   faults, places>>

\* Without a handler the signal ends the process where it is; so does a kill.
\* Nothing is dropped: temporary files stay.
Interrupt(p) ==
    /\ code[p] = Alive /\ signal[p].sent < MaxSignals
    /\ IF Installed(p)
       THEN /\ signal' = [signal EXCEPT ![p].sent = @ + 1,
                                        ![p].pending = @ + 1]
            /\ UNCHANGED code
       ELSE /\ code' = [code EXCEPT ![p] = Killed]
            /\ UNCHANGED signal
    /\ UNCHANGED <<cmd, disk, todo, status, published, report, moves, faults,
                   places>>

\* Not in the code: the handler writes the notice itself.
HandlerFree_WritesNotice(p) ==
    signal[p].pending > 0 /\ signal[p].notice # "writing"

\* The handler runs on the thread of the ctrlc crate, one signal at a time.
HandlerFree(p) == signal[p].pending > 0

Handle(p) ==
    /\ code[p] = Alive /\ HandlerFree(p)
    /\ IF signal[p].requested
       THEN /\ code' = [code EXCEPT ![p] = 130]
            /\ signal' = [signal EXCEPT ![p].pending = @ - 1]
       ELSE /\ signal' = [signal EXCEPT ![p].pending = @ - 1,
                                        ![p].requested = TRUE,
                                        ![p].notice = "writing"]
            /\ UNCHANGED code
    /\ UNCHANGED <<cmd, disk, todo, status, published, report, moves, faults,
                   places>>

\* write_notice, on a thread of its own; standard error may be full for ever.
Notice(p) ==
    /\ code[p] = Alive /\ signal[p].notice = "writing"
    /\ \/ /\ signal' = [signal EXCEPT ![p].notice = "done"]
          /\ UNCHANGED <<code, faults>>
       \/ /\ faults < MaxFaults /\ faults' = faults + 1
          /\ code' = [code EXCEPT ![p] = 130]
          /\ UNCHANGED signal
    /\ UNCHANGED <<cmd, disk, todo, status, published, report, moves, places>>

-----------------------------------------------------------------------------
(* The user. *)

\* The outputs of this name of which a command knows that there is a file, and
\* not yet that it is no link.
Crossings(n) ==
    {x \in Proc \X Artifact :
        /\ Path(x[1], x[2]) = n /\ target[x[1]][x[2]] = NoName
        /\ Do("settle", x[2]) \in Left(x[1])
        /\ Do("revisit", x[2]) \notin Left(x[1])}

UserMoves ==
    /\ moves < MaxMoves /\ moves' = moves + 1
    /\ \E n \in Name \ {"in"} :
          \E f \in {<<User, n>>, <<User, "in">>, Link, NoFile} :
             /\ entry' = [entry EXCEPT ![n] = f]
             /\ crossed' = IF f = Link THEN crossed \cup Crossings(n)
                            ELSE crossed
    /\ UNCHANGED <<cmd, file, temps, todo, status, code, published, report,
                   signal, faults, target>>

Main(p) ==
    \/ Look(p) \/ Resolve(p) \/ Check(p) \/ Read(p)
    \/ CreateTemp(p) \/ Fill(p) \/ Sync(p) \/ Publish(p) \/ NameTaken(p)
    \/ Owned(p) \/ Remove(p) \/ Fails(p)
    \/ Install(p) \/ Walk(p) \/ PrintOut(p) \/ Exit(p)

Next ==
    \/ \E p \in Proc : Main(p) \/ Interrupt(p) \/ Handle(p) \/ Notice(p)
    \/ UserMoves

\* Only the thread that waits for signals is assumed to go on.
Spec == Init /\ [][Next]_vars /\ \A p \in Proc : WF_vars(Handle(p))

-----------------------------------------------------------------------------
(* Properties. *)

\* Whatever was killed, failed or raced: a name holds a file in full that is
\* on the disk already, so that it survives the machine too, and no name
\* holds a file that is still a temporary one; and the graph of a scan (the
\* report of an import) was never shown without its document (output.rs:54-
\* 124, main.rs:945-954, import.rs:140-190).
NothingHalfPublished ==
    /\ \A n \in Name : entry[n] \in File
          => file[entry[n]] = "synced" /\ entry[n] \notin temps
    /\ \A p \in Proc :
          "out" \in published[p] /\ cmd[p].kind # "query"
             /\ cmd[p].doc # NoName => "doc" \in published[p]

\* No command changes a file that has a name, so whoever reads it, another
\* command for one, gets it as it was opened; and no command takes its input
\* away, even if the user makes an output a link to the input after the paths
\* were checked.  The exception, which ANALYSIS.md:14-17 does not know of, is
\* a link put between the two calls of destination, and then the input is
\* replaced by that output, in one step (output.rs:17 validate_paths, 115
\* publish, 142 and 162 destination).
FilesAreFinal ==
    [][/\ \A n \in Name : entry[n] \in File
             => file'[entry[n]] = file[entry[n]]
       /\ entry'["in"] # entry["in"] =>
             \E x \in crossed : /\ x[2] \in published'[x[1]] \ published[x[1]]
                                /\ entry'["in"] = Mine(x[1], x[2])]_vars

\* What the status says is so.  0: everything was shown and the report, of a
\* query, is the full one.  1, 64: the report says not found.  2, of an import:
\* nothing it published is left (the rollback itself did not fail).  Any
\* status: no temporary file is left (main.rs:529-538, cancellation.rs:44).
StatusIsHonest ==
    \A p \in Proc :
       /\ code[p] = 0 =>
            /\ published[p] = {a \in Artifact : Path(p, a) # NoName}
                                 \cup {"out"}
            /\ report[p] \in IF cmd[p].kind = "query" THEN {"full"}
                             ELSE {"none"}
       /\ code[p] \in {1, 64} => report[p] = "notFound"
       /\ code[p] = 2 /\ cmd[p].kind = "import" /\ faults = 0 =>
            \A n \in Name : entry[n] \notin {Mine(p, "doc"), Mine(p, "out")}
       /\ code[p] \in {0, 1, 2, 64} => \A f \in temps : f[1] # p

\* A second Ctrl+C ends a query, also one that waits for a full standard
\* output while its notice waits for a full standard error
\* (cancellation.rs:14-27; ANALYSIS.md:87).
SecondSignalEnds ==
    \A p \in Proc : signal[p].sent >= 2 ~> code[p] # Alive
=============================================================================
