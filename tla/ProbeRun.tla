------------------------------ MODULE ProbeRun ------------------------------
(***************************************************************************)
(* The probes: the programs in Go (src/probe-go) and Kotlin (src/probe)    *)
(* that read the catalogue of a live database, or of an SQLite file, and   *)
(* write it as a document, in one piece (JSON) or schema by schema         *)
(* (NDJSON).  They run at the same time in one directory, next to the      *)
(* application that owns the SQLite file and makes and removes its log     *)
(* whenever it likes.  A name is a pair: the log of <<"db", "">>, which    *)
(* stands for -wal and -shm, is <<"db", "wal">>.                           *)
(***************************************************************************)
EXTENDS Naturals, TLC

CONSTANTS
    Trials,        \* databases, directories and probes that are tried
    Hops,          \* more links in a row than this are a loop
    MaxTroubles, MaxMoves

VARIABLES
    trial,         \* the one at hand
    directory,     \* each name: a file, a link, a device or nothing
    disk,          \* each file: who wrote it, what, and its permissions
    probing,       \* each probe
    troubles,
    moves          \* how often the user changed what the output names

probeVars == <<trial, directory, disk, probing, troubles, moves>>

ProbeRunAssumption == Hops \in Nat /\ MaxTroubles \in Nat /\ MaxMoves \in Nat

Out == <<"out", "">>
Db  == <<"db", "">>
Wal(name)  == <<name[1], "wal">>
Temp(p)    == <<"tmp", p>>
Log        == <<"app", "log">>

Entry(is, to) == [is |-> is, to |-> to]
Nothing       == Entry("nothing", <<"", "">>)

Written(by, perm) ==
    [by |-> by, rows |-> {}, says |-> FALSE, whole |-> FALSE, perm |-> perm]

Probes == DOMAIN trial.probes
IsGo(p)    == trial.probes[p].go
Streams(p) == trial.probes[p].stream
SQLite     == trial.dialect = "sqlite"

Aside(name) == [name |-> name, inPlace |-> TRUE, dangling |-> FALSE,
                perm |-> "default"]

Replacing(name, perm) == [name |-> name, inPlace |-> FALSE,
                          dangling |-> FALSE, perm |-> perm]

Starting == [at |-> "look", target |-> Aside(Out), fd |-> <<"", "">>,
             left |-> {}, rows |-> {}, sound |-> TRUE, deaf |-> FALSE,
             since |-> 0, slipped |-> FALSE, exit |-> "none"]

Init ==
    /\ trial \in Trials
    /\ directory = trial.directory
    /\ disk = [f \in {<<"app", "db">>, Log} |-> Written("app", "default")] @@
              [f \in {<<"user", "old">>} |-> Written("user", trial.perm)] @@
              [f \in {"staged", "made"} \X Probes |->
                  Written("nobody", "default")]
    /\ probing = [p \in Probes |-> Starting]
    /\ troubles = 0 /\ moves = 0

(* Names and what they lead to. *)

\* Where the links from a name end: at a link if they loop.
End(name) ==
    LET after[n \in 0..Hops] ==
          IF n = 0 THEN name
          ELSE IF directory[after[n - 1]].is = "link"
               THEN directory[after[n - 1]].to ELSE after[n - 1]
    IN  after[Hops]

Kind(name) == directory[End(name)].is

\* The file a name leads to, if there is one.
FileAt(name) == IF Kind(name) = "file" THEN {directory[End(name)].to} ELSE {}

\* The files SQLite may write: beside the name it was given, and beside the
\* name that leads to.
Sources == UNION {{n, Wal(n)} : n \in {Db, End(Db)}}

\* A bug: only the name of the link, not what writing to it would make.
OutputsByName(t) == {t.name}

\* A link to nothing is a name for the file it would make.
Outputs(t) == {t.name} \cup IF t.dangling THEN {End(t.name)} ELSE {}

Aliases(t) == \E o \in Outputs(t), s \in Sources :
                 o = s \/ FileAt(o) \cap FileAt(s) /= {}

(* What a probe does before it connects: nothing is written. *)

Becomes(p, change) == probing' = [probing EXCEPT ![p] = change @@ @]

Ends(p, exit) == Becomes(p, [at |-> "over", exit |-> exit])

Untouched == UNCHANGED <<trial, directory, disk, troubles, moves>>

Aim(p, t) == Becomes(p, [at |-> "compare", target |-> t, since |-> moves])

NewName ==
    IF directory[Out].is = "link" THEN [Aside(Out) EXCEPT !.dangling = TRUE]
    ELSE Replacing(Out, "default")

\* A file is replaced under its real name, if it may be written; its
\* permissions are kept.
AimAtFile(p) ==
    \E f \in FileAt(Out) :
       IF disk[f].perm = "readonly" THEN Ends(p, "2")
       ELSE Aim(p, Replacing(End(Out), disk[f].perm))

\* In Go one look decides.
GoLook(p) ==
    /\ IsGo(p) /\ probing[p].at = "look"
    /\ CASE Kind(Out) = "link"    -> Ends(p, "2")
         [] Kind(Out) = "nothing" -> Aim(p, NewName)
         [] Kind(Out) = "device"  -> Aim(p, Aside(Out))
         [] Kind(Out) = "file"    -> AimAtFile(p)
    /\ Untouched

SqliteOpens == Kind(Db) = "file"

\* In Kotlin the database is looked at first; a loop does not exist.
KotlinLook(p) ==
    /\ ~IsGo(p) /\ probing[p].at = "look"
    /\ IF SQLite /\ ~SqliteOpens THEN Ends(p, "2")
       ELSE IF Kind(Out) \in {"link", "nothing"} THEN Aim(p, NewName)
       ELSE Becomes(p, [at |-> "regular"])
    /\ Untouched

\* Then it looks again, at a name that may have lost its file.
KotlinLookAgain(p) ==
    /\ probing[p].at = "regular"
    /\ IF Kind(Out) = "file" THEN AimAtFile(p)
       ELSE Becomes(p, [at |-> "compare", target |-> Aside(Out),
                        since |-> moves, slipped |-> Kind(Out) /= "device"])
    /\ Untouched

\* Links that loop cannot be compared with the database.
Compare(p) ==
    LET t == probing[p].target
    IN  /\ probing[p].at = "compare"
        /\ IF SQLite /\ (Kind(t.name) = "link" \/ Aliases(t))
           THEN Ends(p, "2") ELSE Becomes(p, [at |-> "stage"])
        /\ Untouched

\* A file is made beside the output, and removed.
CheckStaging(p) ==
    /\ probing[p].at = "stage"
    /\ IF probing[p].target.inPlace \/ trial.writable
       THEN Becomes(p, [at |-> "connect"]) ELSE Ends(p, "2")
    /\ Untouched

\* The connection is read-only: a missing database is not created.
Connect(p) ==
    /\ probing[p].at = "connect"
    /\ IF SQLite /\ ~SqliteOpens THEN Ends(p, "2")
       ELSE Becomes(p, [at |-> IF Streams(p) THEN "open" ELSE "session"])
    /\ Untouched

(* The output is opened. *)

Opened(p, file) == [at |-> IF Streams(p) THEN "session" ELSE "write",
                    fd |-> file]

\* What Kotlin throws after the connection is closed nobody catches.
Fails(p) ==
    Ends(p, IF /\ ~IsGo(p) /\ ~Streams(p)
               /\ probing[p].at \in {"open", "write", "commit"}
            THEN "1" ELSE "2")

\* Whatever is there is emptied; what a link leads to is made.
OpenInPlace(p) ==
    LET name == probing[p].target.name
        file == IF Kind(name) = "file" THEN directory[End(name)].to
                ELSE <<"made", p>>
    IN  IF Kind(name) = "link" \/ disk[file].perm = "readonly"
        THEN Fails(p) /\ UNCHANGED <<directory, disk>>
        ELSE IF Kind(name) = "device"
        THEN Becomes(p, Opened(p, <<"", "">>)) /\ UNCHANGED <<directory, disk>>
        ELSE /\ Becomes(p, Opened(p, file))
             /\ directory' = [directory EXCEPT ![End(name)] =
                                 Entry("file", file)]
             /\ disk' = [disk EXCEPT ![file] = Written(p, disk[file].perm)]

\* In Go the new file gets the permissions at once, in Kotlin at the end.
OpenStaged(p) ==
    LET file == <<"staged", p>>
        perm == IF IsGo(p) THEN probing[p].target.perm ELSE "default"
    IN  /\ Becomes(p, Opened(p, file))
        /\ directory' = [directory EXCEPT ![Temp(p)] = Entry("file", file)]
        /\ disk' = [disk EXCEPT ![file] = Written(p, perm)]

Open(p) ==
    /\ probing[p].at = "open"
    /\ IF probing[p].target.inPlace THEN OpenInPlace(p) ELSE OpenStaged(p)
    /\ UNCHANGED <<trial, troubles, moves>>

\* Two probes that write to one file tear what is in it.
Put(p, rows, says, whole) ==
    LET f == probing[p].fd
    IN  disk' = IF f \notin DOMAIN disk THEN disk
                ELSE IF disk[f].by = p
                THEN [disk EXCEPT ![f].rows = rows, ![f].says = says,
                                  ![f].whole = whole]
                ELSE [disk EXCEPT ![f] = Written("torn", @.perm)]

(* The catalogue is collected: what cannot be read is left out and noted. *)

\* What may go wrong once.
Trouble(bad) == /\ troubles + bad <= MaxTroubles
                /\ troubles' = troubles + bad

\* The namespace in which PostgreSQL prints its definitions is pinned, and in
\* Go the database is asked for its name.
MayBeRefused(p) == trial.dialect = "postgres" \/ (IsGo(p) /\ ~SQLite)

\* In Go the session is set up before the output is opened.
Session(p) ==
    /\ probing[p].at = "session"
    /\ \E bad \in IF MayBeRefused(p) THEN {0, 1} ELSE {0} :
          /\ Trouble(bad)
          /\ Becomes(p, [at |-> "list", sound |-> bad = 0])
    /\ IF Streams(p) THEN Put(p, {}, FALSE, FALSE) ELSE UNCHANGED disk
    /\ UNCHANGED <<trial, directory, moves>>

Schemas == DOMAIN trial.holds

Kept(schemas) ==
    IF trial.filter = {} THEN schemas ELSE schemas \cap trial.filter

WithTables == {s \in Schemas : trial.holds[s] = "tables"}

Listed(p, schemas, sound, deaf) ==
    Becomes(p, [at |-> "take", left |-> Kept(schemas), deaf |-> deaf,
                sound |-> /\ probing[p].sound /\ sound
                          /\ trial.filter \subseteq schemas])

\* A schema that was asked for and is not there is noted.  In Kotlin a list
\* that cannot be read is not: schemas with tables are found all the same,
\* and looked for under the name of a catalogue.
List(p) ==
    /\ probing[p].at = "list"
    /\ \/ Trouble(0) /\ Listed(p, Schemas, TRUE, FALSE)
       \/ Trouble(1) /\ IsGo(p) /\ Listed(p, {}, FALSE, FALSE)
       \/ Trouble(1) /\ ~IsGo(p) /\ Listed(p, WithTables, TRUE, TRUE)
       \/ Trouble(1) /\ ~IsGo(p) /\ Listed(p, Schemas, FALSE, FALSE)
    /\ UNCHANGED <<trial, directory, disk, moves>>

\* What a schema holds for this probe.
Held(p, s) ==
    IF probing[p].deaf /\ ~trial.lenient THEN "nothing" ELSE trial.holds[s]

\* In Kotlin a schema without anything is left out.
RowsOf(p, s, whole) ==
    IF ~IsGo(p) /\ Held(p, s) = "nothing" THEN {}
    ELSE {<<s, whole>>}

\* Dependencies are asked of each schema; SQLite has none to give.
Take(p) ==
    /\ probing[p].at = "take"
    /\ \E s \in probing[p].left, bad \in {0, 1} :
          LET rows == probing[p].rows \cup RowsOf(p, s, bad = 0)
          IN  /\ Trouble(bad)
              /\ Becomes(p, [left |-> probing[p].left \ {s}, rows |-> rows,
                             sound |-> /\ probing[p].sound /\ bad = 0
                                       /\ ~(trial.dependencies /\ SQLite)])
              /\ IF Streams(p) THEN Put(p, rows, FALSE, FALSE)
                 ELSE UNCHANGED disk
    /\ UNCHANGED <<trial, directory, moves>>

\* A catalogue without any table is suspicious.
Bare(p) ==
    /\ ~IsGo(p) \/ trial.dialect = "oracle"
    /\ \A row \in probing[p].rows : Held(p, row[1]) /= "tables"

Finish(p) ==
    LET sound == probing[p].sound /\ ~Bare(p)
    IN  /\ probing[p].at = "take" /\ probing[p].left = {}
        /\ Becomes(p, [at |-> IF Streams(p) THEN "commit" ELSE "open",
                       sound |-> sound])
        /\ IF Streams(p) THEN Put(p, probing[p].rows, sound, TRUE)
           ELSE UNCHANGED disk
        /\ UNCHANGED <<trial, directory, troubles, moves>>

(* The document is published, or dropped. *)

WriteDocument(p) ==
    /\ probing[p].at = "write"
    /\ Becomes(p, [at |-> "commit"])
    /\ Put(p, probing[p].rows, probing[p].sound, TRUE)
    /\ UNCHANGED <<trial, directory, troubles, moves>>

Commit(p) ==
    LET t == probing[p].target
    IN  /\ probing[p].at = "commit"
        /\ Ends(p, "0")
        /\ IF t.inPlace THEN UNCHANGED <<directory, disk>>
           ELSE /\ directory' = [directory EXCEPT
                                   ![t.name] = directory[Temp(p)],
                                   ![Temp(p)] = Nothing]
                /\ disk' = [disk EXCEPT ![probing[p].fd].perm = t.perm]
        /\ UNCHANGED <<trial, troubles, moves>>

\* In Go only writing may fail here, in Kotlin the driver may as well.
MayFail(p) ==
    \/ probing[p].at \in {"connect", "open", "write", "commit"}
    \/ probing[p].at \in {"session", "list", "take"} /\
          (Streams(p) \/ ~IsGo(p))

\* What was written in place stays.
Fail(p) ==
    /\ MayFail(p) /\ Trouble(1)
    /\ Fails(p)
    /\ directory' = [directory EXCEPT ![Temp(p)] = Nothing]
    /\ UNCHANGED <<trial, disk, moves>>

Die(p) ==
    /\ probing[p].at /= "over" /\ Trouble(1)
    /\ Ends(p, "killed")
    /\ UNCHANGED <<trial, directory, disk, moves>>

(* The others. *)

\* The application makes its log beside the file, and removes it.
Application ==
    LET log == Wal(End(Db))
    IN  /\ SQLite
        /\ \/ /\ directory[log] = Nothing
              /\ directory' = [directory EXCEPT ![log] = Entry("file", Log)]
              /\ disk' = [disk EXCEPT ![Log] = Written("app", "default")]
           \/ /\ directory[log] = Entry("file", Log)
              /\ directory' = [directory EXCEPT ![log] = Nothing]
              /\ UNCHANGED disk
        /\ UNCHANGED <<trial, probing, troubles, moves>>

\* The user of the directory makes the output something else.
Move ==
    /\ moves < MaxMoves
    /\ \E e \in trial.moved : directory' = [directory EXCEPT ![Out] = e]
    /\ moves' = moves + 1
    /\ UNCHANGED <<trial, disk, probing, troubles>>

Step(p) ==
    \/ GoLook(p) \/ KotlinLook(p) \/ KotlinLookAgain(p) \/ Compare(p)
    \/ CheckStaging(p) \/ Connect(p) \/ Open(p) \/ Session(p) \/ List(p)
    \/ Take(p) \/ Finish(p) \/ WriteDocument(p) \/ Commit(p) \/ Fail(p)
    \/ Die(p)

Next == (\E p \in Probes : Step(p)) \/ Application \/ Move

Spec == Init /\ [][Next]_probeVars

-----------------------------------------------------------------------------
\* A name that was prepared to be written in place may since lead elsewhere.
Misled == \E p \in Probes : /\ probing[p].target.inPlace
                            /\ \/ moves > probing[p].since
                               \/ probing[p].slipped

\* The database and its log are the application's.
SourceKept ==
    /\ disk[<<"app", "db">>].by = "app" /\ disk[Log].by = "app"
    /\ directory[End(Db)] = trial.directory[End(Db)]
    /\ \A s \in Sources \ {Db, End(Db)} :
          directory[s] \in {trial.directory[s], Nothing, Entry("file", Log)}

InPlace(file) == \E p \in Probes : /\ probing[p].target.inPlace
                                   /\ probing[p].fd = file

\* What was there is there still, or a whole document is.
OldOrWhole ==
    /\ (trial.directory[Out].is = "link" /\ moves = 0) =>
          directory[Out] = trial.directory[Out]
    /\ (trial.perm = "readonly" /\ moves = 0) =>
          \A n \in DOMAIN directory :
             trial.directory[n] = Entry("file", <<"user", "old">>) =>
                directory[n] = trial.directory[n]
    /\ \A n \in DOMAIN directory : \A f \in FileAt(n) :
          \/ n \in {Temp(p) : p \in Probes}
          \/ disk[f].by \in {"app", "user"} \/ disk[f].whole \/ InPlace(f)

\* A probe that says it is done has put a whole document there, with the
\* permissions of what it replaced, and nothing else.
DoneMeansWritten ==
    \A p \in Probes :
      LET r == probing[p]
          f == disk[r.fd]
      IN  /\ r.exit = "0" /\ r.fd \in DOMAIN disk =>
               /\ \/ f.by = p /\ f.whole
                  \/ InPlace(r.fd)
               /\ ~r.target.inPlace => f.perm = r.target.perm
               /\ ~r.target.inPlace /\ moves = 0 =>
                     \E q \in Probes : FileAt(r.target.name) =
                                         {probing[q].fd}
          /\ r.at = "over" /\ r.exit /= "killed" =>
                directory[Temp(p)] = Nothing

\* The schemas a complete document has.  One without tables is lost in
\* Kotlin if the list of schemas could not be read.
Due(p) == {s \in IF trial.filter = {} THEN Schemas ELSE trial.filter :
              \/ IsGo(p) \/ s \notin Schemas \/ trial.holds[s] = "tables"
              \/ ~probing[p].deaf /\ trial.holds[s] /= "nothing"}

CompleteIsTrue ==
    \A f \in DOMAIN disk : \A p \in Probes \cap {disk[f].by} :
      LET d == disk[f]
      IN  /\ d.says => /\ d.whole
                       /\ \A s \in Due(p) : <<s, TRUE>> \in d.rows
          /\ d.whole /\ troubles = 0 /\ trial.filter \subseteq Schemas =>
                \/ d.says \/ Bare(p) \/ (trial.dependencies /\ SQLite)

\* Whatever the output names, now or when it is opened, the database a probe
\* reads is never written and its log neither; the output is what it was or a
\* whole document, with the same permissions; an exit status of 0 means it is
\* written, and a document says it is complete only if every schema was read
\* (output.go, stream.go:76-112, OutputFile.kt, Extractor.kt:144-210).
ProbesAreSafe ==
    /\ SQLite /\ ~Misled => SourceKept
    /\ OldOrWhole
    /\ DoneMeansWritten
    /\ CompleteIsTrue
=============================================================================
