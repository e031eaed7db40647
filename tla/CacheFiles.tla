----------------------------- MODULE CacheFiles -----------------------------
(***************************************************************************)
(* The files that concurrent `schemagraph scan --cache-dir` processes      *)
(* share: the key file (src/engine/cli/src/cache/trust.rs: file_key,       *)
(* read_key_file, create_key_file, write_temporary_key) and the entries    *)
(* tagged with that key (src/engine/cli/src/cache.rs: load_entry,          *)
(* store_entry, atomic_write).                                             *)
(*                                                                         *)
(* No lock is taken anywhere.  The key is written to a temporary file and  *)
(* made visible with a hard link, which never overwrites; an entry is made *)
(* visible with a rename, which always does.  A temporary file is named    *)
(* after the process id and a counter of the process, so two processes     *)
(* with one id (two containers on a shared volume, or an id used again     *)
(* after a crash) use the same names.                                      *)
(*                                                                         *)
(* Each process evaluates one body, and all of them the same one: entries  *)
(* of different bodies have different names and never meet.                *)
(***************************************************************************)
EXTENDS Naturals, FiniteSets

CONSTANTS
    Procs,          \* scan processes, each run once
    Pids, Pid,      \* process ids, and the one of each process
    EnvKey,         \* the key of SCHEMAGRAPH_CACHE_KEY
    NoKey,          \* stands where there is no key yet
    MaxRemovals,    \* bound: times the user removes the key file
    MaxFailures,    \* bound: file operations that fail
    MaxPowerLosses  \* bound: times the machine stops

ASSUME CacheAssumption ==
    /\ Pid \in [Procs -> Pids]
    /\ EnvKey \notin Procs /\ NoKey \notin Procs \cup {EnvKey}
    /\ MaxRemovals \in Nat /\ MaxFailures \in Nat /\ MaxPowerLosses \in Nat

VARIABLES
    keyFile, entry,                  \* the published key and the entry
    temps,                           \* the temporary files, by name
    pc, key, counter, temp,          \* the processes
    linked,
    removals, failures, powerLosses  \* what went wrong so far

files     == <<keyFile, entry, temps>>
procVars  == <<pc, key, counter, temp, linked>>
faultVars == <<removals, failures, powerLosses>>
vars == <<files, procVars, faultVars>>

\* Random keys never repeat, so a key is named after the process that drew it.
Keys == Procs \cup {EnvKey}

Contents ==
    [kind : {"file"}, key : Keys, whole : BOOLEAN, synced : BOOLEAN]

Absent == [kind |-> "none"]

TempNames == [for : {"key", "entry"}, pid : Pids, n : {0, 1}]

NoTemp == [for |-> "none"]

Creating == {"createKey", "writeKey", "link", "cleanup", "failKey"}

Storing == {"createEntry", "writeEntry", "rename", "failEntry"}

Finished == {"done", "crashed"}

Pcs == {"start", "readKey", "draw", "reread", "disabled", "load"}
         \cup Creating \cup Storing \cup Finished

TempFiles == [creator : Procs, file : Contents]

TypeOK ==
    /\ keyFile \in Contents \cup {Absent}
    /\ entry \in Contents \cup {Absent}
    /\ DOMAIN temps \subseteq TempNames
    /\ \A t \in DOMAIN temps : temps[t] \in TempFiles
    /\ pc \in [Procs -> Pcs]
    /\ key \in [Procs -> Keys \cup {NoKey}]
    /\ \A p \in Procs : pc[p] \in {"load"} \cup Storing => key[p] # NoKey
    /\ counter \in [Procs -> 0..2]
    /\ temp \in [Procs -> TempNames \cup {NoTemp}]
    /\ linked \in [Procs -> {"no", "published", "exists", "failed"}]
    /\ removals \in 0..MaxRemovals
    /\ failures \in 0..MaxFailures
    /\ powerLosses \in 0..MaxPowerLosses

Init ==
    /\ keyFile = Absent /\ entry = Absent
    /\ temps = << >>
    /\ pc = [p \in Procs |-> "start"]
    /\ key = [p \in Procs |-> NoKey]
    /\ counter = [p \in Procs |-> 0]
    /\ temp = [p \in Procs |-> NoTemp]
    /\ linked = [p \in Procs |-> "no"]
    /\ removals = 0 /\ failures = 0 /\ powerLosses = 0

At(p, here, there) == pc[p] = here /\ pc' = [pc EXCEPT ![p] = there]

Fail == failures < MaxFailures /\ failures' = failures + 1

----------------------------------------------------------------------------
(* The key: prepare_directory, resolve_key, file_key, create_key_file.     *)

\* An untrusted directory, a short SCHEMAGRAPH_CACHE_KEY, no HOME; or, later,
\* a key file that cannot be read, and no random bytes or no directory.
CannotUseCache(p) ==
    /\ \E here \in {"start", "readKey", "draw", "reread"} :
          At(p, here, "disabled")
    /\ Fail
    /\ UNCHANGED <<files, key, counter, temp, linked, removals,
                   powerLosses>>

\* SCHEMAGRAPH_CACHE_KEY is set: the key file is never looked at.
UseEnvironmentKey(p) ==
    /\ At(p, "start", "load")
    /\ key' = [key EXCEPT ![p] = EnvKey]
    /\ UNCHANGED <<files, counter, temp, linked, faultVars>>

UseKeyFile(p) ==
    /\ At(p, "start", "readKey")
    /\ UNCHANGED <<files, key, counter, temp, linked, faultVars>>

\* read_key_file: a file that does not hold 32 bytes is refused.
ReadKey(p) ==
    /\ pc[p] = "readKey"
    /\ pc' = [pc EXCEPT ![p] = IF keyFile = Absent THEN "draw"
                               ELSE IF keyFile.whole THEN "load"
                               ELSE "disabled"]
    /\ key' = IF keyFile # Absent /\ keyFile.whole
              THEN [key EXCEPT ![p] = keyFile.key] ELSE key
    /\ UNCHANGED <<files, counter, temp, linked, faultVars>>

\* getrandom, and the directory is made.
DrawKey(p) ==
    /\ At(p, "draw", "createKey")
    /\ temp' = [temp EXCEPT ![p] =
                  [for |-> "key", pid |-> Pid[p], n |-> counter[p]]]
    /\ counter' = [counter EXCEPT ![p] = @ + 1]
    /\ UNCHANGED <<files, key, linked, faultVars>>

\* A new, empty file under the process's temporary name.
OpenTemp(p) ==
    temps' = [t \in DOMAIN temps \cup {temp[p]} |->
                IF t = temp[p]
                THEN [creator |-> p,
                      file |-> [kind |-> "file",
                                key |-> IF key[p] = NoKey THEN p ELSE key[p],
                                whole |-> FALSE, synced |-> FALSE]]
                ELSE temps[t]]

RemoveTemp(p) == temps' = [t \in DOMAIN temps \ {temp[p]} |-> temps[t]]

\* Faulty variant: the file is opened for writing even if it is there.
CreateTemp_Truncating(p, there, otherwise) ==
    OpenTemp(p) /\ pc' = [pc EXCEPT ![p] = there]

\* Faulty variant: the clean-up after an error covers the failed open too.
CreateTemp_CleansUp(p, there, otherwise) ==
    IF temp[p] \in DOMAIN temps
    THEN pc' = [pc EXCEPT ![p] = otherwise] /\ RemoveTemp(p)
    ELSE pc' = [pc EXCEPT ![p] = there] /\ OpenTemp(p)

\* create_new: the name of somebody else's file is an error, and that file is
\* not touched.
CreateTemp(p, there, otherwise) ==
    IF temp[p] \in DOMAIN temps
    THEN pc' = [pc EXCEPT ![p] = otherwise] /\ UNCHANGED temps
    ELSE pc' = [pc EXCEPT ![p] = there] /\ OpenTemp(p)

CreateKeyTemp(p) ==
    /\ pc[p] = "createKey"
    /\ CreateTemp(p, "writeKey", "disabled")
    /\ UNCHANGED <<keyFile, entry, key, counter, temp, linked, faultVars>>

\* Faulty variant: the key is not flushed before it is published.
KeySynced_Skipped == FALSE

\* write_all and sync_all.
KeySynced == TRUE

WriteTemp(p, synced) ==
    temps' = [temps EXCEPT ![temp[p]].file.whole = TRUE,
                           ![temp[p]].file.synced = synced]

WriteKey(p) ==
    /\ At(p, "writeKey", "link")
    /\ WriteTemp(p, KeySynced)
    /\ UNCHANGED <<keyFile, entry, key, counter, temp, linked, faultVars>>

WriteKeyFails(p) ==
    /\ At(p, "writeKey", "failKey")
    /\ Fail
    /\ UNCHANGED <<files, key, counter, temp, linked, removals,
                   powerLosses>>

\* cleanup_temporary: a file that cannot be removed stays behind.
CleanUp(p) ==
    \/ RemoveTemp(p) /\ UNCHANGED faultVars
    \/ Fail /\ UNCHANGED <<temps, removals, powerLosses>>

CleanUpFailedKey(p) ==
    /\ At(p, "failKey", "disabled")
    /\ CleanUp(p)
    /\ UNCHANGED <<keyFile, entry, key, counter, temp, linked>>

\* hard_link refuses a name that exists.
Publishes == keyFile = Absent

LinkKey(p) ==
    /\ At(p, "link", "cleanup")
    /\ keyFile' = IF Publishes THEN temps[temp[p]].file ELSE keyFile
    /\ linked' = [linked EXCEPT ![p] =
                    IF Publishes THEN "published" ELSE "exists"]
    /\ UNCHANGED <<entry, temps, key, counter, temp, faultVars>>

LinkKeyFails(p) ==
    /\ At(p, "link", "cleanup")
    /\ Fail
    /\ linked' = [linked EXCEPT ![p] = "failed"]
    /\ UNCHANGED <<files, key, counter, temp,
                   removals, powerLosses>>

\* Faulty variant: a lost race is an error like any other.
AfterLostRace_Error == "disabled"

AfterLostRace == "reread"

\* The temporary name goes away whatever became of the link.
CleanUpKey(p) ==
    /\ pc[p] = "cleanup"
    /\ CleanUp(p)
    /\ pc' = [pc EXCEPT ![p] = CASE linked[p] = "published" -> "load"
                                 [] linked[p] = "exists" -> AfterLostRace
                                 [] OTHER -> "disabled"]
    /\ key' = IF linked[p] = "published" THEN [key EXCEPT ![p] = p] ELSE key
    /\ UNCHANGED <<keyFile, entry, counter, temp, linked>>

\* Faulty variant: the loser goes on with the key it drew itself.
WinnersKey_Own(p) == p

WinnersKey(p) == keyFile.key

\* The loser reads the winner's key; a file that is gone again is an error.
RereadKey(p) ==
    /\ pc[p] = "reread"
    /\ LET usable == keyFile # Absent /\ keyFile.whole
       IN /\ pc' = [pc EXCEPT ![p] = IF usable THEN "load" ELSE "disabled"]
          /\ key' = IF usable THEN [key EXCEPT ![p] = WinnersKey(p)] ELSE key
    /\ UNCHANGED <<files, counter, temp, linked, faultVars>>

\* Without a key the cache is off: a warning, a miss, and nothing is stored.
RunUncached(p) ==
    /\ At(p, "disabled", "done")
    /\ UNCHANGED <<files, key, counter, temp, linked, faultVars>>

----------------------------------------------------------------------------
(* The entry: load_entry, store_entry, atomic_write.                       *)

Authentic(p) == entry # Absent /\ entry.whole /\ entry.key = key[p]

LoadHit(p) ==
    /\ At(p, "load", "done")
    /\ Authentic(p)
    /\ UNCHANGED <<files, key, counter, temp, linked, faultVars>>

\* No entry, one that cannot be read, a torn one, or one with another tag: the
\* body is parsed again and stored.
LoadMiss(p) ==
    /\ At(p, "load", "createEntry")
    /\ \/ ~Authentic(p) /\ UNCHANGED faultVars
       \/ Fail /\ UNCHANGED <<removals, powerLosses>>
    /\ temp' = [temp EXCEPT ![p] =
                  [for |-> "entry", pid |-> Pid[p], n |-> counter[p]]]
    /\ counter' = [counter EXCEPT ![p] = @ + 1]
    /\ UNCHANGED <<files, key, linked>>

\* A result that is too large, or that carries more than body evidence.
SkipStore(p) ==
    /\ At(p, "createEntry", "done")
    /\ UNCHANGED <<files, key, counter, temp, linked, faultVars>>

CreateEntryTemp(p) ==
    /\ pc[p] = "createEntry"
    /\ CreateTemp(p, "writeEntry", "done")
    /\ UNCHANGED <<keyFile, entry, key, counter, temp, linked, faultVars>>

\* Entries are not flushed: a torn one is recomputed.
WriteEntry(p) ==
    /\ At(p, "writeEntry", "rename")
    /\ WriteTemp(p, FALSE)
    /\ UNCHANGED <<keyFile, entry, key, counter, temp, linked, faultVars>>

StoreFails(p) ==
    /\ At(p, "writeEntry", "failEntry") \/ At(p, "rename", "failEntry")
    /\ Fail
    /\ UNCHANGED <<files, key, counter, temp, linked, removals,
                   powerLosses>>

CleanUpFailedEntry(p) ==
    /\ At(p, "failEntry", "done")
    /\ CleanUp(p)
    /\ UNCHANGED <<keyFile, entry, key, counter, temp, linked>>

Rename(p) ==
    /\ At(p, "rename", "done")
    /\ entry' = temps[temp[p]].file
    /\ RemoveTemp(p)
    /\ UNCHANGED <<keyFile, key, counter, temp, linked, faultVars>>

----------------------------------------------------------------------------
(* The surroundings.                                                       *)

Running(p) == pc[p] \notin {"start"} \cup Finished

Crash(p) ==
    /\ Running(p)
    /\ pc' = [pc EXCEPT ![p] = "crashed"]
    /\ UNCHANGED <<files, key, counter, temp, linked, faultVars>>

\* "remove the file so that a new key is created".
RemoveKeyFile ==
    /\ keyFile # Absent
    /\ removals < MaxRemovals
    /\ removals' = removals + 1
    /\ keyFile' = Absent
    /\ UNCHANGED <<entry, temps, procVars, failures, powerLosses>>

\* What a file may hold after the machine stopped.
Survives(f) ==
    IF f = Absent THEN {Absent}
    ELSE {f} \cup IF f.synced THEN {} ELSE {[f EXCEPT !.whole = FALSE]}

\* Every process stops, data that was not flushed may be gone, and so may the
\* new names: no directory is ever flushed.
PowerLoss ==
    /\ powerLosses < MaxPowerLosses
    /\ powerLosses' = powerLosses + 1
    /\ pc' = [p \in Procs |-> IF Running(p) THEN "crashed" ELSE pc[p]]
    /\ keyFile' \in Survives(keyFile) \cup {Absent}
    /\ entry' \in Survives(entry) \cup {Absent}
    /\ \E kept \in SUBSET DOMAIN temps :
          temps' = [t \in kept |-> temps[t]]
    /\ UNCHANGED <<key, counter, temp, linked, removals,
                   failures>>

Step(p) ==
    \/ CannotUseCache(p)
    \/ UseEnvironmentKey(p) \/ UseKeyFile(p) \/ ReadKey(p) \/ DrawKey(p)
    \/ CreateKeyTemp(p) \/ WriteKey(p) \/ WriteKeyFails(p)
    \/ CleanUpFailedKey(p) \/ LinkKey(p) \/ LinkKeyFails(p) \/ CleanUpKey(p)
    \/ RereadKey(p) \/ RunUncached(p)
    \/ LoadHit(p) \/ LoadMiss(p) \/ SkipStore(p) \/ CreateEntryTemp(p)
    \/ WriteEntry(p)
    \/ StoreFails(p) \/ CleanUpFailedEntry(p) \/ Rename(p)
    \/ Crash(p)

AllFinished == (\A p \in Procs : pc[p] \in Finished) /\ UNCHANGED vars

Next ==
    \/ \E p \in Procs : Step(p)
    \/ RemoveKeyFile \/ PowerLoss \/ AllFinished

Spec == Init /\ [][Next]_vars

----------------------------------------------------------------------------
(* Properties.                                                             *)

\* However the processes interleave, and even if the machine stops in the
\* middle, a published key is whole: nobody reads half a key, and no later run
\* finds the cache disabled by an empty key file.
PublishedKeyWhole == keyFile # Absent => keyFile.whole

\* Processes that start together end up with one key, the published one: the
\* losers of the race give up the keys they drew.
OneKey ==
    removals = 0 =>
        \A p \in Procs :
            Running(p) /\ key[p] \notin {NoKey, EnvKey} =>
                keyFile # Absent /\ key[p] = keyFile.key

\* A key file that is in place is never replaced or rewritten by a process.
KeyNeverReplaced == [][keyFile # Absent => keyFile' \in {keyFile, Absent}]_vars

\* Renames show whole entries only; a torn one needs a power loss.
EntriesWhole == powerLosses = 0 /\ entry # Absent => entry.whole

\* A process finds its temporary file as it left it, and no file stays behind
\* but that of a process that crashed, or one that could not be removed.
TempsBelong ==
    /\ \A p \in Procs :
          pc[p] \in {"writeKey", "link", "cleanup", "failKey", "writeEntry",
                     "rename", "failEntry"} =>
              /\ temp[p] \in DOMAIN temps
              /\ temps[temp[p]].creator = p
    /\ failures = 0 =>
        \A t \in DOMAIN temps :
          LET p == temps[t].creator IN
          temp[p] = t /\ pc[p] \notin {"start", "disabled", "load", "done"}

\* Losing the race never costs a process its cache: that takes a failed file
\* operation, a removed key file, or another process with its id.
RaceKeepsCache ==
    \A p \in Procs :
        pc[p] = "disabled" =>
            \/ failures > 0 \/ removals > 0
            \/ \E q \in Procs \ {p} : Pid[q] = Pid[p] /\ pc[q] # "start"
=============================================================================
