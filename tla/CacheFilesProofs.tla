-------------------------- MODULE CacheFilesProofs --------------------------
(***************************************************************************)
(* Proofs about CacheFiles for any number of processes, any process ids    *)
(* and any number of removals, failures and power losses.                  *)
(*                                                                         *)
(* A step of a process touches its own variables, its own temporary file   *)
(* and, while it is absent, the key file.  So what is known of the other   *)
(* processes stays true (Locality), and each action is checked for the     *)
(* process that takes it only.                                             *)
(***************************************************************************)
EXTENDS CacheFiles, TLAPS

\* Between the creation and the removal of a temporary file.
Writers ==
    {"writeKey", "link", "cleanup", "failKey", "writeEntry", "rename",
     "failEntry"}

Opening == {"createKey", "createEntry"}

Keyless == {"start", "readKey", "draw", "reread", "disabled"} \cup Creating

\* A process that has a temporary file has its own, and as it left it.
Owns(q) ==
    pc[q] \in Writers =>
        /\ temp[q] \in DOMAIN temps
        /\ temps[temp[q]].creator = q
        /\ pc[q] \in {"writeKey", "link"} => temps[temp[q]].file.key = q
        /\ pc[q] \in {"link", "rename"} => temps[temp[q]].file.whole
        /\ pc[q] = "link" => temps[temp[q]].file.synced

Named(q) ==
    pc[q] \in Writers \cup Opening =>
        temp[q] \in TempNames /\ temp[q].pid = Pid[q]

Counted(q) ==
    /\ pc[q] \in {"start", "readKey", "draw"} => counter[q] = 0
    /\ pc[q] \in {"reread", "load"} \cup Creating => counter[q] \in {0, 1}

NoKeyYet(q) == pc[q] \in Keyless => key[q] = NoKey

\* What came of the race for the key.
Raced(q) ==
    /\ pc[q] = "failKey" => failures > 0
    /\ pc[q] = "cleanup" => linked[q] # "no"
    /\ pc[q] = "cleanup" /\ linked[q] = "failed" => failures > 0
    /\ removals = 0 /\ pc[q] = "cleanup" /\ linked[q] = "published" =>
          keyFile # Absent /\ keyFile.key = q
    /\ removals = 0 /\ pc[q] = "cleanup" /\ linked[q] = "exists" =>
          keyFile # Absent
    /\ removals = 0 /\ pc[q] = "reread" => keyFile # Absent

Agrees(q) ==
    removals = 0 /\ Running(q) /\ key[q] \notin {NoKey, EnvKey} =>
        keyFile # Absent /\ key[q] = keyFile.key

Blameless(q) ==
    pc[q] = "disabled" =>
        \/ failures > 0 \/ removals > 0
        \/ \E r \in Procs \ {q} : Pid[r] = Pid[q] /\ pc[r] # "start"

ProcessInv(q) ==
    /\ Owns(q) /\ Named(q) /\ Counted(q) /\ NoKeyYet(q)
    /\ Raced(q) /\ Agrees(q) /\ Blameless(q)

\* A published key is whole and on the disk.
KeyDurable == keyFile # Absent => keyFile.whole /\ keyFile.synced

NamesFit == \A t \in DOMAIN temps : t.pid = Pid[temps[t].creator]

Leftovers ==
    failures = 0 =>
        \A t \in DOMAIN temps :
            /\ temp[temps[t].creator] = t
            /\ pc[temps[t].creator] \in Writers \cup {"crashed"}

FilesInv == KeyDurable /\ EntriesWhole /\ NamesFit /\ Leftovers

IInv == TypeOK /\ (\A q \in Procs : ProcessInv(q)) /\ FilesInv

Values ==
    /\ EnvKey \notin Procs /\ NoKey \notin Procs /\ NoKey # EnvKey
    /\ Keys = Procs \cup {EnvKey}
    /\ \A p \in Procs : Pid[p] \in Pids
    /\ MaxFailures \in Nat /\ MaxRemovals \in Nat /\ MaxPowerLosses \in Nat

\* The three kinds of keys are apart.
LEMMA ValueFacts == Values
  BY CacheAssumption DEF Values, Keys

\* A file is not the absence of a file.
LEMMA FileFacts ==
    \A f \in Contents :
        /\ f # Absent /\ f.key \in Keys /\ f.whole \in BOOLEAN
        /\ f.synced \in BOOLEAN
  BY DEF Contents, Absent

\* Names are records of three fields.
LEMMA NameFacts ==
    /\ \A for \in {"key", "entry"}, pid \in Pids, n \in {0, 1} :
          [for |-> for, pid |-> pid, n |-> n] \in TempNames
    /\ \A t \in TempNames : t.pid \in Pids
    /\ NoTemp \notin TempNames
  BY DEF TempNames, NoTemp

\* The initial state satisfies the invariant.
LEMMA InitInv == Init => IInv
  <1> SUFFICES ASSUME Init PROVE IInv
    OBVIOUS
  <1> USE DEF Init
  <1>1. DOMAIN temps = {}
    OBVIOUS
  <1>2. TypeOK
    BY <1>1, CacheAssumption DEF TypeOK, Pcs, Creating, Storing
  <1>3. \A q \in Procs : ProcessInv(q)
    BY CacheAssumption DEF ProcessInv, Owns, Named, Counted, NoKeyYet, Raced,
       Agrees, Blameless, Running, Writers, Opening, Creating, Finished
  <1>4. FilesInv
    BY <1>1 DEF FilesInv, KeyDurable, EntriesWhole, NamesFit, Leftovers
  <1>5. QED
    BY <1>2, <1>3, <1>4 DEF IInv

\* A step of a process leaves the variables and the temporary files of the
\* others alone, and a key file that is in place.
Local(p) ==
    /\ \A q \in Procs \ {p} :
          /\ pc'[q] = pc[q] /\ key'[q] = key[q] /\ counter'[q] = counter[q]
          /\ temp'[q] = temp[q] /\ linked'[q] = linked[q]
    /\ \A t \in DOMAIN temps :
          temps[t].creator # p =>
              t \in DOMAIN temps' /\ temps'[t] = temps[t]
    /\ \A t \in DOMAIN temps' :
          \/ t \in DOMAIN temps /\ temps'[t].creator = temps[t].creator
          \/ t = temp[p] /\ temps'[t].creator = p
    /\ keyFile # Absent => keyFile' = keyFile
    /\ removals' = removals /\ powerLosses' = powerLosses
    /\ failures \in Nat /\ failures' \in Nat /\ failures' >= failures

\* Every action of a process is local to it.
LEMMA Locality ==
    ASSUME IInv, NEW p \in Procs, Step(p)
    PROVE  Local(p)
  <1> USE DEF IInv, TypeOK, ProcessInv, Owns, Writers, Local, files,
          faultVars
  <1>1. CASE CannotUseCache(p)
    BY <1>1 DEF CannotUseCache, At, Fail
  <1>2. CASE UseEnvironmentKey(p)
    BY <1>2 DEF UseEnvironmentKey, At
  <1>3. CASE UseKeyFile(p)
    BY <1>3 DEF UseKeyFile, At
  <1>4. CASE ReadKey(p)
    BY <1>4 DEF ReadKey
  <1>5. CASE DrawKey(p)
    BY <1>5 DEF DrawKey, At
  <1>6. CASE CreateKeyTemp(p)
    BY <1>6 DEF CreateKeyTemp, CreateTemp, OpenTemp
  <1>7. CASE WriteKey(p)
    BY <1>7 DEF WriteKey, At, WriteTemp, KeySynced
  <1>8. CASE WriteKeyFails(p)
    BY <1>8 DEF WriteKeyFails, At, Fail
  <1>9. CASE CleanUpFailedKey(p)
    BY <1>9 DEF CleanUpFailedKey, At, CleanUp, RemoveTemp, Fail
  <1>10. CASE LinkKey(p)
    BY <1>10 DEF LinkKey, At, Publishes
  <1>11. CASE LinkKeyFails(p)
    BY <1>11 DEF LinkKeyFails, At, Fail
  <1>12. CASE CleanUpKey(p)
    BY <1>12 DEF CleanUpKey, CleanUp, RemoveTemp, Fail, AfterLostRace
  <1>13. CASE RereadKey(p)
    BY <1>13 DEF RereadKey, WinnersKey
  <1>14. CASE RunUncached(p)
    BY <1>14 DEF RunUncached, At
  <1>15. CASE LoadHit(p)
    BY <1>15 DEF LoadHit, At
  <1>16. CASE LoadMiss(p)
    BY <1>16 DEF LoadMiss, At, Fail, Authentic
  <1>17. CASE SkipStore(p)
    BY <1>17 DEF SkipStore, At
  <1>18. CASE CreateEntryTemp(p)
    BY <1>18 DEF CreateEntryTemp, CreateTemp, OpenTemp
  <1>19. CASE WriteEntry(p)
    BY <1>19 DEF WriteEntry, At, WriteTemp
  <1>20. CASE StoreFails(p)
    BY <1>20 DEF StoreFails, At, Fail
  <1>21. CASE CleanUpFailedEntry(p)
    BY <1>21 DEF CleanUpFailedEntry, At, CleanUp, RemoveTemp, Fail
  <1>22. CASE Rename(p)
    BY <1>22 DEF Rename, At, RemoveTemp
  <1>23. CASE Crash(p)
    BY <1>23 DEF Crash
  <1>24. QED
    BY <1>1, <1>2, <1>3, <1>4, <1>5, <1>6, <1>7, <1>8, <1>9, <1>10, <1>11,
       <1>12, <1>13, <1>14, <1>15, <1>16, <1>17, <1>18, <1>19, <1>20, <1>21,
       <1>22, <1>23
    DEF Step

\* A new temporary file, and one that is written, keep the types.
LEMMA TempTypes ==
    ASSUME IInv, NEW p \in Procs
    PROVE  LET Typed == /\ DOMAIN temps' \subseteq TempNames
                        /\ \A t \in DOMAIN temps' : temps'[t] \in TempFiles
           IN  /\ OpenTemp(p) /\ temp[p] \in TempNames => Typed
               /\ \A b \in BOOLEAN :
                     WriteTemp(p, b) /\ temp[p] \in DOMAIN temps => Typed
  <1> USE ValueFacts DEF IInv, TypeOK, Values, TempFiles
  <1>1. ASSUME OpenTemp(p), temp[p] \in TempNames
        PROVE  /\ DOMAIN temps' \subseteq TempNames
               /\ \A t \in DOMAIN temps' : temps'[t] \in TempFiles
    <2> DEFINE k == IF key[p] = NoKey THEN p ELSE key[p]
               f == [kind |-> "file", key |-> k, whole |-> FALSE,
                     synced |-> FALSE]
    <2>1. k \in Keys
      OBVIOUS
    <2>2. f \in Contents
      BY <2>1 DEF Contents
    <2> HIDE DEF f, k
    <2>3. [creator |-> p, file |-> f] \in TempFiles
      BY <2>2
    <2>4. temps' = [t \in DOMAIN temps \cup {temp[p]} |->
                      IF t = temp[p] THEN [creator |-> p, file |-> f]
                      ELSE temps[t]]
      BY <1>1 DEF OpenTemp, f, k
    <2>5. QED
      BY <1>1, <2>3, <2>4
  <1>2. ASSUME NEW b \in BOOLEAN, WriteTemp(p, b), temp[p] \in DOMAIN temps
        PROVE  /\ DOMAIN temps' \subseteq TempNames
               /\ \A t \in DOMAIN temps' : temps'[t] \in TempFiles
    <2> DEFINE r == temps[temp[p]]
               w == [r EXCEPT !.file.whole = TRUE, !.file.synced = b]
    <2>1. r \in [creator : Procs, file : Contents]
      BY <1>2
    <2>2. [r.file EXCEPT !.whole = TRUE, !.synced = b] \in Contents
      BY <2>1, <1>2 DEF Contents
    <2>3. w \in TempFiles
      BY <2>1, <2>2, <1>2 DEF Contents
    <2>4. /\ DOMAIN temps' = DOMAIN temps
          /\ \A t \in DOMAIN temps :
                temps'[t] = IF t = temp[p] THEN w ELSE temps[t]
      BY <1>2 DEF WriteTemp
    <2>5. QED
      BY <2>3, <2>4
  <1>3. QED
    BY <1>1, <1>2

\* Every action of a process keeps the types.
LEMMA StepTypes ==
    ASSUME IInv, NEW p \in Procs, Step(p)
    PROVE  TypeOK'
  <1> USE ValueFacts, FileFacts, NameFacts
      DEF IInv, TypeOK, ProcessInv, Owns, Counted, NoKeyYet,
          Writers, Keyless, Creating, Storing, Finished, Pcs, TempFiles,
          Values, files, faultVars
  <1>1. CASE CannotUseCache(p)
    BY <1>1 DEF CannotUseCache, At, Fail
  <1>2. CASE UseEnvironmentKey(p)
    BY <1>2 DEF UseEnvironmentKey, At
  <1>3. CASE UseKeyFile(p)
    BY <1>3 DEF UseKeyFile, At
  <1>4. CASE ReadKey(p)
    BY <1>4 DEF ReadKey
  <1>5. CASE DrawKey(p)
    <2>1. [for |-> "key", pid |-> Pid[p], n |-> counter[p]] \in TempNames
      BY <1>5 DEF DrawKey, At
    <2>2. QED
      BY <1>5, <2>1 DEF DrawKey, At
  <1>6. CASE CreateKeyTemp(p)
    <2>1. temp[p] \in TempNames
      BY <1>6 DEF CreateKeyTemp, Named, Opening
    <2>2. /\ DOMAIN temps' \subseteq TempNames
          /\ \A t \in DOMAIN temps' : temps'[t] \in TempFiles
      BY <1>6, <2>1, TempTypes DEF CreateKeyTemp, CreateTemp
    <2>3. QED
      BY <1>6, <2>2 DEF CreateKeyTemp, CreateTemp
  <1>7. CASE WriteKey(p)
    <2>1. /\ DOMAIN temps' \subseteq TempNames
          /\ \A t \in DOMAIN temps' : temps'[t] \in TempFiles
      BY <1>7, TempTypes DEF WriteKey, At, KeySynced
    <2>2. QED
      BY <1>7, <2>1 DEF WriteKey, At
  <1>8. CASE WriteKeyFails(p)
    BY <1>8 DEF WriteKeyFails, At, Fail
  <1>9. CASE CleanUpFailedKey(p)
    BY <1>9 DEF CleanUpFailedKey, At, CleanUp, RemoveTemp, Fail
  <1>10. CASE LinkKey(p)
    BY <1>10 DEF LinkKey, At, Publishes
  <1>11. CASE LinkKeyFails(p)
    BY <1>11 DEF LinkKeyFails, At, Fail
  <1>12. CASE CleanUpKey(p)
    BY <1>12 DEF CleanUpKey, CleanUp, RemoveTemp, Fail, AfterLostRace
  <1>13. CASE RereadKey(p)
    BY <1>13 DEF RereadKey, WinnersKey
  <1>14. CASE RunUncached(p)
    BY <1>14 DEF RunUncached, At
  <1>15. CASE LoadHit(p)
    BY <1>15 DEF LoadHit, At
  <1>16. CASE LoadMiss(p)
    <2>1. [for |-> "entry", pid |-> Pid[p], n |-> counter[p]] \in TempNames
      BY <1>16 DEF LoadMiss, At
    <2>2. QED
      BY <1>16, <2>1 DEF LoadMiss, At, Fail
  <1>17. CASE SkipStore(p)
    BY <1>17 DEF SkipStore, At
  <1>18. CASE CreateEntryTemp(p)
    <2>1. temp[p] \in TempNames
      BY <1>18 DEF CreateEntryTemp, Named, Opening
    <2>2. /\ DOMAIN temps' \subseteq TempNames
          /\ \A t \in DOMAIN temps' : temps'[t] \in TempFiles
      BY <1>18, <2>1, TempTypes DEF CreateEntryTemp, CreateTemp
    <2>3. QED
      BY <1>18, <2>2 DEF CreateEntryTemp, CreateTemp
  <1>19. CASE WriteEntry(p)
    <2>1. /\ DOMAIN temps' \subseteq TempNames
          /\ \A t \in DOMAIN temps' : temps'[t] \in TempFiles
      BY <1>19, TempTypes DEF WriteEntry, At
    <2>2. QED
      BY <1>19, <2>1 DEF WriteEntry, At
  <1>20. CASE StoreFails(p)
    BY <1>20 DEF StoreFails, At, Fail
  <1>21. CASE CleanUpFailedEntry(p)
    BY <1>21 DEF CleanUpFailedEntry, At, CleanUp, RemoveTemp, Fail
  <1>22. CASE Rename(p)
    BY <1>22 DEF Rename, At, RemoveTemp
  <1>23. CASE Crash(p)
    BY <1>23 DEF Crash
  <1>24. QED
    BY <1>1, <1>2, <1>3, <1>4, <1>5, <1>6, <1>7, <1>8, <1>9, <1>10, <1>11,
       <1>12, <1>13, <1>14, <1>15, <1>16, <1>17, <1>18, <1>19, <1>20, <1>21,
       <1>22, <1>23
    DEF Step

\* What is known of the other processes stays true.
LEMMA OthersInv ==
    ASSUME IInv, NEW p \in Procs, NEW q \in Procs \ {p}, Local(p), TypeOK',
           pc'[p] # "start"
    PROVE  ProcessInv(q)'
  <1> USE DEF IInv, TypeOK, ProcessInv, Local
  <1>1. Owns(q)'
    BY DEF Owns
  <1>2. Named(q)'
    BY DEF Named
  <1>3. Counted(q)' /\ NoKeyYet(q)'
    BY DEF Counted, NoKeyYet
  <1>4. Raced(q)'
    BY DEF Raced
  <1>5. Agrees(q)'
    BY DEF Agrees, Running
  <1>6. Blameless(q)'
    <2>1. SUFFICES ASSUME pc[q] = "disabled", failures = 0, removals = 0
                   PROVE  \E r \in Procs \ {q} :
                              Pid[r] = Pid[q] /\ pc'[r] # "start"
      BY DEF Blameless
    <2>2. PICK r \in Procs \ {q} : Pid[r] = Pid[q] /\ pc[r] # "start"
      BY <2>1 DEF Blameless
    <2>3. pc'[r] # "start"
      BY <2>2
    <2>4. QED
      BY <2>2, <2>3
  <1>7. QED
    BY <1>1, <1>2, <1>3, <1>4, <1>5, <1>6

\* A process keeps track of its own temporary file.
LEMMA OwnTemps ==
    ASSUME IInv, NEW p \in Procs, Step(p), TypeOK'
    PROVE  Owns(p)' /\ Named(p)'
  <1> USE DEF IInv, TypeOK, ProcessInv, Owns, Named, Writers, Opening, files,
     faultVars
  <1>1. CASE CannotUseCache(p)
    BY <1>1 DEF CannotUseCache, At, Fail
  <1>2. CASE UseEnvironmentKey(p)
    BY <1>2 DEF UseEnvironmentKey, At
  <1>3. CASE UseKeyFile(p)
    BY <1>3 DEF UseKeyFile, At
  <1>4. CASE ReadKey(p)
    BY <1>4 DEF ReadKey
  <1>5. CASE DrawKey(p)
    <2>1. counter[p] \in {0, 1}
      BY <1>5 DEF DrawKey, At, Counted
    <2>2. temp'[p] = [for |-> "key", pid |-> Pid[p], n |-> counter[p]]
      BY <1>5 DEF DrawKey, At
    <2>3. temp'[p] \in TempNames /\ temp'[p].pid = Pid[p]
      <3>1. Pid[p] \in Pids
        BY ValueFacts DEF Values
      <3>2. temp'[p] \in TempNames
        BY <2>1, <2>2, <3>1 DEF TempNames
      <3>3. QED
        BY <2>2, <3>2
    <2>4. pc'[p] = "createKey"
      BY <1>5 DEF DrawKey, At
    <2>5. QED
      BY <2>3, <2>4
  <1>6. CASE CreateKeyTemp(p)
    <2>1. key[p] = NoKey
      BY <1>6 DEF CreateKeyTemp, NoKeyYet, Keyless, Creating
    <2>2. QED
      BY <1>6, <2>1 DEF CreateKeyTemp, CreateTemp, OpenTemp
  <1>7. CASE WriteKey(p)
    BY <1>7 DEF WriteKey, At, WriteTemp, KeySynced
  <1>8. CASE WriteKeyFails(p)
    BY <1>8 DEF WriteKeyFails, At, Fail
  <1>9. CASE CleanUpFailedKey(p)
    BY <1>9 DEF CleanUpFailedKey, At, CleanUp, RemoveTemp, Fail
  <1>10. CASE LinkKey(p)
    BY <1>10 DEF LinkKey, At, Publishes
  <1>11. CASE LinkKeyFails(p)
    BY <1>11 DEF LinkKeyFails, At, Fail
  <1>12. CASE CleanUpKey(p)
    BY <1>12 DEF CleanUpKey, CleanUp, RemoveTemp, Fail, AfterLostRace
  <1>13. CASE RereadKey(p)
    BY <1>13 DEF RereadKey, WinnersKey
  <1>14. CASE RunUncached(p)
    BY <1>14 DEF RunUncached, At
  <1>15. CASE LoadHit(p)
    BY <1>15 DEF LoadHit, At
  <1>16. CASE LoadMiss(p)
    <2>1. counter[p] \in {0, 1}
      BY <1>16 DEF LoadMiss, At, Counted
    <2>2. temp'[p] = [for |-> "entry", pid |-> Pid[p], n |-> counter[p]]
      BY <1>16 DEF LoadMiss, At
    <2>3. temp'[p] \in TempNames /\ temp'[p].pid = Pid[p]
      <3>1. Pid[p] \in Pids
        BY ValueFacts DEF Values
      <3>2. temp'[p] \in TempNames
        BY <2>1, <2>2, <3>1 DEF TempNames
      <3>3. QED
        BY <2>2, <3>2
    <2>4. pc'[p] = "createEntry"
      BY <1>16 DEF LoadMiss, At
    <2>5. QED
      BY <2>3, <2>4
  <1>17. CASE SkipStore(p)
    BY <1>17 DEF SkipStore, At
  <1>18. CASE CreateEntryTemp(p)
    BY <1>18 DEF CreateEntryTemp, CreateTemp, OpenTemp
  <1>19. CASE WriteEntry(p)
    BY <1>19 DEF WriteEntry, At, WriteTemp
  <1>20. CASE StoreFails(p)
    BY <1>20 DEF StoreFails, At, Fail
  <1>21. CASE CleanUpFailedEntry(p)
    BY <1>21 DEF CleanUpFailedEntry, At, CleanUp, RemoveTemp, Fail
  <1>22. CASE Rename(p)
    BY <1>22 DEF Rename, At, RemoveTemp
  <1>23. CASE Crash(p)
    BY <1>23 DEF Crash
  <1>24. QED
    BY <1>1, <1>2, <1>3, <1>4, <1>5, <1>6, <1>7, <1>8, <1>9, <1>10, <1>11,
       <1>12, <1>13, <1>14, <1>15, <1>16, <1>17, <1>18, <1>19, <1>20, <1>21,
       <1>22, <1>23
    DEF Step

\* Its counter, and the key it does not have yet.
LEMMA OwnCounts ==
    ASSUME IInv, NEW p \in Procs, Step(p), TypeOK'
    PROVE  Counted(p)' /\ NoKeyYet(p)'
  <1> USE DEF IInv, TypeOK, ProcessInv, Counted, NoKeyYet, Keyless, Creating,
     files, faultVars
  <1>1. CASE CannotUseCache(p)
    BY <1>1 DEF CannotUseCache, At, Fail
  <1>2. CASE UseEnvironmentKey(p)
    BY <1>2 DEF UseEnvironmentKey, At
  <1>3. CASE UseKeyFile(p)
    BY <1>3 DEF UseKeyFile, At
  <1>4. CASE ReadKey(p)
    BY <1>4 DEF ReadKey
  <1>5. CASE DrawKey(p)
    BY <1>5 DEF DrawKey, At
  <1>6. CASE CreateKeyTemp(p)
    BY <1>6 DEF CreateKeyTemp, CreateTemp, OpenTemp
  <1>7. CASE WriteKey(p)
    BY <1>7 DEF WriteKey, At, WriteTemp, KeySynced
  <1>8. CASE WriteKeyFails(p)
    BY <1>8 DEF WriteKeyFails, At, Fail
  <1>9. CASE CleanUpFailedKey(p)
    BY <1>9 DEF CleanUpFailedKey, At, CleanUp, RemoveTemp, Fail
  <1>10. CASE LinkKey(p)
    BY <1>10 DEF LinkKey, At, Publishes
  <1>11. CASE LinkKeyFails(p)
    BY <1>11 DEF LinkKeyFails, At, Fail
  <1>12. CASE CleanUpKey(p)
    BY <1>12 DEF CleanUpKey, CleanUp, RemoveTemp, Fail, AfterLostRace
  <1>13. CASE RereadKey(p)
    BY <1>13 DEF RereadKey, WinnersKey
  <1>14. CASE RunUncached(p)
    BY <1>14 DEF RunUncached, At
  <1>15. CASE LoadHit(p)
    BY <1>15 DEF LoadHit, At
  <1>16. CASE LoadMiss(p)
    BY <1>16 DEF LoadMiss, At, Fail
  <1>17. CASE SkipStore(p)
    BY <1>17 DEF SkipStore, At
  <1>18. CASE CreateEntryTemp(p)
    BY <1>18 DEF CreateEntryTemp, CreateTemp, OpenTemp
  <1>19. CASE WriteEntry(p)
    BY <1>19 DEF WriteEntry, At, WriteTemp
  <1>20. CASE StoreFails(p)
    BY <1>20 DEF StoreFails, At, Fail
  <1>21. CASE CleanUpFailedEntry(p)
    BY <1>21 DEF CleanUpFailedEntry, At, CleanUp, RemoveTemp, Fail
  <1>22. CASE Rename(p)
    BY <1>22 DEF Rename, At, RemoveTemp
  <1>23. CASE Crash(p)
    BY <1>23 DEF Crash
  <1>24. QED
    BY <1>1, <1>2, <1>3, <1>4, <1>5, <1>6, <1>7, <1>8, <1>9, <1>10, <1>11,
       <1>12, <1>13, <1>14, <1>15, <1>16, <1>17, <1>18, <1>19, <1>20, <1>21,
       <1>22, <1>23
    DEF Step

\* What it knows of the race.
LEMMA OwnRace ==
    ASSUME IInv, NEW p \in Procs, Step(p), TypeOK'
    PROVE  Raced(p)' /\ Agrees(p)'
  <1> USE ValueFacts, FileFacts DEF IInv, TypeOK, ProcessInv, Owns, Raced,
     Agrees, NoKeyYet, Keyless, Creating, Running, Finished, Writers, files,
     faultVars, Values, FilesInv, KeyDurable
  <1>1. CASE CannotUseCache(p)
    BY <1>1 DEF CannotUseCache, At, Fail
  <1>2. CASE UseEnvironmentKey(p)
    BY <1>2 DEF UseEnvironmentKey, At
  <1>3. CASE UseKeyFile(p)
    BY <1>3 DEF UseKeyFile, At
  <1>4. CASE ReadKey(p)
    BY <1>4 DEF ReadKey
  <1>5. CASE DrawKey(p)
    BY <1>5 DEF DrawKey, At
  <1>6. CASE CreateKeyTemp(p)
    BY <1>6 DEF CreateKeyTemp, CreateTemp, OpenTemp
  <1>7. CASE WriteKey(p)
    BY <1>7 DEF WriteKey, At, WriteTemp, KeySynced
  <1>8. CASE WriteKeyFails(p)
    BY <1>8 DEF WriteKeyFails, At, Fail
  <1>9. CASE CleanUpFailedKey(p)
    BY <1>9 DEF CleanUpFailedKey, At, CleanUp, RemoveTemp, Fail
  <1>10. CASE LinkKey(p)
    <2>1. key'[p] = NoKey /\ pc'[p] = "cleanup"
      BY <1>10 DEF LinkKey, At
    <2>2. temps[temp[p]].file \in Contents /\ temps[temp[p]].file.key = p
      BY <1>10 DEF LinkKey, At, TempFiles
    <2>3. linked'[p] = IF keyFile = Absent THEN "published" ELSE "exists"
      BY <1>10 DEF LinkKey, At, Publishes
    <2>4. keyFile' # Absent /\ (keyFile = Absent => keyFile'.key = p)
      BY <1>10, <2>2 DEF LinkKey, Publishes
    <2>5. QED
      BY <2>1, <2>3, <2>4
  <1>11. CASE LinkKeyFails(p)
    BY <1>11 DEF LinkKeyFails, At, Fail
  <1>12. CASE CleanUpKey(p)
    BY <1>12 DEF CleanUpKey, CleanUp, RemoveTemp, Fail, AfterLostRace
  <1>13. CASE RereadKey(p)
    BY <1>13 DEF RereadKey, WinnersKey
  <1>14. CASE RunUncached(p)
    BY <1>14 DEF RunUncached, At
  <1>15. CASE LoadHit(p)
    BY <1>15 DEF LoadHit, At
  <1>16. CASE LoadMiss(p)
    BY <1>16 DEF LoadMiss, At, Fail
  <1>17. CASE SkipStore(p)
    BY <1>17 DEF SkipStore, At
  <1>18. CASE CreateEntryTemp(p)
    BY <1>18 DEF CreateEntryTemp, CreateTemp, OpenTemp
  <1>19. CASE WriteEntry(p)
    BY <1>19 DEF WriteEntry, At, WriteTemp
  <1>20. CASE StoreFails(p)
    BY <1>20 DEF StoreFails, At, Fail
  <1>21. CASE CleanUpFailedEntry(p)
    BY <1>21 DEF CleanUpFailedEntry, At, CleanUp, RemoveTemp, Fail
  <1>22. CASE Rename(p)
    BY <1>22 DEF Rename, At, RemoveTemp
  <1>23. CASE Crash(p)
    BY <1>23 DEF Crash
  <1>24. QED
    BY <1>1, <1>2, <1>3, <1>4, <1>5, <1>6, <1>7, <1>8, <1>9, <1>10, <1>11,
       <1>12, <1>13, <1>14, <1>15, <1>16, <1>17, <1>18, <1>19, <1>20, <1>21,
       <1>22, <1>23
    DEF Step

\* A process is not to blame for a cache it has to do without.
LEMMA OwnBlame ==
    ASSUME IInv, NEW p \in Procs, Step(p), TypeOK'
    PROVE  Blameless(p)'
  <1> SUFFICES ASSUME pc'[p] = "disabled", failures' = 0, removals' = 0
               PROVE  \E r \in Procs \ {p} :
                          Pid[r] = Pid[p] /\ pc'[r] # "start"
    BY DEF Blameless, TypeOK
  <1> USE DEF IInv, TypeOK, ProcessInv
  <1>1. failures = 0 /\ removals = 0
    BY Locality DEF Local
  <1>2. ~(\E r \in Procs \ {p} : Pid[r] = Pid[p] /\ pc[r] # "start")
          => pc[p] # "disabled"
    BY <1>1 DEF Blameless
  <1>3. keyFile # Absent => keyFile.whole
    BY DEF FilesInv, KeyDurable
  <1>4. CASE pc[p] = "disabled"
    BY <1>2, <1>4, Locality DEF Local
  <1>5. CASE CreateKeyTemp(p)
    <2>1. temp[p] \in DOMAIN temps
      BY <1>5 DEF CreateKeyTemp, CreateTemp
    <2> DEFINE r == temps[temp[p]].creator
    <2>2. r \in Procs /\ Pid[r] = Pid[p]
      BY <1>5, <2>1 DEF CreateKeyTemp, Named, Opening, FilesInv, NamesFit,
         TempFiles
    <2>3. pc[r] \in Writers \cup {"crashed"}
      BY <1>1, <2>1 DEF FilesInv, Leftovers
    <2>4. r # p /\ pc[r] # "start"
      BY <1>5, <2>3 DEF CreateKeyTemp, Writers
    <2>5. QED
      BY <2>2, <2>4, Locality DEF Local
  <1>6. CASE ~CreateKeyTemp(p) /\ pc[p] # "disabled"
    <2> USE <1>1, <1>3, <1>6 DEF files, faultVars
    <2>1. CASE CannotUseCache(p)
      BY <2>1 DEF CannotUseCache, At, Fail
    <2>2. CASE UseEnvironmentKey(p)
      BY <2>2 DEF UseEnvironmentKey, At
    <2>3. CASE UseKeyFile(p)
      BY <2>3 DEF UseKeyFile, At
    <2>4. CASE ReadKey(p)
      BY <2>4 DEF ReadKey
    <2>5. CASE DrawKey(p)
      BY <2>5 DEF DrawKey, At
    <2>6. CASE WriteKey(p)
      BY <2>6 DEF WriteKey, At, WriteTemp, KeySynced
    <2>7. CASE WriteKeyFails(p)
      BY <2>7 DEF WriteKeyFails, At, Fail
    <2>8. CASE CleanUpFailedKey(p)
      BY <2>8 DEF CleanUpFailedKey, At, Raced
    <2>9. CASE LinkKey(p)
      BY <2>9 DEF LinkKey, At, Publishes
    <2>10. CASE LinkKeyFails(p)
      BY <2>10 DEF LinkKeyFails, At, Fail
    <2>11. CASE CleanUpKey(p)
      BY <2>11 DEF CleanUpKey, AfterLostRace, Raced
    <2>12. CASE RereadKey(p)
      BY <2>12 DEF RereadKey, Raced
    <2>13. CASE RunUncached(p)
      BY <2>13 DEF RunUncached, At
    <2>14. CASE LoadHit(p)
      BY <2>14 DEF LoadHit, At
    <2>15. CASE LoadMiss(p)
      BY <2>15 DEF LoadMiss, At, Fail
    <2>16. CASE SkipStore(p)
      BY <2>16 DEF SkipStore, At
    <2>17. CASE CreateEntryTemp(p)
      BY <2>17 DEF CreateEntryTemp, CreateTemp, OpenTemp
    <2>18. CASE WriteEntry(p)
      BY <2>18 DEF WriteEntry, At, WriteTemp
    <2>19. CASE StoreFails(p)
      BY <2>19 DEF StoreFails, At, Fail
    <2>20. CASE CleanUpFailedEntry(p)
      BY <2>20 DEF CleanUpFailedEntry, At, CleanUp, RemoveTemp, Fail
    <2>21. CASE Rename(p)
      BY <2>21 DEF Rename, At, RemoveTemp
    <2>22. CASE Crash(p)
      BY <2>22 DEF Crash
    <2>23. QED
      BY <2>1, <2>2, <2>3, <2>4, <2>5, <2>6, <2>7, <2>8, <2>9, <2>10, <2>11,
         <2>12, <2>13, <2>14, <2>15, <2>16, <2>17, <2>18, <2>19, <2>20, <2>21,
         <2>22 DEF Step
  <1>7. QED
    BY <1>4, <1>5, <1>6

\* The files: the published key, the entry, the names and the owners.
LEMMA StepKeyFile ==
    ASSUME IInv, NEW p \in Procs, Step(p)
    PROVE  KeyDurable' /\ EntriesWhole'
  <1> USE FileFacts DEF IInv, TypeOK, ProcessInv, FilesInv, KeyDurable,
          EntriesWhole, Owns, Writers, TempFiles, files, faultVars
  <1>1. CASE CannotUseCache(p)
    BY <1>1 DEF CannotUseCache, At, Fail
  <1>2. CASE UseEnvironmentKey(p)
    BY <1>2 DEF UseEnvironmentKey, At
  <1>3. CASE UseKeyFile(p)
    BY <1>3 DEF UseKeyFile, At
  <1>4. CASE ReadKey(p)
    BY <1>4 DEF ReadKey
  <1>5. CASE DrawKey(p)
    BY <1>5 DEF DrawKey, At
  <1>6. CASE CreateKeyTemp(p)
    BY <1>6 DEF CreateKeyTemp, CreateTemp, OpenTemp
  <1>7. CASE WriteKey(p)
    BY <1>7 DEF WriteKey, At, WriteTemp, KeySynced
  <1>8. CASE WriteKeyFails(p)
    BY <1>8 DEF WriteKeyFails, At, Fail
  <1>9. CASE CleanUpFailedKey(p)
    BY <1>9 DEF CleanUpFailedKey, At, CleanUp, RemoveTemp, Fail
  <1>10. CASE LinkKey(p)
    BY <1>10 DEF LinkKey, At, Publishes
  <1>11. CASE LinkKeyFails(p)
    BY <1>11 DEF LinkKeyFails, At, Fail
  <1>12. CASE CleanUpKey(p)
    BY <1>12 DEF CleanUpKey, CleanUp, RemoveTemp, Fail, AfterLostRace
  <1>13. CASE RereadKey(p)
    BY <1>13 DEF RereadKey, WinnersKey
  <1>14. CASE RunUncached(p)
    BY <1>14 DEF RunUncached, At
  <1>15. CASE LoadHit(p)
    BY <1>15 DEF LoadHit, At
  <1>16. CASE LoadMiss(p)
    BY <1>16 DEF LoadMiss, At, Fail
  <1>17. CASE SkipStore(p)
    BY <1>17 DEF SkipStore, At
  <1>18. CASE CreateEntryTemp(p)
    BY <1>18 DEF CreateEntryTemp, CreateTemp, OpenTemp
  <1>19. CASE WriteEntry(p)
    BY <1>19 DEF WriteEntry, At, WriteTemp
  <1>20. CASE StoreFails(p)
    BY <1>20 DEF StoreFails, At, Fail
  <1>21. CASE CleanUpFailedEntry(p)
    BY <1>21 DEF CleanUpFailedEntry, At, CleanUp, RemoveTemp, Fail
  <1>22. CASE Rename(p)
    BY <1>22 DEF Rename, At, RemoveTemp
  <1>23. CASE Crash(p)
    BY <1>23 DEF Crash
  <1>24. QED
    BY <1>1, <1>2, <1>3, <1>4, <1>5, <1>6, <1>7, <1>8, <1>9, <1>10, <1>11,
       <1>12, <1>13, <1>14, <1>15, <1>16, <1>17, <1>18, <1>19, <1>20, <1>21,
       <1>22, <1>23 DEF Step

\* A new temporary file is named after the process that made it.
LEMMA StepNames ==
    ASSUME IInv, NEW p \in Procs, Step(p), Local(p)
    PROVE  NamesFit'
  <1> USE DEF IInv, TypeOK, ProcessInv, FilesInv, NamesFit, Local
  <1>1. ASSUME NEW t \in DOMAIN temps', t \notin DOMAIN temps
        PROVE  t.pid = Pid[p]
    <2>1. t = temp[p]
      BY <1>1
    <2>2. CreateKeyTemp(p) \/ CreateEntryTemp(p)
      <3> USE <1>1 DEF files
      <3>1. CASE CannotUseCache(p)
        BY <3>1 DEF CannotUseCache, At, Fail
      <3>2. CASE UseEnvironmentKey(p)
        BY <3>2 DEF UseEnvironmentKey, At
      <3>3. CASE UseKeyFile(p)
        BY <3>3 DEF UseKeyFile, At
      <3>4. CASE ReadKey(p)
        BY <3>4 DEF ReadKey
      <3>5. CASE DrawKey(p)
        BY <3>5 DEF DrawKey, At
      <3>6. CASE CreateKeyTemp(p)
        BY <3>6 DEF CreateKeyTemp, CreateTemp, OpenTemp
      <3>7. CASE WriteKey(p)
        BY <3>7 DEF WriteKey, At, WriteTemp, KeySynced
      <3>8. CASE WriteKeyFails(p)
        BY <3>8 DEF WriteKeyFails, At, Fail
      <3>9. CASE CleanUpFailedKey(p)
        BY <3>9 DEF CleanUpFailedKey, At, CleanUp, RemoveTemp, Fail
      <3>10. CASE LinkKey(p)
        BY <3>10 DEF LinkKey, At, Publishes
      <3>11. CASE LinkKeyFails(p)
        BY <3>11 DEF LinkKeyFails, At, Fail
      <3>12. CASE CleanUpKey(p)
        BY <3>12 DEF CleanUpKey, CleanUp, RemoveTemp, Fail, AfterLostRace
      <3>13. CASE RereadKey(p)
        BY <3>13 DEF RereadKey, WinnersKey
      <3>14. CASE RunUncached(p)
        BY <3>14 DEF RunUncached, At
      <3>15. CASE LoadHit(p)
        BY <3>15 DEF LoadHit, At
      <3>16. CASE LoadMiss(p)
        BY <3>16 DEF LoadMiss, At, Fail
      <3>17. CASE SkipStore(p)
        BY <3>17 DEF SkipStore, At
      <3>18. CASE CreateEntryTemp(p)
        BY <3>18 DEF CreateEntryTemp, CreateTemp, OpenTemp
      <3>19. CASE WriteEntry(p)
        BY <3>19 DEF WriteEntry, At, WriteTemp
      <3>20. CASE StoreFails(p)
        BY <3>20 DEF StoreFails, At, Fail
      <3>21. CASE CleanUpFailedEntry(p)
        BY <3>21 DEF CleanUpFailedEntry, At, CleanUp, RemoveTemp, Fail
      <3>22. CASE Rename(p)
        BY <3>22 DEF Rename, At, RemoveTemp
      <3>23. CASE Crash(p)
        BY <3>23 DEF Crash
      <3>24. QED
        BY <3>1, <3>2, <3>3, <3>4, <3>5, <3>6, <3>7, <3>8, <3>9, <3>10, <3>11,
           <3>12, <3>13, <3>14, <3>15, <3>16, <3>17, <3>18, <3>19, <3>20,
           <3>21, <3>22, <3>23 DEF Step
    <2>3. QED
      BY <2>1, <2>2 DEF CreateKeyTemp, CreateEntryTemp, Named, Opening
  <1>2. QED
    BY <1>1

\* Without failures, only a process at work or a crashed one has a file.
LEMMA StepLeftovers ==
    ASSUME IInv, NEW p \in Procs, Step(p), Local(p), TypeOK', Owns(p)'
    PROVE  Leftovers'
  <1> SUFFICES ASSUME failures' = 0, NEW t \in DOMAIN temps'
               PROVE  LET c == temps'[t].creator
                      IN  temp'[c] = t /\ pc'[c] \in Writers \cup {"crashed"}
    BY DEF Leftovers
  <1> USE DEF IInv, TypeOK, ProcessInv, FilesInv, Leftovers, TempFiles
  <1>1. failures = 0
    BY DEF Local
  <1>2. CASE temps'[t].creator # p
    BY <1>1, <1>2 DEF Local
  <1>3. CASE temps'[t].creator = p
    <2> USE <1>1, <1>3 DEF Owns, Writers, files, faultVars
    <2>1. CASE CannotUseCache(p)
      BY <2>1 DEF CannotUseCache, At, Fail
    <2>2. CASE UseEnvironmentKey(p)
      BY <2>2 DEF UseEnvironmentKey, At
    <2>3. CASE UseKeyFile(p)
      BY <2>3 DEF UseKeyFile, At
    <2>4. CASE ReadKey(p)
      BY <2>4 DEF ReadKey
    <2>5. CASE DrawKey(p)
      BY <2>5 DEF DrawKey, At
    <2>6. CASE CreateKeyTemp(p)
      BY <2>6 DEF CreateKeyTemp, CreateTemp, OpenTemp
    <2>7. CASE WriteKey(p)
      BY <2>7 DEF WriteKey, At, WriteTemp, KeySynced
    <2>8. CASE WriteKeyFails(p)
      BY <2>8 DEF WriteKeyFails, At, Fail
    <2>9. CASE CleanUpFailedKey(p)
      BY <2>9 DEF CleanUpFailedKey, At, CleanUp, RemoveTemp, Fail
    <2>10. CASE LinkKey(p)
      BY <2>10 DEF LinkKey, At, Publishes
    <2>11. CASE LinkKeyFails(p)
      BY <2>11 DEF LinkKeyFails, At, Fail
    <2>12. CASE CleanUpKey(p)
      BY <2>12 DEF CleanUpKey, CleanUp, RemoveTemp, Fail, AfterLostRace
    <2>13. CASE RereadKey(p)
      BY <2>13 DEF RereadKey, WinnersKey
    <2>14. CASE RunUncached(p)
      BY <2>14 DEF RunUncached, At
    <2>15. CASE LoadHit(p)
      BY <2>15 DEF LoadHit, At
    <2>16. CASE LoadMiss(p)
      BY <2>16 DEF LoadMiss, At, Fail
    <2>17. CASE SkipStore(p)
      BY <2>17 DEF SkipStore, At
    <2>18. CASE CreateEntryTemp(p)
      BY <2>18 DEF CreateEntryTemp, CreateTemp, OpenTemp
    <2>19. CASE WriteEntry(p)
      BY <2>19 DEF WriteEntry, At, WriteTemp
    <2>20. CASE StoreFails(p)
      BY <2>20 DEF StoreFails, At, Fail
    <2>21. CASE CleanUpFailedEntry(p)
      BY <2>21 DEF CleanUpFailedEntry, At, CleanUp, RemoveTemp, Fail
    <2>22. CASE Rename(p)
      BY <2>22 DEF Rename, At, RemoveTemp
    <2>23. CASE Crash(p)
      BY <2>23 DEF Crash
    <2>24. QED
      BY <2>1, <2>2, <2>3, <2>4, <2>5, <2>6, <2>7, <2>8, <2>9, <2>10, <2>11,
         <2>12, <2>13, <2>14, <2>15, <2>16, <2>17, <2>18, <2>19, <2>20, <2>21,
         <2>22, <2>23 DEF Step
  <1>4. QED
    BY <1>2, <1>3

\* No process is at its start after a step of its own.
LEMMA Started ==
    ASSUME TypeOK, NEW p \in Procs, Step(p)
    PROVE  pc'[p] # "start"
  <1> USE DEF TypeOK
  <1>1. CASE CannotUseCache(p)
    BY <1>1 DEF CannotUseCache, At, Fail
  <1>2. CASE UseEnvironmentKey(p)
    BY <1>2 DEF UseEnvironmentKey, At
  <1>3. CASE UseKeyFile(p)
    BY <1>3 DEF UseKeyFile, At
  <1>4. CASE ReadKey(p)
    BY <1>4 DEF ReadKey
  <1>5. CASE DrawKey(p)
    BY <1>5 DEF DrawKey, At
  <1>6. CASE CreateKeyTemp(p)
    BY <1>6 DEF CreateKeyTemp, CreateTemp, OpenTemp
  <1>7. CASE WriteKey(p)
    BY <1>7 DEF WriteKey, At, WriteTemp, KeySynced
  <1>8. CASE WriteKeyFails(p)
    BY <1>8 DEF WriteKeyFails, At, Fail
  <1>9. CASE CleanUpFailedKey(p)
    BY <1>9 DEF CleanUpFailedKey, At, CleanUp, RemoveTemp, Fail
  <1>10. CASE LinkKey(p)
    BY <1>10 DEF LinkKey, At, Publishes
  <1>11. CASE LinkKeyFails(p)
    BY <1>11 DEF LinkKeyFails, At, Fail
  <1>12. CASE CleanUpKey(p)
    BY <1>12 DEF CleanUpKey, CleanUp, RemoveTemp, Fail, AfterLostRace
  <1>13. CASE RereadKey(p)
    BY <1>13 DEF RereadKey, WinnersKey
  <1>14. CASE RunUncached(p)
    BY <1>14 DEF RunUncached, At
  <1>15. CASE LoadHit(p)
    BY <1>15 DEF LoadHit, At
  <1>16. CASE LoadMiss(p)
    BY <1>16 DEF LoadMiss, At, Fail
  <1>17. CASE SkipStore(p)
    BY <1>17 DEF SkipStore, At
  <1>18. CASE CreateEntryTemp(p)
    BY <1>18 DEF CreateEntryTemp, CreateTemp, OpenTemp
  <1>19. CASE WriteEntry(p)
    BY <1>19 DEF WriteEntry, At, WriteTemp
  <1>20. CASE StoreFails(p)
    BY <1>20 DEF StoreFails, At, Fail
  <1>21. CASE CleanUpFailedEntry(p)
    BY <1>21 DEF CleanUpFailedEntry, At, CleanUp, RemoveTemp, Fail
  <1>22. CASE Rename(p)
    BY <1>22 DEF Rename, At, RemoveTemp
  <1>23. CASE Crash(p)
    BY <1>23 DEF Crash
  <1>24. QED
    BY <1>1, <1>2, <1>3, <1>4, <1>5, <1>6, <1>7, <1>8, <1>9, <1>10, <1>11,
       <1>12, <1>13, <1>14, <1>15, <1>16, <1>17, <1>18, <1>19, <1>20, <1>21,
       <1>22, <1>23 DEF Step

\* A step of a process preserves the invariant.
LEMMA StepInv == ASSUME IInv, NEW p \in Procs, Step(p) PROVE IInv'
  <1>1. TypeOK'
    BY StepTypes
  <1>2. Local(p)
    BY Locality
  <1>3. pc'[p] # "start"
    BY Started DEF IInv
  <1>4. \A q \in Procs \ {p} : ProcessInv(q)'
    BY <1>1, <1>2, <1>3, OthersInv
  <1>5. ProcessInv(p)'
    BY <1>1, OwnTemps, OwnCounts, OwnRace, OwnBlame DEF ProcessInv
  <1>6. FilesInv'
    <2>1. Owns(p)'
      BY <1>5 DEF ProcessInv
    <2>2. QED
      BY <1>1, <1>2, <2>1, StepKeyFile, StepNames, StepLeftovers DEF FilesInv
  <1>7. QED
    BY <1>1, <1>4, <1>5, <1>6 DEF IInv

\* The user removes the key file.
LEMMA RemovalInv == IInv /\ RemoveKeyFile => IInv'
  <1> SUFFICES ASSUME IInv, RemoveKeyFile PROVE IInv'
    OBVIOUS
  <1> USE CacheAssumption DEF IInv, TypeOK, RemoveKeyFile, procVars
  <1>1. TypeOK'
    OBVIOUS
  <1>2. \A q \in Procs : ProcessInv(q)'
    BY DEF ProcessInv, Owns, Named, Counted, NoKeyYet, Raced, Agrees,
       Blameless
  <1>3. FilesInv'
    BY DEF FilesInv, KeyDurable, EntriesWhole, NamesFit, Leftovers
  <1>4. QED
    BY <1>1, <1>2, <1>3

\* The machine stops.
LEMMA PowerLossInv == IInv /\ PowerLoss => IInv'
  <1> SUFFICES ASSUME IInv, PowerLoss PROVE IInv'
    OBVIOUS
  <1> USE CacheAssumption DEF IInv, TypeOK, PowerLoss
  <1>1. \A q \in Procs : pc'[q] \in {"start", "done", "crashed"}
                           /\ (pc'[q] \in {"start", "done"} => pc'[q] = pc[q])
    BY DEF Running, Finished
  <1>2. PICK kept \in SUBSET DOMAIN temps :
            temps' = [t \in kept |-> temps[t]]
    OBVIOUS
  <1>3. /\ keyFile' \in Contents \cup {Absent}
        /\ entry' \in Contents \cup {Absent}
    BY DEF Survives, Contents
  <1>4. TypeOK'
    <2>1. pc' \in [Procs -> Pcs]
      BY DEF Pcs, Finished
    <2>2. \A q \in Procs : pc'[q] \notin {"load"} \cup Storing
      BY <1>1 DEF Storing
    <2>3. QED
      BY <1>2, <1>3, <2>1, <2>2
  <1>5. \A q \in Procs : ProcessInv(q)'
    BY <1>1 DEF ProcessInv, Owns, Named, Counted, NoKeyYet, Raced, Agrees,
       Blameless, Running, Finished, Writers, Opening, Keyless, Creating
  <1>6. KeyDurable' /\ EntriesWhole'
    BY DEF FilesInv, KeyDurable, EntriesWhole, Survives
  <1>7. NamesFit'
    BY <1>2 DEF FilesInv, NamesFit
  <1>8. Leftovers'
    <2> SUFFICES ASSUME failures = 0, NEW t \in DOMAIN temps'
                 PROVE  /\ temp[temps'[t].creator] = t
                        /\ pc'[temps'[t].creator] \in Writers \cup {"crashed"}
      BY DEF Leftovers
    <2>1. t \in DOMAIN temps /\ temps'[t] = temps[t]
      BY <1>2
    <2>2. temps[t].creator \in Procs
      BY <2>1 DEF TempFiles
    <2>3. /\ temp[temps[t].creator] = t
          /\ pc[temps[t].creator] \in Writers \cup {"crashed"}
      BY <2>1 DEF FilesInv, Leftovers
    <2>4. QED
      BY <2>1, <2>2, <2>3 DEF Running, Finished, Writers
  <1>9. QED
    BY <1>4, <1>5, <1>6, <1>7, <1>8 DEF FilesInv

\* Nothing changes.
LEMMA StutterInv == IInv /\ UNCHANGED vars => IInv'
  <1> SUFFICES ASSUME IInv, UNCHANGED vars PROVE IInv'
    OBVIOUS
  <1> USE DEF IInv, vars, files, procVars, faultVars
  <1>1. TypeOK'
    BY DEF TypeOK
  <1>2. \A q \in Procs : ProcessInv(q)'
    BY DEF ProcessInv, Owns, Named, Counted, NoKeyYet, Raced, Agrees,
       Blameless, Running
  <1>3. FilesInv'
    BY DEF FilesInv, KeyDurable, EntriesWhole, NamesFit, Leftovers
  <1>4. QED
    BY <1>1, <1>2, <1>3

\* The invariant on which every theorem below rests, for any number of scans
\* and any process ids.
THEOREM Inductive == Spec => []IInv
  <1>1. Init => IInv
    BY InitInv
  <1>2. IInv /\ [Next]_vars => IInv'
    <2> SUFFICES ASSUME IInv, [Next]_vars PROVE IInv'
      OBVIOUS
    <2>1. ASSUME NEW p \in Procs, Step(p) PROVE IInv'
      BY <2>1, StepInv
    <2>2. CASE RemoveKeyFile
      BY <2>2, RemovalInv
    <2>3. CASE PowerLoss
      BY <2>3, PowerLossInv
    <2>4. CASE AllFinished \/ UNCHANGED vars
      BY <2>4, StutterInv DEF AllFinished
    <2>5. QED
      BY <2>1, <2>2, <2>3, <2>4 DEF Next
  <1>3. QED
    BY <1>1, <1>2, PTL DEF Spec

\* Every reachable state is well typed; in particular a process never loads or
\* stores an entry without a key.
THEOREM TypeCorrect == Spec => []TypeOK
  <1>1. IInv => TypeOK
    BY DEF IInv
  <1>2. QED
    BY <1>1, Inductive, PTL

\* A published key file is whole, whatever the interleaving and even after the
\* machine stopped: create_key_file flushes before it links.
THEOREM KeyWhole == Spec => []PublishedKeyWhole
  <1>1. IInv => PublishedKeyWhole
    BY DEF IInv, FilesInv, KeyDurable, PublishedKeyWhole
  <1>2. QED
    BY <1>1, Inductive, PTL

\* All running scans that took a key from the key file have the published one.
THEOREM SameKey == Spec => []OneKey
  <1>1. IInv => OneKey
    BY DEF IInv, ProcessInv, Agrees, OneKey
  <1>2. QED
    BY <1>1, Inductive, PTL

\* No process ever replaces or rewrites the key file.
THEOREM KeyKept == Spec => KeyNeverReplaced
  <1>1. IInv /\ [Next]_vars =>
          [keyFile # Absent => keyFile' \in {keyFile, Absent}]_vars
    <2> SUFFICES ASSUME IInv, Next, keyFile # Absent
                 PROVE  keyFile' \in {keyFile, Absent}
      OBVIOUS
    <2>1. ASSUME NEW p \in Procs, Step(p) PROVE keyFile' = keyFile
      BY <2>1, Locality DEF Local
    <2>2. CASE RemoveKeyFile
      BY <2>2 DEF RemoveKeyFile
    <2>3. CASE PowerLoss
      BY <2>3 DEF PowerLoss, Survives, IInv, FilesInv, KeyDurable
    <2>4. CASE AllFinished
      BY <2>4 DEF AllFinished, vars, files
    <2>5. QED
      BY <2>1, <2>2, <2>3, <2>4 DEF Next
  <1>2. QED
    BY <1>1, Inductive, PTL DEF Spec, KeyNeverReplaced

\* Without a power loss an entry that can be seen is whole.
THEOREM WholeEntries == Spec => []EntriesWhole
  <1>1. IInv => EntriesWhole
    BY DEF IInv, FilesInv
  <1>2. QED
    BY <1>1, Inductive, PTL

\* No process writes, publishes or leaves behind the temporary file of another,
\* equal process ids or not.
THEOREM OwnFiles == Spec => []TempsBelong
  <1>1. IInv => TempsBelong
    <2> SUFFICES ASSUME IInv PROVE TempsBelong
      OBVIOUS
    <2>1. \A p \in Procs :
            pc[p] \in Writers =>
              temp[p] \in DOMAIN temps /\ temps[temp[p]].creator = p
      BY DEF IInv, ProcessInv, Owns
    <2>2. failures = 0 =>
            \A t \in DOMAIN temps :
              /\ temp[temps[t].creator] = t
              /\ pc[temps[t].creator] \notin
                    {"start", "disabled", "load", "done"}
      BY DEF IInv, FilesInv, Leftovers, Writers
    <2>3. QED
      BY <2>1, <2>2 DEF TempsBelong, Writers
  <1>2. QED
    BY <1>1, Inductive, PTL

\* A scan loses its cache only to a failed file operation, to the user, or to
\* another process with its id: never to losing the race.
THEOREM RaceHarmless == Spec => []RaceKeepsCache
  <1>1. IInv => RaceKeepsCache
    BY DEF IInv, ProcessInv, Blameless, RaceKeepsCache
  <1>2. QED
    BY <1>1, Inductive, PTL
=============================================================================
