--------------------------- MODULE CommandsProofs ---------------------------
(***************************************************************************)
(* Proofs about Commands, for any number of commands in one directory.     *)
(*                                                                         *)
(* What a command still has to do is a sequence of steps, and each of its  *)
(* files moves along with that sequence: it has no name before its publish *)
(* step is done, is not touched after it, and is temporary until then.  So *)
(* the invariant speaks of the set of steps that are left (Left) and of    *)
(* the order they come in (Ordered), which taking the first step off       *)
(* preserves.  An output is going to be where its path says, unless the    *)
(* user crossed the two calls that find it out (TargetOK).  No other       *)
(* command can make a name hold this command's file, and that is all a     *)
(* command needs to know about the others.                                 *)
(***************************************************************************)
EXTENDS Commands, SequenceTheorems, TLAPS

Rank ==
    [look |-> 0, resolve |-> 1, check |-> 2, install |-> 2, read |-> 3,
     revisit |-> 4, settle |-> 5, create |-> 6, fill |-> 7, sync |-> 8,
     walk |-> 8, publish |-> 9, print |-> 10, owned |-> 11, remove |-> 12]

\* The step s may come before t.
Before(s, t) ==
    /\ s.of = t.of => Rank[s.op] < Rank[t.op]
    /\ t = Do("publish", "doc") =>
          s \notin {Do("publish", "out"), Do("print", "out")}
    /\ t.op \in {"look", "resolve", "check"} => s.op \in {"look", "resolve"}

Ordered(s) == \A i, j \in DOMAIN s : i < j => Before(s[i], s[j])

\* A step is not left without the one that makes it worth doing.
Whole(S) ==
    \A r \in S :
        /\ r.op = "revisit" => Do("settle", r.of) \in S
        /\ r.op = "settle" => Do("create", r.of) \in S
        /\ r.op = "create" => Do("fill", r.of) \in S
        /\ r.op = "fill" => Do("sync", r.of) \in S
        /\ r.op = "sync" => Do("publish", r.of) \in S
        /\ r.op = "owned" => Do("remove", r.of) \in S

FileSteps == {"look", "resolve", "revisit", "settle", "create", "fill", "sync",
              "publish"}

\* What a command of this kind may have left to do, given how far it is.
Fits(p, r) ==
    /\ r.op \in {"install", "walk"} => cmd[p].kind = "query"
    /\ r.op \notin {"install", "walk", "read", "print"} => cmd[p].kind # "query"
    /\ r.op \in FileSteps => Path(p, r.of) # NoName
    /\ r.op \in {"resolve", "revisit", "settle"} => cmd[p].kind = "scan"
    /\ r.op \in {"owned", "remove"} => cmd[p].kind = "import" /\ r.of = "doc"
    /\ r.op \in {"walk", "print"} => r.of = "out"
    /\ r.op = "check" => r.of = "doc"
    /\ r.op = "walk" => status[p] = 0
    /\ r.op \in {"look", "check"} => published[p] = {}
    /\ r.op \in {"owned", "remove"} <=> status[p] = 2

\* The names a command was given for its files.
Outputs(p) == {Path(p, x) : x \in Artifact} \ {NoName}

\* The paths are looked at before they are compared, and those of a scan once
\* more before a file is made for them.
Checking(p) ==
    /\ Do("check", "doc") \notin Left(p) => \A x \in Artifact :
          Do("look", x) \notin Left(p) /\ Do("resolve", x) \notin Left(p)
    /\ cmd[p].kind = "scan" => \A x \in Artifact :
          /\ Do("look", x) \in Left(p) => Do("resolve", x) \in Left(p)
          /\ Do("check", "doc") \in Left(p) /\ Do("publish", x) \in Left(p) =>
                Do("revisit", x) \in Left(p)

PlanOK(p) ==
    /\ Ordered(todo[p]) /\ Whole(Left(p))
    /\ \A r \in Left(p) : Fits(p, r)
    /\ Checking(p)
    /\ cmd[p].kind # "query" /\ todo[p] # <<>>
          /\ Do("check", "doc") \notin Left(p) => "in" \notin Outputs(p)

\* Between the two calls of destination that precede the staging.
Between(p, x) ==
    /\ Do("settle", x) \in Left(p) /\ Do("revisit", x) \notin Left(p)
    /\ target[p][x] = NoName

\* Where an output is going to be: where its path says, unless it is a link;
\* and when its file is made, it is one only if it was crossed.
TargetOK(p, x) ==
    /\ target[p][x] \in {NoName, Path(p, x), "in"}
    /\ cmd[p].kind = "import" => target[p][x] # "in" \/ Path(p, x) = "in"
    /\ Do("look", x) \notin Left(p) /\ Do("resolve", x) \in Left(p) =>
          target[p][x] \in {NoName, Path(p, x)}
    /\ Do("check", "doc") \in Left(p) /\ Path(p, x) # NoName
          /\ Do("look", x) \notin Left(p) /\ Do("resolve", x) \notin Left(p)
          => target[p][x] # NoName
    /\ Do("settle", x) \in Left(p) /\ Do("revisit", x) \notin Left(p) =>
          target[p][x] \in {NoName, Path(p, x)}
    /\ Between(p, x) /\ entry[Path(p, x)] = Link => <<p, x>> \in crossed
    /\ Do("check", "doc") \notin Left(p) /\ Do("settle", x) \notin Left(p)
          /\ Do("publish", x) \in Left(p)
          => /\ target[p][x] # NoName
             /\ target[p][x] # Path(p, x) => <<p, x>> \in crossed

TargetsOK(p) == \A x \in Artifact : TargetOK(p, x)

\* A file with a name is this command's own business no more.
NamedOK(p) ==
    \A x \in Artifact : \A n \in Name : entry[n] = Mine(p, x) =>
        /\ n = target[p][x] /\ x \in published[p]
        /\ file[Mine(p, x)] = "synced"
        /\ \A op \in FileSteps : Do(op, x) \notin Left(p)

\* A file that is still to be shown is synced, or is going to be; only such a
\* file is temporary.
StagedOK(p) ==
    \A x \in Artifact :
        /\ Do("publish", x) \in Left(p) =>
              file[Mine(p, x)] = "synced" \/ Do("sync", x) \in Left(p)
        /\ Mine(p, x) \in temps => Do("publish", x) \in Left(p)

\* The document is shown first, and what is not shown is still to be shown.
ShownOK(p) ==
    /\ Do("publish", "doc") \in Left(p) => "out" \notin published[p]
    /\ \A x \in Artifact : Do("publish", x) \in Left(p) => x \notin published[p]
    /\ cmd[p].kind # "query" /\ cmd[p].doc # NoName =>
          \/ Do("publish", "doc") \in Left(p) \/ "doc" \in published[p]
          \/ /\ "out" \notin published[p]
             /\ Do("publish", "out") \notin Left(p)
             /\ Do("print", "out") \notin Left(p)
    /\ status[p] = 0 =>
          published[p] \cup
             {x \in Artifact : \/ Do("publish", x) \in Left(p)
                               \/ Do("print", x) \in Left(p)}
          = {x \in Artifact : Path(p, x) # NoName} \cup {"out"}

EndOK(p) ==
    /\ code[p] \in {0, 1, 2, 64} =>
          code[p] = status[p] /\ todo[p] = <<>> /\ ~signal[p].requested
    /\ cmd[p].kind # "query" => report[p] = "none"
    /\ report[p] = "partial" => signal[p].requested
    /\ cmd[p].kind = "query" /\ status[p] = 0 =>
          report[p] \in {"full", "partial"} \/ Do("walk", "out") \in Left(p)
    /\ status[p] \in {1, 64} => report[p] = "notFound"

\* A rollback that did not fail leaves none of the two files.
RollbackOK(p) ==
    cmd[p].kind = "import" /\ status[p] = 2 /\ faults = 0 =>
        \A n \in Name :
            /\ entry[n] # Mine(p, "out")
            /\ entry[n] = Mine(p, "doc") => Do("remove", "doc") \in Left(p)

UserFiles == \A n \in Name : file[<<User, n>>] = "synced"

PInv(p) ==
    /\ PlanOK(p) /\ TargetsOK(p) /\ NamedOK(p) /\ StagedOK(p) /\ ShownOK(p)
    /\ EndOK(p) /\ RollbackOK(p)

Inv == TypeOK /\ UserFiles /\ \A p \in Proc : PInv(p)

----------------------------------------------------------------------------
(* Types.                                                                  *)

LEMMA ScenarioFacts ==
    ASSUME TypeOK, NEW p \in Proc
    PROVE  /\ cmd[p] \in Command
           /\ cmd[p].kind \in Kind
           /\ cmd[p].doc \in Name \cup {NoName}
           /\ cmd[p].out \in Name \cup {NoName}
           /\ cmd[p].kind = "import" =>
                 cmd[p].doc # NoName /\ cmd[p].out # NoName
           /\ cmd[p].kind = "query" => cmd[p].doc = NoName
  BY CommandsAssumption DEF TypeOK, Command

LEMMA MineFacts ==
    ASSUME NEW p \in Proc, NEW x \in Artifact
    PROVE  /\ Mine(p, x) \in File /\ Mine(p, x) \in Proc \X Artifact
           /\ Mine(p, x) # NoFile /\ Mine(p, x) # Link
           /\ \A n \in Name : Mine(p, x) # <<User, n>> /\ <<User, n>> \in File
           /\ \A q \in Proc, y \in Artifact :
                 Mine(p, x) = Mine(q, y) => p = q /\ x = y
  <1>1. Mine(p, x) \in File /\ Mine(p, x) \in Proc \X Artifact
    BY DEF Mine, File
  <1>2. Mine(p, x) # NoFile /\ Mine(p, x) # Link
    BY <1>1, FileAssumption
  <1>3. \A n \in Name : Mine(p, x) # <<User, n>> /\ <<User, n>> \in File
    BY CommandsAssumption DEF Mine, File
  <1>4. \A q \in Proc, y \in Artifact :
           Mine(p, x) = Mine(q, y) => p = q /\ x = y
    BY DEF Mine
  <1> QED BY <1>1, <1>2, <1>3, <1>4

LEMMA StepsTyped ==
    ASSUME NEW c \in Command
    PROVE  Steps(c) \in Seq(Step)
  <1>1. \A op \in Op, x \in Artifact : Do(op, x) \in Step
    BY DEF Do, Step
  <1>2. ScanSteps(c) \in Seq(Step)
    <2>1. \A x \in Artifact : /\ LookSteps(x) \in Seq(Step)
                            /\ StageSteps(x) \in Seq(Step)
      BY <1>1 DEF LookSteps, StageSteps, Op
    <2>2. /\ <<Do("check", "doc"), Do("read", "doc")>> \in Seq(Step)
          /\ <<Do("publish", "doc")>> \in Seq(Step)
          /\ \A op \in Op : <<Do(op, "out")>> \in Seq(Step)
      BY <1>1 DEF Op, Artifact
    <2>3. \A n, s : s \in Seq(Step) => IfAsked(n, s) \in Seq(Step)
      BY DEF IfAsked
    <2>4. \A s, t : s \in Seq(Step) /\ t \in Seq(Step) => s \o t \in Seq(Step)
      BY ConcatProperties
    <2>5. ShowSteps(c) \in Seq(Step)
      BY <2>2, <2>3, <2>4 DEF ShowSteps, Op
    <2> QED BY <2>1, <2>2, <2>3, <2>4, <2>5 DEF ScanSteps, Artifact
  <1>3. ImportSteps \in Seq(Step) /\ QuerySteps \in Seq(Step)
    BY <1>1 DEF ImportSteps, QuerySteps, Op, Artifact
  <1> QED BY <1>2, <1>3 DEF Steps, Command, Kind

LEMMA HeadFacts ==
    ASSUME TypeOK, NEW p \in Proc, todo[p] # <<>>
    PROVE  /\ Head(todo[p]) \in Step /\ Tail(todo[p]) \in Seq(Step)
           /\ The(p) \in Artifact
           /\ Head(todo[p]) = Do(Head(todo[p]).op, The(p))
  <1>1. todo[p] \in Seq(Step)
    BY DEF TypeOK
  <1>2. Head(todo[p]) \in Step /\ Tail(todo[p]) \in Seq(Step)
    BY <1>1, HeadTailProperties
  <1> QED BY <1>2 DEF The, Step, Do

LEMMA TypeInit == Init => TypeOK
  <1> SUFFICES ASSUME Init PROVE TypeOK
    OBVIOUS
  <1>1. entry \in [Name -> File \cup {NoFile, Link}]
    BY DEF Init, File
  <1>2. todo \in [Proc -> Seq(Step)]
    BY StepsTyped, CommandsAssumption DEF Init
  <1>3. signal \in [Proc -> Signal]
    BY DEF Init, NoSignal, Signal
  <1>4. file \in [File -> {"none", "empty", "written", "synced"}]
    BY DEF Init
  <1>5. target \in [Proc -> [Artifact -> Name \cup {NoName}]]
    BY DEF Init
  <1> QED BY <1>1, <1>2, <1>3, <1>4, <1>5 DEF Init, TypeOK

\* A record is in Signal if its fields are.
LEMMA SignalFields ==
    ASSUME NEW t, t = [f \in {"sent", "pending", "requested", "notice"} |-> t[f]],
           t.sent \in Nat, t.pending \in Nat, t.requested \in BOOLEAN,
           t.notice \in {"none", "writing", "done"}
    PROVE  t \in Signal
  <1>1. t = [sent |-> t.sent, pending |-> t.pending,
             requested |-> t.requested, notice |-> t.notice]
    OBVIOUS
  <1> QED BY <1>1 DEF Signal

LEMMA SignalTypes ==
    ASSUME TypeOK, NEW p \in Proc, Interrupt(p) \/ Handle(p) \/ Notice(p)
    PROVE  /\ signal' \in [Proc -> Signal]
           /\ code' \in [Proc -> {Alive, Killed, 0, 1, 2, 64, 130}]
           /\ faults' \in Nat
  <1> DEFINE Codes == {Alive, Killed, 0, 1, 2, 64, 130}
  <1>1. signal \in [Proc -> Signal] /\ code \in [Proc -> Codes] /\ faults \in Nat
    BY DEF TypeOK
  <1>2. PICK s \in Signal : s = signal[p]
    BY <1>1
  <1>3. Alive \in Codes /\ Killed \in Codes /\ 130 \in Codes
    OBVIOUS
  <1> HIDE DEF Codes
  <1>4. [code EXCEPT ![p] = Killed] \in [Proc -> Codes]
    BY <1>1, <1>3
  <1>5. [code EXCEPT ![p] = 130] \in [Proc -> Codes]
    BY <1>1, <1>3
  <1>6. CASE Interrupt(p)
    <2> DEFINE t == [s EXCEPT !.sent = @ + 1, !.pending = @ + 1]
    <2>1. t \in Signal
      <3>1. t = [f \in {"sent", "pending", "requested", "notice"} |-> t[f]]
        BY DEF Signal
      <3>2. /\ t.sent \in Nat /\ t.pending \in Nat /\ t.requested \in BOOLEAN
            /\ t.notice \in {"none", "writing", "done"}
        BY DEF Signal
      <3> HIDE DEF t
      <3> QED BY <3>1, <3>2, SignalFields
    <2>2. signal' = [signal EXCEPT ![p] = [s EXCEPT !.sent = @ + 1,
                                                    !.pending = @ + 1]]
          \/ UNCHANGED signal
      BY <1>2, <1>6 DEF Interrupt
    <2>3. signal' \in [Proc -> Signal]
      BY <1>1, <2>1, <2>2
    <2> QED BY <1>1, <1>4, <1>6, <2>3 DEF Interrupt, Codes
  <1>7. CASE Handle(p)
    <2>1. s.pending \in Nat /\ s.pending > 0
      BY <1>2, <1>7 DEF Handle, HandlerFree, Signal
    <2> DEFINE t == [s EXCEPT !.pending = @ - 1, !.requested = TRUE,
                              !.notice = "writing"]
    <2>2. [s EXCEPT !.pending = @ - 1] \in Signal /\ t \in Signal
      <3>1. [s EXCEPT !.pending = @ - 1] \in Signal
        BY <2>1 DEF Signal
      <3>2. t = [f \in {"sent", "pending", "requested", "notice"} |-> t[f]]
        BY DEF Signal
      <3>3. /\ t.sent \in Nat /\ t.pending \in Nat /\ t.requested \in BOOLEAN
            /\ t.notice \in {"none", "writing", "done"}
        BY <2>1 DEF Signal
      <3>4. t \in Signal
        <4> HIDE DEF t
        <4> QED BY <3>2, <3>3, SignalFields
      <3> QED BY <3>1, <3>4
    <2>3. \/ signal' = [signal EXCEPT ![p] = [s EXCEPT !.pending = @ - 1]]
          \/ signal' = [signal EXCEPT ![p] =
                           [s EXCEPT !.pending = @ - 1, !.requested = TRUE,
                                     !.notice = "writing"]]
      BY <1>2, <1>7 DEF Handle
    <2>4. signal' \in [Proc -> Signal]
      BY <1>1, <2>2, <2>3
    <2> QED BY <1>1, <1>5, <1>7, <2>4 DEF Handle, Codes
  <1>8. CASE Notice(p)
    <2>1. [s EXCEPT !.notice = "done"] \in Signal
      BY DEF Signal
    <2>2. \/ signal' = [signal EXCEPT ![p] = [s EXCEPT !.notice = "done"]]
          \/ UNCHANGED signal
      BY <1>2, <1>8 DEF Notice
    <2>3. signal' \in [Proc -> Signal]
      BY <1>1, <2>1, <2>2
    <2> QED BY <1>1, <1>5, <1>8, <2>3 DEF Notice, Codes
  <1> QED BY <1>6, <1>7, <1>8

\* The part of a step that every action shares: one command moves on, and
\* what it writes is its own.
LEMMA TypeStep == TypeOK /\ [Next]_vars => TypeOK'
  <1> SUFFICES ASSUME TypeOK, [Next]_vars PROVE TypeOK'
    OBVIOUS
  <1> USE DEF TypeOK
  <1>1. ASSUME NEW p \in Proc, todo[p] # <<>>
        PROVE  /\ Tail(todo[p]) \in Seq(Step) /\ The(p) \in Artifact
               /\ Mine(p, The(p)) \in File
               /\ Mine(p, The(p)) \in Proc \X Artifact
    BY <1>1, HeadFacts, MineFacts
  <1>2. << >> \in Seq(Step) /\ RollbackSteps \in Seq(Step)
    BY DEF RollbackSteps, Do, Step, Op, Artifact
  <1>10. ASSUME NEW p \in Proc, todo[p] # <<>>, Advance(p)
         PROVE  todo' \in [Proc -> Seq(Step)]
    BY <1>1, <1>10 DEF Advance
  <1>11. ASSUME NEW p \in Proc, GiveUp(p)
         PROVE  /\ todo' \in [Proc -> Seq(Step)]
                /\ status' \in [Proc -> {0, 1, 2, 64}]
                /\ temps' \subseteq Proc \X Artifact
    BY <1>2, <1>11 DEF GiveUp
  <1>12. ASSUME NEW p \in Proc, RollBack(p)
         PROVE  /\ todo' \in [Proc -> Seq(Step)]
                /\ status' \in [Proc -> {0, 1, 2, 64}]
                /\ temps' \subseteq Proc \X Artifact
                /\ UNCHANGED <<cmd, entry, file, code, published, report,
                               signal, moves, places>>
    BY <1>2, <1>12 DEF RollBack
  <1>13. ASSUME NEW p \in Proc, NotPublished(p)
         PROVE  /\ todo' \in [Proc -> Seq(Step)]
                /\ status' \in [Proc -> {0, 1, 2, 64}]
                /\ temps' \subseteq Proc \X Artifact
                /\ UNCHANGED <<cmd, entry, file, code, published, report,
                               signal, moves, places>>
    BY <1>11, <1>13 DEF NotPublished
  <1>14. ASSUME NEW p \in Proc, todo[p] # <<>>, Shown(p)
         PROVE  published' \in [Proc -> SUBSET Artifact]
    BY <1>1, <1>14 DEF Shown
  <1>15. ASSUME NEW p \in Proc, NEW x \in Artifact,
                NEW n \in Name \cup {NoName}
         PROVE  [target EXCEPT ![p][x] = n]
                   \in [Proc -> [Artifact -> Name \cup {NoName}]]
    OBVIOUS
  <1>16. ASSUME NEW p \in Proc, Look(p) \/ Resolve(p) PROVE TypeOK'
    <2>1. todo[p] # <<>> /\ The(p) \in Artifact
      BY <1>1, <1>16 DEF Look, Resolve, Next1
    <2>2. /\ todo' \in [Proc -> Seq(Step)]
          /\ status' \in [Proc -> {0, 1, 2, 64}]
          /\ temps' \subseteq Proc \X Artifact
      BY <1>10, <1>11, <1>16, <2>1 DEF Look, Resolve
    <2>3. Path(p, The(p)) \in Name \cup {NoName}
      BY <2>1, ScenarioFacts DEF Path
    <2>4. Canonical(Path(p, The(p))) \in Name \cup {NoName}
      BY <2>3, CommandsAssumption DEF Canonical
    <2>5. target[p][The(p)] \in Name \cup {NoName}
      BY <2>1
    <2>6. target' \in [Proc -> [Artifact -> Name \cup {NoName}]]
      <3> DEFINE n == Path(p, The(p))
                 m == IF entry[n] = NoFile THEN n ELSE NoName
                 k == IF target[p][The(p)] = NoName THEN Canonical(n)
                      ELSE target[p][The(p)]
      <3>1. m \in Name \cup {NoName} /\ k \in Name \cup {NoName}
        BY <2>3, <2>4, <2>5
      <3>2. \/ UNCHANGED target
            \/ target' = [target EXCEPT ![p][The(p)] = m]
            \/ target' = [target EXCEPT ![p][The(p)] = k]
        BY <1>16 DEF Look, Resolve
      <3> HIDE DEF m, k
      <3>3. /\ [target EXCEPT ![p][The(p)] = m]
                  \in [Proc -> [Artifact -> Name \cup {NoName}]]
            /\ [target EXCEPT ![p][The(p)] = k]
                  \in [Proc -> [Artifact -> Name \cup {NoName}]]
        BY <1>15, <2>1, <3>1
      <3>4. CASE UNCHANGED target
        BY <3>4
      <3>5. CASE target' = [target EXCEPT ![p][The(p)] = m]
        BY <3>3, <3>5
      <3>6. CASE target' = [target EXCEPT ![p][The(p)] = k]
        BY <3>3, <3>6
      <3> QED BY <3>2, <3>4, <3>5, <3>6
    <2> QED BY <1>16, <2>2, <2>6 DEF Look, Resolve
  <1> USE DEF places
  <1>3. ASSUME NEW p \in Proc, Main(p) PROVE TypeOK'
    <2>1. CASE Check(p)
      <3>1. todo[p] # <<>>
        BY <2>1 DEF Check, Next1
      <3>2. /\ todo' \in [Proc -> Seq(Step)]
            /\ status' \in [Proc -> {0, 1, 2, 64}]
            /\ temps' \subseteq Proc \X Artifact
        <4>1. CASE PathsGood(p)
          BY <1>10, <2>1, <3>1, <4>1 DEF Check
        <4>2. CASE ~PathsGood(p)
          BY <1>11, <2>1, <4>2 DEF Check
        <4> QED BY <4>1, <4>2
      <3> QED BY <2>1, <3>2 DEF Check
    <2>2. CASE Read(p) \/ Install(p)
      BY <1>10, <2>2 DEF Read, Install, Next1, disk
    <2>3. CASE CreateTemp(p)
      <3>1. todo[p] # <<>> /\ Advance(p)
        BY <2>3 DEF CreateTemp, Next1
      <3>2. todo' \in [Proc -> Seq(Step)]
        BY <1>10, <3>1
      <3> QED BY <1>1, <2>3, <3>1, <3>2 DEF CreateTemp
    <2>4. CASE Fill(p)
      BY <1>1, <1>10, <2>4 DEF Fill, Next1
    <2>5. CASE Sync(p)
      BY <1>1, <1>10, <2>5 DEF Sync, Synced, Next1
    <2>6. CASE Publish(p)
      <3>1. todo[p] # <<>> /\ Advance(p) /\ Shown(p)
        BY <2>6 DEF Publish, Next1
      <3>2. /\ todo' \in [Proc -> Seq(Step)]
            /\ published' \in [Proc -> SUBSET Artifact]
        BY <1>10, <1>14, <3>1
      <3>3. Mine(p, The(p)) \in File
        BY <1>1, <3>1
      <3> QED BY <2>6, <3>2, <3>3 DEF Publish, Replace
    <2>7. CASE NameTaken(p)
      BY <1>12, <1>13, <2>7 DEF NameTaken
    <2>8. CASE Owned(p)
      <3>1. CASE Advance(p)
        BY <1>10, <2>8, <3>1 DEF Owned, Next1, disk
      <3>2. CASE todo' = [todo EXCEPT ![p] = <<>>]
        <4>1. todo' \in [Proc -> Seq(Step)]
          BY <1>2, <3>2
        <4> QED BY <2>8, <4>1 DEF Owned, disk
      <3> QED BY <2>8, <3>1, <3>2 DEF Owned
    <2>9. CASE Remove(p)
      BY <1>10, <2>9 DEF Remove, Next1
    <2>10. CASE Fails(p)
      BY <1>12, <1>13, <2>10 DEF Fails
    <2>11. CASE Walk(p)
      <3>1. PICK o \in Outcome :
               /\ report' = [report EXCEPT ![p] = o[1]]
               /\ status' = [status EXCEPT ![p] = o[2]]
        BY <2>11 DEF Walk
      <3>2. o[1] \in {"full", "partial", "notFound"} /\ o[2] \in {0, 1, 64}
        BY DEF Outcome
      <3>3. todo' \in [Proc -> Seq(Step)]
        BY <1>10, <2>11 DEF Walk, Next1
      <3> QED BY <2>11, <3>1, <3>2, <3>3 DEF Walk, disk
    <2>12. CASE PrintOut(p)
      <3>1. /\ todo' \in [Proc -> Seq(Step)]
            /\ published' \in [Proc -> SUBSET Artifact]
        BY <1>10, <1>14, <2>12 DEF PrintOut, Next1
      <3> QED BY <2>12, <3>1 DEF PrintOut, disk
    <2>13. CASE Exit(p)
      <3>1. ExitCode(p) \in {0, 1, 2, 64, 130}
        BY DEF ExitCode
      <3> QED BY <2>13, <3>1 DEF Exit, disk
    <2> QED BY <1>3, <1>16, <2>1, <2>2, <2>3, <2>4, <2>5, <2>6, <2>7, <2>8,
               <2>9, <2>10, <2>11, <2>12, <2>13 DEF Main
  <1>4. ASSUME NEW p \in Proc, Interrupt(p) \/ Handle(p) \/ Notice(p)
        PROVE  TypeOK'
    <2>1. /\ signal' \in [Proc -> Signal]
          /\ code' \in [Proc -> {Alive, Killed, 0, 1, 2, 64, 130}]
          /\ faults' \in Nat
      BY <1>4, SignalTypes
    <2> QED BY <1>4, <2>1 DEF Interrupt, Handle, Notice, disk
  <1>7. CASE UserMoves
    <2>1. PICK n \in Name :
             \E f \in {<<User, n>>, <<User, "in">>, Link, NoFile} :
                entry' = [entry EXCEPT ![n] = f]
      BY <1>7 DEF UserMoves
    <2>2. <<User, n>> \in File /\ <<User, "in">> \in File
      BY CommandsAssumption DEF File
    <2>3. PICK f \in File \cup {NoFile, Link} : entry' = [entry EXCEPT ![n] = f]
      BY <2>1, <2>2
    <2>4. entry' \in [Name -> File \cup {NoFile, Link}]
      BY <2>3
    <2>5. crossed' \subseteq Proc \X Artifact
      BY <1>7 DEF UserMoves, Crossings
    <2> QED BY <1>7, <2>4, <2>5 DEF UserMoves
  <1>8. CASE UNCHANGED vars
    BY <1>8 DEF vars
  <1> QED BY <1>3, <1>4, <1>7, <1>8 DEF Next

----------------------------------------------------------------------------
(* The steps that are left.                                                *)

LEMMA RestOfNothing == Rest(<<>>) = {}
  <1>1. << >> \in Seq({}) /\ Len(<< >>) = 0
    BY EmptySeq
  <1>2. DOMAIN << >> = {}
    BY <1>1, LenProperties
  <1> QED BY <1>2 DEF Rest

LEMMA RankFacts ==
    ASSUME NEW s \in Step, NEW t \in Step
    PROVE  /\ Rank[s.op] \in Nat
           /\ s.op = t.op /\ s.of = t.of => ~Before(s, t)
  BY DEF Rank, Step, Op, Before

\* Taking the first step off: what is left comes after it.
LEMMA FirstStep ==
    ASSUME NEW s \in Seq(Step), s # <<>>, Ordered(s), Whole(Rest(s))
    PROVE  /\ Head(s) \in Step /\ Tail(s) \in Seq(Step)
           /\ Rest(s) = {Head(s)} \cup Rest(Tail(s))
           /\ \A r \in Rest(Tail(s)) : r \in Step /\ Before(Head(s), r)
           /\ Ordered(Tail(s)) /\ Whole(Rest(Tail(s)))
  <1> DEFINE h == Head(s)
             t == Tail(s)
  <1>1. /\ h \in Step /\ t \in Seq(Step) /\ h = s[1]
        /\ Len(s) \in Nat /\ Len(s) # 0 /\ DOMAIN s = 1..Len(s)
        /\ DOMAIN t = 1..(Len(s) - 1)
        /\ \A i \in 1..(Len(s) - 1) : t[i] = s[i + 1]
    <2>1. Len(t) = Len(s) - 1 /\ t \in Seq(Step) /\ h \in Step
      BY HeadTailProperties
    <2>2. Len(s) \in Nat /\ DOMAIN s = 1..Len(s) /\ DOMAIN t = 1..Len(t)
      BY <2>1, LenProperties
    <2>3. Len(s) # 0
      BY EmptySeq
    <2> QED BY <2>1, <2>2, <2>3, HeadTailProperties
  <1> HIDE DEF h, t
  <1>2. 1 \in DOMAIN s /\ \A i \in DOMAIN t : i + 1 \in DOMAIN s /\ 1 < i + 1
    BY <1>1
  <1>3. Rest(s) = {h} \cup Rest(t)
    <2>1. ASSUME NEW i \in DOMAIN s
          PROVE  s[i] = h \/ \E j \in DOMAIN t : t[j] = s[i]
      <3>1. CASE i = 1
        BY <1>1, <3>1
      <3>2. CASE i # 1
        <4>1. i - 1 \in DOMAIN t /\ (i - 1) + 1 = i
          BY <1>1, <3>2
        <4>2. t[i - 1] = s[i]
          BY <1>1, <4>1
        <4> QED BY <4>1, <4>2
      <3> QED BY <3>1, <3>2
    <2>2. h \in Rest(s) /\ \A j \in DOMAIN t : t[j] \in Rest(s)
      BY <1>1, <1>2 DEF Rest
    <2> QED BY <2>1, <2>2 DEF Rest
  <1>4. ASSUME NEW r \in Rest(t) PROVE r \in Step /\ Before(h, r)
    <2>1. PICK i \in DOMAIN t : r = t[i]
      BY DEF Rest
    <2>2. s[i + 1] = r /\ i + 1 \in DOMAIN s /\ 1 < i + 1
      BY <1>1, <1>2, <2>1
    <2>3. Before(s[1], s[i + 1])
      BY <1>2, <2>2 DEF Ordered
    <2>4. r \in Step
      BY <1>1, <2>2, ElementOfSeq
    <2> QED BY <1>1, <2>2, <2>3, <2>4
  <1>5. Ordered(t)
    <2>1. ASSUME NEW i \in DOMAIN t, NEW j \in DOMAIN t, i < j
          PROVE  Before(t[i], t[j])
      <3>1. i + 1 < j + 1 /\ i + 1 \in DOMAIN s /\ j + 1 \in DOMAIN s
        BY <1>1, <2>1
      <3>2. Before(s[i + 1], s[j + 1])
        BY <3>1 DEF Ordered
      <3> QED BY <1>1, <3>2
    <2> QED BY <2>1 DEF Ordered
  <1>6. Whole(Rest(t))
    <2>1. ASSUME NEW r \in Rest(t), NEW op \in Op,
                 Do(op, r.of) \in Rest(s), Rank[r.op] < Rank[op]
          PROVE  Do(op, r.of) \in Rest(t)
      <3>1. CASE Do(op, r.of) = h
        <4>1. h.of = r.of /\ h.op = op
          BY <3>1 DEF Do
        <4>2. Rank[op] < Rank[r.op]
          BY <1>4, <4>1 DEF Before
        <4>3. Rank[op] \in Nat /\ Rank[r.op] \in Nat
          BY <1>4, RankFacts DEF Rank, Op, Step
        <4> QED BY <2>1, <4>2, <4>3
      <3> QED BY <1>3, <2>1, <3>1
    <2>2. \A r \in Rest(t) : r \in Rest(s)
      BY <1>3
    <2>3. /\ Rank["revisit"] < Rank["settle"] /\ Rank["settle"] < Rank["create"]
          /\ Rank["create"] < Rank["fill"] /\ Rank["fill"] < Rank["sync"]
          /\ Rank["sync"] < Rank["publish"] /\ Rank["owned"] < Rank["remove"]
          /\ {"settle", "create", "fill", "sync", "publish", "remove"} \subseteq Op
      BY DEF Rank, Op
    <2> QED BY <2>1, <2>2, <2>3 DEF Whole
  <1> QED BY <1>1, <1>3, <1>4, <1>5, <1>6 DEF h, t

LEMMA Joined ==
    ASSUME NEW s \in Seq(Step), NEW t \in Seq(Step)
    PROVE  /\ s \o t \in Seq(Step)
           /\ Rest(s \o t) = Rest(s) \cup Rest(t)
           /\ Ordered(s) /\ Ordered(t)
                 /\ (\A q \in Rest(s), r \in Rest(t) : Before(q, r))
                 => Ordered(s \o t)
  <1> DEFINE u == s \o t
  <1>1. /\ u \in Seq(Step) /\ Len(s) \in Nat /\ Len(t) \in Nat
        /\ DOMAIN s = 1..Len(s) /\ DOMAIN t = 1..Len(t)
        /\ DOMAIN u = 1..(Len(s) + Len(t))
        /\ \A i \in DOMAIN u : u[i] = IF i <= Len(s) THEN s[i] ELSE t[i - Len(s)]
    BY ConcatProperties, LenProperties
  <1> HIDE DEF u
  <1>2. /\ \A i \in DOMAIN s : i \in DOMAIN u /\ u[i] = s[i]
        /\ \A i \in DOMAIN t : Len(s) + i \in DOMAIN u /\ u[Len(s) + i] = t[i]
    BY <1>1
  <1>3. \A i \in DOMAIN u :
           \/ i \in DOMAIN s /\ u[i] = s[i]
           \/ i - Len(s) \in DOMAIN t /\ u[i] = t[i - Len(s)] /\ i \notin DOMAIN s
    BY <1>1
  <1>4. Rest(u) = Rest(s) \cup Rest(t)
    BY <1>2, <1>3 DEF Rest
  <1>5. ASSUME Ordered(s), Ordered(t),
               \A q \in Rest(s), r \in Rest(t) : Before(q, r)
        PROVE  Ordered(u)
    <2> SUFFICES ASSUME NEW i \in DOMAIN u, NEW j \in DOMAIN u, i < j
                 PROVE  Before(u[i], u[j])
      BY DEF Ordered
    <2>1. CASE i \in DOMAIN s /\ j \in DOMAIN s
      BY <1>3, <1>5, <2>1 DEF Ordered
    <2>2. CASE i \in DOMAIN s /\ j \notin DOMAIN s
      BY <1>3, <1>5, <2>2 DEF Rest
    <2>3. CASE i \notin DOMAIN s
      <3>1. j \notin DOMAIN s /\ i - Len(s) < j - Len(s)
        BY <1>1, <2>3
      <3> QED BY <1>3, <1>5, <2>3, <3>1 DEF Ordered
    <2> QED BY <2>1, <2>2, <2>3
  <1> QED BY <1>1, <1>4, <1>5 DEF u

\* The name a command line gives for a file.
Given(c, x) == IF x = "doc" THEN c.doc ELSE c.out

\* The steps of a scan, and their order.
LEMMA ScanPlan ==
    ASSUME NEW c \in Command
    PROVE  /\ Ordered(ScanSteps(c))
           /\ Rest(ScanSteps(c)) =
                 {Do(op, x) : op \in FileSteps,
                              x \in {y \in Artifact : Given(c, y) # NoName}}
                 \cup {Do("check", "doc"), Do("read", "doc")}
                 \cup (IF c.out = NoName THEN {Do("print", "out")} ELSE {})
  <1> DEFINE Of(x, ops) == IF Given(c, x) = NoName THEN {}
                           ELSE {Do(op, x) : op \in ops}
             Looks == {"look", "resolve"}
             Stages == {"revisit", "settle", "create", "fill", "sync"}
             L1 == IfAsked(c.out, LookSteps("out"))
             L2 == IfAsked(c.doc, LookSteps("doc"))
             M == <<Do("check", "doc"), Do("read", "doc")>>
             S1 == IfAsked(c.doc, StageSteps("doc"))
             S2 == IfAsked(c.out, StageSteps("out"))
             W1 == IfAsked(c.doc, <<Do("publish", "doc")>>)
             W2 == <<Do(IF c.out = NoName THEN "print" ELSE "publish", "out")>>
  <1>0. /\ << >> \in Seq(Step) /\ Ordered(<< >>) /\ Rest(<< >>) = {}
        /\ \A op \in Op, x \in Artifact : Do(op, x) \in Step
        /\ Given(c, "doc") = c.doc /\ Given(c, "out") = c.out
    <2>1. << >> \in Seq(Step) /\ Len(<< >>) = 0
      BY EmptySeq
    <2>2. DOMAIN << >> = {}
      BY <2>1, LenProperties
    <2> QED BY <2>1, <2>2, RestOfNothing DEF Ordered, Do, Step, Given
  <1>1. ASSUME NEW x \in Artifact
        PROVE  /\ LookSteps(x) \in Seq(Step) /\ Ordered(LookSteps(x))
               /\ Rest(LookSteps(x)) = {Do(op, x) : op \in Looks}
    BY <1>0 DEF LookSteps, Ordered, Rest, Before, Rank, Do, Op
  <1>2. ASSUME NEW x \in Artifact
        PROVE  /\ StageSteps(x) \in Seq(Step) /\ Ordered(StageSteps(x))
               /\ Rest(StageSteps(x)) = {Do(op, x) : op \in Stages}
    BY <1>0 DEF StageSteps, Ordered, Rest, Before, Rank, Do, Op
  <1>3. /\ L1 \in Seq(Step) /\ Ordered(L1) /\ Rest(L1) = Of("out", Looks)
        /\ L2 \in Seq(Step) /\ Ordered(L2) /\ Rest(L2) = Of("doc", Looks)
    BY <1>0, <1>1 DEF IfAsked, Artifact
  <1>4. /\ S1 \in Seq(Step) /\ Ordered(S1) /\ Rest(S1) = Of("doc", Stages)
        /\ S2 \in Seq(Step) /\ Ordered(S2) /\ Rest(S2) = Of("out", Stages)
    BY <1>0, <1>2 DEF IfAsked, Artifact
  <1>5. /\ M \in Seq(Step) /\ Ordered(M)
        /\ Rest(M) = {Do("check", "doc"), Do("read", "doc")}
    BY <1>0 DEF Ordered, Rest, Before, Rank, Do, Op, Artifact
  <1>6. /\ W1 \in Seq(Step) /\ Ordered(W1) /\ Rest(W1) = Of("doc", {"publish"})
        /\ W2 \in Seq(Step) /\ Ordered(W2)
        /\ Rest(W2) = {Do(IF c.out = NoName THEN "print" ELSE "publish", "out")}
    <2>1. ASSUME NEW r \in Step
          PROVE  <<r>> \in Seq(Step) /\ Ordered(<<r>>) /\ Rest(<<r>>) = {r}
      BY DEF Ordered, Rest
    <2>2. /\ Do("publish", "doc") \in Step /\ Do("publish", "out") \in Step
          /\ Do("print", "out") \in Step
      BY <1>0 DEF Op, Artifact
    <2>3. /\ W1 = IF c.doc = NoName THEN << >> ELSE <<Do("publish", "doc")>>
          /\ W2 = <<IF c.out = NoName THEN Do("print", "out")
                     ELSE Do("publish", "out")>>
      BY DEF IfAsked, Do
    <2>4. /\ Ordered(<<Do("publish", "doc")>>)
          /\ <<Do("publish", "doc")>> \in Seq(Step)
          /\ Rest(<<Do("publish", "doc")>>) = {Do("publish", "doc")}
      BY <2>1, <2>2
    <2>5. W1 \in Seq(Step) /\ Ordered(W1) /\ Rest(W1) = Of("doc", {"publish"})
      BY <1>0, <2>3, <2>4
    <2>6. W2 \in Seq(Step) /\ Ordered(W2)
          /\ Rest(W2) = {IF c.out = NoName THEN Do("print", "out")
                         ELSE Do("publish", "out")}
      BY <2>1, <2>2, <2>3
    <2> QED BY <2>5, <2>6 DEF Do
  <1> HIDE DEF L1, L2, M, S1, S2, W1, W2
  <1>7. /\ L1 \o L2 \in Seq(Step) /\ Ordered(L1 \o L2)
        /\ Rest(L1 \o L2) = Of("out", Looks) \cup Of("doc", Looks)
    <2>1. \A q \in Rest(L1), r \in Rest(L2) : Before(q, r)
      BY <1>3 DEF Before, Rank, Do
    <2> QED BY <1>3, <2>1, Joined
  <1>8. /\ (L1 \o L2) \o M \in Seq(Step) /\ Ordered((L1 \o L2) \o M)
        /\ Rest((L1 \o L2) \o M) = Rest(L1 \o L2) \cup Rest(M)
    <2>1. \A q \in Rest(L1 \o L2), r \in Rest(M) : Before(q, r)
      BY <1>5, <1>7 DEF Before, Rank, Do
    <2> QED BY <1>5, <1>7, <2>1, Joined
  <1>9. /\ ((L1 \o L2) \o M) \o S1 \in Seq(Step)
        /\ Ordered(((L1 \o L2) \o M) \o S1)
        /\ Rest(((L1 \o L2) \o M) \o S1) =
              Rest(L1 \o L2) \cup Rest(M) \cup Rest(S1)
    <2>1. \A q \in Rest(L1 \o L2), r \in Rest(S1) : Before(q, r)
      BY <1>4, <1>7 DEF Before, Rank, Do
    <2>2. \A q \in Rest(M), r \in Rest(S1) : Before(q, r)
      BY <1>4, <1>5 DEF Before, Rank, Do
    <2>3. \A q \in Rest((L1 \o L2) \o M), r \in Rest(S1) : Before(q, r)
      BY <1>8, <2>1, <2>2
    <2> QED BY <1>4, <1>8, <2>3, Joined
  <1>10. /\ (((L1 \o L2) \o M) \o S1) \o S2 \in Seq(Step)
         /\ Ordered((((L1 \o L2) \o M) \o S1) \o S2)
         /\ Rest((((L1 \o L2) \o M) \o S1) \o S2) =
               Rest(L1 \o L2) \cup Rest(M) \cup Rest(S1) \cup Rest(S2)
    <2>1. \A q \in Rest(L1 \o L2), r \in Rest(S2) : Before(q, r)
      BY <1>4, <1>7 DEF Before, Rank, Do
    <2>2. \A q \in Rest(M), r \in Rest(S2) : Before(q, r)
      BY <1>4, <1>5 DEF Before, Rank, Do
    <2>3. \A q \in Rest(S1), r \in Rest(S2) : Before(q, r)
      BY <1>4 DEF Before, Rank, Do
    <2>4. \A q \in Rest(((L1 \o L2) \o M) \o S1), r \in Rest(S2) : Before(q, r)
      BY <1>9, <2>1, <2>2, <2>3
    <2> QED BY <1>4, <1>9, <2>4, Joined
  <1>11. /\ W1 \o W2 \in Seq(Step) /\ Ordered(W1 \o W2)
         /\ Rest(W1 \o W2) = Rest(W1) \cup Rest(W2)
    <2>1. \A q \in Rest(W1), r \in Rest(W2) : Before(q, r)
      BY <1>6 DEF Before, Rank, Do
    <2> QED BY <1>6, <2>1, Joined
  <1> DEFINE U == (((L1 \o L2) \o M) \o S1) \o S2
  <1>12. /\ Ordered(U \o (W1 \o W2))
         /\ Rest(U \o (W1 \o W2)) =
               Rest(L1 \o L2) \cup Rest(M) \cup Rest(S1) \cup Rest(S2)
               \cup Rest(W1) \cup Rest(W2)
    <2>1. \A q \in Rest(L1 \o L2), r \in Rest(W1) \cup Rest(W2) : Before(q, r)
      BY <1>6, <1>7 DEF Before, Rank, Do
    <2>2. \A q \in Rest(M), r \in Rest(W1) \cup Rest(W2) : Before(q, r)
      BY <1>5, <1>6 DEF Before, Rank, Do
    <2>3. \A q \in Rest(S1) \cup Rest(S2), r \in Rest(W1) \cup Rest(W2) :
             Before(q, r)
      BY <1>4, <1>6 DEF Before, Rank, Do
    <2>4. \A q \in Rest(U), r \in Rest(W1 \o W2) : Before(q, r)
      BY <1>10, <1>11, <2>1, <2>2, <2>3
    <2> HIDE DEF U
    <2>5. /\ Ordered(U \o (W1 \o W2))
          /\ Rest(U \o (W1 \o W2)) = Rest(U) \cup Rest(W1 \o W2)
      <3>1. U \in Seq(Step) /\ Ordered(U)
        BY <1>10 DEF U
      <3> QED BY <1>11, <2>4, <3>1, Joined
    <2> QED BY <1>10, <1>11, <2>5 DEF U
  <1>13. ScanSteps(c) = U \o (W1 \o W2)
    BY DEF ScanSteps, ShowSteps, L1, L2, M, S1, S2, W1, W2
  <1>14. Rest(ScanSteps(c)) =
            Of("out", Looks) \cup Of("doc", Looks)
            \cup {Do("check", "doc"), Do("read", "doc")}
            \cup Of("doc", Stages) \cup Of("out", Stages)
            \cup Of("doc", {"publish"})
            \cup {Do(IF c.out = NoName THEN "print" ELSE "publish", "out")}
    BY <1>4, <1>5, <1>6, <1>7, <1>12, <1>13
  <1>15. FileSteps = Looks \cup Stages \cup {"publish"}
    BY DEF FileSteps
  <1>16. Rest(ScanSteps(c)) =
            {Do(op, x) : op \in FileSteps,
                         x \in {y \in Artifact : Given(c, y) # NoName}}
            \cup {Do("check", "doc"), Do("read", "doc")}
            \cup (IF c.out = NoName THEN {Do("print", "out")} ELSE {})
    BY <1>0, <1>14, <1>15 DEF Artifact
  <1> QED BY <1>12, <1>13, <1>16

LEMMA ImportPlan ==
    /\ Ordered(ImportSteps)
    /\ Rest(ImportSteps) =
          {Do(op, x) : op \in FileSteps \ {"resolve", "revisit", "settle"},
                       x \in Artifact}
          \cup {Do("check", "doc"), Do("read", "doc")}
  <1>1. Ordered(ImportSteps)
    BY DEF ImportSteps, Ordered, Before, Rank, Do
  <1>2. Rest(ImportSteps) =
           {Do("look", "doc"), Do("look", "out"), Do("check", "doc"),
            Do("read", "doc"), Do("create", "doc"), Do("create", "out"),
            Do("fill", "doc"), Do("sync", "doc"), Do("fill", "out"),
            Do("sync", "out"), Do("publish", "doc"), Do("publish", "out")}
    BY DEF ImportSteps, Rest
  <1> QED BY <1>1, <1>2 DEF FileSteps, Artifact

LEMMA QueryPlan ==
    /\ Ordered(QuerySteps)
    /\ Rest(QuerySteps) = {Do("install", "out"), Do("read", "out"),
                           Do("walk", "out"), Do("print", "out")}
  BY DEF QuerySteps, Ordered, Rest, Before, Rank, Do

\* What each kind of command starts with.
LEMMA PlanStarts ==
    ASSUME NEW c \in Command
    PROVE  Ordered(Steps(c)) /\ Whole(Rest(Steps(c)))
  <1>1. CASE c.kind = "scan"
    <2>1. Whole(Rest(ScanSteps(c)))
      BY ScanPlan DEF Whole, Do, FileSteps
    <2> QED BY <1>1, <2>1, ScanPlan DEF Steps
  <1>2. CASE c.kind = "import"
    <2>1. ASSUME NEW r \in Rest(ImportSteps), NEW op \in FileSteps, r.op \in FileSteps,
                 op \notin {"resolve", "revisit", "settle"}
          PROVE  Do(op, r.of) \in Rest(ImportSteps)
      BY <2>1, ImportPlan DEF Do, FileSteps
    <2>2. \A r \in Rest(ImportSteps) :
             r.op \in {"look", "create", "fill", "sync", "publish", "check", "read"}
      BY ImportPlan DEF Do, FileSteps
    <2>3. Whole(Rest(ImportSteps))
      BY <2>1, <2>2 DEF Whole, FileSteps
    <2> QED BY <1>2, <2>3, ImportPlan DEF Steps
  <1>3. CASE c.kind = "query"
    <2>1. Whole(Rest(QuerySteps))
      BY QueryPlan DEF Whole, Do
    <2> QED BY <1>3, <2>1, QueryPlan DEF Steps
  <1> QED BY <1>1, <1>2, <1>3 DEF Command, Kind

----------------------------------------------------------------------------
(* A command and the steps of the others.                                  *)

\* Nothing of p changes, except that a name may cease to hold its file, and
\* that an output may become a link, which is noted if p is about to use it.
Apart(p) ==
    /\ cmd' = cmd /\ todo'[p] = todo[p] /\ status'[p] = status[p]
    /\ code'[p] = code[p] /\ published'[p] = published[p]
    /\ report'[p] = report[p] /\ signal'[p] = signal[p]
    /\ \A x \in Artifact :
          /\ file'[Mine(p, x)] = file[Mine(p, x)]
          /\ Mine(p, x) \in temps' => Mine(p, x) \in temps
    /\ \A n \in Name, x \in Artifact :
          entry'[n] = Mine(p, x) => entry[n] = Mine(p, x)
    /\ target'[p] = target[p] /\ crossed \subseteq crossed'
    /\ \A n \in Name : entry'[n] = Link =>
          \/ entry[n] = Link
          \/ \A x \in Artifact :
                Between(p, x) /\ Path(p, x) = n => <<p, x>> \in crossed'
    /\ faults' = 0 => faults = 0

LEMMA KeptApart ==
    ASSUME TypeOK, NEW p \in Proc, PInv(p), Apart(p)
    PROVE  PInv(p)'
  <1> USE DEF Apart
  <1>1. Left(p)' = Left(p)
    BY DEF Left, Rest
  <1>2. \A x \in Artifact : Path(p, x)' = Path(p, x) /\ Mine(p, x)' = Mine(p, x)
    BY DEF Path, Mine
  <1>3. Outputs(p)' = Outputs(p)
    BY DEF Outputs, Path
  <1>4. PlanOK(p)'
    <2>1. \A r : Fits(p, r) => Fits(p, r)'
      BY DEF Fits, Path
    <2>2. Checking(p)'
      BY <1>1 DEF PInv, PlanOK, Checking
    <2> QED BY <1>1, <1>3, <2>1, <2>2 DEF PInv, PlanOK, Ordered
  <1>11. TargetsOK(p)'
    <2> SUFFICES ASSUME NEW x \in Artifact PROVE TargetOK(p, x)'
      BY DEF TargetsOK
    <2>1. TargetOK(p, x)
      BY DEF PInv, TargetsOK
    <2>2. Between(p, x) => Path(p, x) \in Name
      <3>1. Between(p, x) => Path(p, x) # NoName
        BY DEF PInv, PlanOK, Between, Fits, FileSteps, Do
      <3> QED BY <3>1, ScenarioFacts DEF Path
    <2>3. Between(p, x)' <=> Between(p, x)
      BY <1>1 DEF Between
    <2>4. Between(p, x)' /\ entry'[Path(p, x)] = Link => <<p, x>> \in crossed'
      BY <2>1, <2>2, <2>3 DEF TargetOK
    <2> QED BY <1>1, <1>2, <2>1, <2>4 DEF TargetOK
  <1>5. NamedOK(p)'
    BY <1>1, <1>2 DEF PInv, NamedOK
  <1>6. StagedOK(p)'
    BY <1>1, <1>2 DEF PInv, StagedOK
  <1>7. ShownOK(p)'
    BY <1>1, <1>2 DEF PInv, ShownOK
  <1>8. EndOK(p)'
    BY <1>1 DEF PInv, EndOK
  <1>9. RollbackOK(p)'
    BY <1>1, <1>2 DEF PInv, RollbackOK, Artifact
  <1> QED BY <1>4, <1>5, <1>6, <1>7, <1>8, <1>9, <1>11 DEF PInv

\* A step of q leaves the others alone: it writes under q's names only.
LEMMA StepsApart ==
    ASSUME TypeOK, NEW p \in Proc, NEW q \in Proc, p # q,
           Main(q) \/ Interrupt(q) \/ Handle(q) \/ Notice(q)
    PROVE  Apart(p)
  <1>1. \A x, y \in Artifact : Mine(p, x) # Mine(q, y)
    BY MineFacts
  <1>2. \A x \in Artifact : Mine(p, x) # NoFile /\ Mine(p, x) \in File
    BY MineFacts
  <1>3. todo[q] # <<>> => The(q) \in Artifact
    BY HeadFacts
  <1>4. /\ faults \in Nat
        /\ q \in DOMAIN todo /\ q \in DOMAIN status /\ q \in DOMAIN code
        /\ q \in DOMAIN published /\ q \in DOMAIN report /\ q \in DOMAIN signal
        /\ DOMAIN entry = Name /\ DOMAIN file = File
    BY DEF TypeOK
  <1> USE DEF places
  <1>5. ASSUME Main(q) PROVE Apart(p)
    <2>1. ASSUME GiveUp(q)
          PROVE  /\ todo'[p] = todo[p] /\ status'[p] = status[p]
                 /\ \A x \in Artifact :
                       Mine(p, x) \in temps' => Mine(p, x) \in temps
      BY <2>1 DEF GiveUp, TypeOK
    <2>2. ASSUME Advance(q) PROVE todo'[p] = todo[p]
      BY <2>2 DEF Advance, TypeOK
    <2>3. ASSUME RollBack(q)
          PROVE  /\ todo'[p] = todo[p] /\ status'[p] = status[p]
                 /\ temps' \subseteq temps
                 /\ UNCHANGED <<cmd, entry, file, code, published, report,
                                signal, target, crossed>>
      BY <2>3 DEF RollBack, TypeOK
    <2>4. ASSUME NotPublished(q)
          PROVE  /\ todo'[p] = todo[p] /\ status'[p] = status[p]
                 /\ \A x \in Artifact :
                       Mine(p, x) \in temps' => Mine(p, x) \in temps
                 /\ UNCHANGED <<cmd, entry, file, code, published, report,
                                signal, target, crossed>>
      BY <2>1, <2>4 DEF NotPublished
    <2>17. CASE Look(q) \/ Resolve(q)
      <3>1. /\ todo'[p] = todo[p] /\ status'[p] = status[p]
            /\ \A x \in Artifact : Mine(p, x) \in temps' => Mine(p, x) \in temps
        BY <2>1, <2>2, <2>17 DEF Look, Resolve
      <3>2. target'[p] = target[p]
        BY <2>17 DEF Look, Resolve, TypeOK
      <3> QED BY <2>17, <3>1, <3>2 DEF Look, Resolve, Apart
    <2>5. CASE Check(q)
      BY <2>1, <2>2, <2>5 DEF Check, Apart
    <2>6. CASE Read(q) \/ Install(q)
      BY <2>2, <2>6 DEF Read, Install, disk, Apart
    <2>7. CASE CreateTemp(q)
      <3>1. todo[q] # <<>>
        BY <2>7 DEF CreateTemp, Next1
      <3>2. /\ file' = [file EXCEPT ![Mine(q, The(q))] = "empty"]
            /\ temps' = temps \cup {Mine(q, The(q))}
        BY <2>7 DEF CreateTemp
      <3>3. \A x \in Artifact :
               /\ file'[Mine(p, x)] = file[Mine(p, x)]
               /\ Mine(p, x) \in temps' => Mine(p, x) \in temps
        BY <1>1, <1>2, <1>3, <1>4, <3>1, <3>2
      <3> QED BY <2>2, <2>7, <3>3 DEF CreateTemp, Apart
    <2>8. CASE Fill(q) \/ Sync(q)
      <3>1. /\ todo[q] # <<>> /\ Advance(q)
            /\ \E s : file' = [file EXCEPT ![Mine(q, The(q))] = s]
            /\ UNCHANGED <<cmd, entry, temps, status, code, published, report,
                           signal, faults, target, crossed>>
        BY <2>8 DEF Fill, Sync, Synced, Next1
      <3>2. \A x \in Artifact : file'[Mine(p, x)] = file[Mine(p, x)]
        BY <1>1, <1>2, <1>3, <1>4, <3>1
      <3> QED BY <2>2, <3>1, <3>2 DEF Apart
    <2>9. CASE Publish(q)
      <3>1. /\ todo[q] # <<>> /\ Advance(q) /\ Shown(q)
            /\ entry' = [entry EXCEPT ![target[q][The(q)]] = Mine(q, The(q))]
            /\ temps' \subseteq temps
            /\ UNCHANGED <<cmd, file, status, code, report, signal, faults,
                           target, crossed>>
        BY <2>9 DEF Publish, Replace, Next1
      <3>2. published'[p] = published[p]
        BY <1>4, <3>1 DEF Shown, TypeOK
      <3>3. \A n \in Name, x \in Artifact :
               entry'[n] = Mine(p, x) => entry[n] = Mine(p, x)
        BY <1>1, <1>3, <1>4, <3>1
      <3>4. \A n \in Name : entry'[n] = Link => entry[n] = Link
        <4>1. Mine(q, The(q)) # Link
          BY <1>3, <3>1, MineFacts
        <4> QED BY <1>4, <3>1, <4>1
      <3> QED BY <2>2, <3>1, <3>2, <3>3, <3>4 DEF Apart
    <2>10. CASE NameTaken(q)
      BY <2>3, <2>4, <2>10 DEF NameTaken, Apart
    <2>11. CASE Owned(q)
      <3>1. todo'[p] = todo[p]
        BY <2>2, <2>11 DEF Owned, TypeOK
      <3> QED BY <2>11, <3>1 DEF Owned, disk, Apart
    <2>12. CASE Remove(q)
      <3>1. /\ Advance(q) /\ entry' = [entry EXCEPT ![cmd[q].doc] = NoFile]
            /\ UNCHANGED <<cmd, file, temps, status, code, published, report,
                           signal, faults, target, crossed>>
        BY <2>12 DEF Remove
      <3>2. \A n \in Name, x \in Artifact :
               entry'[n] = Mine(p, x) => entry[n] = Mine(p, x)
        BY <1>2, <1>4, <3>1
      <3>3. \A n \in Name : entry'[n] = Link => entry[n] = Link
        BY <1>4, <3>1, FileAssumption
      <3> QED BY <2>2, <3>1, <3>2, <3>3 DEF Apart
    <2>13. CASE Fails(q)
      <3>1. faults' # 0
        BY <1>4, <2>13 DEF Fails
      <3> QED BY <2>3, <2>4, <2>13, <3>1 DEF Fails, Apart
    <2>14. CASE Walk(q)
      <3>1. report'[p] = report[p] /\ status'[p] = status[p]
        BY <2>14 DEF Walk, TypeOK
      <3> QED BY <2>2, <2>14, <3>1 DEF Walk, disk, Apart
    <2>15. CASE PrintOut(q)
      <3>1. published'[p] = published[p]
        BY <2>15 DEF PrintOut, Shown, TypeOK
      <3> QED BY <2>2, <2>15, <3>1 DEF PrintOut, disk, Apart
    <2>16. CASE Exit(q)
      <3>1. code'[p] = code[p]
        BY <2>16 DEF Exit, TypeOK
      <3> QED BY <2>16, <3>1 DEF Exit, disk, Apart
    <2> QED BY <1>5, <2>5, <2>6, <2>7, <2>8, <2>9, <2>10, <2>11, <2>12, <2>13,
               <2>14, <2>15, <2>16, <2>17 DEF Main
  <1>6. ASSUME Interrupt(q) \/ Handle(q) \/ Notice(q) PROVE Apart(p)
    <2>1. code'[p] = code[p] /\ signal'[p] = signal[p]
      BY <1>6 DEF Interrupt, Handle, Notice, TypeOK
    <2>2. faults' = 0 => faults = 0
      BY <1>4, <1>6 DEF Interrupt, Handle, Notice
    <2> QED BY <1>6, <2>1, <2>2 DEF Interrupt, Handle, Notice, disk, Apart
  <1> QED BY <1>5, <1>6

----------------------------------------------------------------------------
(* A command and its own steps.                                            *)

LEMMA LeftAdvances ==
    ASSUME TypeOK, NEW p \in Proc, PlanOK(p), todo[p] # <<>>, Advance(p)
    PROVE  /\ Left(p) = {Head(todo[p])} \cup Left(p)'
           /\ \A r \in Left(p)' : r \in Step /\ Before(Head(todo[p]), r)
           /\ Ordered(todo[p])' /\ Whole(Left(p))'
           /\ Head(todo[p]) \in Step /\ Head(todo[p]) \notin Left(p)'
  <1>1. todo[p] \in Seq(Step) /\ Ordered(todo[p]) /\ Whole(Rest(todo[p]))
    BY DEF TypeOK, PlanOK, Left
  <1>2. todo'[p] = Tail(todo[p])
    BY DEF Advance, TypeOK
  <1>3. Left(p)' = Rest(Tail(todo[p]))
    BY <1>2 DEF Left, Rest
  <1>4. Ordered(todo[p])' <=> Ordered(Tail(todo[p]))
    BY <1>2 DEF Ordered
  <1>5. Whole(Left(p))' <=> Whole(Rest(Tail(todo[p])))
    BY <1>3 DEF Whole
  <1>6. \A r \in Left(p)' : r \in Step /\ Before(Head(todo[p]), r)
    BY <1>1, <1>3, FirstStep
  <1>7. Head(todo[p]) \in Step
    BY <1>1, FirstStep
  <1>8. Head(todo[p]) \notin Left(p)'
    BY <1>6, <1>7, RankFacts
  <1>9. Left(p) = {Head(todo[p])} \cup Left(p)'
    BY <1>1, <1>3, FirstStep DEF Left
  <1>10. Ordered(todo[p])' /\ Whole(Left(p))'
    BY <1>1, <1>4, <1>5, FirstStep
  <1> QED BY <1>6, <1>7, <1>8, <1>9, <1>10

LEMMA PlanAdvances ==
    ASSUME TypeOK, NEW p \in Proc, PlanOK(p), todo[p] # <<>>, Advance(p),
           cmd' = cmd, status'[p] = 2 <=> status[p] = 2,
           Head(todo[p]).op = "walk" \/ status'[p] = status[p],
           Head(todo[p]).op \in {"publish", "print"}
              \/ published'[p] = published[p],
           Head(todo[p]).op = "check" => "in" \notin Outputs(p)
    PROVE  PlanOK(p)'
  <1>1. /\ Left(p) = {Head(todo[p])} \cup Left(p)'
        /\ \A r \in Left(p)' : r \in Step /\ Before(Head(todo[p]), r)
        /\ Ordered(todo[p])' /\ Whole(Left(p))'
    BY LeftAdvances
  <1>2. ASSUME NEW r \in Left(p)' PROVE Fits(p, r)'
    <2>1. /\ Fits(p, r)
          /\ published'[p] = published[p] \/ r.op \notin {"look", "check"}
      BY <1>1 DEF PlanOK, Before
    <2>2. Path(p, r.of)' = Path(p, r.of)
      BY DEF Path
    <2>3. CASE Head(todo[p]).op = "walk"
      <3>1. Head(todo[p]).of = "out"
        BY <1>1, <2>3 DEF PlanOK, Fits
      <3>2. r.op # "walk"
        BY <1>1, <2>1, <2>3, <3>1, RankFacts DEF Fits, Before
      <3> QED BY <2>1, <2>2, <3>2 DEF Fits
    <2>4. CASE status'[p] = status[p]
      BY <2>1, <2>2, <2>4 DEF Fits
    <2> QED BY <2>3, <2>4
  <1>3. ASSUME cmd[p].kind # "query", Do("check", "doc") \notin Left(p)'
        PROVE  "in" \notin Outputs(p)
    <2>1. CASE Head(todo[p]).op = "check"
      BY <2>1
    <2>2. CASE Head(todo[p]).op # "check"
      <3>1. Do("check", "doc") \notin Left(p)
        BY <1>1, <1>3, <2>2 DEF Do
      <3> QED BY <1>3, <3>1 DEF PlanOK
    <2> QED BY <2>1, <2>2
  <1>4. Outputs(p)' = Outputs(p)
    BY DEF Outputs, Path
  <1>5. Checking(p)'
    <2>1. ASSUME Do("check", "doc") \notin Left(p)', NEW x \in Artifact
          PROVE  Do("look", x) \notin Left(p)' /\ Do("resolve", x) \notin Left(p)'
      <3>1. CASE Head(todo[p]).op = "check"
        BY <1>1, <3>1 DEF Before, Do
      <3>2. CASE Head(todo[p]).op # "check"
        <4>1. Do("check", "doc") \notin Left(p)
          BY <1>1, <2>1, <3>2 DEF Do
        <4> QED BY <1>1, <4>1 DEF PlanOK, Checking
      <3> QED BY <3>1, <3>2
    <2>2. ASSUME cmd[p].kind = "scan", NEW x \in Artifact,
                 Do("look", x) \in Left(p)'
          PROVE  Do("resolve", x) \in Left(p)'
      <3>1. Do("resolve", x) \in Left(p)
        BY <1>1, <2>2 DEF PlanOK, Checking
      <3>2. Head(todo[p]) # Do("resolve", x)
        BY <1>1, <2>2 DEF Before, Do, Rank
      <3> QED BY <1>1, <3>1, <3>2
    <2>3. ASSUME cmd[p].kind = "scan", NEW x \in Artifact,
                 Do("check", "doc") \in Left(p)', Do("publish", x) \in Left(p)'
          PROVE  Do("revisit", x) \in Left(p)'
      <3>1. Do("revisit", x) \in Left(p)
        BY <1>1, <2>3 DEF PlanOK, Checking
      <3>2. Head(todo[p]) # Do("revisit", x)
        BY <1>1, <2>3 DEF Before, Do
      <3> QED BY <1>1, <3>1, <3>2
    <2> QED BY <2>1, <2>2, <2>3 DEF Checking
  <1> QED BY <1>1, <1>2, <1>3, <1>4, <1>5 DEF PlanOK

\* The command ends in an error.  An import has nothing under its names then,
\* or some call has failed.
LEMMA GivesUp ==
    ASSUME TypeOK, NEW p \in Proc, PInv(p), code[p] = Alive, GiveUp(p),
           UNCHANGED <<cmd, entry, file, code, published, report, signal,
                       target, crossed>>,
           cmd[p].kind = "import" /\ faults' = 0 =>
              \A n \in Name, x \in Artifact : entry[n] # Mine(p, x)
    PROVE  PInv(p)'
  <1>1. todo'[p] = <<>> /\ status'[p] = 2
    BY DEF GiveUp, TypeOK
  <1>2. \A x \in Artifact : Mine(p, x) \notin temps'
    BY DEF GiveUp, Mine
  <1>3. Left(p)' = {}
    BY <1>1, RestOfNothing DEF Left
  <1>4. \A x \in Artifact : Path(p, x)' = Path(p, x) /\ Mine(p, x)' = Mine(p, x)
    BY DEF Path, Mine
  <1>5. PlanOK(p)'
    <2>1. Ordered(todo[p])'
      <3>1. << >> \in Seq(Step) /\ Len(<< >>) = 0
        BY EmptySeq
      <3>2. DOMAIN << >> = {}
        BY <3>1, LenProperties
      <3> QED BY <1>1, <3>2 DEF Ordered
    <2> QED BY <1>1, <1>3, <2>1 DEF PlanOK, Whole, Checking
  <1>11. TargetsOK(p)'
    BY <1>3, <1>4 DEF PInv, TargetsOK, TargetOK, Between
  <1>6. NamedOK(p)'
    BY <1>3, <1>4 DEF PInv, NamedOK
  <1>7. StagedOK(p)'
    BY <1>2, <1>3, <1>4 DEF StagedOK
  <1>8. ShownOK(p)'
    BY <1>1, <1>3 DEF PInv, ShownOK
  <1>9. EndOK(p)'
    BY <1>1 DEF PInv, EndOK, Alive
  <1>10. RollbackOK(p)'
    BY <1>4 DEF RollbackOK, Artifact
  <1> QED BY <1>5, <1>6, <1>7, <1>8, <1>9, <1>10, <1>11 DEF PInv

\* The report of an import was not published: the document is to be removed.
LEMMA RollsBack ==
    ASSUME TypeOK, NEW p \in Proc, PInv(p), code[p] = Alive, RollBack(p),
           cmd[p].kind = "import", todo[p] # <<>>,
           Head(todo[p]) = Do("publish", "out")
    PROVE  PInv(p)'
  <1>1. /\ todo'[p] = RollbackSteps /\ status'[p] = 2
        /\ temps' = temps \ {Mine(p, "out")}
        /\ UNCHANGED <<cmd, entry, file, code, published, report, signal,
                       target, crossed>>
    BY DEF RollBack, TypeOK, places
  <1>2. Left(p)' = {Do("owned", "doc"), Do("remove", "doc")}
    BY <1>1 DEF Left, Rest, RollbackSteps
  <1>3. \A x \in Artifact : Path(p, x)' = Path(p, x) /\ Mine(p, x)' = Mine(p, x)
    BY <1>1 DEF Path, Mine
  <1>4. /\ Do("publish", "out") \in Left(p)
        /\ Do("publish", "doc") \notin Left(p)
        /\ Do("check", "doc") \notin Left(p)
    <2>1. /\ Left(p) = {Head(todo[p])} \cup Rest(Tail(todo[p]))
          /\ \A r \in Rest(Tail(todo[p])) : Before(Head(todo[p]), r)
      BY FirstStep DEF TypeOK, PInv, PlanOK, Left
    <2>2. \A r \in Rest(Tail(todo[p])) :
             r # Do("publish", "doc") /\ r # Do("check", "doc")
      BY <2>1 DEF Before, Do
    <2> QED BY <2>1, <2>2 DEF Do
  <1>5. PlanOK(p)'
    <2>1. Ordered(todo[p])'
      BY <1>1 DEF Ordered, RollbackSteps, Before, Rank, Do
    <2>2. Whole(Left(p))'
      BY <1>2 DEF Whole, Do
    <2>3. \A r \in Left(p)' : Fits(p, r)'
      BY <1>1, <1>2 DEF Fits, Do, FileSteps
    <2>4. "in" \notin Outputs(p) /\ Outputs(p)' = Outputs(p)
      BY <1>1, <1>4 DEF PInv, PlanOK, Outputs, Path
    <2>5. Checking(p)'
      BY <1>1, <1>2 DEF Checking, Do
    <2> QED BY <2>1, <2>2, <2>3, <2>4, <2>5 DEF PlanOK
  <1>6. \A x \in Artifact, op \in FileSteps \cup {"print"} :
           Do(op, x) \notin Left(p)'
    BY <1>2 DEF FileSteps, Do
  <1>12. TargetsOK(p)'
    <2>1. {"look", "resolve", "revisit", "settle", "publish"} \subseteq FileSteps
      BY DEF FileSteps
    <2>2. ASSUME NEW x \in Artifact
          PROVE  /\ target'[p][x] = target[p][x] /\ Path(p, x)' = Path(p, x)
                 /\ cmd[p] = cmd'[p] /\ TargetOK(p, x)
                 /\ Do("resolve", x) \notin Left(p)'
                 /\ Do("settle", x) \notin Left(p)'
                 /\ Do("publish", x) \notin Left(p)'
                 /\ Do("check", "doc") \notin Left(p)'
      BY <1>1, <1>2, <1>3, <1>6, <2>1 DEF PInv, TargetsOK, Do
    <2> QED BY <2>2 DEF TargetsOK, TargetOK, Between
  <1>7. NamedOK(p)'
    BY <1>1, <1>3, <1>6 DEF PInv, NamedOK
  <1>8. StagedOK(p)'
    <2>1. \A x \in Artifact : Mine(p, x) \notin temps'
      BY <1>1, <1>4 DEF PInv, StagedOK, Artifact
    <2>2. "publish" \in FileSteps
      BY DEF FileSteps
    <2> QED BY <1>3, <1>6, <2>1, <2>2 DEF StagedOK
  <1>9. ShownOK(p)'
    BY <1>1, <1>4, <1>6 DEF PInv, ShownOK, FileSteps, Artifact
  <1>10. EndOK(p)'
    BY <1>1 DEF PInv, EndOK, Alive
  <1>11. RollbackOK(p)'
    <2>1. \A n \in Name : entry[n] # Mine(p, "out")
      BY <1>4 DEF PInv, NamedOK, FileSteps, Artifact
    <2> QED BY <1>1, <1>2, <1>3, <2>1 DEF RollbackOK, Mine
  <1> QED BY <1>5, <1>7, <1>8, <1>9, <1>10, <1>11, <1>12 DEF PInv

\* What is left of the other kinds of step stays left, and of the same kind
\* nothing for the same file.
LEMMA OthersLeft ==
    ASSUME TypeOK, NEW p \in Proc, PlanOK(p), todo[p] # <<>>, Advance(p)
    PROVE  /\ The(p) \in Artifact
           /\ Do(Head(todo[p]).op, The(p)) \in Left(p)
           /\ \A op, x : op # Head(todo[p]).op =>
                 (Do(op, x) \in Left(p)' <=> Do(op, x) \in Left(p))
           /\ \A x : x # The(p) =>
                 \A op : Do(op, x) \in Left(p)' <=> Do(op, x) \in Left(p)
           /\ \A op \in Op : Do(op, The(p)) \in Left(p)' =>
                 Rank[Head(todo[p]).op] < Rank[op]
  <1>1. /\ Left(p) = {Head(todo[p])} \cup Left(p)'
        /\ \A r \in Left(p)' : r \in Step /\ Before(Head(todo[p]), r)
    BY LeftAdvances
  <1>2. The(p) \in Artifact /\ Head(todo[p]) = Do(Head(todo[p]).op, The(p))
    BY HeadFacts
  <1>3. Do(Head(todo[p]).op, The(p)) \in Left(p)
    BY <1>1, <1>2
  <1>4. \A op, x : op # Head(todo[p]).op =>
                 (Do(op, x) \in Left(p)' <=> Do(op, x) \in Left(p))
    BY <1>1 DEF Do
  <1>5. \A x : x # The(p) =>
           \A op : Do(op, x) \in Left(p)' <=> Do(op, x) \in Left(p)
    BY <1>1, <1>2 DEF Do
  <1>6. ASSUME NEW op \in Op, Do(op, The(p)) \in Left(p)'
        PROVE  Rank[Head(todo[p]).op] < Rank[op]
    <2>1. Before(Head(todo[p]), Do(op, The(p)))
      BY <1>1, <1>6
    <2> QED BY <2>1 DEF Before, Do, The
  <1> QED BY <1>2, <1>3, <1>4, <1>5, <1>6

\* A name that a command looks at is one.
LEMMA PathIsName ==
    ASSUME TypeOK, NEW p \in Proc, PlanOK(p), NEW op \in FileSteps,
           NEW x \in Artifact, Do(op, x) \in Left(p)
    PROVE  Path(p, x) \in Name /\ cmd[p].kind # "query"
  <1>1. Fits(p, Do(op, x))
    BY DEF PlanOK
  <1>2. Path(p, x) # NoName /\ cmd[p].kind # "query"
    BY <1>1 DEF Fits, Do, FileSteps
  <1> QED BY <1>2, ScenarioFacts DEF Path

Seek == {"look", "resolve", "revisit", "settle"}

\* A step that has nothing to do with where the outputs are going to be.
LEMMA TargetsAdvance ==
    ASSUME TypeOK, NEW p \in Proc, PlanOK(p), TargetsOK(p), todo[p] # <<>>,
           Advance(p), cmd' = cmd, target' = target, crossed' = crossed,
           Head(todo[p]).op \notin Seek \cup {"check"},
           \A n \in Name : entry'[n] = Link => entry[n] = Link
    PROVE  TargetsOK(p)'
  <1> SUFFICES ASSUME NEW x \in Artifact PROVE TargetOK(p, x)'
    BY DEF TargetsOK
  <1>1. TargetOK(p, x)
    BY DEF TargetsOK
  <1>2. \A op \in Seek \cup {"check"} : \A y :
            Do(op, y) \in Left(p)' <=> Do(op, y) \in Left(p)
    BY OthersLeft
  <1>3. Do("publish", x) \in Left(p)' => Do("publish", x) \in Left(p)
    BY LeftAdvances
  <1>4. Between(p, x)' <=> Between(p, x)
    BY <1>2 DEF Between, Seek
  <1>5. Between(p, x) => Path(p, x) \in Name
    BY PathIsName DEF Between, FileSteps
  <1>6. Path(p, x)' = Path(p, x)
    BY DEF Path
  <1>7. Between(p, x)' /\ entry'[Path(p, x)] = Link => <<p, x>> \in crossed
    BY <1>1, <1>4, <1>5 DEF TargetOK
  <1> QED BY <1>1, <1>2, <1>3, <1>6, <1>7 DEF TargetOK, Seek

\* What a step leaves, and what it does not, where a target is found.
LEMMA SeekFacts ==
    ASSUME TypeOK, NEW p \in Proc, PlanOK(p), todo[p] # <<>>, Advance(p),
           Head(todo[p]).op \in Seek
    PROVE  LET op == Head(todo[p]).op
               x == The(p)
           IN  /\ x \in Artifact /\ Do(op, x) \in Left(p)
               /\ Path(p, x) \in Name
               /\ cmd[p].kind = "scan" \/ (cmd[p].kind = "import" /\ op = "look")
               /\ \A o, y : Do(o, y) \in Left(p)' <=>
                     Do(o, y) \in Left(p) /\ ~(o = op /\ y = x)
               /\ op \in {"look", "resolve"} => Do("check", "doc") \in Left(p)
               /\ op \in {"revisit", "settle"} =>
                     /\ Do("check", "doc") \notin Left(p)
                     /\ Do("resolve", x) \notin Left(p)
               /\ op = "resolve" => Do("look", x) \notin Left(p)
               /\ op = "settle" => Do("revisit", x) \notin Left(p)
               /\ op = "revisit" => Do("settle", x) \in Left(p)
               /\ op = "look" /\ cmd[p].kind = "scan" =>
                     Do("resolve", x) \in Left(p)
               /\ op = "resolve" /\ Do("settle", x) \in Left(p) =>
                     Do("revisit", x) \in Left(p)
  <1> DEFINE op == Head(todo[p]).op
             x == The(p)
  <1>1. /\ Left(p) = {Head(todo[p])} \cup Left(p)'
        /\ \A r \in Left(p)' : r \in Step /\ Before(Head(todo[p]), r)
        /\ Head(todo[p]) \notin Left(p)'
    BY LeftAdvances
  <1>2. x \in Artifact /\ Head(todo[p]) = Do(op, x)
    BY HeadFacts
  <1>3. Do(op, x) \in Left(p)
    BY <1>1, <1>2
  <1>4. Path(p, x) \in Name /\ cmd[p].kind # "query"
    BY <1>2, <1>3, PathIsName DEF Seek, FileSteps
  <1>5. cmd[p].kind \in {"scan", "import"}
    BY <1>4, ScenarioFacts DEF Kind
  <1>6. op \in {"resolve", "revisit", "settle"} => cmd[p].kind = "scan"
    BY <1>3 DEF PlanOK, Fits, Do
  <1>7. \A o, y : Do(o, y) \in Left(p)' <=>
                    Do(o, y) \in Left(p) /\ ~(o = op /\ y = x)
    BY <1>1, <1>2 DEF Do
  <1>8. op \in {"look", "resolve"} => Do("check", "doc") \in Left(p)
    BY <1>2, <1>3 DEF PlanOK, Checking
  <1>9. op \in {"revisit", "settle"} => /\ Do("check", "doc") \notin Left(p)
                                       /\ Do("resolve", x) \notin Left(p)
    BY <1>1, <1>2 DEF Before, Do
  <1>10. op = "resolve" => Do("look", x) \notin Left(p)
    BY <1>1, <1>2 DEF Before, Do, Rank
  <1>11. op = "settle" => Do("revisit", x) \notin Left(p)
    BY <1>1, <1>2 DEF Before, Do, Rank
  <1>12. op = "revisit" => Do("settle", x) \in Left(p)
    BY <1>3 DEF PlanOK, Whole, Do
  <1>13. op = "look" /\ cmd[p].kind = "scan" => Do("resolve", x) \in Left(p)
    BY <1>2, <1>3 DEF PlanOK, Checking
  <1>14. ASSUME op = "resolve", Do("settle", x) \in Left(p)
         PROVE  Do("revisit", x) \in Left(p)
    <2>1. Do("create", x) \in Left(p)
      BY <1>14 DEF PlanOK, Whole, Do
    <2>2. Do("sync", x) \in Left(p)
      BY <2>1 DEF PlanOK, Whole, Do
    <2>3. Do("publish", x) \in Left(p)
      BY <2>2 DEF PlanOK, Whole, Do
    <2> QED BY <1>2, <1>6, <1>8, <1>14, <2>3 DEF PlanOK, Checking
  <1> QED BY <1>2, <1>3, <1>4, <1>5, <1>6, <1>7, <1>8, <1>9, <1>10, <1>11,
             <1>12, <1>13, <1>14 DEF Seek

\* The first call of destination, and the second.
LEMMA SeekTargets ==
    ASSUME TypeOK, NEW p \in Proc, PlanOK(p), TargetsOK(p), todo[p] # <<>>,
           Advance(p), Head(todo[p]).op \in Seek, NEW n \in Name \cup {NoName},
           target' = [target EXCEPT ![p][The(p)] = n],
           UNCHANGED <<cmd, entry, crossed>>,
           LET x == The(p)
               m == Path(p, x)
           IN  /\ Head(todo[p]).op \in {"look", "revisit"} =>
                     /\ Acceptable(p, m)
                     /\ n = IF entry[m] = NoFile THEN m ELSE NoName
               /\ Head(todo[p]).op \in {"resolve", "settle"} =>
                     n = IF target[p][x] = NoName THEN Canonical(m)
                         ELSE target[p][x]
    PROVE  TargetsOK(p)'
  <1>0. PICK z \in Artifact : z = The(p)
    BY HeadFacts
  <1> DEFINE op == Head(todo[p]).op
             m == Path(p, z)
  <1>1. /\ z \in Artifact /\ Do(op, z) \in Left(p) /\ m \in Name
        /\ cmd[p].kind = "scan" \/ (cmd[p].kind = "import" /\ op = "look")
        /\ \A o, y : Do(o, y) \in Left(p)' <=>
              Do(o, y) \in Left(p) /\ ~(o = op /\ y = z)
        /\ op \in {"look", "resolve"} => Do("check", "doc") \in Left(p)
        /\ op \in {"revisit", "settle"} =>
              /\ Do("check", "doc") \notin Left(p)
              /\ Do("resolve", z) \notin Left(p)
        /\ op = "resolve" => Do("look", z) \notin Left(p)
        /\ op = "settle" => Do("revisit", z) \notin Left(p)
        /\ op = "revisit" => Do("settle", z) \in Left(p)
        /\ op = "look" /\ cmd[p].kind = "scan" => Do("resolve", z) \in Left(p)
        /\ op = "resolve" /\ Do("settle", z) \in Left(p) =>
              Do("revisit", z) \in Left(p)
    BY <1>0, SeekFacts
  <1>2. \A y \in Artifact : target'[p][y] = IF y = z THEN n ELSE target[p][y]
    BY <1>0 DEF TypeOK
  <1>3. m # NoName /\ "in" # NoName /\ Link # NoFile
    BY <1>1, CommandsAssumption, FileAssumption
  <1>4. \A y \in Artifact : Path(p, y)' = Path(p, y)
    BY DEF Path
  <1>5. op \in {"look", "resolve", "revisit", "settle"}
    BY DEF Seek
  <1>6. /\ op \in {"look", "revisit"} =>
              /\ n \in {NoName, m} /\ (n = NoName => entry[m] # Link)
              /\ cmd[p].kind = "import" => n = m
        /\ op \in {"resolve", "settle"} =>
              n = IF target[p][z] = NoName
                  THEN (IF entry[m] = Link THEN "in" ELSE m) ELSE target[p][z]
    BY <1>3, <1>0 DEF Acceptable, Canonical
  <1>7. TargetOK(p, z)
    BY <1>1 DEF TargetsOK
  <1> HIDE DEF op, m
  <1>8. ASSUME NEW y \in Artifact, y # z PROVE TargetOK(p, y)'
    <2>1. TargetOK(p, y) /\ target'[p][y] = target[p][y]
      BY <1>2, <1>8 DEF TargetsOK
    <2>2. \A o : Do(o, y) \in Left(p)' <=> Do(o, y) \in Left(p)
      BY <1>1, <1>8
    <2>3. Do("check", "doc") \in Left(p)' <=> Do("check", "doc") \in Left(p)
      BY <1>1, <1>5
    <2> QED BY <1>4, <2>1, <2>2, <2>3 DEF TargetOK, Between
  <1>13. /\ Path(p, z)' = m /\ target'[p][z] = n
         /\ cmd'[p] = cmd[p] /\ entry'[m] = entry[m] /\ crossed' = crossed
    BY <1>1, <1>2, <1>4 DEF m
  <1>14. \A o \in {"look", "resolve", "check", "revisit", "settle", "publish"} :
            \A y : o # op => (Do(o, y) \in Left(p)' <=> Do(o, y) \in Left(p))
    BY <1>1
  <1>15. Do(op, z) \notin Left(p)'
    BY <1>1
  <1>9. ASSUME op = "look" PROVE TargetOK(p, z)'
    <2>1. Do("check", "doc") \in Left(p)'
      BY <1>1, <1>9, <1>14
    <2>2. n \in {NoName, m}
      BY <1>6, <1>9
    <2>3. cmd[p].kind = "import" => n = m
      BY <1>6, <1>9
    <2>4. Do("settle", z) \in Left(p)' /\ Do("revisit", z) \notin Left(p)'
             /\ n = NoName /\ entry[m] = Link => <<p, z>> \in crossed
      BY <1>6, <1>9
    <2>5. cmd[p].kind # "import" => Do("resolve", z) \in Left(p)'
      BY <1>1, <1>9, <1>14
    <2> QED BY <1>3, <1>13, <2>1, <2>2, <2>3, <2>4, <2>5
            DEF TargetOK, Between
  <1>10. ASSUME op = "revisit" PROVE TargetOK(p, z)'
    <2>1. /\ Do("check", "doc") \notin Left(p)'
          /\ Do("resolve", z) \notin Left(p)'
          /\ Do("settle", z) \in Left(p)'
      BY <1>1, <1>10, <1>14
    <2>2. n \in {NoName, m}
      BY <1>6, <1>10
    <2>3. cmd[p].kind # "import"
      BY <1>1, <1>10
    <2>4. n = NoName => entry[m] # Link
      BY <1>6, <1>10
    <2> QED BY <1>13, <2>1, <2>2, <2>3, <2>4 DEF TargetOK, Between
  <1>11. ASSUME op = "resolve" PROVE TargetOK(p, z)'
    <2>1. n \in {m, "in"}
      BY <1>1, <1>6, <1>7, <1>11 DEF TargetOK, m
    <2>2. /\ Do("check", "doc") \in Left(p)'
          /\ Do("resolve", z) \notin Left(p)'
          /\ Do("settle", z) \in Left(p)' => Do("revisit", z) \in Left(p)'
      BY <1>1, <1>11, <1>14, <1>15
    <2>3. cmd[p].kind # "import"
      BY <1>1, <1>11
    <2> QED BY <1>3, <1>13, <2>1, <2>2, <2>3 DEF TargetOK, Between
  <1>12. ASSUME op = "settle" PROVE TargetOK(p, z)'
    <2>1. n \in {m, "in"} /\ (n # m => <<p, z>> \in crossed)
      BY <1>1, <1>6, <1>7, <1>12 DEF TargetOK, Between, m
    <2>2. /\ Do("check", "doc") \notin Left(p)'
          /\ Do("resolve", z) \notin Left(p)'
          /\ Do("settle", z) \notin Left(p)'
      BY <1>1, <1>12, <1>14, <1>15
    <2>3. cmd[p].kind # "import"
      BY <1>1, <1>12
    <2> QED BY <1>3, <1>13, <2>1, <2>2, <2>3 DEF TargetOK, Between
  <1> QED BY <1>5, <1>8, <1>9, <1>10, <1>11, <1>12 DEF TargetsOK

\* The comparison of the paths: what a scan found is forgotten, what an
\* import found is its path, and none of the paths is the input.
LEMMA CheckTargets ==
    ASSUME TypeOK, NEW p \in Proc, PlanOK(p), TargetsOK(p), todo[p] # <<>>,
           Advance(p), Head(todo[p]).op = "check", PathsGood(p),
           UNCHANGED <<cmd, entry, target, crossed>>
    PROVE  TargetsOK(p)' /\ "in" \notin Outputs(p)
  <1>1. /\ Left(p) = {Head(todo[p])} \cup Left(p)'
        /\ \A r \in Left(p)' : r \in Step /\ Before(Head(todo[p]), r)
        /\ Head(todo[p]) \notin Left(p)'
    BY LeftAdvances
  <1>2. /\ \A y : /\ Do("look", y) \notin Left(p)
                  /\ Do("resolve", y) \notin Left(p)
        /\ Do("check", "doc") \notin Left(p)'
    BY <1>1 DEF Before, Do
  <1>3. Do("check", The(p)) \in Left(p) /\ The(p) \in Artifact
    BY OthersLeft
  <1>4. Fits(p, Do("check", The(p)))
    BY <1>3 DEF PlanOK
  <1>5. cmd[p].kind \in {"scan", "import"}
    BY <1>4, ScenarioFacts DEF Fits, Do, Kind
  <1>6. \A op, y : op # "check" => (Do(op, y) \in Left(p)' <=> Do(op, y) \in Left(p))
    BY OthersLeft
  <1>7. Do("check", "doc") \in Left(p)
    <2>1. The(p) = "doc"
      BY <1>3 DEF PlanOK, Fits, Do
    <2> QED BY <1>3, <2>1
  <1>8. ASSUME NEW y \in Artifact, Path(p, y) # NoName
        PROVE  /\ target[p][y] \in {Path(p, y), "in"}
               /\ target[p][y] # "in" /\ Path(p, y) # "in"
    <2>1. target[p][y] \in {Path(p, y), "in"}
      BY <1>2, <1>7, <1>8 DEF TargetsOK, TargetOK
    <2>2. target[p][y] # "in"
      BY <1>8 DEF PathsGood, ImportPathsGood, ScanPathsGood, Same
    <2> QED BY <2>1, <2>2
  <1>9. "in" \notin Outputs(p)
    BY <1>8 DEF Outputs
  <1>10. \A y \in Artifact : Path(p, y)' = Path(p, y)
    BY DEF Path
  <1>11. ASSUME NEW y \in Artifact PROVE TargetOK(p, y)'
    <2>1. TargetOK(p, y)
      BY DEF TargetsOK
    <2>2. ASSUME Do("settle", y) \notin Left(p), Do("publish", y) \in Left(p)
          PROVE  target[p][y] = Path(p, y) /\ Path(p, y) # NoName
      <3>1. Path(p, y) # NoName
        BY <2>2 DEF PlanOK, Fits, Do, FileSteps
      <3> QED BY <1>8, <3>1
    <2> QED BY <1>2, <1>6, <1>10, <2>1, <2>2 DEF TargetOK, Between
  <1> QED BY <1>9, <1>11 DEF TargetsOK

Quiet == {"check", "read", "install", "owned"} \cup Seek

\* A step that writes nothing.
LEMMA QuietAdvance ==
    ASSUME TypeOK, NEW p \in Proc, PInv(p), code[p] = Alive, todo[p] # <<>>,
           Advance(p), Head(todo[p]).op \in Quiet,
           UNCHANGED <<cmd, disk, status, code, published, report, signal,
                       faults>>,
           Head(todo[p]).op = "check" => "in" \notin Outputs(p),
           TargetsOK(p)',
           \A x \in Artifact : target'[p][x] # target[p][x] =>
              /\ Head(todo[p]).op \in Seek
              /\ Head(todo[p]) = Do(Head(todo[p]).op, x)
    PROVE  PInv(p)'
  <1>1. PlanOK(p)'
    BY PlanAdvances DEF PInv
  <1>2. \A x, op : op \notin Quiet =>
                      (Do(op, x) \in Left(p)' <=> Do(op, x) \in Left(p))
    BY OthersLeft DEF PInv
  <1>3. {"create", "fill", "sync", "publish", "print", "walk", "remove"}
           \cap Quiet = {}
    BY DEF Quiet, Seek
  <1>4. \A x \in Artifact : Path(p, x)' = Path(p, x) /\ Mine(p, x)' = Mine(p, x)
    BY DEF Path, Mine
  <1> USE DEF disk
  <1>5. NamedOK(p)'
    <2>1. Left(p) = {Head(todo[p])} \cup Left(p)'
      BY LeftAdvances DEF PInv
    <2>2. ASSUME NEW x \in Artifact, NEW n \in Name, entry[n] = Mine(p, x)
          PROVE  target'[p][x] = target[p][x]
      <3>1. \A op \in FileSteps : Do(op, x) \notin Left(p)
        BY <2>2 DEF PInv, NamedOK
      <3>2. Seek \subseteq FileSteps
        BY DEF Seek, FileSteps
      <3> QED BY <2>1, <3>1, <3>2
    <2> QED BY <1>4, <2>1, <2>2 DEF PInv, NamedOK
  <1>6. StagedOK(p)'
    BY <1>2, <1>3, <1>4 DEF PInv, StagedOK
  <1>7. ShownOK(p)'
    BY <1>2, <1>3, <1>4 DEF PInv, ShownOK
  <1>8. EndOK(p)'
    BY <1>2, <1>3 DEF PInv, EndOK, Alive
  <1>9. RollbackOK(p)'
    BY <1>2, <1>3, <1>4 DEF PInv, RollbackOK, Artifact
  <1> QED BY <1>1, <1>5, <1>6, <1>7, <1>8, <1>9 DEF PInv

\* A step of staging: the file has no name yet, and it will be synced before
\* it gets one.
LEMMA StagingAdvance ==
    ASSUME TypeOK, NEW p \in Proc, PInv(p), code[p] = Alive, todo[p] # <<>>,
           Advance(p), Head(todo[p]).op \in {"create", "fill", "sync"},
           NEW s, file' = [file EXCEPT ![Mine(p, The(p))] = s],
           Head(todo[p]).op = "sync" => s = "synced",
           temps' \subseteq temps \cup {Mine(p, The(p))},
           UNCHANGED <<cmd, entry, status, code, published, report, signal,
                       faults, target, crossed>>
    PROVE  PInv(p)'
  <1>1. PlanOK(p)'
    BY PlanAdvances DEF PInv
  <1>14. TargetsOK(p)'
    BY TargetsAdvance DEF PInv, Seek
  <1>2. /\ The(p) \in Artifact
        /\ Do(Head(todo[p]).op, The(p)) \in Left(p)
        /\ \A op, x : op # Head(todo[p]).op =>
              (Do(op, x) \in Left(p)' <=> Do(op, x) \in Left(p))
        /\ \A x : x # The(p) =>
              \A op : Do(op, x) \in Left(p)' <=> Do(op, x) \in Left(p)
    BY OthersLeft DEF PInv
  <1>3. \A x \in Artifact : Path(p, x)' = Path(p, x) /\ Mine(p, x)' = Mine(p, x)
    BY DEF Path, Mine
  <1>4. Whole(Left(p)) /\ "publish" # Head(todo[p]).op
    BY DEF PInv, PlanOK
  <1>5. /\ Do("publish", The(p)) \in Left(p)'
        /\ Head(todo[p]).op # "sync" => Do("sync", The(p)) \in Left(p)'
    <2>1. Head(todo[p]).op = "create" => Do("fill", The(p)) \in Left(p)
      BY <1>2, <1>4 DEF Whole, Do
    <2>2. Head(todo[p]).op \in {"create", "fill"} =>
             Do("sync", The(p)) \in Left(p)
      BY <1>2, <1>4, <2>1 DEF Whole, Do
    <2>3. Do("publish", The(p)) \in Left(p)
      BY <1>2, <1>4, <2>2 DEF Whole, Do
    <2> QED BY <1>2, <1>4, <2>2, <2>3
  <1>6. \A n \in Name : entry[n] # Mine(p, The(p))
    BY <1>2 DEF PInv, NamedOK, FileSteps
  <1>7. \A x \in Artifact : x # The(p) => file'[Mine(p, x)] = file[Mine(p, x)]
    BY <1>2, MineFacts DEF TypeOK
  <1>8. file'[Mine(p, The(p))] = s
    BY <1>2, MineFacts DEF TypeOK
  <1>9. NamedOK(p)'
    BY <1>2, <1>3, <1>6, <1>7 DEF PInv, NamedOK, FileSteps
  <1>10. StagedOK(p)'
    <2>1. ASSUME NEW x \in Artifact, Mine(p, x) \in temps'
          PROVE  Do("publish", x) \in Left(p)'
      <3>1. x = The(p) \/ Mine(p, x) \in temps
        BY <1>2, <2>1, MineFacts
      <3> QED BY <1>2, <1>4, <1>5, <3>1 DEF PInv, StagedOK
    <2>2. ASSUME NEW x \in Artifact, Do("publish", x) \in Left(p)'
          PROVE  file'[Mine(p, x)] = "synced" \/ Do("sync", x) \in Left(p)'
      <3>1. CASE x = The(p)
        BY <1>5, <1>8, <3>1
      <3>2. CASE x # The(p)
        BY <1>2, <1>7, <2>2, <3>2 DEF PInv, StagedOK
      <3> QED BY <3>1, <3>2
    <2> QED BY <1>3, <2>1, <2>2 DEF StagedOK
  <1>11. ShownOK(p)'
    BY <1>2, <1>3 DEF PInv, ShownOK
  <1>12. EndOK(p)'
    BY <1>2 DEF PInv, EndOK, Alive
  <1>13. RollbackOK(p)'
    BY <1>2, <1>3 DEF PInv, RollbackOK, Artifact
  <1> QED BY <1>1, <1>9, <1>10, <1>11, <1>12, <1>13, <1>14 DEF PInv

\* A file gets its name: it is synced, it is no longer temporary, and nothing
\* is left to be done to it.
LEMMA PublishAdvance ==
    ASSUME TypeOK, NEW p \in Proc, PInv(p), code[p] = Alive, Publish(p)
    PROVE  PInv(p)'
  <1>1. /\ todo[p] # <<>> /\ Advance(p) /\ Head(todo[p]).op = "publish"
        /\ entry' = [entry EXCEPT ![target[p][The(p)]] = Mine(p, The(p))]
        /\ temps' = temps \ {Mine(p, The(p))}
        /\ published' = [published EXCEPT ![p] = @ \cup {The(p)}]
        /\ UNCHANGED <<cmd, file, status, code, report, signal, faults,
                       target, crossed>>
    BY DEF Publish, Next1, Replace, Shown, places
  <1>2. PlanOK(p)'
    BY <1>1, PlanAdvances DEF PInv
  <1>3. /\ The(p) \in Artifact
        /\ Do("publish", The(p)) \in Left(p)
        /\ \A op, x : op # "publish" =>
              (Do(op, x) \in Left(p)' <=> Do(op, x) \in Left(p))
        /\ \A x : x # The(p) =>
              \A op : Do(op, x) \in Left(p)' <=> Do(op, x) \in Left(p)
        /\ \A op \in Op : Do(op, The(p)) \in Left(p)' =>
              Rank["publish"] < Rank[op]
    BY <1>1, OthersLeft DEF PInv
  <1>4. \A x \in Artifact : Path(p, x)' = Path(p, x) /\ Mine(p, x)' = Mine(p, x)
    BY <1>1 DEF Path, Mine
  <1>5. published'[p] = published[p] \cup {The(p)}
    BY <1>1 DEF TypeOK
  <1>6. \A op \in FileSteps : Do(op, The(p)) \notin Left(p)'
    BY <1>3 DEF FileSteps, Rank, Op
  <1>7. file[Mine(p, The(p))] = "synced"
    <2>1. Do("sync", The(p)) \notin Left(p)
      BY <1>3, <1>6 DEF FileSteps
    <2> QED BY <1>3, <2>1 DEF PInv, StagedOK
  <1>8. NamedOK(p)'
    <2>1. ASSUME NEW x \in Artifact, NEW n \in Name, entry'[n] = Mine(p, x)
          PROVE  /\ n = target[p][x] /\ x \in published'[p]
                 /\ file[Mine(p, x)] = "synced"
                 /\ \A op \in FileSteps : Do(op, x) \notin Left(p)'
      <3>1. CASE x = The(p)
        <4>1. entry[n] # Mine(p, x)
          BY <1>3, <3>1 DEF PInv, NamedOK, FileSteps
        <4>2. n = target[p][x]
          BY <1>1, <2>1, <3>1, <4>1 DEF TypeOK
        <4> QED BY <1>5, <1>6, <1>7, <3>1, <4>2
      <3>2. CASE x # The(p)
        <4>1. Mine(p, x) # Mine(p, The(p))
          BY <1>3, <3>2, MineFacts
        <4>2. entry[n] = Mine(p, x)
          BY <1>1, <2>1, <4>1 DEF TypeOK
        <4> QED BY <1>3, <1>5, <3>2, <4>2 DEF PInv, NamedOK
      <3> QED BY <3>1, <3>2
    <2> QED BY <1>1, <1>4, <2>1 DEF NamedOK
  <1>9. StagedOK(p)'
    <2>1. ASSUME NEW x \in Artifact, Do("publish", x) \in Left(p)'
          PROVE  file[Mine(p, x)] = "synced" \/ Do("sync", x) \in Left(p)'
      BY <1>3, <1>7, <2>1 DEF PInv, StagedOK
    <2>2. ASSUME NEW x \in Artifact, Mine(p, x) \in temps'
          PROVE  Do("publish", x) \in Left(p)'
      BY <1>1, <1>3, <2>2 DEF PInv, StagedOK
    <2> QED BY <1>1, <1>4, <2>1, <2>2 DEF StagedOK
  <1>10. Do("publish", "doc") \in Left(p)' => The(p) # "out"
    BY <1>1, <1>3, LeftAdvances, HeadFacts DEF PInv, Before
  <1>11. ShownOK(p)'
    <2>1. Do("publish", "doc") \in Left(p)' => "out" \notin published'[p]
      BY <1>3, <1>5, <1>10 DEF PInv, ShownOK, Artifact
    <2>2. cmd[p].kind # "query" /\ cmd[p].doc # NoName =>
             \/ Do("publish", "doc") \in Left(p)' \/ "doc" \in published'[p]
             \/ /\ "out" \notin published'[p]
                /\ Do("publish", "out") \notin Left(p)'
                /\ Do("print", "out") \notin Left(p)'
      <3>1. CASE The(p) = "doc"
        BY <1>5, <3>1
      <3>2. CASE The(p) = "out"
        BY <1>3, <1>5, <3>2 DEF PInv, ShownOK
      <3> QED BY <1>3, <3>1, <3>2 DEF Artifact
    <2>3. published'[p] \cup {x \in Artifact : \/ Do("publish", x) \in Left(p)'
                                               \/ Do("print", x) \in Left(p)'}
          = published[p] \cup {x \in Artifact : \/ Do("publish", x) \in Left(p)
                                                \/ Do("print", x) \in Left(p)}
      BY <1>3, <1>5
    <2>4. \A x \in Artifact :
             Do("publish", x) \in Left(p)' => x \notin published'[p]
      BY <1>3, <1>5, <1>6 DEF PInv, ShownOK, FileSteps
    <2> QED BY <1>1, <1>4, <2>1, <2>2, <2>3, <2>4 DEF PInv, ShownOK
  <1>14. TargetsOK(p)'
    <2>1. \A n \in Name : entry'[n] = Link => entry[n] = Link
      <3>1. Mine(p, The(p)) # Link
        BY <1>3, MineFacts
      <3> QED BY <1>1, <3>1 DEF TypeOK
    <2> QED BY <1>1, <2>1, TargetsAdvance DEF PInv, Seek
  <1>12. EndOK(p)'
    BY <1>1, <1>3 DEF PInv, EndOK, Alive
  <1>13. RollbackOK(p)'
    <2>1. status[p] # 2
      <3>1. \E r \in Left(p) : r.op = "publish"
        BY <1>3 DEF Do
      <3> QED BY <3>1 DEF PInv, PlanOK, Fits
    <2> QED BY <1>1, <2>1 DEF RollbackOK
  <1> QED BY <1>2, <1>8, <1>9, <1>11, <1>12, <1>13, <1>14 DEF PInv

LEMMA PrintAdvance ==
    ASSUME TypeOK, NEW p \in Proc, PInv(p), code[p] = Alive, PrintOut(p)
    PROVE  PInv(p)'
  <1>1. /\ todo[p] # <<>> /\ Advance(p) /\ Head(todo[p]).op = "print"
        /\ published' = [published EXCEPT ![p] = @ \cup {The(p)}]
        /\ UNCHANGED <<cmd, entry, file, temps, status, code, report, signal,
                       faults, target, crossed>>
    BY DEF PrintOut, Next1, Shown, disk, places
  <1>2. PlanOK(p)'
    BY <1>1, PlanAdvances DEF PInv
  <1>3. /\ The(p) \in Artifact
        /\ Do("print", The(p)) \in Left(p)
        /\ \A op, x : op # "print" =>
              (Do(op, x) \in Left(p)' <=> Do(op, x) \in Left(p))
        /\ \A x : x # The(p) =>
              \A op : Do(op, x) \in Left(p)' <=> Do(op, x) \in Left(p)
    BY <1>1, OthersLeft DEF PInv
  <1>4. \A x \in Artifact : Path(p, x)' = Path(p, x) /\ Mine(p, x)' = Mine(p, x)
    BY <1>1 DEF Path, Mine
  <1>5. published'[p] = published[p] \cup {The(p)}
    BY <1>1 DEF TypeOK
  <1>6. The(p) = "out" /\ status[p] # 2
    BY <1>3 DEF PInv, PlanOK, Fits, Do
  <1>7. Do("publish", "doc") \notin Left(p)
    <2>1. Head(todo[p]) = Do("print", "out")
      BY <1>1, <1>6, HeadFacts
    <2>2. Do("publish", "doc") \notin Left(p)'
      BY <1>1, <2>1, LeftAdvances DEF PInv, Before
    <2> QED BY <1>3, <2>2
  <1>8. NamedOK(p)'
    BY <1>1, <1>3, <1>4, <1>5 DEF PInv, NamedOK, FileSteps
  <1>9. StagedOK(p)'
    BY <1>1, <1>3, <1>4 DEF PInv, StagedOK
  <1>10. ShownOK(p)'
    <2>1. published'[p] \cup {x \in Artifact : \/ Do("publish", x) \in Left(p)'
                                               \/ Do("print", x) \in Left(p)'}
          = published[p] \cup {x \in Artifact : \/ Do("publish", x) \in Left(p)
                                                \/ Do("print", x) \in Left(p)}
      BY <1>3, <1>5
    <2>2. cmd[p].kind # "query" /\ cmd[p].doc # NoName =>
             "doc" \in published'[p]
      BY <1>3, <1>5, <1>6, <1>7 DEF PInv, ShownOK
    <2>3. \A x \in Artifact :
             Do("publish", x) \in Left(p)' => x \notin published'[p]
      <3>1. Do("publish", "out") \notin Left(p)'
        BY <1>1, <1>6, LeftAdvances DEF PInv, Before, Do, Rank, The
      <3> QED BY <1>3, <1>5, <1>6, <3>1 DEF PInv, ShownOK, Artifact
    <2> QED BY <1>1, <1>3, <1>4, <1>7, <2>1, <2>2, <2>3 DEF PInv, ShownOK
  <1>11. EndOK(p)'
    BY <1>1, <1>3 DEF PInv, EndOK, Alive
  <1>12. RollbackOK(p)'
    BY <1>1, <1>6 DEF RollbackOK
  <1>13. TargetsOK(p)'
    BY <1>1, TargetsAdvance DEF PInv, Seek
  <1> QED BY <1>2, <1>8, <1>9, <1>10, <1>11, <1>12, <1>13 DEF PInv

\* The document of an import is under its name, if it is under any.
LEMMA DocPlace ==
    ASSUME TypeOK, NEW p \in Proc, PInv(p), cmd[p].kind = "import",
           NEW n \in Name, entry[n] = Mine(p, "doc")
    PROVE  n = cmd[p].doc
  <1>1. n = target[p]["doc"]
    BY DEF PInv, NamedOK, Artifact
  <1>2. target[p]["doc"] \in {NoName, Path(p, "doc"), "in"}
    BY DEF PInv, TargetsOK, TargetOK, Artifact
  <1>3. target[p]["doc"] # "in" \/ Path(p, "doc") = "in"
    BY DEF PInv, TargetsOK, TargetOK, Artifact
  <1> QED BY <1>1, <1>2, <1>3, CommandsAssumption DEF Path

\* The document that is taken back is under no other name.
LEMMA RemoveAdvance ==
    ASSUME TypeOK, NEW p \in Proc, PInv(p), code[p] = Alive, Remove(p)
    PROVE  PInv(p)'
  <1>1. /\ todo[p] # <<>> /\ Advance(p) /\ Head(todo[p]).op = "remove"
        /\ entry' = [entry EXCEPT ![cmd[p].doc] = NoFile]
        /\ UNCHANGED <<cmd, file, temps, status, code, published, report,
                       signal, faults, target, crossed>>
    BY DEF Remove, Next1, places
  <1>2. PlanOK(p)'
    BY <1>1, PlanAdvances DEF PInv
  <1>3. \A op, x : op # "remove" =>
           (Do(op, x) \in Left(p)' <=> Do(op, x) \in Left(p))
    BY <1>1, OthersLeft DEF PInv
  <1>4. \A x \in Artifact : Path(p, x)' = Path(p, x) /\ Mine(p, x)' = Mine(p, x)
    BY <1>1 DEF Path, Mine
  <1>5. \A n \in Name, x \in Artifact :
           entry'[n] = Mine(p, x) => entry[n] = Mine(p, x) /\ n # cmd[p].doc
    BY <1>1, MineFacts DEF TypeOK
  <1>6. NamedOK(p)'
    BY <1>1, <1>3, <1>4, <1>5 DEF PInv, NamedOK, FileSteps
  <1>7. StagedOK(p)'
    BY <1>1, <1>3, <1>4 DEF PInv, StagedOK
  <1>8. ShownOK(p)'
    BY <1>1, <1>3, <1>4 DEF PInv, ShownOK
  <1>9. EndOK(p)'
    BY <1>1, <1>3 DEF PInv, EndOK, Alive
  <1>10. RollbackOK(p)'
    <2>1. ASSUME cmd[p].kind = "import", NEW n \in Name
          PROVE  entry'[n] # Mine(p, "doc")
      <3>1. "doc" \in Artifact
        BY DEF Artifact
      <3>2. entry'[n] = Mine(p, "doc") =>
               entry[n] = Mine(p, "doc") /\ n # cmd[p].doc
        BY <1>5, <3>1
      <3>3. entry[n] = Mine(p, "doc") => n = cmd[p].doc
        BY <2>1, DocPlace
      <3> QED BY <3>2, <3>3
    <2>2. \A n \in Name : entry'[n] = Mine(p, "out") => entry[n] = Mine(p, "out")
      BY <1>5 DEF Artifact
    <2> QED BY <1>1, <1>4, <2>1, <2>2 DEF PInv, RollbackOK, Artifact
  <1>11. TargetsOK(p)'
    BY <1>1, FileAssumption, TargetsAdvance DEF PInv, Seek, TypeOK
  <1> QED BY <1>2, <1>6, <1>7, <1>8, <1>9, <1>10, <1>11 DEF PInv

LEMMA WalkAdvance ==
    ASSUME TypeOK, NEW p \in Proc, PInv(p), code[p] = Alive, Walk(p)
    PROVE  PInv(p)'
  <1>1. PICK o \in Outcome :
           /\ o[1] = "partial" => signal[p].requested
           /\ report' = [report EXCEPT ![p] = o[1]]
           /\ status' = [status EXCEPT ![p] = o[2]]
    BY DEF Walk
  <1>2. /\ todo[p] # <<>> /\ Advance(p) /\ Head(todo[p]).op = "walk"
        /\ UNCHANGED <<cmd, entry, file, temps, code, published, signal,
                       faults, target, crossed>>
    BY DEF Walk, Next1, disk, places
  <1>3. report'[p] = o[1] /\ status'[p] = o[2]
    BY <1>1 DEF TypeOK
  <1>4. /\ o[1] \in {"full", "partial", "notFound"} /\ o[2] \in {0, 1, 64}
        /\ o[2] = 0 => o[1] \in {"full", "partial"}
        /\ o[2] \in {1, 64} => o[1] = "notFound"
    BY DEF Outcome
  <1>5. /\ The(p) \in Artifact
        /\ Do("walk", The(p)) \in Left(p)
        /\ \A op, x : op # "walk" =>
              (Do(op, x) \in Left(p)' <=> Do(op, x) \in Left(p))
    BY <1>2, OthersLeft DEF PInv
  <1>6. Fits(p, Do("walk", The(p)))
    BY <1>5 DEF PInv, PlanOK
  <1>7. cmd[p].kind = "query" /\ status[p] # 2
    BY <1>6 DEF Fits, Do
  <1>8. PlanOK(p)'
    BY <1>2, <1>3, <1>4, <1>7, PlanAdvances DEF PInv
  <1>9. \A x \in Artifact : Path(p, x)' = Path(p, x) /\ Mine(p, x)' = Mine(p, x)
    BY <1>2 DEF Path, Mine
  <1>10. NamedOK(p)'
    BY <1>2, <1>5, <1>9 DEF PInv, NamedOK, FileSteps
  <1>11. StagedOK(p)'
    BY <1>2, <1>5, <1>9 DEF PInv, StagedOK
  <1>12. status[p] = 0
    BY <1>6 DEF Fits, Do
  <1>13. ShownOK(p)'
    BY <1>2, <1>3, <1>5, <1>9, <1>12 DEF PInv, ShownOK
  <1>14. EndOK(p)'
    BY <1>1, <1>2, <1>3, <1>4, <1>7 DEF PInv, EndOK, Alive
  <1>15. RollbackOK(p)'
    BY <1>2, <1>7 DEF RollbackOK
  <1>16. TargetsOK(p)'
    BY <1>2, TargetsAdvance DEF PInv, Seek
  <1> QED BY <1>8, <1>10, <1>11, <1>13, <1>14, <1>15, <1>16 DEF PInv

\* The command ends, or hears of a signal.
LEMMA CodeAdvance ==
    ASSUME TypeOK, NEW p \in Proc, PInv(p),
           UNCHANGED <<cmd, disk, todo, status, published, report, places>>,
           \/ code'[p] \notin {0, 1, 2, 64}
           \/ /\ code'[p] = status[p] /\ todo[p] = <<>>
              /\ ~signal'[p].requested,
           signal[p].requested => signal'[p].requested,
           faults' = 0 => faults = 0
    PROVE  PInv(p)'
  <1>1. Left(p)' = Left(p) /\ Outputs(p)' = Outputs(p)
    BY DEF Left, Rest, Outputs, Path
  <1>2. \A x \in Artifact : Path(p, x)' = Path(p, x) /\ Mine(p, x)' = Mine(p, x)
    BY DEF Path, Mine
  <1>3. PlanOK(p)'
    <2>1. \A r : Fits(p, r) => Fits(p, r)'
      BY DEF Fits, Path
    <2> QED BY <1>1, <2>1 DEF PInv, PlanOK, Ordered, Checking
  <1>6. TargetsOK(p)'
    BY <1>1, <1>2 DEF PInv, TargetsOK, TargetOK, Between, disk, places
  <1>4. NamedOK(p)' /\ StagedOK(p)' /\ ShownOK(p)' /\ RollbackOK(p)'
    BY <1>1, <1>2 DEF PInv, NamedOK, StagedOK, ShownOK, RollbackOK, disk,
                      places, Artifact
  <1>5. EndOK(p)'
    BY <1>1 DEF PInv, EndOK
  <1> QED BY <1>3, <1>4, <1>5, <1>6 DEF PInv

LEMMA HeadIsLeft ==
    ASSUME TypeOK, NEW p \in Proc, PlanOK(p), todo[p] # <<>>
    PROVE  /\ Head(todo[p]) \in Left(p) /\ The(p) \in Artifact
           /\ Head(todo[p]) = Do(Head(todo[p]).op, The(p))
           /\ Fits(p, Head(todo[p]))
  <1>1. Left(p) = {Head(todo[p])} \cup Rest(Tail(todo[p]))
    BY FirstStep DEF TypeOK, PlanOK, Left
  <1> QED BY <1>1, HeadFacts DEF PlanOK

\* The two calls of destination.
LEMMA SeekAdvance ==
    ASSUME TypeOK, NEW p \in Proc, PInv(p), Look(p) \/ Resolve(p)
    PROVE  PInv(p)'
  <1> DEFINE x == The(p)
             m == Path(p, x)
             n == IF Look(p)
                  THEN IF entry[m] = NoFile THEN m ELSE NoName
                  ELSE IF target[p][x] = NoName THEN Canonical(m)
                       ELSE target[p][x]
  <1>1. /\ todo[p] # <<>> /\ code[p] = Alive /\ Head(todo[p]).op \in Seek
        /\ UNCHANGED <<cmd, entry, file, code, published, report, signal,
                       crossed>>
        /\ Look(p) <=> Head(todo[p]).op \in {"look", "revisit"}
        /\ Resolve(p) <=> Head(todo[p]).op \in {"resolve", "settle"}
    BY DEF Look, Resolve, Next1, Seek
  <1>2. /\ Head(todo[p]) \in Left(p) /\ x \in Artifact
        /\ Head(todo[p]) = Do(Head(todo[p]).op, x)
        /\ Fits(p, Head(todo[p]))
    BY <1>1, HeadIsLeft DEF PInv
  <1>3. m \in Name
    BY <1>1, <1>2, PathIsName DEF PInv, Seek, FileSteps
  <1>4. n \in Name \cup {NoName}
    BY <1>2, <1>3, CommandsAssumption DEF Canonical, TypeOK
  <1>5. \/ /\ Advance(p) /\ UNCHANGED <<temps, status, faults>>
           /\ target' = [target EXCEPT ![p][x] = n]
           /\ Look(p) => Acceptable(p, m)
        \/ GiveUp(p) /\ UNCHANGED <<target, faults>>
    <2>1. CASE Look(p)
      BY <2>1 DEF Look
    <2>2. CASE ~Look(p)
      BY <2>2 DEF Resolve
    <2> QED BY <2>1, <2>2
  <1>6. CASE /\ Advance(p) /\ UNCHANGED <<temps, status, faults>>
             /\ target' = [target EXCEPT ![p][x] = n]
             /\ Look(p) => Acceptable(p, m)
    <2>1. TargetsOK(p)'
      <3>1. /\ Head(todo[p]).op \in {"look", "revisit"} =>
                  /\ Acceptable(p, m)
                  /\ n = IF entry[m] = NoFile THEN m ELSE NoName
            /\ Head(todo[p]).op \in {"resolve", "settle"} =>
                  n = IF target[p][x] = NoName THEN Canonical(m)
                      ELSE target[p][x]
        BY <1>1, <1>6
      <3> HIDE DEF n
      <3> QED BY <1>1, <1>4, <1>6, <3>1, SeekTargets DEF PInv
    <2>2. \A y \in Artifact : y # x => target'[p][y] = target[p][y]
      BY <1>2, <1>6 DEF TypeOK
    <2>3. Head(todo[p]).op \in Quiet /\ Head(todo[p]).op # "check"
      BY <1>1 DEF Quiet, Seek
    <2> QED BY <1>1, <1>2, <1>6, <2>1, <2>2, <2>3, QuietAdvance DEF disk
  <1>7. CASE GiveUp(p) /\ UNCHANGED <<target, faults>>
    <2>1. ASSUME cmd[p].kind = "import", NEW k \in Name, NEW y \in Artifact
          PROVE  entry[k] # Mine(p, y)
      <3>1. published[p] = {}
        BY <1>1, <1>2, <2>1 DEF Fits, Seek
      <3> QED BY <3>1 DEF PInv, NamedOK
    <2> QED BY <1>1, <1>7, <2>1, GivesUp
  <1> QED BY <1>5, <1>6, <1>7

LEMMA OwnSteps ==
    ASSUME TypeOK, NEW p \in Proc, PInv(p),
           Main(p) \/ Interrupt(p) \/ Handle(p) \/ Notice(p)
    PROVE  PInv(p)'
  <1> USE DEF places
  <1>1. CASE Check(p)
    <2>1. /\ todo[p] # <<>> /\ code[p] = Alive /\ Head(todo[p]).op = "check"
          /\ UNCHANGED <<cmd, entry, file, code, published, report, signal,
                         faults, target, crossed>>
      BY <1>1 DEF Check, Next1
    <2>2. CASE PathsGood(p)
      <3>1. Advance(p) /\ UNCHANGED <<temps, status>>
        BY <1>1, <2>2 DEF Check
      <3>2. TargetsOK(p)' /\ "in" \notin Outputs(p)
        BY <2>1, <2>2, <3>1, CheckTargets DEF PInv
      <3>3. \A x \in Artifact : target'[p][x] = target[p][x]
        BY <2>1
      <3>4. Head(todo[p]).op \in Quiet
        BY <2>1 DEF Quiet
      <3> QED BY <2>1, <3>1, <3>2, <3>3, <3>4, QuietAdvance DEF disk
    <2>3. CASE ~PathsGood(p)
      <3>1. GiveUp(p)
        BY <1>1, <2>3 DEF Check
      <3>2. published[p] = {}
        BY <2>1, HeadIsLeft DEF PInv, Fits
      <3>3. \A n \in Name, x \in Artifact : entry[n] # Mine(p, x)
        BY <3>2 DEF PInv, NamedOK
      <3> QED BY <2>1, <3>1, <3>3, GivesUp
    <2> QED BY <2>2, <2>3
  <1>19. CASE Look(p) \/ Resolve(p)
    BY <1>19, SeekAdvance
  <1>2. CASE Read(p) \/ Install(p)
    <2>1. /\ todo[p] # <<>> /\ code[p] = Alive /\ Advance(p)
          /\ Head(todo[p]).op \in {"read", "install"}
          /\ UNCHANGED <<cmd, disk, status, code, published, report, signal,
                         faults, target, crossed>>
      BY <1>2 DEF Read, Install, Next1
    <2>2. TargetsOK(p)'
      BY <2>1, TargetsAdvance DEF PInv, Seek, disk
    <2>3. \A x \in Artifact : target'[p][x] = target[p][x]
      BY <2>1
    <2>4. Head(todo[p]).op \in Quiet /\ Head(todo[p]).op # "check"
      BY <2>1 DEF Quiet
    <2> QED BY <2>1, <2>2, <2>3, <2>4, QuietAdvance
  <1>3. CASE CreateTemp(p)
    BY <1>3, StagingAdvance DEF CreateTemp, Next1
  <1>4. CASE Fill(p)
    BY <1>4, StagingAdvance DEF Fill, Next1
  <1>5. CASE Sync(p)
    BY <1>5, StagingAdvance DEF Sync, Synced, Next1
  <1>6. CASE Publish(p)
    BY <1>6, PublishAdvance DEF Publish, Next1
  <1>7. ASSUME todo[p] # <<>>, Head(todo[p]) = Do("publish", "doc")
        PROVE  \A n \in Name, x \in Artifact : entry[n] # Mine(p, x)
    <2>1. Do("publish", "doc") \in Left(p)
      <3>1. Left(p) = {Head(todo[p])} \cup Rest(Tail(todo[p]))
        BY <1>7, FirstStep DEF TypeOK, PInv, PlanOK, Left
      <3> QED BY <1>7, <3>1
    <2>2. "out" \notin published[p]
      BY <2>1 DEF PInv, ShownOK
    <2> QED BY <2>1, <2>2 DEF PInv, NamedOK, FileSteps, Artifact
  <1>8. CASE NameTaken(p)
    <2>1. /\ todo[p] # <<>> /\ code[p] = Alive /\ Head(todo[p]).op = "publish"
          /\ cmd[p].kind = "import"
      BY <1>8 DEF NameTaken, Next1
    <2>2. Head(todo[p]) = Do("publish", The(p)) /\ The(p) \in Artifact
      BY <2>1, HeadFacts
    <2>3. CASE The(p) = "out"
      BY <1>8, <2>1, <2>2, <2>3, RollsBack DEF NameTaken
    <2>4. CASE The(p) # "out"
      <3>1. GiveUp(p) /\ UNCHANGED <<cmd, entry, file, code, published, report,
                                     signal, target, crossed>>
        BY <1>8, <2>4 DEF NameTaken, NotPublished
      <3> QED BY <1>7, <2>1, <2>2, <2>4, <3>1, GivesUp DEF Artifact
    <2> QED BY <2>3, <2>4
  <1>9. CASE Owned(p)
    <2>1. /\ todo[p] # <<>> /\ code[p] = Alive /\ Head(todo[p]).op = "owned"
          /\ UNCHANGED <<cmd, entry, file, temps, status, code, published,
                         report, signal, faults, target, crossed>>
      BY <1>9 DEF Owned, Next1, disk
    <2>2. CASE Advance(p)
      <3>1. TargetsOK(p)'
        BY <2>1, <2>2, TargetsAdvance DEF PInv, Seek
      <3>2. \A x \in Artifact : target'[p][x] = target[p][x]
        BY <2>1
      <3>3. Head(todo[p]).op \in Quiet
        BY <2>1 DEF Quiet
      <3> QED BY <2>1, <2>2, <3>1, <3>2, <3>3, QuietAdvance DEF disk
    <2>3. CASE /\ entry[cmd[p].doc] # Mine(p, "doc")
               /\ todo' = [todo EXCEPT ![p] = <<>>]
      <3>1. todo'[p] = <<>> /\ Left(p)' = {}
        BY <2>3, RestOfNothing DEF TypeOK, Left
      <3>2. Left(p) = {Head(todo[p])} \cup Rest(Tail(todo[p]))
        BY <2>1, FirstStep DEF TypeOK, PInv, PlanOK, Left
      <3>3. status[p] = 2
        BY <2>1, <3>2 DEF PInv, PlanOK, Fits
      <3>4. \A x \in Artifact :
               Path(p, x)' = Path(p, x) /\ Mine(p, x)' = Mine(p, x)
        BY <2>1 DEF Path, Mine
      <3>5. \A r \in Left(p) : r.op \in {"owned", "remove"}
        BY <3>3 DEF PInv, PlanOK, Fits
      <3>6. PlanOK(p)'
        <4>1. << >> \in Seq(Step) /\ Len(<< >>) = 0
          BY EmptySeq
        <4>2. DOMAIN << >> = {}
          BY <4>1, LenProperties
        <4> QED BY <3>1, <4>2 DEF PlanOK, Whole, Ordered, Checking
      <3>12. TargetsOK(p)'
        BY <2>1, <3>1, <3>4 DEF PInv, TargetsOK, TargetOK, Between
      <3>7. NamedOK(p)'
        BY <2>1, <3>1, <3>4 DEF PInv, NamedOK
      <3>8. StagedOK(p)'
        BY <2>1, <3>1, <3>4, <3>5 DEF PInv, StagedOK, Do
      <3>9. ShownOK(p)'
        BY <2>1, <3>1, <3>3, <3>5 DEF PInv, ShownOK, Do
      <3>10. EndOK(p)'
        BY <2>1, <3>1, <3>3 DEF PInv, EndOK, Alive
      <3>11. RollbackOK(p)'
        <4>1. ASSUME cmd[p].kind = "import", NEW n \in Name
              PROVE  entry[n] # Mine(p, "doc")
          BY <2>3, <4>1, DocPlace
        <4> QED BY <2>1, <3>1, <3>4, <4>1 DEF PInv, RollbackOK, Artifact
      <3> QED BY <3>6, <3>7, <3>8, <3>9, <3>10, <3>11, <3>12 DEF PInv
    <2> QED BY <1>9, <2>2, <2>3 DEF Owned
  <1>10. CASE Remove(p)
    BY <1>10, RemoveAdvance DEF Remove, Next1
  <1>11. CASE Fails(p)
    <2>1. code[p] = Alive /\ todo[p] # <<>> /\ faults' # 0
      BY <1>11 DEF Fails, TypeOK
    <2>2. CASE cmd[p].kind = "import" /\ Head(todo[p]) = Do("publish", "out")
      BY <1>11, <2>1, <2>2, RollsBack DEF Fails
    <2>3. CASE NotPublished(p)
      BY <2>1, <2>3, GivesUp DEF NotPublished
    <2> QED BY <1>11, <2>2, <2>3 DEF Fails
  <1>12. CASE Walk(p)
    BY <1>12, WalkAdvance DEF Walk, Next1
  <1>13. CASE PrintOut(p)
    BY <1>13, PrintAdvance DEF PrintOut, Next1
  <1>14. CASE Exit(p)
    <2>1. code'[p] = IF signal[p].requested THEN 130 ELSE status[p]
      BY <1>14 DEF Exit, ExitCode, TypeOK
    <2> QED BY <1>14, <2>1, CodeAdvance DEF Exit
  <1>15. ASSUME code[p] = Alive PROVE code[p] \notin {0, 1, 2, 64}
    BY <1>15 DEF Alive
  <1>16. CASE Interrupt(p)
    <2>1. code[p] = Alive
      BY <1>16 DEF Interrupt
    <2>2. code'[p] = Killed \/ code'[p] = code[p]
      BY <1>16 DEF Interrupt, TypeOK
    <2>3. signal'[p].requested = signal[p].requested
      BY <1>16 DEF Interrupt, TypeOK, Signal
    <2> QED BY <1>15, <1>16, <2>1, <2>2, <2>3, CodeAdvance
            DEF Interrupt, Killed
  <1>17. CASE Handle(p)
    <2>1. code[p] = Alive
      BY <1>17 DEF Handle
    <2>2. code'[p] = 130 \/ code'[p] = code[p]
      BY <1>17 DEF Handle, TypeOK
    <2>3. signal[p].requested => signal'[p].requested
      <3>1. PICK s \in Signal : s = signal[p]
        BY DEF TypeOK
      <3>2. signal'[p] = [s EXCEPT !.pending = @ - 1] \/ ~s.requested
        BY <1>17, <3>1 DEF Handle, TypeOK
      <3>3. [s EXCEPT !.pending = @ - 1].requested = s.requested
        BY DEF Signal
      <3> QED BY <3>1, <3>2, <3>3
    <2> QED BY <1>15, <1>17, <2>1, <2>2, <2>3, CodeAdvance DEF Handle
  <1>18. CASE Notice(p)
    <2>1. code[p] = Alive
      BY <1>18 DEF Notice
    <2>2. code'[p] = 130 \/ code'[p] = code[p]
      BY <1>18 DEF Notice, TypeOK
    <2>3. signal'[p].requested = signal[p].requested
      BY <1>18 DEF Notice, TypeOK, Signal
    <2>4. faults' = 0 => faults = 0
      BY <1>18 DEF Notice, TypeOK
    <2> QED BY <1>15, <1>18, <2>1, <2>2, <2>3, <2>4, CodeAdvance DEF Notice
  <1> QED BY <1>1, <1>2, <1>3, <1>4, <1>5, <1>6, <1>8, <1>9, <1>10, <1>11,
             <1>12, <1>13, <1>14, <1>16, <1>17, <1>18, <1>19 DEF Main

----------------------------------------------------------------------------
(* The invariant.                                                          *)

\* What a command has to do when it starts: every step is one of its kind, and
\* the files that are going to be shown are those it was asked for.
LEMMA PlanFacts ==
    ASSUME NEW c \in Command, NEW r \in Rest(Steps(c)),
           c.kind = "import" => c.doc # NoName /\ c.out # NoName,
           c.kind = "query" => c.doc = NoName
    PROVE  /\ r.op \in {"install", "walk"} => c.kind = "query"
           /\ r.op \notin {"install", "walk", "read", "print"} =>
                 c.kind # "query"
           /\ r.op \in FileSteps => Given(c, r.of) # NoName
           /\ r.op \in {"resolve", "revisit", "settle"} => c.kind = "scan"
           /\ r.op \in {"walk", "print"} => r.of = "out"
           /\ r.op = "check" => r.of = "doc"
           /\ r.op \notin {"owned", "remove"}
  <1>1. CASE c.kind = "query"
    BY <1>1, QueryPlan DEF Steps, Do, FileSteps
  <1>2. CASE c.kind = "import"
    BY <1>2, ImportPlan DEF Steps, Do, FileSteps, Given, Artifact
  <1>3. CASE c.kind = "scan"
    BY <1>3, ScanPlan DEF Steps, Do, FileSteps
  <1> QED BY <1>1, <1>2, <1>3 DEF Command, Kind

LEMMA PlanShows ==
    ASSUME NEW c \in Command,
           c.kind = "import" => c.doc # NoName /\ c.out # NoName,
           c.kind = "query" => c.doc = NoName
    PROVE  LET S == Rest(Steps(c))
           IN  /\ \A x \in Artifact :
                     (Do("publish", x) \in S \/ Do("print", x) \in S)
                       <=> Given(c, x) # NoName \/ x = "out"
               /\ \A x \in Artifact : Do("publish", x) \in S =>
                     Do("sync", x) \in S
               /\ c.kind # "query" => Do("check", "doc") \in S
               /\ c.kind = "query" => Do("walk", "out") \in S
               /\ c.kind # "query" => \A x \in Artifact :
                     Given(c, x) # NoName => Do("look", x) \in S
               /\ c.kind = "query" => \A x \in Artifact :
                     \A op \in FileSteps : Do(op, x) \notin S
               /\ c.kind = "scan" => \A x \in Artifact :
                     /\ Do("look", x) \in S => Do("resolve", x) \in S
                     /\ Do("publish", x) \in S => Do("revisit", x) \in S
               /\ c.kind # "query" /\ c.doc # NoName =>
                     Do("publish", "doc") \in S
  <1>1. CASE c.kind = "query"
    BY <1>1, QueryPlan DEF Steps, Do, FileSteps, Given, Artifact
  <1>2. CASE c.kind = "import"
    BY <1>2, ImportPlan DEF Steps, Do, FileSteps, Given, Artifact
  <1>3. CASE c.kind = "scan"
    BY <1>3, ScanPlan DEF Steps, Do, FileSteps, Given, Artifact
  <1> QED BY <1>1, <1>2, <1>3 DEF Command, Kind

LEMMA Starts == Init => Inv
  <1> SUFFICES ASSUME Init PROVE Inv
    OBVIOUS
  <1>1. TypeOK
    BY TypeInit
  <1>2. UserFiles
    BY DEF Init, UserFiles, File
  <1>3. ASSUME NEW p \in Proc PROVE PInv(p)
    <2> DEFINE c == cmd[p]
    <2>1. /\ c \in Command
          /\ c.kind = "import" => c.doc # NoName /\ c.out # NoName
          /\ c.kind = "query" => c.doc = NoName
      BY <1>1, ScenarioFacts
    <2>2. /\ todo[p] = Steps(c) /\ status[p] = 0 /\ code[p] = Alive
          /\ published[p] = {} /\ report[p] = "none"
          /\ temps = {} /\ Left(p) = Rest(Steps(c))
          /\ \A x \in Artifact : target[p][x] = NoName
      BY DEF Init, Left
    <2>3. \A n \in Name : entry[n] = <<User, n>> \/ entry[n] = NoFile
      BY DEF Init
    <2>4. \A n \in Name, x \in Artifact : entry[n] # Mine(p, x)
      BY <2>3, MineFacts
    <2>5. \A x : Path(p, x) = Given(c, x)
      BY DEF Path, Given
    <2> HIDE DEF c
    <2>6. PlanOK(p)
      <3>1. ASSUME NEW r \in Rest(Steps(c)) PROVE Fits(p, r)
        <4>1. /\ r.op \in {"install", "walk"} => c.kind = "query"
              /\ r.op \notin {"install", "walk", "read", "print"} =>
                    c.kind # "query"
              /\ r.op \in FileSteps => Given(c, r.of) # NoName
              /\ r.op \in {"resolve", "revisit", "settle"} => c.kind = "scan"
              /\ r.op \in {"walk", "print"} => r.of = "out"
              /\ r.op = "check" => r.of = "doc"
              /\ r.op \notin {"owned", "remove"}
          BY <2>1, PlanFacts
        <4> QED BY <2>2, <2>5, <4>1 DEF Fits, FileSteps, c
      <3>2. c.kind # "query" => Do("check", "doc") \in Rest(Steps(c))
        BY <2>1, PlanShows
      <3>3. Ordered(todo[p]) /\ Whole(Left(p))
        BY <2>1, <2>2, PlanStarts
      <3>4. ASSUME c.kind = "query", NEW x \in Artifact, NEW op \in FileSteps
            PROVE  Do(op, x) \notin Rest(Steps(c))
        BY <2>1, <3>4, PlanShows
      <3>5. c.kind = "scan" => \A x \in Artifact :
               /\ Do("look", x) \in Rest(Steps(c)) =>
                     Do("resolve", x) \in Rest(Steps(c))
               /\ Do("publish", x) \in Rest(Steps(c)) =>
                     Do("revisit", x) \in Rest(Steps(c))
        BY <2>1, PlanShows
      <3>6. Checking(p)
        BY <2>2, <3>2, <3>4, <3>5 DEF Checking, FileSteps, c
      <3> QED BY <2>2, <3>1, <3>2, <3>3, <3>6 DEF PlanOK, c
    <2>12. TargetsOK(p)
      <3> SUFFICES ASSUME NEW x \in Artifact PROVE TargetOK(p, x)
        BY DEF TargetsOK
      <3>1. /\ c.kind # "query" => Do("check", "doc") \in Rest(Steps(c))
            /\ c.kind # "query" /\ Given(c, x) # NoName =>
                  Do("look", x) \in Rest(Steps(c))
        BY <2>1, PlanShows
      <3>2. ASSUME c.kind = "query", NEW op \in FileSteps
            PROVE  Do(op, x) \notin Rest(Steps(c))
        BY <2>1, <3>2, PlanShows
      <3>3. \A n \in Name : entry[n] # Link
        BY <2>3, FileAssumption DEF File
      <3>4. Between(p, x) => Path(p, x) \in Name
        BY <1>1, <2>6, PathIsName DEF Between, FileSteps
      <3>5. "in" # NoName
        BY CommandsAssumption
      <3>6. Do("check", "doc") \in Left(p) => c.kind # "query"
        BY <2>6 DEF PlanOK, Fits, Do, c
      <3>7. /\ Do("check", "doc") \in Left(p) /\ Path(p, x) # NoName
                  => Do("look", x) \in Left(p)
            /\ Do("check", "doc") \notin Left(p)
                  => Do("publish", x) \notin Left(p)
        BY <2>2, <2>5, <3>1, <3>2, <3>6 DEF FileSteps
      <3>8. Between(p, x) => entry[Path(p, x)] # Link
        BY <3>3, <3>4
      <3> QED BY <2>2, <3>5, <3>7, <3>8 DEF TargetOK
    <2>7. NamedOK(p)
      BY <2>4 DEF NamedOK
    <2>8. StagedOK(p)
      BY <2>1, <2>2, PlanShows DEF StagedOK
    <2>9. ShownOK(p)
      <3>1. /\ c.kind # "query" /\ c.doc # NoName =>
                  Do("publish", "doc") \in Rest(Steps(c))
            /\ \A x \in Artifact :
                  (Do("publish", x) \in Rest(Steps(c))
                     \/ Do("print", x) \in Rest(Steps(c)))
                   <=> Given(c, x) # NoName \/ x = "out"
        BY <2>1, PlanShows
      <3>2. {x \in Artifact : \/ Do("publish", x) \in Rest(Steps(c))
                              \/ Do("print", x) \in Rest(Steps(c))}
            = {x \in Artifact : Path(p, x) # NoName} \cup {"out"}
        BY <2>5, <3>1 DEF Artifact
      <3> QED BY <2>2, <3>1, <3>2 DEF ShownOK, c
    <2>10. EndOK(p)
      <3>1. c.kind = "query" => Do("walk", "out") \in Rest(Steps(c))
        BY <2>1, PlanShows
      <3> QED BY <2>2, <3>1 DEF EndOK, Alive, c
    <2>11. RollbackOK(p)
      BY <2>2 DEF RollbackOK
    <2> QED BY <2>6, <2>7, <2>8, <2>9, <2>10, <2>11, <2>12 DEF PInv
  <1> QED BY <1>1, <1>2, <1>3 DEF Inv

\* Nobody changes a file of the user's: the commands write to files of their
\* own.
LEMMA UserFilesKept == TypeOK /\ UserFiles /\ [Next]_vars => UserFiles'
  <1> SUFFICES ASSUME TypeOK, UserFiles, [Next]_vars PROVE UserFiles'
    OBVIOUS
  <1>1. \/ UNCHANGED file
        \/ \E p \in Proc : \E x \in Artifact : \E s :
              file' = [file EXCEPT ![Mine(p, x)] = s]
    <2>1. ASSUME NEW p \in Proc, CreateTemp(p) \/ Fill(p) \/ Sync(p)
          PROVE  \/ UNCHANGED file
                 \/ \E x \in Artifact : \E s :
                       file' = [file EXCEPT ![Mine(p, x)] = s]
      <3>1. The(p) \in Artifact
        BY <2>1, HeadFacts DEF CreateTemp, Fill, Sync, Next1
      <3> QED BY <2>1, <3>1 DEF CreateTemp, Fill, Sync, Synced
    <2>2. ASSUME NEW p \in Proc, Main(p) \/ Interrupt(p) \/ Handle(p) \/ Notice(p),
                 ~(CreateTemp(p) \/ Fill(p) \/ Sync(p))
          PROVE  UNCHANGED file
      BY <2>2 DEF Main, Look, Resolve, Check, Read, Publish, Replace, NameTaken, RollBack,
         NotPublished, Owned, Remove, Fails, Install, Walk, PrintOut, Exit,
         Interrupt, Handle, Notice, disk
    <2> QED BY <2>1, <2>2 DEF Next, UserMoves, vars
  <1> QED BY <1>1, MineFacts DEF UserFiles, TypeOK

LEMMA UserApart == TypeOK /\ UserMoves => \A p \in Proc : Apart(p)
  <1> SUFFICES ASSUME TypeOK, UserMoves, NEW p \in Proc PROVE Apart(p)
    OBVIOUS
  <1>0. PICK n \in Name \ {"in"} :
           \E g \in {<<User, n>>, <<User, "in">>, Link, NoFile} :
              /\ entry' = [entry EXCEPT ![n] = g]
              /\ crossed' = IF g = Link THEN crossed \cup Crossings(n)
                             ELSE crossed
    BY DEF UserMoves
  <1>1. PICK f \in {<<User, n>>, <<User, "in">>, Link, NoFile} :
           /\ entry' = [entry EXCEPT ![n] = f]
           /\ crossed' = IF f = Link THEN crossed \cup Crossings(n)
                          ELSE crossed
    BY <1>0
  <1>2. \A x \in Artifact : f # Mine(p, x)
    BY MineFacts, CommandsAssumption
  <1>3. \A m \in Name, x \in Artifact :
           entry'[m] = Mine(p, x) => entry[m] = Mine(p, x)
    BY <1>1, <1>2 DEF TypeOK
  <1>5. ASSUME NEW m \in Name, entry'[m] = Link, entry[m] # Link,
               NEW x \in Artifact, Between(p, x), Path(p, x) = m
        PROVE  <<p, x>> \in crossed'
    <2>1. m = n /\ f = Link
      BY <1>1, <1>5 DEF TypeOK
    <2>2. <<p, x>> \in Crossings(n)
      BY <1>5, <2>1 DEF Crossings, Between
    <2> QED BY <1>1, <2>1, <2>2
  <1>4. crossed \subseteq crossed'
    BY <1>1
  <1> QED BY <1>3, <1>4, <1>5 DEF UserMoves, Apart

LEMMA Kept == Inv /\ [Next]_vars => Inv'
  <1> SUFFICES ASSUME Inv, [Next]_vars PROVE Inv'
    OBVIOUS
  <1>1. TypeOK' /\ UserFiles'
    BY TypeStep, UserFilesKept DEF Inv
  <1>2. ASSUME NEW p \in Proc PROVE PInv(p)'
    <2>1. PInv(p) /\ TypeOK
      BY DEF Inv
    <2>2. ASSUME NEW q \in Proc,
                 Main(q) \/ Interrupt(q) \/ Handle(q) \/ Notice(q)
          PROVE  PInv(p)'
      <3>1. CASE p = q
        BY <2>1, <2>2, <3>1, OwnSteps
      <3>2. CASE p # q
        BY <2>1, <2>2, <3>2, StepsApart, KeptApart
      <3> QED BY <3>1, <3>2
    <2>3. CASE UserMoves
      BY <2>1, <2>3, UserApart, KeptApart
    <2>4. CASE UNCHANGED vars
      <3>1. Apart(p)
        BY <2>4 DEF vars, Apart
      <3> QED BY <2>1, <3>1, KeptApart
    <2> QED BY <2>2, <2>3, <2>4 DEF Next
  <1> QED BY <1>1, <1>2 DEF Inv

\* The invariant of the commands (main.rs:529-538, output.rs, import.rs).
THEOREM Inductive == Spec => []Inv
  <1>1. Init => Inv
    BY Starts
  <1>2. Inv /\ [Next]_vars => Inv'
    BY Kept
  <1> QED BY <1>1, <1>2, PTL DEF Spec

\* Every variable keeps its type.
THEOREM TypeCorrect == Spec => []TypeOK
  <1>1. Inv => TypeOK
    BY DEF Inv
  <1> QED BY <1>1, Inductive, PTL

----------------------------------------------------------------------------
(* What the runs check.                                                    *)

\* Whatever was killed, failed or raced, a name holds a whole file that is on
\* the disk, and a graph was shown after its document (output.rs:54-124).
THEOREM WholeFiles == Spec => []NothingHalfPublished
  <1>1. Inv => NothingHalfPublished
    <2> SUFFICES ASSUME Inv PROVE NothingHalfPublished
      OBVIOUS
    <2>1. TypeOK /\ UserFiles /\ \A p \in Proc : PInv(p)
      BY DEF Inv
    <2>2. ASSUME NEW n \in Name, entry[n] \in File
          PROVE  file[entry[n]] = "synced" /\ entry[n] \notin temps
      <3>1. CASE \E p \in Proc, x \in Artifact : entry[n] = Mine(p, x)
        <4>1. PICK p \in Proc, x \in Artifact : entry[n] = Mine(p, x)
          BY <3>1
        <4>2. file[Mine(p, x)] = "synced" /\ Do("publish", x) \notin Left(p)
          BY <2>1, <4>1 DEF PInv, NamedOK, FileSteps
        <4> QED BY <2>1, <4>1, <4>2 DEF PInv, StagedOK
      <3>2. CASE \E m \in Name : entry[n] = <<User, m>>
        <4>1. PICK m \in Name : entry[n] = <<User, m>>
          BY <3>2
        <4>2. <<User, m>> \notin Proc \X Artifact
          BY CommandsAssumption
        <4> QED BY <2>1, <4>1, <4>2 DEF UserFiles, TypeOK
      <3>3. \/ \E p \in Proc, x \in Artifact : entry[n] = Mine(p, x)
            \/ \E m \in Name : entry[n] = <<User, m>>
        BY <2>2 DEF File, Mine
      <3> QED BY <3>1, <3>2, <3>3
    <2>3. ASSUME NEW p \in Proc, "out" \in published[p], cmd[p].kind # "query",
                 cmd[p].doc # NoName
          PROVE  "doc" \in published[p]
      BY <2>1, <2>3 DEF PInv, ShownOK
    <2> QED BY <2>2, <2>3 DEF NothingHalfPublished
  <1> QED BY <1>1, Inductive, PTL

\* The status a command ends with is true of the directory, of what it showed
\* and of its report (main.rs:529-538, cancellation.rs:44).
THEOREM HonestStatus == Spec => []StatusIsHonest
  <1>1. Inv => StatusIsHonest
    <2> SUFFICES ASSUME Inv, NEW p \in Proc
                 PROVE  /\ code[p] = 0 =>
                             /\ published[p] =
                                   {x \in Artifact : Path(p, x) # NoName}
                                      \cup {"out"}
                             /\ report[p] \in IF cmd[p].kind = "query"
                                              THEN {"full"} ELSE {"none"}
                        /\ code[p] \in {1, 64} => report[p] = "notFound"
                        /\ code[p] = 2 /\ cmd[p].kind = "import" /\ faults = 0 =>
                             \A n \in Name : entry[n] \notin
                                {Mine(p, "doc"), Mine(p, "out")}
                        /\ code[p] \in {0, 1, 2, 64} => \A f \in temps : f[1] # p
      BY DEF StatusIsHonest
    <2>1. TypeOK /\ PInv(p)
      BY DEF Inv
    <2>2. ASSUME code[p] \in {0, 1, 2, 64}
          PROVE  /\ code[p] = status[p] /\ Left(p) = {}
                 /\ ~signal[p].requested
      BY <2>1, <2>2, RestOfNothing DEF PInv, EndOK, Left
    <2>3. ASSUME code[p] = 0
          PROVE  /\ published[p] = {x \in Artifact : Path(p, x) # NoName}
                                      \cup {"out"}
                 /\ report[p] \in IF cmd[p].kind = "query"
                                  THEN {"full"} ELSE {"none"}
      BY <2>1, <2>2, <2>3 DEF PInv, ShownOK, EndOK
    <2>4. ASSUME code[p] \in {1, 64} PROVE report[p] = "notFound"
      BY <2>1, <2>2, <2>4 DEF PInv, EndOK
    <2>5. ASSUME code[p] = 2, cmd[p].kind = "import", faults = 0, NEW n \in Name
          PROVE  entry[n] \notin {Mine(p, "doc"), Mine(p, "out")}
      BY <2>1, <2>2, <2>5 DEF PInv, RollbackOK
    <2>6. ASSUME code[p] \in {0, 1, 2, 64}, NEW f \in temps PROVE f[1] # p
      <3>1. PICK q \in Proc, x \in Artifact : f = Mine(q, x)
        BY <2>1 DEF TypeOK, Mine
      <3>2. f[1] = q
        BY <3>1 DEF Mine
      <3> QED BY <2>1, <2>2, <2>6, <3>1, <3>2 DEF PInv, StagedOK
    <2> QED BY <2>3, <2>4, <2>5, <2>6
  <1> QED BY <1>1, Inductive, PTL

\* The entries a command may change are its outputs, and none of them is the
\* input once the paths are checked: it can only be replaced by an output that
\* became a link while it was looked at.
LEMMA OnlyOutputs ==
    ASSUME TypeOK, NEW p \in Proc, PInv(p), Publish(p) \/ Remove(p)
    PROVE  \/ entry'["in"] = entry["in"]
           \/ /\ <<p, The(p)>> \in crossed /\ The(p) \in Artifact
              /\ The(p) \in published'[p] \ published[p]
              /\ entry'["in"] = Mine(p, The(p))
  <1>1. /\ todo[p] # <<>> /\ Head(todo[p]).op \in {"publish", "remove"}
        /\ PlanOK(p) /\ Advance(p)
    BY DEF Publish, Remove, Next1, PInv
  <1>2. /\ Do(Head(todo[p]).op, The(p)) \in Left(p) /\ The(p) \in Artifact
        /\ Fits(p, Do(Head(todo[p]).op, The(p)))
    BY <1>1, HeadIsLeft
  <1>3. /\ Left(p) = {Head(todo[p])} \cup Left(p)'
        /\ \A r \in Left(p)' : r \in Step /\ Before(Head(todo[p]), r)
    BY <1>1, LeftAdvances
  <1>4. Do("check", "doc") \notin Left(p)
    BY <1>1, <1>3 DEF Before, Do
  <1>5. cmd[p].kind # "query"
    BY <1>1, <1>2 DEF Fits, Do
  <1>6. "in" \notin Outputs(p)
    BY <1>1, <1>4, <1>5 DEF PlanOK
  <1>7. CASE Publish(p)
    <2>1. /\ Head(todo[p]).op = "publish"
          /\ entry' = [entry EXCEPT ![target[p][The(p)]] = Mine(p, The(p))]
          /\ published' = [published EXCEPT ![p] = @ \cup {The(p)}]
      BY <1>7 DEF Publish, Next1, Replace, Shown
    <2>2. Path(p, The(p)) # "in"
      <3>1. Path(p, The(p)) # NoName
        BY <1>2, <2>1 DEF Fits, Do, FileSteps
      <3> QED BY <1>2, <1>6, <3>1 DEF Outputs
    <2>3. Do("settle", The(p)) \notin Left(p)
      BY <1>2, <1>3, <2>1 DEF Before, Do, Rank, The
    <2>4. target[p][The(p)] = "in" => <<p, The(p)>> \in crossed
      BY <1>2, <1>4, <2>1, <2>2, <2>3 DEF PInv, TargetsOK, TargetOK
    <2>5. The(p) \in published'[p] \ published[p]
      BY <1>2, <2>1 DEF PInv, ShownOK, TypeOK
    <2>6. entry'["in"] = IF target[p][The(p)] = "in" THEN Mine(p, The(p))
                         ELSE entry["in"]
      BY <2>1, CommandsAssumption DEF TypeOK
    <2> QED BY <1>2, <2>4, <2>5, <2>6
  <1>8. CASE Remove(p)
    <2>1. cmd[p].kind = "import"
      BY <1>2, <1>8 DEF Remove, Next1, Fits, Do
    <2>2. cmd[p].doc # "in"
      BY <1>6, <2>1, ScenarioFacts DEF Outputs, Path, Artifact
    <2> QED BY <1>8, <2>2 DEF Remove, TypeOK
  <1> QED BY <1>7, <1>8

\* A file that has a name is never written, and the input is replaced by no
\* command, but for an output that became a link between the two calls of
\* destination (output.rs:17 validate_paths, 115 publish, 142 and 162).
THEOREM Final == Spec => FilesAreFinal
  <1> DEFINE Crossing ==
                \E x \in crossed : /\ x[2] \in published'[x[1]] \ published[x[1]]
                                   /\ entry'["in"] = Mine(x[1], x[2])
             Step1 == /\ \A n \in Name : entry[n] \in File
                            => file'[entry[n]] = file[entry[n]]
                      /\ entry'["in"] # entry["in"] => Crossing
  <1>1. Inv /\ [Next]_vars => [Step1]_vars
    <2> SUFFICES ASSUME Inv, Next PROVE Step1
      BY DEF vars
    <2>1. TypeOK
      BY DEF Inv
    <2>2. "in" \in Name /\ "in" \in DOMAIN entry
      BY <2>1, CommandsAssumption DEF TypeOK
    <2>3. ASSUME NEW p \in Proc,
                 Main(p) \/ Interrupt(p) \/ Handle(p) \/ Notice(p)
          PROVE  Step1
      <3>1. PInv(p)
        BY DEF Inv
      <3>2. CASE CreateTemp(p) \/ Fill(p) \/ Sync(p)
        <4>1. /\ entry' = entry
              /\ todo[p] # <<>> /\ Head(todo[p]).op \in {"create", "fill", "sync"}
              /\ \/ UNCHANGED file
                 \/ \E s : file' = [file EXCEPT ![Mine(p, The(p))] = s]
          BY <3>2 DEF CreateTemp, Fill, Sync, Synced, Next1
        <4>2. Head(todo[p]) \in Left(p) /\ The(p) \in Artifact
              /\ Head(todo[p]) = Do(Head(todo[p]).op, The(p))
          <5>1. Left(p) = {Head(todo[p])} \cup Rest(Tail(todo[p]))
            BY <2>1, <3>1, <4>1, FirstStep DEF TypeOK, PInv, PlanOK, Left
          <5> QED BY <2>1, <4>1, <5>1, HeadFacts
        <4>3. \A n \in Name : entry[n] # Mine(p, The(p))
          BY <3>1, <4>1, <4>2 DEF PInv, NamedOK, FileSteps
        <4> QED BY <2>1, <4>1, <4>3 DEF TypeOK
      <3>3. CASE Publish(p) \/ Remove(p)
        <4>1. entry'["in"] = entry["in"] \/ Crossing
          BY <2>1, <3>1, <3>3, OnlyOutputs
        <4>2. UNCHANGED file
          BY <3>3 DEF Publish, Replace, Remove
        <4> QED BY <4>1, <4>2
      <3>4. CASE ~(CreateTemp(p) \/ Fill(p) \/ Sync(p) \/ Publish(p)
                   \/ Remove(p))
        <4>1. UNCHANGED <<entry, file>>
          BY <2>3, <3>4 DEF Main, Look, Resolve, Check, Read, NameTaken, RollBack,
             NotPublished, Owned, Fails, Install, Walk, PrintOut, Exit,
             Interrupt, Handle, Notice, disk
        <4> QED BY <4>1
      <3> QED BY <3>2, <3>3, <3>4
    <2>4. CASE UserMoves
      <3>1. UNCHANGED file
        BY <2>4 DEF UserMoves
      <3>2. entry'["in"] = entry["in"]
        BY <2>1, <2>2, <2>4 DEF UserMoves, TypeOK
      <3> QED BY <3>1, <3>2
    <2> QED BY <2>3, <2>4 DEF Next
  <1>2. Spec => [][Step1]_vars
    BY <1>1, Inductive, PTL DEF Spec
  <1> QED BY <1>2 DEF FilesAreFinal
=============================================================================
