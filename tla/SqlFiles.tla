------------------------------ MODULE SqlFiles ------------------------------
(***************************************************************************)
(* The SQL files of a directory become query routines of a catalogue       *)
(* document (src/engine/source/src/sql_files.rs, called by scan).  The     *)
(* files are listed first, so that no output is written over one of them;  *)
(* then the catalogue is read, which may take long; then the files are     *)
(* read one by one and all attached, or none.  A link is never followed on *)
(* purpose, but every call goes by the path again, and somebody works in   *)
(* the directory meanwhile.  A document may already hold the queries of an *)
(* earlier scan.                                                           *)
(*                                                                         *)
(* Paths, relative paths and names are numbers in their byte order;        *)
(* routines differ in no more than their name, kind, body and source; a    *)
(* text is a sequence of bytes; an optional value is a set of at most one. *)
(***************************************************************************)
EXTENDS Naturals, Sequences, FiniteSets, SequencesExt

CONSTANTS
    Sites,       \* of each path: the directories above it, its relative path
                 \* with every \ as a /, and what its name says
    QueryName,   \* of each relative path
    Trees,       \* what may be at the paths when the first scan starts
    Beyond,      \* what a link at each path leads to, outside the directory
    Contents,    \* of files that somebody writes
    NotText,     \* the bytes that are no UTF-8
    Askable,
    Documents,   \* the routines of their schemas, in order
    MaxBytes,
    MaxScans, MaxChanges   \* bound the model

Root == 0

SqlFilesAssumption ==
    /\ MaxBytes \in Nat /\ MaxScans \in Nat /\ MaxChanges \in Nat
    \* the name is a prefix and the bytes of the relative path
    /\ \A r, s \in DOMAIN QueryName :
          QueryName[r] < QueryName[s] <=> r < s
    \* a link leads out of the directory, and what is there is not edited
    /\ DOMAIN Beyond = DOMAIN Sites
    /\ \A p \in DOMAIN Sites :
          /\ Beyond[p].kind \in {"none", "file", "dir"}
          /\ \A d \in Sites[p].above :
                /\ d < p
                /\ Sites[d].above = {c \in Sites[p].above : c < d}

VARIABLES
    tree,       \* what is at each path, and the content of a file
    document,
    step,       \* of the scan
    asked,      \* --query-schema
    entries,    \* the entries of directories that are not yet looked at
    files,      \* what was collected
    opened,     \* the file that is being read, and what was read of it
    routines,   \* what was read of the others
    outcome,
    scans, changes,
    earlier,    \* auxiliary: the document at first and before the scan,
    witnessed,  \* and what was at each path since,
    mixed       \* and the files that were written while they were read

vars == <<tree, document, step, asked, entries, files, opened, routines,
          outcome, scans, changes, earlier, witnessed, mixed>>

Paths == DOMAIN Sites

Relative(p) == Sites[p].relative

\* What is at a path, which may go through links to directories.
Nothing == [kind |-> "none"]

At(p) ==
    LET above == Sites[p].above
        Outside(q) == \E d \in above : d < q /\ tree[d].kind = "link"
        Entry(q) == IF Outside(q) THEN Beyond[q] ELSE tree[q]
        Way(d) == \/ Entry(d).kind = "dir"
                  \/ Entry(d).kind = "link" /\ Beyond[d].kind = "dir"
    IN  IF \A d \in above : Way(d) THEN Entry(p) ELSE Nothing

\* What a call that follows links finds there.
Followed(p) == IF At(p).kind = "link" THEN Beyond[p] ELSE At(p)

\* A file of the directory itself.
Inside(p) == /\ tree[p].kind = "file"
             /\ \A d \in Sites[p].above : tree[d].kind = "dir"

Shut == [live |-> FALSE, content |-> <<>>, body |-> <<>>]

End(why) ==
    /\ step' = "idle" /\ outcome' = why /\ opened' = Shut
    /\ UNCHANGED <<document, entries, files, routines>>

\* Any call of the file system may fail; the scan ends and writes nothing.
Fails == End("failed")

-----------------------------------------------------------------------------
\* Collecting.  read_dir lists a directory at once; what kind of thing an
\* entry is may be in the listing or be asked later.
Listed(d) ==
    LET listed == {p \in Paths : /\ Sites[p].above = Sites[d].above \cup {d}
                                 /\ At(p).kind # "none"}
        order == SetToSortSeq(listed, <)
    IN  [i \in DOMAIN order |-> [path |-> order[i], kind |-> At(order[i]).kind]]

\* A directory that is to be listed.
ToEnter(d) == <<[path |-> d, kind |-> "enter"]>>

IsSqlFile(p) == Sites[p].name \in {"sql", "unusable"}

Scan ==
    /\ step = "idle" /\ scans < MaxScans
    /\ step' = "root" /\ scans' = scans + 1
    /\ asked' \in {{}} \cup {{s} : s \in Askable}
    /\ earlier' = [earlier EXCEPT !.scan = document]
    /\ witnessed' = [p \in Paths |-> {At(p)}] /\ mixed' = {}
    /\ entries' = <<>> /\ files' = {} /\ routines' = <<>> /\ outcome' = "none"
    /\ UNCHANGED <<tree, document, opened, changes>>

InspectRoot ==
    /\ step = "root"
    /\ \/ At(Root).kind # "dir" /\ End("refused")
       \/ /\ At(Root).kind = "dir"
          /\ entries' = ToEnter(Root) /\ step' = "collecting"
          /\ UNCHANGED <<document, files, opened, routines, outcome>>
       \/ Fails

\* read_dir follows a link.
Enter ==
    /\ step = "collecting" /\ entries # <<>> /\ Head(entries).kind = "enter"
    /\ LET d == Head(entries).path IN
       \/ Fails
       \/ /\ Followed(d).kind = "dir"
          /\ entries' = Listed(d) \o Tail(entries)
          /\ UNCHANGED <<document, step, files, opened, routines, outcome>>

\* The next entry, of the kind that the listing or another look gives it.
Visit ==
    /\ step = "collecting" /\ entries # <<>> /\ Head(entries).kind # "enter"
    /\ LET p == Head(entries).path IN
       \/ Fails
       \/ \E kind \in {Head(entries).kind, At(p).kind} \ {"none"} :
          LET collected == kind = "file" /\ IsSqlFile(p)
              entered == kind = "dir" /\ Sites[p].name # "ignored"
          IN
          \/ collected /\ Sites[p].name = "unusable" /\ End("refused")
          \/ /\ collected => Sites[p].name # "unusable"
             /\ entries' = (IF entered THEN ToEnter(p) ELSE <<>>)
                            \o Tail(entries)
             /\ files' = IF collected THEN files \cup {p} ELSE files
             /\ UNCHANGED <<document, step, opened, routines, outcome>>

Same(p, q) == p # q /\ Relative(p) = Relative(q)

Collected ==
    /\ step = "collecting" /\ entries = <<>>
    /\ \/ (\E p, q \in files : Same(p, q)) /\ End("refused")
       \/ /\ ~\E p, q \in files : Same(p, q)
          /\ step' = "catalogue"
          /\ UNCHANGED <<document, entries, files, opened, routines, outcome>>

-----------------------------------------------------------------------------
\* Reading.  Which schema the queries go to is known after the catalogue was
\* read: the one that was asked for, or the only one.
Target ==
    LET schemas == DOMAIN document
    IN  IF asked # {} THEN asked \cap schemas
        ELSE IF Cardinality(schemas) = 1 THEN schemas ELSE {}

CatalogueRead ==
    /\ step = "catalogue"
    /\ \/ Fails
       \/ Target = {} /\ End("refused")
       \/ /\ Target # {} /\ step' = "inspect"
          /\ UNCHANGED <<document, entries, files, opened, routines, outcome>>

Sorted == SetToSortSeq(files, LAMBDA p, q : Relative(p) < Relative(q))

Current == Sorted[Len(routines) + 1]

More == Len(routines) < Cardinality(files)

\* A link, or a file that is too large already, is not opened.
Inspect ==
    /\ step = "inspect" /\ More
    /\ LET found == At(Current)
           large == found.kind = "file" /\ Len(found.content) > MaxBytes
       IN
       \/ Fails
       \/ (found.kind = "link" \/ large) /\ End("refused")
       \/ /\ found.kind \in {"file", "dir"} /\ ~large
          /\ step' = "open"
          /\ UNCHANGED <<document, entries, files, opened, routines, outcome>>

\* File::open follows a link; what is no file cannot be read.  The file stays
\* open whatever becomes of its path.
Open ==
    /\ step = "open"
    /\ \/ Fails
       \/ /\ Followed(Current).kind = "file"
          /\ opened' = [live |-> Inside(Current),
                        content |-> Followed(Current).content, body |-> <<>>]
          /\ step' = "read"
          /\ UNCHANGED <<document, entries, files, routines, outcome>>

\* One byte more than is allowed, to see that the file has grown.
Over == Len(opened.body) >= Len(opened.content)
           \/ Len(opened.body) = MaxBytes + 1

Read ==
    /\ step = "read" /\ ~Over
    /\ \/ Fails
       \/ /\ opened' = [opened EXCEPT
                           !.body = Append(@, opened.content[Len(@) + 1])]
          /\ UNCHANGED <<document, step, entries, files, routines, outcome>>

Finish ==
    /\ step = "read" /\ Over
    /\ LET usable == /\ Len(opened.body) <= MaxBytes
                     /\ ToSet(opened.body) \cap NotText = {}
       IN
       \/ ~usable /\ End("refused")
       \/ /\ usable
          /\ routines' = Append(routines,
                [name |-> QueryName[Relative(Current)], kind |-> "query",
                 body |-> opened.body, source |-> {Relative(Current)}])
          /\ step' = "inspect" /\ opened' = Shut
          /\ UNCHANGED <<document, entries, files, outcome>>

-----------------------------------------------------------------------------
\* Attaching.
From(list, source) == {i \in DOMAIN list : list[i].source = source}

Claimed(list, routine) ==
    {i \in DOMAIN list :
        list[i].name = routine.name /\ list[i].source # routine.source}

Conflict(list, routine) ==
    \/ Cardinality(From(list, routine.source)) > 1
    \/ \E i \in From(list, routine.source) :
          list[i].kind # "query" \/ list[i].name # routine.name
    \/ Claimed(list, routine) # {}

\* Attaching with a bug: a query that is there is not replaced.
Replaced_Never(list, new) == {}

\* The queries that take the place of an earlier one.
Replaced(list, new) ==
    {k \in DOMAIN new : From(list, new[k].source) # {}}

Renewed(list, new) ==
    [i \in DOMAIN list |->
        LET by == {k \in Replaced(list, new) : new[k].source = list[i].source}
        IN  IF by = {} THEN list[i] ELSE new[CHOOSE k \in by : TRUE]]

AttachedTo(list, new) ==
    Renewed(list, new) \o
    SelectSeq(new, LAMBDA r : \A k \in Replaced(list, new) : new[k] # r)

\* Sorted by name and source, routines with both the same in their order.
Precedes(a, b) ==
    \/ a.name < b.name
    \/ /\ a.name = b.name
       /\ \/ a.source = {} /\ b.source # {}
          \/ \E r \in a.source, s \in b.source : r < s

InOrder(list) ==
    LET rank(i) == 1 + Cardinality({j \in DOMAIN list :
                        \/ Precedes(list[j], list[i])
                        \/ j < i /\ ~Precedes(list[i], list[j])})
    IN  [n \in DOMAIN list |-> list[CHOOSE i \in DOMAIN list : rank(i) = n]]

Attach ==
    /\ step = "inspect" /\ ~More
    /\ \E s \in Target :
       LET list == document[s]
           conflict == \E k \in DOMAIN routines : Conflict(list, routines[k])
       IN  \/ conflict /\ End("conflict")
           \/ /\ ~conflict
              /\ document' = [document EXCEPT
                                ![s] = InOrder(AttachedTo(@, routines))]
              /\ step' = "idle" /\ outcome' = "attached"
              /\ UNCHANGED <<entries, files, opened, routines>>

-----------------------------------------------------------------------------
\* Somebody puts something else in a place, or writes to a file that is there.
Placed == {[kind |-> k] : k \in {"none", "dir", "link"}}
             \cup {[kind |-> "file", content |-> c] : c \in Contents}

Replace(p) ==
    /\ opened' = IF opened.live /\ p = Current
                 THEN [opened EXCEPT !.live = FALSE] ELSE opened
    /\ UNCHANGED mixed

Rewrite(p) ==
    /\ opened.live /\ p = Current
    /\ Inside(p) /\ tree'[p].kind = "file"
    /\ opened' = [opened EXCEPT !.content = tree'[p].content]
    /\ mixed' = mixed \cup {p}

Edit ==
    /\ changes < MaxChanges /\ changes' = changes + 1
    /\ \E p \in Paths, e \in Placed :
          /\ tree' = [tree EXCEPT ![p] = e]
          /\ Replace(p) \/ Rewrite(p)
    /\ witnessed' = [p \in Paths |-> witnessed[p] \cup {At(p)'}]
    /\ UNCHANGED <<document, step, asked, entries, files, routines, outcome,
                   scans, earlier>>

Init ==
    /\ tree \in Trees /\ document \in Documents
    /\ step = "idle" /\ outcome = "none" /\ asked = {}
    /\ entries = <<>> /\ files = {} /\ opened = Shut /\ routines = <<>>
    /\ scans = 0 /\ changes = 0
    /\ earlier = [given |-> document, scan |-> document]
    /\ witnessed = [p \in Paths |-> {}] /\ mixed = {}

Work ==
    InspectRoot \/ Enter \/ Visit \/ Collected \/ CatalogueRead \/ Inspect
                \/ Open \/ Read \/ Finish \/ Attach

Next ==
    \/ Scan \/ Edit
    \/ /\ Work
       /\ UNCHANGED <<tree, asked, scans, changes, earlier, witnessed, mixed>>

Spec == Init /\ [][Next]_vars
-----------------------------------------------------------------------------
\* A scan attaches every file once, under its own name, replaces nothing but
\* the earlier query of the file, and touches nothing else; a scan that does
\* not succeed leaves the document alone.
AttachedOnce ==
    /\ outcome # "attached" => document = earlier.scan
    /\ outcome = "attached" =>
         \E s \in Target :
         LET old == earlier.scan[s]
             new == document[s]
             sources == {{Relative(f)} : f \in files}
             Of(list, r) == Cardinality({i \in DOMAIN list : list[i] = r})
         IN  /\ \A f \in files :
                  \E i \in DOMAIN new :
                     /\ new[i].kind = "query"
                     /\ {j \in DOMAIN new :
                            \/ new[j].source = {Relative(f)}
                            \/ new[j].name = QueryName[Relative(f)]} = {i}
             /\ \A r \in ToSet(old) \cup ToSet(new) :
                  r.source \notin sources => Of(old, r) = Of(new, r)
             /\ \A t \in DOMAIN document \ {s} :
                  document[t] = earlier.scan[t]

\* What a path led to at the moments of the scan.
LedTo(p) == {IF h.kind = "link" THEN Beyond[p] ELSE h : h \in witnessed[p]}

\* Every body is the whole text that its path led to at one moment of the
\* scan; only of a file that was written in place while it was read it may be
\* put together of several.  It is never too long, and is text.
BodiesAreWhole ==
    outcome = "attached" =>
       \A s \in Target, f \in files : \A i \in DOMAIN document[s] :
          LET body == document[s][i].body
              texts == {h.content : h \in {g \in LedTo(f) : g.kind = "file"}}
          IN  document[s][i].source = {Relative(f)} =>
                 /\ Len(body) <= MaxBytes /\ ToSet(body) \cap NotText = {}
                 /\ f \notin mixed => body \in texts
                 /\ \A n \in DOMAIN body :
                       \E t \in texts : n \in DOMAIN t /\ t[n] = body[n]

\* A file that was there throughout is attached, unless its directory is
\* ignored, and nothing that was a link or a directory throughout is.
AllCollected ==
    LET Throughout(p, kind) == \A h \in witnessed[p] : h.kind = kind
    IN  outcome = "attached" =>
           /\ \A f \in files : \E h \in witnessed[f] : h.kind = "file"
           /\ \A p \in Paths :
                 /\ IsSqlFile(p) /\ Throughout(p, "file")
                 /\ \A d \in Sites[p].above :
                       Throughout(d, "dir") /\ Sites[d].name # "ignored"
                 => p \in files

\* The files of which a text was attached that is not in the directory.
Foreign ==
    {f \in files : \E s \in Target : \E i \in DOMAIN document[s] :
        /\ document[s][i].source = {Relative(f)}
        /\ Beyond[f].kind = "file" /\ document[s][i].body = Beyond[f].content}

\* That happens only if the file or a directory above it is made a link while
\* the scan runs.
LinksAreSkipped ==
    outcome = "attached" =>
       \A f \in Foreign : \E p \in {f} \cup Sites[f].above :
          {h.kind = "link" : h \in witnessed[p]} = BOOLEAN

\* What a comment says: that links are not followed keeps the files that are
\* not in the directory out (sql_files.rs:112-113).  It does not if a
\* directory or a file becomes a link after it was looked at
\* (sql_files.rs:75 and 101, 109 and 101, 166 and 179).
NothingForeign == outcome = "attached" => Foreign = {}

\* However often the files were attached before, they are refused only for a
\* routine that came with the document from elsewhere.
ConflictIsForeign ==
    outcome = "conflict" =>
       \E s \in Target, k \in DOMAIN routines :
          Conflict(earlier.given[s], routines[k])

\* All of these (collect_files, read_routines and attach_collected of
\* sql_files.rs).
FilesAttached ==
    /\ AttachedOnce /\ BodiesAreWhole /\ AllCollected /\ LinksAreSkipped
    /\ ConflictIsForeign
=============================================================================
