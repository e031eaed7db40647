--------------------------- MODULE ImportsProofs ---------------------------
(***************************************************************************)
(* That imports are exact, for every document, every sequence of manifests *)
(* and logs and whatever is written to the files they name meanwhile.      *)
(*                                                                         *)
(* While an import runs, the document it has read is the one that is       *)
(* stored, and what it has taken answers exactly the entries it has left   *)
(* behind (Underway).  Queries with reserved names repeat no identity of   *)
(* the document they are added to, so that nothing new is noted when it is *)
(* read again (SameNotes), and written as it is it is read as it was meant *)
(* (ReadAsMeant).                                                          *)
(***************************************************************************)
EXTENDS Imports, FiniteSetTheorems, SequenceTheorems, TLAPS

StoredFinite ==
    IsFiniteSet(stored.objects) /\ IsFiniteSet(stored.routines)

InputsOK ==
    /\ inputs \in Seq({inputs[n] : n \in DOMAIN inputs})
    /\ \A n \in DOMAIN inputs : IsInput(inputs[n])

\* How many entries have been read.
Behind(job) == Len(job.input.entries) - Len(job.left)

\* What is left of the input is its end.
LeftOK(job) ==
    /\ job.left \in Seq({job.input.entries[m] : m \in DOMAIN job.input.entries})
    /\ Behind(job) \in Nat
    /\ \A i \in 1 .. Len(job.left) :
          job.left[i] = job.input.entries[Behind(job) + i]

\* The models and rows among them.
Done(job) == {m \in Wanted(job.input) : m <= Behind(job)}

\* A query is what the entry asks for, with a text its file had.
Faithful(input, entry, q) ==
    /\ q = Pending(input, entry, q.routine.body, q.routine.source)
    /\ q.routine.source \in
          {{}, IF input.kind = "log" THEN {}
               ELSE {Relative(path) : path \in entry.path}}
    /\ \A p \in q.routine.source : <<p, q.routine.body>> \in held
    /\ IF entry.code = {} THEN q.routine.source # {}
       ELSE q.routine.body \in entry.code

TakenOK(job) ==
    /\ IsFiniteSet(taken)
    /\ Cardinality(taken) = Cardinality(Done(job))
    /\ Cardinality(taken) <= MaxRows
    /\ FitsBudget({q.entry : q \in taken})
    /\ \A q, r \in taken : /\ q.id = r.id => q = r
                           /\ q.routine.source = r.routine.source =>
                                q = r \/ q.routine.source = {}
    /\ \A q \in taken : \E m \in Done(job) :
          Faithful(job.input, job.input.entries[m], q)
    /\ \A m \in Done(job) :
          /\ \E q \in taken : Faithful(job.input, job.input.entries[m], q)
          /\ WithinScope(job.catalog, job.input, job.input.entries[m])

JobOK(job) ==
    /\ job = [catalog |-> Decoded(stored), input |-> job.input, left |-> job.left]
    /\ Decodable(stored)
    /\ IsInput(job.input)
    /\ LeftOK(job)
    /\ TakenOK(job)

Underway ==
    \/ importing = {} /\ taken = {} /\ held = {}
    \/ /\ \E job \in importing : importing = {job} /\ JobOK(job)
       /\ Holding(project) \subseteq held

HistoryOK == history \in Seq({history[n] : n \in DOMAIN history})

IInv ==
    /\ StoredFinite
    /\ InputsOK
    /\ Underway
    /\ HistoryOK
    /\ ImportsAreExact
-----------------------------------------------------------------------------
(* Sets and sequences. *)

\* A function that is injective on a finite set keeps its size.
LEMMA ImageSize ==
    ASSUME NEW S, IsFiniteSet(S), NEW f, DOMAIN f = S,
           \A x, y \in S : f[x] = f[y] => x = y
    PROVE  /\ IsFiniteSet({f[x] : x \in S})
           /\ Cardinality({f[x] : x \in S}) = Cardinality(S)
  <1> DEFINE T == {f[x] : x \in S}
             g == [x \in S |-> f[x]]
  <1>1. g \in Bijection(S, T)
    BY DEF Bijection, Injection, Surjection, IsInjective
  <1>2. ExistsBijection(S, T)
    BY <1>1 DEF ExistsBijection
  <1> HIDE DEF T, g
  <1>3. IsFiniteSet(T) /\ Cardinality(T) = Cardinality(S)
    BY <1>2, FS_Bijection
  <1> QED BY <1>3 DEF T

LEMMA ImageFinite ==
    ASSUME NEW S, IsFiniteSet(S), NEW f, DOMAIN f = S
    PROVE  IsFiniteSet({f[x] : x \in S})
  <1> DEFINE T == {f[x] : x \in S}
             g == [x \in S |-> f[x]]
  <1>1. g \in Surjection(S, T)
    BY DEF Surjection
  <1> HIDE DEF T, g
  <1>2. IsFiniteSet(T)
    BY <1>1, FS_Surjection
  <1> QED BY <1>2 DEF T

LEMMA DisjointSize ==
    ASSUME NEW S, NEW T, IsFiniteSet(S), IsFiniteSet(T), S \cap T = {}
    PROVE  /\ IsFiniteSet(S \cup T)
           /\ Cardinality(S \cup T) = Cardinality(S) + Cardinality(T)
           /\ Cardinality(S) \in Nat /\ Cardinality(T) \in Nat
  <1>1. /\ IsFiniteSet(S \cup T)
        /\ Cardinality(S \cup T) = Cardinality(S) + Cardinality(T)
                                     - Cardinality(S \cap T)
    BY FS_Union
  <1>2. Cardinality(S \cap T) = 0
    BY FS_EmptySet
  <1>3. Cardinality(S) \in Nat /\ Cardinality(T) \in Nat
    BY FS_CardinalityType
  <1> QED BY <1>1, <1>2, <1>3

\* A sequence is one of its own elements.
LEMMA OwnElements ==
    ASSUME NEW H, NEW s \in Seq(H)
    PROVE  s \in Seq({s[n] : n \in DOMAIN s})
  <1>1. Len(s) \in Nat /\ DOMAIN s = 1 .. Len(s) /\ s = [n \in 1 .. Len(s) |-> s[n]]
    OBVIOUS
  <1>2. s \in [1 .. Len(s) -> {s[n] : n \in DOMAIN s}]
    BY <1>1
  <1> QED BY <1>1, <1>2

\* Nothing fits any budget.
LEMMA NothingFits == FitsBudget({})
  <1> DEFINE Iter(iter) ==
        iter = [s \in SUBSET {} |->
                  IF s = {} THEN 0
                  ELSE (CHOOSE x \in s : TRUE).bytes
                         + iter[s \ {CHOOSE x \in s : TRUE}]]
  <1>1. \A s \in SUBSET {} : s = {}
    OBVIOUS
  <1>2. Iter([s \in SUBSET {} |-> 0])
    BY <1>1
  <1>3. MapThenSumSet(LAMBDA e : e.bytes, {}) = (CHOOSE iter : Iter(iter))[{}]
    BY DEF MapThenSumSet, MapThenFoldSet
  <1>4. Iter(CHOOSE iter : Iter(iter))
    BY <1>2
  <1>5. MapThenSumSet(LAMBDA e : e.bytes, {}) = 0
    BY <1>3, <1>4
  <1> QED BY <1>5, ImportsAssumption DEF FitsBudget

-----------------------------------------------------------------------------
(* Documents. *)

\* Queries whose names nothing else has repeat no identity, so that no more
\* duplicates are noted when the document is read again.
LEMMA SameNotes ==
    ASSUME NEW d, NEW e, NEW Q,
           e.objects = d.objects, e.routines = d.routines \cup Q,
           IsFiniteSet(d.routines), IsFiniteSet(Q),
           \A q \in Q : \A r \in d.routines : q.name # r.name,
           \A q, r \in Q : q.name = r.name => q = r
    PROVE  DuplicateRecordNotes(e) = DuplicateRecordNotes(d)
  <1> DEFINE R == d.routines
             Ids(S) == {RoutineIdentity(r) : r \in S}
             f == [q \in Q |-> RoutineIdentity(q)]
  <1>1. \A q, r : RoutineIdentity(q) = RoutineIdentity(r) => q.name = r.name
    BY DEF RoutineIdentity
  <1>2. \A q, r \in Q : f[q] = f[r] => q = r
    BY <1>1
  <1>3. Ids(Q) = {f[q] : q \in Q} /\ DOMAIN f = Q
    OBVIOUS
  <1> HIDE DEF f
  <1>4. IsFiniteSet(Ids(Q)) /\ Cardinality(Ids(Q)) = Cardinality(Q)
    <2>1. /\ IsFiniteSet({f[q] : q \in Q})
          /\ Cardinality({f[q] : q \in Q}) = Cardinality(Q)
      BY <1>2, <1>3, ImageSize
    <2> QED BY <2>1, <1>3
  <1>5. IsFiniteSet(Ids(R))
    <2> DEFINE g == [r \in R |-> RoutineIdentity(r)]
    <2>1. Ids(R) = {g[r] : r \in R} /\ DOMAIN g = R
      OBVIOUS
    <2> HIDE DEF g
    <2>2. IsFiniteSet({g[r] : r \in R})
      BY <2>1, ImageFinite
    <2> QED BY <2>1, <2>2
  <1>6. R \cap Q = {}
    OBVIOUS
  <1>7. Ids(R) \cap Ids(Q) = {}
    BY <1>1
  <1>8. Ids(e.routines) = Ids(R) \cup Ids(Q)
    OBVIOUS
  <1>9. /\ Cardinality(R \cup Q) = Cardinality(R) + Cardinality(Q)
        /\ Cardinality(R) \in Nat /\ Cardinality(Q) \in Nat
    BY <1>6, DisjointSize
  <1> HIDE DEF Ids
  <1>10. /\ Cardinality(Ids(R) \cup Ids(Q))
               = Cardinality(Ids(R)) + Cardinality(Ids(Q))
         /\ Cardinality(Ids(R)) \in Nat /\ Cardinality(Ids(Q)) \in Nat
    BY <1>4, <1>5, <1>7, DisjointSize
  <1>11. Cardinality(e.routines) - Cardinality(Ids(e.routines))
           = Cardinality(R) - Cardinality(Ids(R))
    <2>1. Cardinality(e.routines) = Cardinality(R) + Cardinality(Q)
      BY <1>9
    <2>2. Cardinality(Ids(e.routines))
            = Cardinality(Ids(R)) + Cardinality(Q)
      BY <1>4, <1>8, <1>10
    <2> QED BY <2>1, <2>2, <1>9, <1>10
  <1>12. Repeated(e.routines, Ids(e.routines)) = Repeated(R, Ids(R))
    BY <1>11 DEF Repeated
  <1>13. \A S : Ids(S) = {RoutineIdentity(r) : r \in S}
    BY DEF Ids
  <1> QED BY <1>12, <1>13 DEF DuplicateRecordNotes

\* A document whose duplicates are noted already is read as it was meant.
LEMMA ReadAsMeant ==
    ASSUME NEW d, NEW version, Encodable(d, version), d.reader # {},
           DuplicateRecordNotes(d) \subseteq d.limitations,
           d = [reader |-> d.reader, context |-> d.context,
                schemas |-> d.schemas, objects |-> d.objects,
                routines |-> d.routines, dependencies |-> d.dependencies,
                limitations |-> d.limitations]
    PROVE  /\ Decodable(Encoded(d, version))
           /\ Decoded(Encoded(d, version)) = d
  <1> DEFINE w == Encoded(d, version)
  <1>1. /\ w.objects = d.objects /\ w.routines = d.routines
        /\ w.dependencies = d.dependencies /\ w.context = d.context
        /\ w.schemas = d.schemas /\ w.limitations = d.limitations
        /\ w.unknown = {} /\ w.version = version
        /\ w.reader = (IF version = 1 THEN d.reader ELSE {})
        /\ w.producer = (IF version = 2 THEN d.reader ELSE {})
        /\ w.features = (IF version = 2 THEN {Features(d)} ELSE {})
    BY DEF Encoded
  <1> HIDE DEF w
  <1>2. Used(w) = Used(d)
    BY <1>1 DEF Used
  <1>3. Features(w) = Features(d)
    BY <1>1, <1>2 DEF Features
  <1>4. Features(d) \subseteq Supported
    BY DEF Features, Supported
  <1>5. DuplicateRecordNotes(w) = DuplicateRecordNotes(d)
    BY <1>1 DEF DuplicateRecordNotes
  <1>6. version \in {1, 2}
    BY DEF Encodable
  <1>7. UnknownFields(w) = {}
    BY <1>1, <1>6 DEF UnknownFields
  <1>8. Decoded(w) = d
    <2>1. w.limitations \cup IgnoredNote(UnknownFields(w))
            \cup DuplicateRecordNotes(w) = d.limitations
      BY <1>1, <1>5, <1>7 DEF IgnoredNote
    <2>2. (IF w.version = 2 THEN w.producer ELSE w.reader) = d.reader
      BY <1>1, <1>6
    <2> QED BY <1>1, <2>1, <2>2 DEF Decoded
  <1>9. Decodable(w)
    <2>1. CASE version = 1
      BY <2>1, <1>1, <1>3 DEF Decodable, Encodable
    <2>2. CASE version = 2
      BY <2>2, <1>1, <1>3, <1>4 DEF Decodable, DeclaresItself, Encodable
    <2> QED BY <1>6, <2>1, <2>2
  <1> QED BY <1>8, <1>9 DEF w

-----------------------------------------------------------------------------
(* One entry. *)

\* The files of an entry are the one its path names, or none.
LEMMA OneFile ==
    ASSUME NEW input, NEW node, \A p, q \in node.path : p = q
    PROVE  /\ FileOf(input, node) \subseteq {Relative(path) : path \in node.path}
           /\ FileOf(input, node) \in
                {{}, {Relative(path) : path \in node.path}}
           /\ \A p, q \in FileOf(input, node) : p = q
           /\ \A a, b \in FileText(input, node) : a = b
  BY DEF FileOf, FileText

\* What a path holds has been seen.
LEMMA SeenInFile ==
    ASSUME NEW input, NEW node, Readable(input, node),
           \A p, q \in FileOf(input, node) : p = q,
           Holding(project) \subseteq held,
           NEW body \in FileText(input, node), NEW p \in FileOf(input, node)
    PROVE  <<p, body>> \in held
  <1>1. body = FileAt(p) /\ body # "absent"
    BY DEF FileText
  <1>2. FileAt(p) \in DOMAIN Bytes
    BY <1>1 DEF Readable
  <1>3. FileAt(p) # "closed"
    BY <1>2, ImportsAssumption
  <1>4. p \in DOMAIN project /\ body = project[p]
    BY <1>1, <1>3 DEF FileAt
  <1> QED BY <1>4 DEF Holding

\* A good entry asks for one query, which answers it, and which nothing taken
\* so far has the name or the file of.
LEMMA OneQuery ==
    ASSUME NEW c, NEW input, NEW entry, IsEntry(input.kind, entry),
           input.kind \in {"dbt", "log"},
           EntryGood(c, input, entry), Holding(project) \subseteq held
    PROVE  \E q : /\ PendingOf(input, entry) = {q}
                  /\ Faithful(input, entry, q)
                  /\ \A r \in taken : /\ r.id # q.id
                                      /\ \/ q.routine.source = {}
                                         \/ r.routine.source # q.routine.source
                  /\ WithinScope(c, input, entry)
  <1>1. \A b, src : LET q == Pending(input, entry, b, src)
                    IN  /\ q.id = NameOf(input, entry)
                        /\ q.routine.body = b /\ q.routine.source = src
    BY DEF Pending, QueryRoutine
  <1>2. \A q \in taken : q.id # NameOf(input, entry)
    BY DEF EntryGood
  <1>3. CASE input.kind = "log"
    <2>1. RowGood(c, input, entry)
      BY <1>3 DEF EntryGood
    <2>2. PICK b : entry.code = {b}
      BY <1>3 DEF IsEntry
    <2> DEFINE q == Pending(input, entry, b, {})
    <2>3. PendingOf(input, entry) = {q}
      BY <1>3, <2>2 DEF PendingOf
    <2>4. q.id = NameOf(input, entry) /\ q.routine.body = b /\ q.routine.source = {}
      BY <1>1
    <2> HIDE DEF q
    <2>5. q = Pending(input, entry, q.routine.body, q.routine.source)
      BY <2>4 DEF q
    <2>6. Faithful(input, entry, q)
      BY <1>3, <2>2, <2>4, <2>5 DEF Faithful
    <2>7. WithinScope(c, input, entry)
      BY <1>3, <2>1 DEF WithinScope, RowGood, SchemaInScope
    <2> QED BY <1>2, <2>3, <2>4, <2>6, <2>7
  <1>4. CASE input.kind = "dbt"
    <2>1. ModelGood(c, input, entry)
      BY <1>4 DEF EntryGood
    <2> DEFINE paths == {Relative(path) : path \in entry.path}
               src == Source(input, entry)
    <2>2. \A p, r \in entry.path : p = r
      BY <1>4 DEF IsEntry
    <2>3. /\ FileOf(input, entry) \in {{}, paths}
          /\ \A p, r \in FileOf(input, entry) : p = r
          /\ \A a, b \in FileText(input, entry) : a = b
      BY <2>2, OneFile
    <2>4. \A a, b \in entry.code : a = b
      BY DEF IsEntry
    <2>5. Text(input, entry) # {} /\ \A a, b \in Text(input, entry) : a = b
      BY <2>1, <2>3, <2>4 DEF ModelGood, Text
    <2>6. PICK b : Text(input, entry) = {b}
      BY <2>5
    <2> DEFINE q == Pending(input, entry, b, src)
    <2>7. PendingOf(input, entry) = {q}
      BY <1>4, <2>6 DEF PendingOf
    <2>8. q.id = NameOf(input, entry) /\ q.routine.body = b /\ q.routine.source = src
      BY <1>1
    <2>9. src \in {{}, paths}
      BY <2>3 DEF Source
    <2>10. src # {} => /\ src = FileOf(input, entry)
                       /\ entry.code \in {{}, FileText(input, entry)}
                       /\ b \in FileText(input, entry)
      BY <2>6 DEF Source, Text
    <2>11. entry.code = {} => src # {}
      BY <2>6 DEF Source, Text, FileText
    <2>12. entry.code # {} => b \in entry.code
      BY <2>6 DEF Text
    <2>13. \A p \in src : <<p, b>> \in held
      <3>1. Readable(input, entry)
        BY <2>1 DEF ModelGood
      <3> QED BY <3>1, <2>3, <2>10, SeenInFile
    <2>14. src = {} \/ \A r \in taken : r.routine.source # src
      BY <2>1 DEF ModelGood
    <2>15. WithinScope(c, input, entry)
      BY <1>4, <2>1 DEF WithinScope, ModelGood, SchemaInScope
    <2> HIDE DEF q, src
    <2>16. q = Pending(input, entry, q.routine.body, q.routine.source)
      BY <2>8 DEF q
    <2>17. Faithful(input, entry, q)
      BY <1>4, <2>8, <2>9, <2>11, <2>12, <2>13, <2>16 DEF Faithful
    <2> QED BY <1>2, <2>7, <2>8, <2>14, <2>15, <2>17
  <1> QED BY <1>3, <1>4

\* What has been seen stays seen.
LEMMA StillFaithful ==
    ASSUME held \subseteq held'
    PROVE  \A input, entry, q : Faithful(input, entry, q)
                                  => Faithful(input, entry, q)'
  BY DEF Faithful

-----------------------------------------------------------------------------
(* The steps of an import. *)

\* One more entry is behind.
LEMMA OneFurther ==
    ASSUME NEW job, IsInput(job.input), LeftOK(job), job.left # << >>,
           job = [catalog |-> job.catalog, input |-> job.input,
                  left |-> job.left],
           NEW next, next = [job EXCEPT !.left = Tail(@)]
    PROVE  LET m == Behind(job) + 1
           IN  /\ next.catalog = job.catalog /\ next.input = job.input
               /\ next = [catalog |-> job.catalog, input |-> job.input,
                          left |-> next.left]
               /\ LeftOK(next)
               /\ m \in DOMAIN job.input.entries
               /\ Head(job.left) = job.input.entries[m]
               /\ Done(next) = Done(job) \cup
                    (IF Imported(job.input, Head(job.left)) THEN {m} ELSE {})
               /\ m \notin Done(job)
               /\ IsFiniteSet(Done(job))
  <1> DEFINE entries == job.input.entries
             E == {entries[m] : m \in DOMAIN entries}
             N == Len(entries)
             L == Len(job.left)
             m == Behind(job) + 1
  <1>1. /\ next.catalog = job.catalog /\ next.input = job.input
        /\ next.left = Tail(job.left)
        /\ next = [catalog |-> job.catalog, input |-> job.input,
                   left |-> next.left]
    OBVIOUS
  <1>2. entries \in Seq(E) /\ job.left \in Seq(E)
    BY DEF IsInput, LeftOK
  <1>3. N \in Nat /\ L \in Nat /\ L # 0 /\ DOMAIN entries = 1 .. N
    BY <1>2
  <1>4. /\ Tail(job.left) \in Seq(E) /\ Len(Tail(job.left)) = L - 1
        /\ \A i \in 1 .. L - 1 : Tail(job.left)[i] = job.left[i + 1]
        /\ Head(job.left) = job.left[1]
    BY <1>2, <1>3
  <1>5. Behind(job) = N - L /\ Behind(job) \in Nat
        /\ \A i \in 1 .. L : job.left[i] = entries[Behind(job) + i]
    BY DEF LeftOK, Behind
  <1>6. Behind(next) = m
    BY <1>1, <1>3, <1>4, <1>5 DEF Behind
  <1>7. m \in 1 .. N
    BY <1>3, <1>5
  <1>8. Head(job.left) = entries[m]
    BY <1>3, <1>4, <1>5
  <1>9. LeftOK(next)
    <2>1. \A i \in 1 .. L - 1 : Tail(job.left)[i] = entries[m + i]
      <3> HIDE DEF L, N
      <3> TAKE i \in 1 .. L - 1
      <3>1. i + 1 \in 1 .. L /\ i \in Nat
        BY <1>3
      <3>2. Behind(job) + (i + 1) = m + i
        BY <1>5, <3>1
      <3> QED BY <3>1, <3>2, <1>4, <1>5
    <2>2. Behind(next) \in Nat
      BY <1>5, <1>6
    <2>3. next.left \in Seq({next.input.entries[k] :
                               k \in DOMAIN next.input.entries})
      BY <1>1, <1>2, <1>4
    <2>4. \A i \in 1 .. Len(next.left) :
             next.left[i] = next.input.entries[Behind(next) + i]
      <3> HIDE DEF m
      <3> QED BY <1>1, <1>4, <1>6, <2>1
    <2> QED BY <2>2, <2>3, <2>4 DEF LeftOK
  <1> HIDE DEF N, L
  <1>10. \A k \in DOMAIN entries : k <= m <=> k <= Behind(job) \/ k = m
    BY <1>3, <1>5
  <1>11. Done(next) = {k \in Wanted(job.input) : k <= m}
    BY <1>1, <1>6 DEF Done
  <1>12. Wanted(job.input) \subseteq DOMAIN entries
    BY DEF Wanted
  <1>13. m \in Wanted(job.input) <=> Imported(job.input, Head(job.left))
    BY <1>3, <1>7, <1>8 DEF Wanted
  <1>14. Done(next) = Done(job) \cup
           (IF Imported(job.input, Head(job.left)) THEN {m} ELSE {})
    <2> HIDE DEF m
    <2> QED BY <1>3, <1>7, <1>10, <1>11, <1>12, <1>13 DEF Done
  <1>15. m \notin Done(job)
    BY <1>5 DEF Done
  <1>16. IsFiniteSet(Done(job))
    <2>1. Done(job) \subseteq 1 .. N
      BY <1>3, <1>12 DEF Done
    <2>2. IsFiniteSet(1 .. N)
      <3>1. 1 \in Int /\ N \in Int
        BY <1>3
      <3> QED BY <3>1, FS_Interval
    <2> QED BY <2>1, <2>2, FS_Subset
  <1> QED BY <1>1, <1>3, <1>7, <1>8, <1>9, <1>14, <1>15, <1>16

\* The entry is taken as it is meant.
LEMMA TakeKeeps ==
    ASSUME NEW job, JobOK(job), TakeEntry(job),
           Holding(project) \subseteq held
    PROVE  Underway'
  <1> DEFINE next  == [job EXCEPT !.left = Tail(@)]
             entry == Head(job.left)
             m     == Behind(job) + 1
  <1>1. /\ importing' = {next} /\ UNCHANGED <<stored, project, held>>
        /\ job.left # << >>
        /\ taken' = taken \cup IF Imported(job.input, entry)
                               THEN PendingOf(job.input, entry) ELSE {}
    BY DEF TakeEntry
  <1>2. /\ job = [catalog |-> job.catalog, input |-> job.input,
                  left |-> job.left]
        /\ job.catalog = Decoded(stored)
        /\ IsInput(job.input) /\ LeftOK(job) /\ TakenOK(job)
        /\ Decodable(stored)
    BY DEF JobOK
  <1>3. /\ next.catalog = job.catalog /\ next.input = job.input
        /\ next = [catalog |-> job.catalog, input |-> job.input,
                   left |-> next.left]
        /\ LeftOK(next)
        /\ m \in DOMAIN job.input.entries
        /\ entry = job.input.entries[m]
        /\ Done(next) = Done(job) \cup
             (IF Imported(job.input, entry) THEN {m} ELSE {})
        /\ m \notin Done(job)
        /\ IsFiniteSet(Done(job))
    <2> HIDE DEF next
    <2>1. next = [job EXCEPT !.left = Tail(@)]
      BY DEF next
    <2> QED BY <1>1, <1>2, <2>1, OneFurther
  <1> HIDE DEF next, entry, m
  <1>4. /\ IsFiniteSet(taken) /\ Cardinality(taken) = Cardinality(Done(job))
        /\ Cardinality(taken) <= MaxRows
        /\ FitsBudget({q.entry : q \in taken})
        /\ \A q, r \in taken : /\ q.id = r.id => q = r
                               /\ q.routine.source = r.routine.source =>
                                    q = r \/ q.routine.source = {}
        /\ \A q \in taken : \E k \in Done(job) :
              Faithful(job.input, job.input.entries[k], q)
        /\ \A k \in Done(job) :
              /\ \E q \in taken : Faithful(job.input, job.input.entries[k], q)
              /\ WithinScope(job.catalog, job.input, job.input.entries[k])
    BY <1>2 DEF TakenOK
  <1>5. \A input, e, q : Faithful(input, e, q) => Faithful(input, e, q)'
    BY <1>1, StillFaithful
  <1>6. TakenOK(next)'
    <2>1. CASE ~Imported(job.input, entry)
      <3>1. taken' = taken /\ Done(next) = Done(job)
        BY <1>1, <1>3, <2>1
      <3> QED BY <1>3, <1>4, <1>5, <3>1 DEF TakenOK
    <2>2. CASE Imported(job.input, entry)
      <3>1. EntryGood(job.catalog, job.input, entry)
        BY <2>2, <1>1 DEF TakeEntry, Takable, entry
      <3>2. IsEntry(job.input.kind, entry) /\ job.input.kind \in {"dbt", "log"}
        BY <1>2, <1>3 DEF IsInput
      <3>3. PICK q : /\ PendingOf(job.input, entry) = {q}
                     /\ Faithful(job.input, entry, q)
                     /\ \A r \in taken :
                          /\ r.id # q.id
                          /\ \/ q.routine.source = {}
                             \/ r.routine.source # q.routine.source
                     /\ WithinScope(job.catalog, job.input, entry)
        BY <3>1, <3>2, OneQuery
      <3>4. taken' = taken \cup {q} /\ Done(next) = Done(job) \cup {m}
        BY <1>1, <1>3, <2>2, <3>3
      <3>5. q \notin taken
        BY <3>3
      <3>6. /\ IsFiniteSet(taken \cup {q})
            /\ Cardinality(taken \cup {q}) = Cardinality(taken) + 1
        BY <1>4, <3>5, FS_AddElement
      <3>7. Cardinality(Done(job) \cup {m}) = Cardinality(Done(job)) + 1
        BY <1>3, FS_AddElement
      <3>8. Cardinality(taken) < MaxRows /\ Cardinality(taken) \in Nat
        BY <3>1, <1>4, FS_CardinalityType DEF EntryGood
      <3>9. Cardinality(taken \cup {q}) <= MaxRows
        BY <3>6, <3>8, ImportsAssumption
      <3>10. FitsBudget({r.entry : r \in taken \cup {q}})
        BY <3>1, <3>3 DEF EntryGood
      <3>11. \A a, b \in taken \cup {q} :
                /\ a.id = b.id => a = b
                /\ a.routine.source = b.routine.source =>
                     a = b \/ a.routine.source = {}
        BY <1>4, <3>3
      <3>12. \A r \in taken \cup {q} : \E k \in Done(job) \cup {m} :
                Faithful(job.input, job.input.entries[k], r)
        BY <1>3, <1>4, <3>3
      <3>13. \A k \in Done(job) \cup {m} :
               /\ \E r \in taken \cup {q} :
                    Faithful(job.input, job.input.entries[k], r)
               /\ WithinScope(job.catalog, job.input, job.input.entries[k])
        BY <1>3, <1>4, <3>3
      <3> QED
        BY <1>3, <1>4, <1>5, <3>4, <3>6, <3>7, <3>9, <3>10, <3>11, <3>12, <3>13
        DEF TakenOK
    <2> QED BY <2>1, <2>2
  <1>7. JobOK(next)'
    BY <1>1, <1>2, <1>3, <1>6 DEF JobOK
  <1>8. Holding(project)' \subseteq held'
    BY <1>1 DEF Holding
  <1> QED BY <1>1, <1>7, <1>8 DEF Underway

\* An import begins with the document as it is, and with nothing taken.
LEMMA BeginKeeps ==
    ASSUME InputsOK, Underway, BeginImport
    PROVE  InputsOK' /\ Underway'
  <1>0. PICK input, job :
           /\ input = Head(inputs)
           /\ job = [catalog |-> Decoded(stored), input |-> input,
                     left |-> input.entries]
    OBVIOUS
  <1>1. /\ importing = {} /\ inputs # << >> /\ Decodable(stored)
        /\ importing' = {job} /\ inputs' = Tail(inputs)
        /\ held' = Holding(project)
        /\ UNCHANGED <<stored, project, taken>>
    BY <1>0 DEF BeginImport
  <1>2. taken = {}
    BY <1>1 DEF Underway
  <1> DEFINE I == {inputs[n] : n \in DOMAIN inputs}
  <1>3. inputs \in Seq(I) /\ \A n \in DOMAIN inputs : IsInput(inputs[n])
    BY DEF InputsOK
  <1>4. Len(inputs) \in Nat /\ Len(inputs) # 0 /\ DOMAIN inputs = 1 .. Len(inputs)
    BY <1>1, <1>3
  <1>5. IsInput(input)
    <2>1. input = inputs[1] /\ 1 \in DOMAIN inputs
      BY <1>0, <1>3, <1>4
    <2> QED BY <1>3, <2>1
  <1>6. Tail(inputs) \in Seq(I)
    BY <1>1, <1>3
  <1>7. InputsOK'
    <2>1. Tail(inputs) \in Seq({Tail(inputs)[n] : n \in DOMAIN Tail(inputs)})
      BY <1>6, OwnElements
    <2>2. \A n \in DOMAIN Tail(inputs) : Tail(inputs)[n] \in I
      BY <1>6
    <2>3. \A n \in DOMAIN Tail(inputs) : IsInput(Tail(inputs)[n])
      BY <2>2, <1>3
    <2> QED BY <1>1, <2>1, <2>3 DEF InputsOK
  <1>8. /\ job.catalog = Decoded(stored) /\ job.input = input
        /\ job.left = input.entries
        /\ job = [catalog |-> Decoded(stored), input |-> job.input,
                  left |-> job.left]
    BY <1>0
  <1> HIDE DEF I
  <1>9. /\ input.entries \in
             Seq({input.entries[m] : m \in DOMAIN input.entries})
        /\ Len(input.entries) \in Nat
    BY <1>5 DEF IsInput
  <1>10. Behind(job) = 0
    BY <1>8, <1>9 DEF Behind
  <1>11. LeftOK(job)
    <2>1. \A i \in 1 .. Len(job.left) : 0 + i = i
      BY <1>8, <1>9
    <2> QED BY <2>1, <1>8, <1>9, <1>10 DEF LeftOK
  <1>12. Done(job) = {}
    <2>1. \A m \in DOMAIN input.entries : m \in Nat /\ ~ (m <= 0)
      BY <1>9
    <2> QED BY <2>1, <1>8, <1>10 DEF Done, Wanted
  <1>13. TakenOK(job)'
    <2>1. IsFiniteSet({}) /\ Cardinality({}) = 0 /\ 0 <= MaxRows
      BY FS_EmptySet, ImportsAssumption
    <2>2. taken' = {}
      BY <1>1, <1>2
    <2> QED BY <1>12, <2>1, <2>2, NothingFits DEF TakenOK
  <1>14. JobOK(job)'
    BY <1>1, <1>5, <1>8, <1>11, <1>13 DEF JobOK
  <1>15. Holding(project)' \subseteq held'
    BY <1>1 DEF Holding
  <1> QED BY <1>1, <1>7, <1>14, <1>15 DEF Underway

\* Whoever writes the files changes nothing of the import.
LEMMA EditKeeps ==
    ASSUME Underway, EditProject
    PROVE  Underway'
  <1>1. PICK files : /\ project' = files
                     /\ held' = held \cup Holding(files)
                     /\ importing # {}
                     /\ UNCHANGED <<stored, inputs, importing, taken, history>>
    BY DEF EditProject
  <1>2. PICK job \in importing : importing = {job} /\ JobOK(job)
    BY <1>1 DEF Underway
  <1>3. \A input, e, q : Faithful(input, e, q) => Faithful(input, e, q)'
    BY <1>1, StillFaithful
  <1>4. TakenOK(job)'
    BY <1>1, <1>2, <1>3 DEF JobOK, TakenOK
  <1>5. JobOK(job)'
    BY <1>1, <1>2, <1>4 DEF JobOK
  <1>6. Holding(project)' \subseteq held'
    BY <1>1 DEF Holding
  <1> QED BY <1>1, <1>2, <1>5, <1>6 DEF Underway

\* The record of an import is appended, and each import so far made of the
\* document what the next began with.
LEMMA HistoryGrows ==
    ASSUME HistoryOK, ImportsAreExact,
           NEW h, history' = Append(history, h), h.before = stored,
           IF h.refused THEN stored' = h.before /\ h.report = {}
           ELSE Exact(h, stored')
    PROVE  HistoryOK' /\ ImportsAreExact'
  <1> DEFINE H == {history[n] : n \in DOMAIN history} \cup {h}
  <1>0. PICK N : N = Len(history)
    OBVIOUS
  <1>1. /\ history \in Seq(H) /\ N \in Nat /\ DOMAIN history = 1 .. N
        /\ history' \in Seq(H) /\ Len(history') = N + 1
        /\ DOMAIN history' = 1 .. N + 1
        /\ \A n \in 1 .. N : history'[n] = history[n]
        /\ history'[N + 1] = h
    <2>1. history \in Seq({history[n] : n \in DOMAIN history})
      BY DEF HistoryOK
    <2>2. history \in Seq(H)
      BY <2>1
    <2>3. h \in H
      OBVIOUS
    <2> HIDE DEF H
    <2> QED BY <1>0, <2>2, <2>3
  <1> HIDE DEF H
  <1>2. HistoryOK'
    BY <1>1, OwnElements DEF HistoryOK
  <1>3. ASSUME NEW n \in 1 .. N
        PROVE  After(n)' = After(n)
    <2>1. CASE n = N
      <3>1. After(n) = stored
        BY <1>0, <2>1 DEF After
      <3>2. After(n)' = history'[N + 1].before
        BY <2>1, <1>1 DEF After
      <3> QED BY <3>1, <3>2, <1>1
    <2>2. CASE n # N
      <3>1. n + 1 \in 1 .. N /\ n # N + 1
        BY <2>2, <1>1
      <3>2. After(n) = history[n + 1].before
        BY <1>0, <2>2 DEF After
      <3>3. After(n)' = history'[n + 1].before
        BY <3>1, <1>1 DEF After
      <3> QED BY <3>1, <3>2, <3>3, <1>1
    <2> QED BY <2>1, <2>2
  <1>4. After(N + 1)' = stored'
    BY <1>1 DEF After
  <1>5. ASSUME NEW n \in 1 .. N + 1
        PROVE  IF history'[n].refused
               THEN /\ After(n)' = history'[n].before
                    /\ history'[n].report = {}
               ELSE Exact(history'[n], After(n)')
    <2>1. CASE n = N + 1
      BY <2>1, <1>1, <1>4
    <2>2. CASE n \in 1 .. N
      <3>1. history'[n] = history[n] /\ After(n)' = After(n)
        BY <2>2, <1>1, <1>3
      <3>2. IF history[n].refused
            THEN After(n) = history[n].before /\ history[n].report = {}
            ELSE Exact(history[n], After(n))
        BY <2>2, <1>1 DEF ImportsAreExact
      <3> QED BY <3>1, <3>2
    <2> QED BY <2>1, <2>2, <1>1
  <1>6. ImportsAreExact'
    BY <1>1, <1>5 DEF ImportsAreExact
  <1> QED BY <1>2, <1>6

-----------------------------------------------------------------------------
(* An import that is over. *)

\* A query has the reserved name of its kind, and the report names it so.
LEMMA QueryNames ==
    ASSUME NEW input, input.kind \in {"dbt", "log"}, NEW entry, NEW q,
           Faithful(input, entry, q)
    PROVE  /\ q.routine.name = q.id /\ q.id[1] = input.kind
           /\ q.routine.kind = "query" /\ q.entry.id = q.id
  <1>1. PICK b, src : q = Pending(input, entry, b, src)
    BY DEF Faithful
  <1>2. /\ q.id = NameOf(input, entry)
        /\ q.routine = QueryRoutine(input, entry, b, src)
        /\ q.entry.id = NameOf(input, entry)
    BY <1>1 DEF Pending
  <1>3. NameOf(input, entry)[1] = input.kind
    BY DEF NameOf
  <1> QED BY <1>2, <1>3 DEF QueryRoutine

\* The document an import has read.
LEMMA ReadDocument ==
    ASSUME Decodable(stored), NEW c, c = Decoded(stored)
    PROVE  /\ c = [reader |-> c.reader, context |-> c.context,
                   schemas |-> c.schemas, objects |-> c.objects,
                   routines |-> c.routines, dependencies |-> c.dependencies,
                   limitations |-> c.limitations]
           /\ c.objects = stored.objects /\ c.routines = stored.routines
           /\ c.reader # {}
           /\ DuplicateRecordNotes(c) \subseteq c.limitations
  <1>1. /\ c = [reader |-> c.reader, context |-> c.context,
                schemas |-> c.schemas, objects |-> c.objects,
                routines |-> c.routines, dependencies |-> c.dependencies,
                limitations |-> c.limitations]
        /\ c.objects = stored.objects /\ c.routines = stored.routines
        /\ DuplicateRecordNotes(stored) \subseteq c.limitations
        /\ c.reader = IF stored.version = 2 THEN stored.producer
                      ELSE stored.reader
    BY DEF Decoded
  <1>2. c.reader # {}
    <2>1. CASE stored.version = 1
      BY <2>1, <1>1 DEF Decodable
    <2>2. CASE stored.version = 2
      <3>1. DeclaresItself(stored)
        BY <2>2 DEF Decodable
      <3>2. stored.producer # {}
        BY <3>1 DEF DeclaresItself
      <3> QED BY <2>2, <3>2, <1>1
    <2> QED BY <2>1, <2>2 DEF Decodable
  <1>3. DuplicateRecordNotes(c) = DuplicateRecordNotes(stored)
    BY <1>1 DEF DuplicateRecordNotes
  <1> QED BY <1>1, <1>2, <1>3

LEMMA ApplyExact ==
    ASSUME StoredFinite, NEW job, JobOK(job), job.left = << >>, Acceptable(job),
           NEW h, h = [refused |-> FALSE, held |-> held, input |-> job.input,
                       before |-> stored,
                       report |-> {ReportOn(job.catalog, job.input, taken)}],
           NEW after, after = Encoded(WithQueries(job.catalog, job.input, taken),
                                      job.input.version)
    PROVE  /\ Exact(h, after)
           /\ IsFiniteSet(after.objects) /\ IsFiniteSet(after.routines)
  <1>0. PICK c, input, d, Q, report :
           /\ c = job.catalog /\ input = job.input
           /\ d = WithQueries(c, input, taken)
           /\ Q = {q.routine : q \in taken}
           /\ report = ReportOn(c, input, taken)
    OBVIOUS
  <1>1. /\ c = Decoded(stored) /\ Decodable(stored)
        /\ IsInput(input) /\ LeftOK(job) /\ TakenOK(job)
    <2>1. job.catalog = Decoded(stored)
      BY DEF JobOK
    <2> QED BY <2>1, <1>0 DEF JobOK
  <1>2. /\ c = [reader |-> c.reader, context |-> c.context,
                schemas |-> c.schemas, objects |-> c.objects,
                routines |-> c.routines, dependencies |-> c.dependencies,
                limitations |-> c.limitations]
        /\ c.objects = stored.objects /\ c.routines = stored.routines
        /\ c.reader # {}
        /\ DuplicateRecordNotes(c) \subseteq c.limitations
    BY <1>1, ReadDocument
  <1>3. /\ IsFiniteSet(taken) /\ Cardinality(taken) = Cardinality(Done(job))
        /\ Cardinality(taken) <= MaxRows
        /\ FitsBudget({q.entry : q \in taken})
        /\ \A q, r \in taken : /\ q.id = r.id => q = r
                               /\ q.routine.source = r.routine.source =>
                                    q = r \/ q.routine.source = {}
        /\ \A q \in taken : \E m \in Done(job) :
              Faithful(input, input.entries[m], q)
        /\ \A m \in Done(job) :
              /\ \E q \in taken : Faithful(input, input.entries[m], q)
              /\ WithinScope(c, input, input.entries[m])
    BY <1>0, <1>1 DEF TakenOK
  <1>4. \A q \in taken : /\ q.routine.name = q.id /\ q.id[1] = input.kind
                         /\ q.routine.kind = "query" /\ q.entry.id = q.id
    <2>1. input.kind \in {"dbt", "log"}
      BY <1>1 DEF IsInput
    <2> QED BY <2>1, <1>3, QueryNames
  <1>5. Done(job) = Wanted(input)
    <2>1. /\ Len(input.entries) \in Nat
          /\ DOMAIN input.entries = 1 .. Len(input.entries)
      BY <1>1 DEF IsInput
    <2>2. Behind(job) = Len(input.entries)
      BY <1>0, <2>1 DEF Behind
    <2> QED BY <1>0, <2>1, <2>2 DEF Done, Wanted
  <1>6. /\ IsFiniteSet(Q) /\ Cardinality(Q) = Cardinality(taken)
    <2> DEFINE f == [q \in taken |-> q.routine]
    <2>1. DOMAIN f = taken /\ Q = {f[q] : q \in taken}
      BY <1>0
    <2>2. \A q, r \in taken : f[q] = f[r] => q = r
      BY <1>3, <1>4
    <2> HIDE DEF f
    <2> QED BY <1>3, <2>1, <2>2, ImageSize
  <1>7. \A q \in Q : \A r \in c.routines : q.name # r.name
    <2>1. NeverImported(c, input.kind)
      BY <1>0 DEF Acceptable
    <2> QED BY <2>1, <1>0, <1>4 DEF NeverImported
  <1>8. \A q, r \in Q : q.name = r.name => q = r
    BY <1>0, <1>3, <1>4
  <1>9. /\ d = [reader |-> d.reader, context |-> d.context,
                schemas |-> d.schemas, objects |-> d.objects,
                routines |-> d.routines, dependencies |-> d.dependencies,
                limitations |-> d.limitations]
        /\ d.objects = c.objects /\ d.routines = c.routines \cup Q
        /\ d.reader = c.reader
        /\ d.limitations = c.limitations \cup {<<input.kind, Cardinality(taken)>>}
        /\ d = [c EXCEPT !.routines = c.routines \cup Q,
                         !.limitations = c.limitations \cup
                           {<<input.kind, Cardinality(taken)>>}]
    <2>1. d = [c EXCEPT !.routines = c.routines \cup Q,
                        !.limitations = c.limitations \cup
                          {<<input.kind, Cardinality(taken)>>}]
      BY <1>0 DEF WithQueries, Note
    <2> QED BY <2>1, <1>2
  <1>10. DuplicateRecordNotes(d) = DuplicateRecordNotes(c)
    <2>1. IsFiniteSet(c.routines)
      BY <1>2 DEF StoredFinite
    <2> QED BY <2>1, <1>6, <1>7, <1>8, <1>9, SameNotes
  <1>11. Encodable(d, input.version)
    BY <1>0 DEF Acceptable
  <1>12. Decodable(after) /\ Decoded(after) = d
    <2>1. after = Encoded(d, input.version)
      BY <1>0
    <2>2. d.reader # {} /\ DuplicateRecordNotes(d) \subseteq d.limitations
      BY <1>2, <1>9, <1>10
    <2> QED BY <2>1, <2>2, <1>9, <1>11, ReadAsMeant
  <1>13. d.routines \ c.routines = Q
    BY <1>7, <1>9
  <1>14. Q # {} => \E declared \in after.features :
                      "external-queries-v1" \in declared
    <2>1. SUFFICES ASSUME Q # {} PROVE "external-queries-v1" \in Features(d)
                                       /\ after.features = {Features(d)}
      OBVIOUS
    <2>2. \E r \in d.routines : r.kind = "query"
      BY <2>1, <1>0, <1>4, <1>9
    <2>3. "external-queries-v1" \in Features(d)
      BY <2>2 DEF Features
    <2>4. input.version = 2
      BY <2>3, <1>11 DEF Encodable
    <2> QED BY <2>3, <2>4, <1>0 DEF Encoded
  <1>15. /\ h.before = stored /\ h.input = input /\ h.held = held
         /\ h.report = {report}
    BY <1>0
  <1>16. /\ report.catalog = stored /\ report.input = input
         /\ report.imported = Cardinality(taken)
         /\ report.entries = {q.entry : q \in taken}
         /\ report.digest = {<<q.id, q.routine.body>> : q \in taken}
    BY <1>0 DEF ReportOn
  <1>17. Cardinality(report.entries) = Cardinality(taken)
    <2> DEFINE f == [q \in taken |-> q.entry]
    <2>1. DOMAIN f = taken /\ report.entries = {f[q] : q \in taken}
      BY <1>16
    <2>2. \A q, r \in taken : f[q] = f[r] => q = r
      BY <1>3, <1>4
    <2> HIDE DEF f
    <2> QED BY <1>3, <2>1, <2>2, ImageSize
  <1>18. Cardinality(report.digest) = Cardinality(taken)
    <2> DEFINE f == [q \in taken |-> <<q.id, q.routine.body>>]
    <2>1. DOMAIN f = taken /\ report.digest = {f[q] : q \in taken}
      BY <1>16
    <2>2. \A q, r \in taken : f[q] = f[r] => q = r
      BY <1>3
    <2> HIDE DEF f
    <2> QED BY <1>3, <2>1, <2>2, ImageSize
  <1>19. ASSUME NEW m \in Wanted(input)
         PROVE  /\ \E r \in Q : Answers(h, input.entries[m], r)
                /\ WithinScope(c, input, input.entries[m])
    <2>1. PICK q \in taken : Faithful(input, input.entries[m], q)
      BY <1>3, <1>5, <1>19
    <2> DEFINE entry == input.entries[m]
               r == q.routine
               pending == Pending(input, entry, r.body, r.source)
    <2>2. q = pending
      BY <2>1 DEF Faithful
    <2>3. /\ r.source \in {{}, IF input.kind = "log" THEN {}
                               ELSE {Relative(path) : path \in entry.path}}
          /\ \A p \in r.source : <<p, r.body>> \in held
          /\ IF entry.code = {} THEN r.source # {} ELSE r.body \in entry.code
      BY <2>1 DEF Faithful
    <2>4. /\ r = pending.routine
          /\ \A rep \in h.report : /\ pending.entry \in rep.entries
                                   /\ <<pending.id, r.body>> \in rep.digest
      BY <2>2, <1>15, <1>16
    <2>5. r \in Q
      BY <1>0
    <2> HIDE DEF r, entry, pending
    <2>6. pending = Pending(h.input, entry, r.body, r.source)
      BY <1>15 DEF pending
    <2>7. Answers(h, entry, r)
      BY <2>3, <2>4, <2>6, <1>15 DEF Answers
    <2> QED BY <2>5, <2>7, <1>3, <1>5, <1>19 DEF entry
  <1>20. ASSUME NEW r \in Q
         PROVE  /\ \A o \in c.objects : VertexName(o) # VertexName(r)
                /\ \A s \in c.routines : VertexName(s) # VertexName(r)
                /\ \A s \in Q : /\ VertexName(s) = VertexName(r) => s = r
                                /\ s.source = r.source => s = r \/ r.source = {}
    <2>1. Unclaimed(c)
      BY <1>0 DEF Acceptable
    <2>2. PICK q \in taken : r = q.routine
      BY <1>0
    <2>3. \A o \in c.objects : VertexName(o) # VertexName(r)
      BY <2>1, <2>2 DEF Unclaimed, VertexName
    <2>4. \A s \in c.routines : VertexName(s) # VertexName(r)
      BY <1>7 DEF VertexName
    <2>5. \A s \in Q : VertexName(s) = VertexName(r) => s = r
      BY <1>8 DEF VertexName
    <2>6. \A s \in Q : s.source = r.source => s = r \/ r.source = {}
      BY <1>0, <1>3, <2>2
    <2> QED BY <2>3, <2>4, <2>5, <2>6
  <1>21. Exact(h, after)
    <2>1. /\ Decoded(h.before) = c /\ Decoded(after) = d
          /\ Cardinality(Wanted(h.input)) = Cardinality(taken)
      BY <1>1, <1>3, <1>5, <1>12, <1>15
    <2>2. \A rep \in h.report :
             /\ rep.catalog = h.before /\ rep.input = h.input
             /\ rep.imported = Cardinality(taken)
             /\ Cardinality(rep.entries) = Cardinality(taken)
             /\ Cardinality(rep.digest) = Cardinality(taken)
             /\ FitsBudget(rep.entries)
      BY <1>3, <1>15, <1>16, <1>17, <1>18
    <2>3. h.report # {} /\ Cardinality(Q) = Cardinality(taken)
      BY <1>6, <1>15
    <2>4. Decoded(after).routines \ Decoded(h.before).routines = Q
      BY <1>13, <2>1
    <2>5. d = [c EXCEPT !.routines = @ \cup Q,
                        !.limitations = @ \cup
                           {<<h.input.kind, Cardinality(taken)>>}]
      BY <1>9, <1>15
    <2>6. \A m \in Wanted(h.input) :
             /\ \E r \in Q : Answers(h, h.input.entries[m], r)
             /\ WithinScope(c, h.input, h.input.entries[m])
      BY <1>15, <1>19
    <2> QED
      BY <1>3, <1>12, <1>14, <1>20, <2>1, <2>2, <2>3, <2>4, <2>5, <2>6
      DEF Exact
  <1>22. IsFiniteSet(after.objects) /\ IsFiniteSet(after.routines)
    <2>1. after.objects = c.objects /\ after.routines = c.routines \cup Q
      BY <1>0, <1>9 DEF Encoded
    <2>2. IsFiniteSet(c.objects) /\ IsFiniteSet(c.routines)
      BY <1>2 DEF StoredFinite
    <2> QED BY <2>1, <2>2, <1>6, FS_Union
  <1> QED BY <1>21, <1>22

-----------------------------------------------------------------------------
(* The theorem. *)

\* Whichever way an import ends, its record says what became of the document.
LEMMA EndKeeps ==
    ASSUME IInv, NEW job, JobOK(job), ApplyImport(job) \/ RefuseImport(job)
    PROVE  IInv'
  <1>1. /\ StoredFinite /\ InputsOK /\ HistoryOK /\ ImportsAreExact
    BY DEF IInv
  <1>2. PICK refused, result, report :
           /\ EndImport(job, refused, result, report)
           /\ \/ refused = TRUE /\ result = stored /\ report = {}
              \/ /\ refused = FALSE /\ job.left = << >> /\ Acceptable(job)
                 /\ result = Encoded(WithQueries(job.catalog, job.input, taken),
                                     job.input.version)
                 /\ report = {ReportOn(job.catalog, job.input, taken)}
    BY DEF ApplyImport, RefuseImport
  <1>3. PICK h : h = [refused |-> refused, held |-> held, input |-> job.input,
                      before |-> stored, report |-> report]
    OBVIOUS
  <1>4. /\ importing' = {} /\ taken' = {} /\ held' = {} /\ stored' = result
        /\ history' = Append(history, h) /\ inputs' = inputs
    BY <1>2, <1>3 DEF EndImport
  <1>5. /\ IF h.refused THEN stored' = h.before /\ h.report = {}
           ELSE Exact(h, stored')
        /\ StoredFinite'
    <2>1. CASE refused = TRUE /\ result = stored /\ report = {}
      <3>1. h.refused = TRUE /\ h.before = stored /\ h.report = {}
        BY <1>3, <2>1
      <3> QED BY <1>1, <1>4, <2>1, <3>1 DEF StoredFinite
    <2>2. CASE refused = FALSE /\ report # {}
      <3>1. /\ job.left = << >> /\ Acceptable(job)
            /\ result = Encoded(WithQueries(job.catalog, job.input, taken),
                                job.input.version)
            /\ report = {ReportOn(job.catalog, job.input, taken)}
        BY <1>2, <2>2
      <3>2. h = [refused |-> FALSE, held |-> held, input |-> job.input,
                 before |-> stored,
                 report |-> {ReportOn(job.catalog, job.input, taken)}]
        BY <1>3, <2>2, <3>1
      <3>3. /\ Exact(h, result)
            /\ IsFiniteSet(result.objects) /\ IsFiniteSet(result.routines)
        BY <1>1, <3>1, <3>2, ApplyExact
      <3>4. h.refused = FALSE
        BY <3>2
      <3> QED BY <1>4, <3>3, <3>4 DEF StoredFinite
    <2> QED BY <1>2, <2>1, <2>2
  <1>6. h.before = stored
    BY <1>3
  <1>7. HistoryOK' /\ ImportsAreExact'
    BY <1>1, <1>4, <1>5, <1>6, HistoryGrows
  <1>8. InputsOK'
    BY <1>1, <1>4 DEF InputsOK
  <1>9. Underway'
    BY <1>4 DEF Underway
  <1> QED BY <1>5, <1>7, <1>8, <1>9 DEF IInv

LEMMA InitIInv == ImportInit => IInv
  <1> SUFFICES ASSUME ImportInit PROVE IInv
    OBVIOUS
  <1>1. PICK s \in Sessions : stored = s.stored /\ inputs = s.inputs
    BY DEF ImportInit
  <1>2. StoredFinite /\ InputsOK
    BY <1>1, ImportsAssumption DEF StoredFinite, InputsOK
  <1>3. Underway
    BY DEF ImportInit, Underway
  <1>4. HistoryOK /\ ImportsAreExact
    <2>1. history = << >> /\ DOMAIN << >> = {}
      BY DEF ImportInit
    <2>2. << >> \in Seq({})
      OBVIOUS
    <2>3. HistoryOK
      BY <2>1, <2>2 DEF HistoryOK
    <2> QED BY <2>1, <2>3 DEF ImportsAreExact
  <1> QED BY <1>2, <1>3, <1>4 DEF IInv

LEMMA NextIInv == IInv /\ [ImportNext]_importVars => IInv'
  <1> SUFFICES ASSUME IInv, [ImportNext]_importVars PROVE IInv'
    OBVIOUS
  <1>1. /\ StoredFinite /\ InputsOK /\ Underway /\ HistoryOK /\ ImportsAreExact
    BY DEF IInv
  <1>2. ASSUME NEW job \in importing
        PROVE  JobOK(job) /\ Holding(project) \subseteq held
    BY <1>1 DEF Underway
  <1>3. ASSUME UNCHANGED <<stored, history>>
        PROVE  StoredFinite' /\ HistoryOK' /\ ImportsAreExact'
    <2>1. \A n : After(n)' = After(n)
      BY <1>3 DEF After
    <2>2. ImportsAreExact'
      BY <1>1, <1>3, <2>1 DEF ImportsAreExact
    <2> QED BY <1>1, <1>3, <2>2 DEF StoredFinite, HistoryOK
  <1>4. CASE BeginImport
    <2>1. UNCHANGED <<stored, history>>
      BY <1>4 DEF BeginImport
    <2> QED BY <1>1, <1>3, <1>4, <2>1, BeginKeeps DEF IInv
  <1>5. ASSUME NEW job \in importing, TakeEntry(job) PROVE IInv'
    <2>1. UNCHANGED <<stored, history, inputs>>
      BY <1>5 DEF TakeEntry
    <2>2. Underway'
      BY <1>2, <1>5, TakeKeeps
    <2>3. InputsOK'
      BY <1>1, <2>1 DEF InputsOK
    <2> QED BY <1>3, <2>1, <2>2, <2>3 DEF IInv
  <1>6. ASSUME NEW job \in importing, ApplyImport(job) \/ RefuseImport(job)
        PROVE  IInv'
    BY <1>2, <1>6, EndKeeps
  <1>7. CASE EditProject
    <2>1. UNCHANGED <<stored, history, inputs>>
      BY <1>7 DEF EditProject
    <2>2. InputsOK'
      BY <1>1, <2>1 DEF InputsOK
    <2> QED BY <1>1, <1>3, <1>7, <2>1, <2>2, EditKeeps DEF IInv
  <1>8. CASE UNCHANGED importVars
    <2>1. UNCHANGED <<stored, history, inputs>>
      BY <1>8 DEF importVars
    <2>2. \A input, e, q : Faithful(input, e, q) => Faithful(input, e, q)'
      BY <1>8, StillFaithful DEF importVars
    <2>3. Underway'
      <3>1. CASE importing = {} /\ taken = {} /\ held = {}
        BY <1>8, <3>1 DEF Underway, importVars
      <3>2. ASSUME NEW job \in importing, importing = {job}, JobOK(job)
            PROVE  Underway'
        <4>1. TakenOK(job)'
          BY <1>8, <2>2, <3>2 DEF JobOK, TakenOK, importVars
        <4>2. JobOK(job)'
          BY <1>8, <3>2, <4>1 DEF JobOK, importVars
        <4>3. Holding(project)' \subseteq held'
          BY <1>2, <1>8 DEF Holding, importVars
        <4> QED BY <1>8, <3>2, <4>2, <4>3 DEF Underway, importVars
      <3> QED BY <1>1, <3>1, <3>2 DEF Underway
    <2>4. InputsOK'
      BY <1>1, <2>1 DEF InputsOK
    <2> QED BY <1>3, <2>1, <2>3, <2>4 DEF IInv
  <1> QED BY <1>4, <1>5, <1>6, <1>7, <1>8 DEF ImportNext

\* What holds while imports run one after another: a document that is still
\* the one that was read, and queries for exactly the entries that are behind
\* (run of cli/import.rs, import_dbt_manifest and import_query_log of
\* imports.rs).
THEOREM Inductive == ImportSpec => []IInv
  BY InitIInv, NextIInv, PTL DEF ImportSpec

\* An import that is refused changes nothing; one that is not adds one query
\* for each model or row, with the text and the file it was asked for, and the
\* document is read again as it was meant (apply_pending, validate_conflicts,
\* read_compiled_sql of imports.rs).
THEOREM ImportsExact == ImportSpec => []ImportsAreExact
  <1>1. IInv => ImportsAreExact
    BY DEF IInv
  <1> QED BY Inductive, <1>1, PTL
=============================================================================
