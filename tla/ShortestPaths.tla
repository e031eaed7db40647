--------------------------- MODULE ShortestPaths ---------------------------
(***************************************************************************)
(* All shortest dependency paths between two objects: `paths` of           *)
(* src/engine/analysis/src/paths.rs.                                       *)
(*                                                                         *)
(* A breadth-first search records the distance of every vertex and all of  *)
(* its nearest parents, the paths are put together from the parents, from  *)
(* the target back, and the edges along every path are looked up again.    *)
(* Five limits and a flag that another thread sets may end it in any of    *)
(* the three parts.                                                        *)
(***************************************************************************)
EXTENDS ObjectGraph, Sequences, SequencesExt

CONSTANT PathQueries

NoDepth == 0 - 1

PathQueriesAssumption ==
    PathQueries \subseteq
        [from : Ids, to : Ids, reverse : BOOLEAN, maxPaths : Nat,
         maxDepth : Nat, maxVisited : Nat, maxEdges : Nat]

VARIABLES
    graph, query,       \* the input
    cancel,             \* the flag another thread sets
    pc,
    distance, parents,  \* what was reached
    queue,
    current, pending,   \* the vertex being expanded, its edges left
    examined,
    targetDepth,        \* the distance of the target, once it is known
    tries,              \* a stack of paths, from the target back
    found,              \* whole paths
    paths, evidence,    \* the report
    reasons

pathVars == <<distance, parents, targetDepth, tries, found, paths, evidence>>

vars == <<graph, query, cancel, pc, queue, current, pending, examined,
          reasons, pathVars>>

input == <<graph, query, cancel>>

Noticed == IF cancel THEN {"cancelled"} ELSE {}

EndpointsExist == {query.from, query.to} \subseteq Vertices

Init ==
    /\ graph \in Graphs /\ query \in PathQueries
    /\ cancel = FALSE
    /\ pc = "start"
    /\ distance = << >> /\ parents = [v \in Ids |-> {}]
    /\ queue = << >>
    /\ current = query.from /\ pending = {}
    /\ examined = 0 /\ targetDepth = NoDepth
    /\ tries = << >> /\ found = {} /\ paths = {} /\ evidence = {}
    /\ reasons = {}

Cancel ==
    /\ pc # "done" /\ ~ cancel
    /\ cancel' = TRUE
    /\ UNCHANGED <<graph, query, pc, queue, current, pending, examined,
                   reasons, pathVars>>

Start1 ==
    /\ pc = "start"
    /\ IF EndpointsExist
       THEN /\ pc' = "pop"
            /\ targetDepth' = IF query.from = query.to THEN 0 ELSE NoDepth
            /\ IF query.maxVisited = 0
               THEN /\ reasons' = Noticed \cup {"visited-limit"}
                    /\ UNCHANGED <<distance, queue>>
               ELSE /\ reasons' = Noticed
                    /\ distance' = [v \in {query.from} |-> 0]
                    /\ queue' = <<query.from>>
       ELSE /\ pc' = "done" /\ reasons' = Noticed
            /\ UNCHANGED <<targetDepth, distance, queue>>
    /\ UNCHANGED <<input, current, pending, examined, parents, tries, found,
                   paths, evidence>>

\* `break 'search`, with a reason or because nothing is left.
EndSearch(why) ==
    /\ reasons' = reasons \cup why
    /\ pc' = "restore"
    /\ tries' = IF query.to \in DOMAIN distance THEN <<<<query.to>>>>
                                                ELSE << >>
    /\ UNCHANGED <<input, queue, current, pending, examined, distance,
                   parents, targetDepth, found, paths, evidence>>

SearchEnds ==
    /\ pc = "pop" /\ queue = << >>
    /\ EndSearch({})

\* The flag is read after every pop and before every edge.
SearchCancelled ==
    /\ pc = "scan" \/ (pc = "pop" /\ queue # << >>)
    /\ cancel
    /\ EndSearch({"cancelled"})

Popped ==
    /\ current' = Head(queue) /\ queue' = Tail(queue)
    /\ UNCHANGED <<input, examined, reasons, pathVars>>

\* Vertices as far as the target are not expanded.
PopBehindTarget ==
    /\ pc = "pop" /\ queue # << >> /\ ~ cancel
    /\ targetDepth # NoDepth /\ distance[Head(queue)] >= targetDepth
    /\ Popped
    /\ UNCHANGED <<pc, pending>>

Expand ==
    /\ pc = "pop" /\ queue # << >> /\ ~ cancel
    /\ targetDepth = NoDepth \/ distance[Head(queue)] < targetDepth
    /\ Popped
    /\ pending' = Adjacent(graph, Head(queue), query.reverse)
    /\ pc' = "scan"

AtLimit == distance[current] >= query.maxDepth

\* At the depth limit the edges are only asked whether one leads on.
CheckDepth ==
    /\ pc = "scan" /\ ~ cancel /\ AtLimit
    /\ reasons' = reasons \cup
          (IF \E e \in pending : End(e, query.reverse) \notin DOMAIN distance
           THEN {"depth-limit"} ELSE {})
    /\ pc' = "pop"
    /\ UNCHANGED <<input, queue, current, pending, examined, pathVars>>

Scanned ==
    /\ pc = "scan" /\ ~ cancel /\ ~ AtLimit /\ pending = {}
    /\ pc' = "pop"
    /\ UNCHANGED <<input, queue, current, pending, examined, reasons,
                   pathVars>>

EdgesExhausted ==
    /\ pc = "scan" /\ ~ cancel /\ ~ AtLimit /\ pending # {}
    /\ examined >= query.maxEdges
    /\ EndSearch({"edge-limit"})

\* Not in the code: only the first parent of a vertex is kept.
IsParent_First(next, candidate) == next \notin DOMAIN distance

\* Every parent at the right distance is kept, whenever it is met.
IsParent(next, candidate) ==
    next \in DOMAIN distance => distance[next] = candidate

\* The edges of a vertex may not fit into the vertex budget.
VerticesExhausted(next) ==
    next \notin DOMAIN distance
        /\ Cardinality(DOMAIN distance) >= query.maxVisited

ExamineEdge ==
    /\ pc = "scan" /\ ~ cancel /\ ~ AtLimit /\ examined < query.maxEdges
    /\ \E e \in pending :
          LET next == End(e, query.reverse)
              candidate == distance[current] + 1
          IN  /\ Least(e, pending, query.reverse)
              /\ next \in Vertices => ~ VerticesExhausted(next)
              /\ pending' = pending \ {e}
              /\ IF next \notin Vertices
                 THEN UNCHANGED <<distance, queue, parents, targetDepth>>
                 ELSE /\ IF next \in DOMAIN distance
                         THEN UNCHANGED <<distance, queue>>
                         ELSE /\ distance' =
                                   [v \in DOMAIN distance \cup {next} |->
                                      IF v = next THEN candidate
                                      ELSE distance[v]]
                              /\ queue' = Append(queue, next)
                      /\ parents' =
                           IF IsParent(next, candidate)
                           THEN [parents EXCEPT ![next] = @ \cup {current}]
                           ELSE parents
                      /\ targetDepth' = IF next = query.to THEN candidate
                                        ELSE targetDepth
    /\ examined' = examined + 1
    /\ UNCHANGED <<input, pc, current, reasons, tries, found, paths, evidence>>

OutOfVertices ==
    /\ pc = "scan" /\ ~ cancel /\ ~ AtLimit /\ examined < query.maxEdges
    /\ \E e \in pending :
          /\ Least(e, pending, query.reverse)
          /\ End(e, query.reverse) \in Vertices
          /\ VerticesExhausted(End(e, query.reverse))
    /\ reasons' = reasons \cup {"visited-limit"}
    /\ examined' = examined + 1
    /\ pc' = "restore"
    /\ tries' = IF query.to \in DOMAIN distance THEN <<<<query.to>>>>
                                                ELSE << >>
    /\ UNCHANGED <<input, queue, current, pending, distance, parents,
                   targetDepth, found, paths, evidence>>

-----------------------------------------------------------------------------
(* Putting the paths together. *)

\* `break` out of the enumeration, or its end.
EndRestore(why) ==
    /\ reasons' = reasons \cup why
    /\ pc' = "evidence"
    /\ UNCHANGED <<input, queue, current, pending, examined, distance,
                   parents, targetDepth, tries, found, paths, evidence>>

RestoreEnds == pc = "restore" /\ tries = << >> /\ EndRestore(Noticed)

RestoreCancelled ==
    pc = "restore" /\ tries # << >> /\ cancel /\ EndRestore({"cancelled"})

Full == Cardinality(found) >= query.maxPaths

TooManyPaths ==
    /\ pc = "restore" /\ tries # << >> /\ ~ cancel
    /\ Last(Last(tries)) = query.from /\ Full
    /\ EndRestore({"path-limit"})

\* One partial path is taken from the top of the stack; the least parent of
\* its end comes out next.
RestoreOne ==
    /\ pc = "restore" /\ tries # << >> /\ ~ cancel
    /\ LET path == Last(tries)
           end == Last(path)
           longer == SetToSortSeq(parents[end], >)
       IN  IF end = query.from
           THEN /\ ~ Full
                /\ found' = found \cup {Reverse(path)}
                /\ tries' = Front(tries)
           ELSE /\ tries' = Front(tries) \o
                      [i \in DOMAIN longer |-> Append(path, longer[i])]
                /\ UNCHANGED found
    /\ UNCHANGED <<input, pc, queue, current, pending, examined, reasons,
                   distance, parents, targetDepth, paths, evidence>>

-----------------------------------------------------------------------------
(* The edges along the paths. *)

\* The paths of one report are equally long.
IsFirst(p, ps) ==
    \A q \in ps \ {p} : \E i \in DOMAIN p :
       p[i] < q[i] /\ \A j \in 1..(i - 1) : p[j] = q[j]

Along(p) ==
    {e \in graph : /\ e.kind \in Dependency
                   /\ \E i \in 1..(Len(p) - 1) :
                         /\ NearEnd(e, query.reverse) = p[i]
                         /\ End(e, query.reverse) = p[i + 1]}

\* A path and all of its edges, or neither; the flag is read before each edge.
TakeEvidence ==
    /\ pc = "evidence"
    /\ cancel => query.from = query.to
    /\ \E p \in found \ paths :
          /\ IsFirst(p, found \ paths)
          /\ paths' = paths \cup {p}
          /\ evidence' = evidence \cup Along(p)
    /\ UNCHANGED <<input, pc, queue, current, pending, examined, reasons,
                   distance, parents, targetDepth, tries, found>>

Report ==
    /\ pc = "evidence"
    /\ found = paths \/ (cancel /\ query.from # query.to)
    /\ reasons' = reasons \cup Noticed
    /\ pc' = "done"
    /\ UNCHANGED <<input, queue, current, pending, examined, pathVars>>

Next ==
    \/ Cancel \/ Start1
    \/ SearchEnds \/ SearchCancelled \/ PopBehindTarget \/ Expand
    \/ CheckDepth \/ Scanned \/ EdgesExhausted \/ ExamineEdge \/ OutOfVertices
    \/ RestoreEnds \/ RestoreCancelled \/ TooManyPaths \/ RestoreOne
    \/ TakeEvidence \/ Report

Spec == Init /\ [][Next]_vars

-----------------------------------------------------------------------------
(* The reference. *)

\* Every walk of as many dependencies as the target is away, to the target.
AllShortest ==
    IF ~ EndpointsExist
       \/ query.to \notin Ball(graph, query.from, query.reverse,
                               Cardinality(Vertices))
    THEN {}
    ELSE LET d == Distance(graph, query.from, query.to, query.reverse)
             reach[n \in 0..d] ==
               IF n = 0 THEN {<<query.from>>}
               ELSE UNION {{Append(w, v) :
                              v \in Vertices \cap
                                Successors(graph, Last(w), query.reverse)} :
                           w \in reach[n - 1]}
         IN  {w \in reach[d] : Last(w) = query.to}

\* Whatever a limit or a cancellation cut off, each path that is reported is
\* a shortest one and comes with all of its edges and no others; without a
\* reason for truncation none is missing; the depth limit and the path limit
\* are given as the only reason if and only if they are why a path is missing
\* (paths.rs:96-166, 199-228).
PathsExact ==
    pc = "done" =>
       /\ paths \subseteq AllShortest
       /\ evidence = UNION {Along(p) : p \in paths}
       /\ Cardinality(paths) <= query.maxPaths
       /\ reasons = {} => paths = AllShortest
       /\ reasons = {"depth-limit"} =>
             \A p \in AllShortest : Len(p) > query.maxDepth + 1
       /\ reasons = {"path-limit"} =>
             Cardinality(AllShortest) > query.maxPaths
=============================================================================
