---------------------------- MODULE BudgetedWalk ----------------------------
(***************************************************************************)
(* The neighbour search behind `query` and `impact`: `walk` of             *)
(* src/engine/analysis/src/budget.rs, with the Reach record it shares with *)
(* `bfs` (src/engine/analysis/src/lib.rs).                                 *)
(*                                                                         *)
(* A breadth-first search from one root, along dependency edges only, that *)
(* stops early when it has used its vertex or edge budget or when another  *)
(* thread cancels it, and says so: only a `complete` report may be read as *)
(* a proof that something is absent.                                       *)
(*                                                                         *)
(* Ids are numbers, ordered the way the code orders vertex ids.  The flag  *)
(* is set by another thread at any moment; the walk reads it between two   *)
(* edges, so every step that reads it is a step of its own.                *)
(***************************************************************************)
EXTENDS Naturals, Sequences, FiniteSets

CONSTANTS
    Vertices,     \* the registered vertices
    Ids,          \* every id an edge may name, registered or not
    Dependency,   \* the kinds of edge that are dependencies
    Kinds,        \* all kinds, Contains and Inferred included
    Graphs,       \* the sets of edges to search in
    Queries       \* the requests: root, depth, direction, limits

Edges == [from : Ids, to : Ids, kind : Kinds]

ASSUME WalkAssumption ==
    /\ Vertices \subseteq Ids /\ Ids \subseteq Nat
    /\ Dependency \subseteq Kinds /\ Kinds \subseteq Nat
    /\ Graphs \subseteq SUBSET Edges
    /\ \A g \in Graphs : IsFiniteSet(g)
    /\ Queries \subseteq
          [root : Ids, depth : Nat, reverse : BOOLEAN, maxResults : Nat,
           maxVisited : Nat, maxEdges : Nat]

VARIABLES
    graph, query,             \* the input
    cancel,                   \* the flag another thread sets
    pc,
    seen, queue,              \* what was reached, and what is still to expand
    current, pending,         \* the vertex being expanded, its edges left
    visited, examined,        \* work done so far
    reasons,                  \* why the walk, or its output, is limited
    neighbors, complete       \* the report

vars == <<graph, query, cancel, pc, seen, queue, current, pending, visited,
          examined, reasons, neighbors, complete>>

Reasons ==
    {"cancelled", "root-not-found", "visited-limit", "edge-limit",
     "result-limit"}

Reach == [distance : Nat, edges : SUBSET Kinds, via : Ids]

\* The end of an edge the walk moves to, and the one it comes from.
Next1(e) == IF query.reverse THEN e.from ELSE e.to

Here(e) == IF query.reverse THEN e.to ELSE e.from

Precedes(e, f) ==
    \/ Next1(e) < Next1(f)
    \/ Next1(e) = Next1(f) /\ e.kind <= f.kind

IsLeast(e, es) == \A f \in es : Precedes(e, f)

TypeOK ==
    /\ graph \in Graphs /\ query \in Queries
    /\ cancel \in BOOLEAN
    /\ pc \in {"start", "pop", "scan", "collect", "done"}
    /\ DOMAIN seen \subseteq Vertices
    /\ \A v \in DOMAIN seen : seen[v] \in Reach
    /\ queue \in Seq(DOMAIN seen)
    /\ pc = "scan" => current \in DOMAIN seen
    /\ pending \subseteq graph
    /\ visited \in Nat /\ examined \in Nat
    /\ reasons \subseteq Reasons
    /\ neighbors \subseteq Vertices
    /\ complete \in BOOLEAN

Init ==
    /\ graph \in Graphs
    /\ query \in Queries
    /\ cancel = FALSE
    /\ pc = "start"
    /\ seen = << >> /\ queue = << >>
    /\ current = query.root /\ pending = {}
    /\ visited = 0 /\ examined = 0
    /\ reasons = {}
    /\ neighbors = {} /\ complete = FALSE

\* Ctrl+C, or notifications/cancelled: at any time, and never taken back.
Cancel ==
    /\ pc # "done"
    /\ ~cancel
    /\ cancel' = TRUE
    /\ UNCHANGED <<graph, query, pc, seen, queue, current, pending, visited,
                   examined, reasons, neighbors, complete>>

Noticed == IF cancel THEN {"cancelled"} ELSE {}

\* Reach::root.
RootReach(v) == [distance |-> 0, edges |-> {}, via |-> v]

\* The checks before the search: no root, or no vertex budget.
Reject ==
    /\ pc = "start"
    /\ query.root \notin Vertices \/ query.maxVisited = 0
    /\ reasons' = Noticed \cup
          {IF query.root \notin Vertices THEN "root-not-found"
                                         ELSE "visited-limit"}
    /\ pc' = "done"
    /\ UNCHANGED <<graph, query, cancel, seen, queue, current, pending,
                   visited, examined, neighbors, complete>>

Begin ==
    /\ pc = "start"
    /\ query.root \in Vertices
    /\ query.maxVisited > 0
    /\ reasons' = Noticed
    /\ seen' = [v \in {query.root} |-> RootReach(v)]
    /\ queue' = <<query.root>>
    /\ visited' = 1
    /\ pc' = "pop"
    /\ UNCHANGED <<graph, query, cancel, current, pending, examined,
                   neighbors, complete>>

\* `break 'walk` with a reason.
Stop(reason) ==
    /\ reasons' = reasons \cup {reason}
    /\ pc' = "collect"
    /\ UNCHANGED <<graph, query, cancel, seen, queue, current, pending,
                   visited, examined, neighbors, complete>>

PopCancelled ==
    /\ pc = "pop"
    /\ queue # << >>
    /\ cancel
    /\ Stop("cancelled")

\* A vertex at the requested depth is reported and not expanded.
PopTooDeep ==
    /\ pc = "pop"
    /\ queue # << >>
    /\ ~cancel
    /\ seen[Head(queue)].distance >= query.depth
    /\ queue' = Tail(queue)
    /\ UNCHANGED <<graph, query, cancel, pc, seen, current, pending, visited,
                   examined, reasons, neighbors, complete>>

EdgeBudgetSpent == examined >= query.maxEdges

PopExhausted ==
    /\ pc = "pop"
    /\ queue # << >>
    /\ ~cancel
    /\ seen[Head(queue)].distance < query.depth
    /\ EdgeBudgetSpent
    /\ Stop("edge-limit")

\* Faulty variant: estimated and containment edges are followed as well.
Adjacent_AnyKind(v) == {e \in graph : Here(e) = v}

Adjacent(v) == {e \in graph : Here(e) = v /\ e.kind \in Dependency}

Expand ==
    /\ pc = "pop"
    /\ queue # << >>
    /\ ~cancel
    /\ seen[Head(queue)].distance < query.depth
    /\ ~EdgeBudgetSpent
    /\ current' = Head(queue)
    /\ queue' = Tail(queue)
    /\ pending' = Adjacent(Head(queue))
    /\ pc' = "scan"
    /\ UNCHANGED <<graph, query, cancel, seen, visited, examined, reasons,
                   neighbors, complete>>

Exhausted ==
    /\ pc = "pop"
    /\ queue = << >>
    /\ pc' = "collect"
    /\ UNCHANGED <<graph, query, cancel, seen, queue, current, pending,
                   visited, examined, reasons, neighbors, complete>>

\* The flag is read while the edges are gathered, after they are sorted and
\* before each of them.
ScanStops == cancel

ScanCancelled ==
    /\ pc = "scan"
    /\ ScanStops
    /\ Stop("cancelled")

ScanExhausted ==
    /\ pc = "scan"
    /\ ~ScanStops
    /\ pending # {}
    /\ EdgeBudgetSpent
    /\ Stop("edge-limit")

\* Reach::observe and Reach::discovered.
Observe(reach, parent, parentDistance, kind) ==
    [reach EXCEPT !.edges = @ \cup {kind},
                  !.via = IF parentDistance + 1 = reach.distance /\ parent < @
                          THEN parent ELSE @]

Discovered(parent, parentDistance, kind) ==
    [distance |-> parentDistance + 1, edges |-> {kind}, via |-> parent]

Registered(v) == v \in Vertices

Fresh(v) == v # query.root /\ Registered(v) /\ v \notin DOMAIN seen

\* Faulty variant: the vertex budget is compared before looking whether the
\* vertex was reached already.
Overflows_EarlyCheck(v) == Cardinality(DOMAIN seen) >= query.maxVisited

Overflows(v) == Fresh(v) /\ Cardinality(DOMAIN seen) >= query.maxVisited

\* One edge: an edge back to the root and one to an unregistered id count as
\* examined and nothing else.
Examine(e) ==
    LET next == Next1(e)
        distance == seen[current].distance
    IN /\ examined' = examined + 1
       /\ pending' = pending \ {e}
       /\ IF Overflows(next)
          THEN /\ reasons' = reasons \cup {"visited-limit"}
               /\ pc' = "collect"
          ELSE UNCHANGED <<reasons, pc>>
       /\ CASE Fresh(next) /\ ~Overflows(next) ->
                 /\ seen' = [v \in DOMAIN seen \cup {next} |->
                               IF v = next
                               THEN Discovered(current, distance, e.kind)
                               ELSE seen[v]]
                 /\ visited' = visited + 1
                 /\ queue' = Append(queue, next)
            [] next # query.root /\ next \in DOMAIN seen ->
                 /\ seen' = [seen EXCEPT
                               ![next] = Observe(@, current, distance, e.kind)]
                 /\ UNCHANGED <<visited, queue>>
            [] OTHER -> UNCHANGED <<seen, visited, queue>>

ExamineEdge ==
    /\ pc = "scan"
    /\ ~ScanStops
    /\ ~EdgeBudgetSpent
    /\ \E e \in pending : IsLeast(e, pending) /\ Examine(e)
    /\ UNCHANGED <<graph, query, cancel, current, neighbors, complete>>

Scanned ==
    /\ pc = "scan"
    /\ ~ScanStops
    /\ pending = {}
    /\ pc' = "pop"
    /\ UNCHANGED <<graph, query, cancel, seen, queue, current, pending,
                   visited, examined, reasons, neighbors, complete>>

Uncollected == DOMAIN seen \ (neighbors \cup {query.root})

\* The records are turned into neighbours in id order.
CollectOne ==
    /\ pc = "collect"
    /\ ~cancel
    /\ \E v \in Uncollected :
          /\ \A w \in Uncollected : v <= w
          /\ neighbors' = neighbors \cup {v}
    /\ UNCHANGED <<graph, query, cancel, pc, seen, queue, current, pending,
                   visited, examined, reasons, complete>>

\* The first maxResults of a set of ids.
Truncated(vs) ==
    {v \in vs : Cardinality({w \in vs : w < v}) < query.maxResults}

\* Faulty variant: being cut short in the middle of the output is not noticed.
LateReasons_Unchecked == {}

\* A cancellation that is noticed only now still makes the report incomplete.
LateReasons == Noticed

Report ==
    /\ pc = "collect"
    /\ cancel \/ Uncollected = {}
    /\ reasons' = reasons \cup LateReasons \cup
          (IF Cardinality(neighbors) > query.maxResults
           THEN {"result-limit"} ELSE {})
    /\ neighbors' = Truncated(neighbors)
    /\ complete' = (reasons' \subseteq {"result-limit"})
    /\ pc' = "done"
    /\ UNCHANGED <<graph, query, cancel, seen, queue, current, pending,
                   visited, examined>>

Done == pc = "done" /\ UNCHANGED vars

Walk ==
    \/ Reject \/ Begin
    \/ PopCancelled \/ PopTooDeep \/ PopExhausted \/ Expand \/ Exhausted
    \/ ScanCancelled \/ ScanExhausted \/ ExamineEdge \/ Scanned
    \/ CollectOne \/ Report

Next == Walk \/ Cancel \/ Done

Spec == Init /\ [][Next]_vars

----------------------------------------------------------------------------
(* The reference: distances in the part of the graph the walk may follow.  *)

Follows(u, v) ==
    \E e \in graph : Here(e) = u /\ Next1(e) = v /\ e.kind \in Dependency

\* Within[k]: the registered vertices at most k dependency edges away.
Within ==
    LET within[k \in 0..query.depth] ==
          IF k = 0 THEN {query.root}
          ELSE within[k - 1] \cup
                 {v \in Vertices : \E u \in within[k - 1] : Follows(u, v)}
    IN within

Distance(v) ==
    CHOOSE k \in 0..query.depth :
        v \in Within[k] /\ \A j \in 0..(k - 1) : v \notin Within[j]

Neighbours == Within[query.depth] \ {query.root}

Parents(v) ==
    {u \in Within[query.depth] :
        Distance(u) < query.depth /\ Follows(u, v)}

KindsInto(v) ==
    {e.kind : e \in {f \in graph : /\ Next1(f) = v
                                   /\ Here(f) \in Parents(v)
                                   /\ f.kind \in Dependency}}

Examinable ==
    {e \in graph : /\ e.kind \in Dependency
                   /\ Here(e) \in Within[query.depth]
                   /\ Distance(Here(e)) < query.depth}

Nearest(v) == {u \in Parents(v) : Distance(u) + 1 = Distance(v)}

----------------------------------------------------------------------------
(* Properties.                                                             *)

\* A complete report is exact: it lists the neighbours within the requested
\* depth, only cut to the first maxResults ids, each with its shortest
\* distance, every kind of dependency edge that leads to it, and as `via` the
\* least of its nearest predecessors, in whatever order they were expanded.
CompleteIsExact ==
    pc = "done" /\ complete =>
        /\ neighbors = Truncated(Neighbours)
        /\ \A v \in neighbors :
              /\ seen[v].distance = Distance(v)
              /\ seen[v].edges = KindsInto(v)
              /\ seen[v].via \in Nearest(v)
              /\ \A u \in Nearest(v) : seen[v].via <= u

\* A walk that was cut short still says nothing wrong about what it lists: the
\* distances are the shortest ones, the kinds and the predecessor are real.
PartialIsSound ==
    pc = "done" =>
        \A v \in DOMAIN seen \ {query.root} :
            /\ v \in Neighbours
            /\ seen[v].distance = Distance(v)
            /\ seen[v].edges \subseteq KindsInto(v)
            /\ seen[v].via \in Nearest(v)

\* What is recorded of v is backed by the graph and by the other records: v is
\* one step further than its `via`, over a dependency edge, and every kind is
\* that of a dependency edge from a vertex that may be expanded.
Real(v) ==
    /\ seen[v].via \in DOMAIN seen
    /\ Follows(seen[v].via, v)
    /\ seen[v].distance = seen[seen[v].via].distance + 1
    /\ seen[v].distance <= query.depth
    /\ \A k \in seen[v].edges :
          \E e \in graph :
              /\ e.kind = k /\ k \in Dependency /\ Next1(e) = v
              /\ Here(e) \in DOMAIN seen
              /\ seen[Here(e)].distance < query.depth

RecordsAreReal == \A v \in DOMAIN seen \ {query.root} : Real(v)

\* The edge e from u is accounted for: its end is recorded, with this kind,
\* not further than u allows, and with a `via` not above u if u is nearest.
Accounted(u, e) ==
    LET v == Next1(e) IN
    Registered(v) /\ v # query.root =>
        /\ v \in DOMAIN seen
        /\ e.kind \in seen[v].edges
        /\ seen[v].distance <= seen[u].distance + 1
        /\ seen[v].distance = seen[u].distance + 1 => seen[v].via <= u

\* A complete report leaves nothing out, in a form that needs no distances of
\* the graph: the root is recorded at 0, every edge of every recorded vertex
\* within the depth is accounted for, and the neighbours are the records.
CompleteIsClosed ==
    pc = "done" /\ complete =>
        /\ query.root \in DOMAIN seen /\ seen[query.root].distance = 0
        /\ \A u \in DOMAIN seen :
              seen[u].distance < query.depth =>
                  \A e \in Adjacent(u) : Accounted(u, e)
        /\ neighbors = Truncated(DOMAIN seen \ {query.root})

\* The walk never records more vertices nor looks at more edges than it was
\* given, and never reports more neighbours than asked for.
BudgetsHold ==
    /\ visited = Cardinality(DOMAIN seen)
    /\ visited <= query.maxVisited
    /\ examined <= query.maxEdges
    /\ pc = "done" => Cardinality(neighbors) <= query.maxResults

\* An incomplete report has a reason that really bit: without a cancellation,
\* a vertex limit left a neighbour out, and an edge limit was not above the
\* number of edges there were to look at, none of which is looked at twice.
LimitsBite ==
    pc = "done" /\ ~complete /\ ~cancel /\ query.root \in Vertices =>
        \/ "visited-limit" \in reasons /\ query.maxVisited = 0
        \/ "visited-limit" \in reasons /\ ~(Neighbours \subseteq DOMAIN seen)
        \/ "edge-limit" \in reasons /\ query.maxEdges <= Cardinality(Examinable)

\* After the flag is set no further edge is looked at.
CancelStopsWork == [][cancel => examined' = examined]_vars
=============================================================================
