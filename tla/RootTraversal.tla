--------------------------- MODULE RootTraversal ---------------------------
(***************************************************************************)
(* One search from many roots: `walk_roots` of                             *)
(* src/engine/analysis/src/traversal.rs.                                   *)
(*                                                                         *)
(* First a breadth-first search from all roots at once, which records the  *)
(* edges it has looked at; then the sets of roots travel along these       *)
(* edges, one step of distance at a time, and tell which roots reach what, *)
(* also behind another root.  A root is reported itself if another root    *)
(* reaches it, at the distance from that one.                              *)
(***************************************************************************)
EXTENDS ObjectGraph, Sequences, SequencesExt

CONSTANTS
    RootQueries,
    NoRoot,       \* a root the caller could not resolve
    MaxRoots      \* MAX_ROOTS_PER_VERTEX

RootQueriesAssumption ==
    /\ NoRoot \notin Ids
    /\ MaxRoots \in Nat
    /\ RootQueries \subseteq
          [roots : Seq(Ids \cup {NoRoot}), depth : Nat, reverse : BOOLEAN,
           maxResults : Nat, maxVisited : Nat, maxEdges : Nat]

VARIABLES
    graph, query,       \* the input
    cancel,             \* the flag another thread sets
    pc,
    seen,               \* a Reach record for everything reached
    queue,
    current, pending,   \* the vertex being expanded, its edges left
    examined,
    arcs,               \* the edges looked at, as pairs
    rootEdges,          \* the kinds of edge that lead to a root
    bits, delta,        \* the roots known to reach a vertex; the news
    steps,
    firstOther,         \* how a root was first reached from another one
    reached, uncollected,
    reasons, complete

rootVars == <<seen, arcs, rootEdges, bits, delta, steps, firstOther, reached,
              uncollected, complete>>

vars == <<graph, query, cancel, pc, queue, current, pending, examined,
          reasons, rootVars>>

input == <<graph, query, cancel>>

Noticed == IF cancel THEN {"cancelled"} ELSE {}

Positions == DOMAIN query.roots

\* found_roots.
Seeds == {query.roots[i] : i \in Positions} \cap Vertices

RootNotFound == \E i \in Positions : query.roots[i] \notin Vertices

RootReach(v) == [distance |-> 0, edges |-> {}, via |-> v]

\* RootSets::own: the positions that name a vertex.
Own(v) == {i \in Positions : query.roots[i] = v}

Init ==
    /\ graph \in Graphs /\ query \in RootQueries
    /\ cancel = FALSE
    /\ pc = "start"
    /\ seen = << >> /\ queue = << >> /\ current = 0 /\ pending = {}
    /\ examined = 0 /\ arcs = {} /\ rootEdges = [v \in Ids |-> {}]
    /\ bits = << >> /\ delta = << >> /\ steps = 0 /\ firstOther = << >>
    /\ reached = {} /\ uncollected = {}
    /\ reasons = {} /\ complete = FALSE

Cancel ==
    /\ pc # "done" /\ ~ cancel
    /\ cancel' = TRUE
    /\ UNCHANGED <<graph, query, pc, queue, current, pending, examined,
                   reasons, rootVars>>

\* All roots or none are searched from.
Fits == Seeds # {} /\ Cardinality(Seeds) <= query.maxVisited

Begin ==
    /\ pc = "start"
    /\ reasons' = Noticed
         \cup (IF RootNotFound THEN {"root-not-found"} ELSE {})
         \cup (IF Seeds # {} /\ ~ Fits THEN {"visited-limit"} ELSE {})
    /\ IF Fits
       THEN /\ seen' = [v \in Seeds |-> RootReach(v)]
            /\ queue' = SetToSortSeq(Seeds, <)
            /\ pc' = "pop"
       ELSE /\ pc' = "done"
            /\ UNCHANGED <<seen, queue>>
    /\ UNCHANGED <<input, current, pending, examined, arcs, rootEdges, bits,
                   delta, steps, firstOther, reached, uncollected, complete>>

\* run ends; propagate numbers what was seen and seeds the roots.
EndSearch(why) ==
    /\ reasons' = reasons \cup why
    /\ pc' = "propagate"
    /\ bits' = [v \in DOMAIN seen |-> Own(v)]
    /\ delta' = [v \in DOMAIN seen |-> Own(v)]
    /\ UNCHANGED <<input, queue, current, pending, seen, arcs, rootEdges,
                   steps, firstOther, reached, uncollected, complete>>

SearchEnds ==
    /\ pc = "pop" /\ queue = << >>
    /\ EndSearch({}) /\ UNCHANGED examined

SearchCancelled ==
    /\ pc = "scan" \/ (pc = "pop" /\ queue # << >>)
    /\ cancel
    /\ EndSearch({"cancelled"}) /\ UNCHANGED examined

EdgesSpent == examined >= query.maxEdges

\* expand.
Expand ==
    /\ pc = "pop" /\ queue # << >> /\ ~ cancel
    /\ LET near == seen[Head(queue)].distance < query.depth
       IN  /\ near => ~ EdgesSpent
           /\ pending' = IF near
                         THEN Adjacent(graph, Head(queue), query.reverse)
                         ELSE {}
           /\ pc' = IF near THEN "scan" ELSE "pop"
    /\ current' = Head(queue) /\ queue' = Tail(queue)
    /\ UNCHANGED <<input, examined, reasons, rootVars>>

Scanned ==
    /\ pc = "scan" /\ ~ cancel /\ pending = {}
    /\ pc' = "pop"
    /\ UNCHANGED <<input, queue, current, pending, examined, reasons, rootVars>>

EdgesExhausted ==
    /\ \/ pc = "scan" /\ pending # {}
       \/ pc = "pop" /\ queue # << >>
             /\ seen[Head(queue)].distance < query.depth
    /\ ~ cancel /\ EdgesSpent
    /\ EndSearch({"edge-limit"}) /\ UNCHANGED examined

\* Reach::observe.
Observe(reach, parent, kind) ==
    [reach EXCEPT !.edges = @ \cup {kind},
                  !.via = IF seen[parent].distance + 1 = reach.distance
                             /\ parent < @
                          THEN parent ELSE @]

Discovered(parent, kind) ==
    [distance |-> seen[parent].distance + 1, edges |-> {kind}, via |-> parent]

Fresh(v) == v \in Vertices \ DOMAIN seen

Overflows(v) == Fresh(v) /\ Cardinality(DOMAIN seen) >= query.maxVisited

\* visit.  An edge to a root changes no distance, but it is an arc.
Visit(e) ==
    LET next == End(e, query.reverse)
    IN  CASE next \notin Vertices \/ (next \in Seeds /\ next = current) ->
                UNCHANGED <<seen, queue, arcs, rootEdges>>
          [] next \in Seeds /\ next # current ->
                /\ arcs' = arcs \cup {<<current, next>>}
                /\ rootEdges' = [rootEdges EXCEPT ![next] = @ \cup {e.kind}]
                /\ UNCHANGED <<seen, queue>>
          [] next \in DOMAIN seen \ Seeds ->
                /\ seen' = [seen EXCEPT ![next] = Observe(@, current, e.kind)]
                /\ arcs' = arcs \cup {<<current, next>>}
                /\ UNCHANGED <<queue, rootEdges>>
          [] Fresh(next) ->
                /\ seen' = [v \in DOMAIN seen \cup {next} |->
                              IF v = next THEN Discovered(current, e.kind)
                              ELSE seen[v]]
                /\ arcs' = arcs \cup {<<current, next>>}
                /\ queue' = Append(queue, next)
                /\ UNCHANGED rootEdges

ExamineEdge ==
    /\ pc = "scan" /\ ~ cancel /\ ~ EdgesSpent
    /\ \E e \in pending :
          /\ Least(e, pending, query.reverse)
          /\ ~ Overflows(End(e, query.reverse))
          /\ pending' = pending \ {e}
          /\ Visit(e)
    /\ examined' = examined + 1
    /\ UNCHANGED <<input, pc, current, reasons, bits, delta, steps,
                   firstOther, reached, uncollected, complete>>

OutOfVertices ==
    /\ pc = "scan" /\ ~ cancel /\ ~ EdgesSpent
    /\ \E e \in pending :
          /\ Least(e, pending, query.reverse)
          /\ Overflows(End(e, query.reverse))
    /\ EndSearch({"visited-limit"})
    /\ examined' = examined + 1

-----------------------------------------------------------------------------
(* The sets of roots. *)

Parents(v) == {u \in DOMAIN seen : <<u, v>> \in arcs /\ u # v}

\* Not in the code: a set that has gone through a root loses the earlier ones.
Passed_OwnOnly(v) == IF Own(v) = {} THEN delta[v] ELSE delta[v] \cap Own(v)

Passed(v) == delta[v]

Incoming(v) == UNION {Passed(u) : u \in Parents(v)}

\* note_other_root.
Givers(v) == {u \in Parents(v) : Passed(u) \ Own(v) # {}}

NewlyReached ==
    {v \in Seeds \ DOMAIN firstOther : Givers(v) # {}}

Settled == (\A v \in DOMAIN seen : delta[v] = {}) \/ steps >= query.depth

\* step.
Propagate ==
    /\ pc = "propagate" /\ ~ Settled /\ ~ cancel
    /\ steps' = steps + 1
    /\ delta' = [v \in DOMAIN seen |-> Incoming(v) \ bits[v]]
    /\ bits' = [v \in DOMAIN seen |-> bits[v] \cup Incoming(v)]
    /\ firstOther' = [v \in DOMAIN firstOther \cup NewlyReached |->
                        IF v \in NewlyReached
                        THEN [distance |-> steps + 1,
                              via |-> CHOOSE u \in Givers(v) :
                                         \A w \in Givers(v) : u <= w]
                        ELSE firstOther[v]]
    /\ UNCHANGED <<input, pc, queue, current, pending, examined, reasons, seen,
                   arcs, rootEdges, reached, uncollected, complete>>

EndPropagation ==
    /\ pc = "propagate" /\ (Settled \/ cancel)
    /\ reasons' = reasons \cup (IF Settled THEN {} ELSE {"cancelled"})
    /\ uncollected' = DOMAIN seen
    /\ pc' = "collect"
    /\ UNCHANGED <<input, queue, current, pending, examined, seen, arcs,
                   rootEdges, bits, delta, steps, firstOther, reached,
                   complete>>

\* roots_of.
FirstRoots(v) ==
    LET roots == bits[v] \ Own(v)
    IN  {i \in roots : Cardinality({j \in roots : j < i}) < MaxRoots}

Reached(v, reach) ==
    [id |-> v, distance |-> reach.distance, via |-> reach.via,
     edges |-> IF v \in Seeds THEN rootEdges[v] ELSE reach.edges,
     roots |-> FirstRoots(v),
     truncated |-> Cardinality(bits[v] \ Own(v)) > MaxRoots]

\* collect, in the order of the ids.
CollectOne ==
    /\ pc = "collect" /\ ~ cancel
    /\ \E v \in uncollected :
          /\ \A w \in uncollected : v <= w
          /\ uncollected' = uncollected \ {v}
          /\ reached' = IF v \in Seeds
                        THEN IF v \in DOMAIN firstOther
                             THEN reached \cup {Reached(v, firstOther[v])}
                             ELSE reached
                        ELSE reached \cup {Reached(v, seen[v])}
    /\ UNCHANGED <<input, pc, queue, current, pending, examined, reasons, seen,
                   arcs, rootEdges, bits, delta, steps, firstOther, complete>>

Nearer(r, s) ==
    r.distance < s.distance \/ (r.distance = s.distance /\ r.id < s.id)

\* The first maxResults of a set of records.
Truncated(rs) ==
    {r \in rs : Cardinality({s \in rs : Nearer(s, r)}) < query.maxResults}

\* finish.
Report ==
    /\ pc = "collect" /\ (uncollected = {} \/ cancel)
    /\ reasons' = reasons
         \cup (IF uncollected = {} THEN {} ELSE {"cancelled"})
         \cup (IF Cardinality(reached) > query.maxResults
               THEN {"result-limit"} ELSE {})
    /\ reached' = Truncated(reached)
    /\ complete' = (reasons' \subseteq {"result-limit"})
    /\ pc' = "done"
    /\ UNCHANGED <<input, queue, current, pending, examined, seen, arcs,
                   rootEdges, bits, delta, steps, firstOther, uncollected>>

Next ==
    \/ Cancel \/ Begin
    \/ SearchEnds \/ SearchCancelled \/ Expand \/ Scanned \/ EdgesExhausted
    \/ ExamineEdge \/ OutOfVertices
    \/ Propagate \/ EndPropagation
    \/ CollectOne \/ Report

Spec == Init /\ [][Next]_vars

-----------------------------------------------------------------------------
(* The reference: every root searched from on its own. *)

Near(i, v) ==
    /\ query.roots[i] \in Vertices
    /\ v \in Ball(graph, query.roots[i], query.reverse, query.depth)

RootsOf(v) == {i \in Positions : query.roots[i] # v /\ Near(i, v)}

FromRoot(i, v) == Distance(graph, query.roots[i], v, query.reverse)

DistanceOf(v) ==
    CHOOSE d \in 0..query.depth :
       /\ \E i \in RootsOf(v) : FromRoot(i, v) = d
       /\ \A i \in RootsOf(v) : FromRoot(i, v) >= d

\* The last vertex but one of a shortest path from a root that is not v.
ViaOf(v) ==
    CHOOSE u \in Vertices :
       LET good(w) == /\ v \in Successors(graph, w, query.reverse)
                      /\ \E i \in Positions :
                            /\ query.roots[i] # v
                            /\ Near(i, w)
                            /\ FromRoot(i, w) + 1 = DistanceOf(v)
       IN  good(u) /\ \A w \in Vertices : good(w) => u <= w

Expected(v) == [id |-> v, distance |-> DistanceOf(v), via |-> ViaOf(v)]

ExpectedAll == {Expected(v) : v \in {w \in Vertices : RootsOf(w) # {}}}

Records == {[id |-> r.id, distance |-> r.distance, via |-> r.via] :
               r \in reached}

\* A complete report lists exactly what some other root reaches within the
\* depth, at the distance and through the vertex a search from every single
\* root would give, with exactly the roots that reach it.  A report that was
\* cut short names only roots that do reach a vertex, never nearer than they
\* are (traversal.rs:107-139, 317-345, 420-435).
RootsExact ==
    pc = "done" =>
       /\ complete => Records = Truncated(ExpectedAll)
       /\ \A r \in reached :
             /\ r.roots \subseteq RootsOf(r.id)
             /\ r.distance >= DistanceOf(r.id)
             /\ ~ r.truncated /\ complete => r.roots = RootsOf(r.id)
             /\ r.truncated => Cardinality(r.roots) = MaxRoots
=============================================================================
