------------------------- MODULE StrongComponents -------------------------
(***************************************************************************)
(* Dependency cycles: `strongly_connected` of src/engine/core/src/lib.rs,  *)
(* Tarjan's search with frames instead of recursion, and what `cycles` of  *)
(* src/engine/analysis/src/lib.rs makes of the components.                 *)
(***************************************************************************)
EXTENDS ObjectGraph, Sequences, SequencesExt

VARIABLES
    graph,
    pc,
    index, low,     \* order of discovery, and the least index reached
    stack,          \* discovered, in no component yet
    frames,         \* the path of the search: [id, left] with the edges left
    components,
    cycles          \* the report

componentVars == <<index, low, stack, frames, components, cycles>>

vars == <<graph, pc, componentVars>>

Init ==
    /\ graph \in Graphs
    /\ pc = "search"
    /\ index = << >> /\ low = << >>
    /\ stack = << >> /\ frames = << >>
    /\ components = {} /\ cycles = {}

With(f, v, x) == [u \in DOMAIN f \cup {v} |-> IF u = v THEN x ELSE f[u]]

Smaller(a, b) == IF a < b THEN a ELSE b

Top == Last(frames)

\* A vertex is met for the first time; its edges come in the order in which
\* they were added to the graph, which may be any.
Discover(v, below) ==
    /\ index' = With(index, v, Cardinality(DOMAIN index))
    /\ low' = With(low, v, Cardinality(DOMAIN index))
    /\ stack' = Append(stack, v)
    /\ frames' = Append(below, [id |-> v, left |-> Adjacent(graph, v, FALSE)])

NewRoot ==
    /\ pc = "search" /\ frames = << >>
    /\ \E v \in Vertices \ DOMAIN index :
          /\ \A w \in Vertices \ DOMAIN index : v <= w
          /\ Discover(v, << >>)
    /\ UNCHANGED <<graph, pc, components, cycles>>

\* Not in the code: every vertex met before counts, on the stack or not.
Backs_AnyKnown(v) == v \in DOMAIN index

Backs(v) == \E i \in DOMAIN stack : stack[i] = v

FollowEdge ==
    /\ pc = "search" /\ frames # << >>
    /\ \E e \in Top.left :
          LET rest == Append(Front(frames), [Top EXCEPT !.left = @ \ {e}])
          IN  IF e.to \notin DOMAIN index
              THEN Discover(e.to, rest)
              ELSE /\ frames' = rest
                   /\ low' = IF Backs(e.to)
                             THEN [low EXCEPT ![Top.id] =
                                      Smaller(@, index[e.to])]
                             ELSE low
                   /\ UNCHANGED <<index, stack>>
    /\ UNCHANGED <<graph, pc, components, cycles>>

Finished(v) == low[v] = index[v]

\* Where the component of a vertex starts on the stack.
Place(v) == CHOOSE i \in DOMAIN stack : stack[i] = v

Finish ==
    /\ pc = "search" /\ frames # << >> /\ Top.left = {}
    /\ frames' = Front(frames)
    /\ low' = IF Len(frames) = 1 THEN low
              ELSE LET parent == Last(Front(frames)).id
                   IN  [low EXCEPT ![parent] = Smaller(@, low[Top.id])]
    /\ IF Finished(Top.id)
       THEN LET k == Place(Top.id)
            IN  /\ components' = components \cup
                                   {{stack[i] : i \in k..Len(stack)}}
                /\ stack' = SubSeq(stack, 1, k - 1)
       ELSE UNCHANGED <<components, stack>>
    /\ UNCHANGED <<graph, pc, index, cycles>>

SelfLoop(v) == v \in Successors(graph, v, FALSE)

\* cycles: a component of one vertex counts if it depends on itself.
ReportCycles ==
    /\ pc = "search" /\ frames = << >> /\ Vertices \subseteq DOMAIN index
    /\ cycles' = {c \in components :
                    Cardinality(c) > 1 \/ \E v \in c : SelfLoop(v)}
    /\ pc' = "done"
    /\ UNCHANGED <<graph, index, low, stack, frames, components>>

Next == NewRoot \/ FollowEdge \/ Finish \/ ReportCycles

Spec == Init /\ [][Next]_vars

-----------------------------------------------------------------------------
(* The reference: who reaches whom, unregistered ids included. *)

Reaches(v) ==
    LET ball[n \in 0..Cardinality(Ids)] ==
          IF n = 0 THEN {v}
          ELSE LET near == ball[n - 1]
               IN  near \cup UNION {Successors(graph, u, FALSE) : u \in near}
    IN  ball[Cardinality(Ids)]

Relevant == UNION {Reaches(v) : v \in Vertices}

\* The components are the classes of mutual reachability, each found once and
\* whole; the cycles are those in which some vertex depends on itself in one
\* or more steps (core/src/lib.rs:622-700, analysis/src/lib.rs:575-609).
ComponentsExact ==
    pc = "done" =>
       /\ components = {{w \in Relevant : w \in Reaches(v)
                                           /\ v \in Reaches(w)} :
                           v \in Relevant}
       /\ UNION cycles = {v \in Relevant :
                             \E u \in Successors(graph, v, FALSE) :
                                v \in Reaches(u)}
=============================================================================
