---------------------------- MODULE ObjectGraph ----------------------------
(***************************************************************************)
(* The graph the queries work on (src/engine/core/src/lib.rs): registered  *)
(* vertices, and edges of several kinds between ids.  An edge may name an  *)
(* id no vertex has, because add_edge does not look.  Ids are numbers, in  *)
(* the order the code sorts vertex ids.                                    *)
(***************************************************************************)
EXTENDS Naturals, FiniteSets

CONSTANTS
    Vertices,     \* the registered vertices
    Ids,          \* every id an edge may name
    Dependency,   \* the kinds of edge that are dependencies
    Kinds,        \* all kinds, Contains and Inferred included
    Graphs        \* the sets of edges to be tried

Edges == [from : Ids, to : Ids, kind : Kinds]

ObjectGraphAssumption ==
    /\ Ids \subseteq Nat /\ IsFiniteSet(Ids)
    /\ Vertices \subseteq Ids
    /\ Kinds \subseteq Nat /\ Dependency \subseteq Kinds
    /\ Graphs \subseteq SUBSET Edges

\* The ends of an edge for a search along it, or against it.
NearEnd(e, reverse) == IF reverse THEN e.to ELSE e.from

End(e, reverse) == IF reverse THEN e.from ELSE e.to

\* The dependency edges at a vertex: outgoing or incoming.
Adjacent(g, v, reverse) ==
    {e \in g : e.kind \in Dependency /\ NearEnd(e, reverse) = v}

\* The order in which a search looks at the edges of one vertex.
Least(e, es, reverse) ==
    \A f \in es : \/ End(e, reverse) < End(f, reverse)
                  \/ End(e, reverse) = End(f, reverse) /\ e.kind <= f.kind

\* For the properties: what one dependency leads to, and what is at most k
\* registered dependencies away.
Successors(g, v, reverse) == {End(e, reverse) : e \in Adjacent(g, v, reverse)}

Ball(g, v, reverse, k) ==
    LET ball[n \in 0..k] ==
          IF n = 0 THEN {v} \cap Vertices
          ELSE LET near == ball[n - 1]
               IN  near \cup
                     (UNION {Successors(g, u, reverse) : u \in near}
                        \cap Vertices)
    IN  ball[k]

Distance(g, u, v, reverse) ==
    CHOOSE k \in 0..Cardinality(Vertices) :
       /\ v \in Ball(g, u, reverse, k)
       /\ k > 0 => v \notin Ball(g, u, reverse, k - 1)
=============================================================================
