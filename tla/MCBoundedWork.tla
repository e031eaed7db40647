--------------------------- MODULE MCBoundedWork ---------------------------
(***************************************************************************)
(* Small graphs for the walk: Trunk with every subset of Web, which has a  *)
(* cycle, a diamond, parallel edges of two kinds, an edge to an            *)
(* unregistered id, a self edge and an edge that is no dependency; and     *)
(* Ladder, where the least of two equally near predecessors is expanded    *)
(* last.                                                                   *)
(*                                                                         *)
(* The tokens of the texts of the scan: what nests and is called like a    *)
(* keyword, what looks like the type of a cast, statements without         *)
(* semicolons, and every kind of operand and bracket.                      *)
(***************************************************************************)
EXTENDS BoundedWork

Edge(u, v, k) == [from |-> u, to |-> v, kind |-> k]

MCVertices == 1..6
MCIds == 0..7
MCDependency == {1, 2}          \* Reads, Calls
MCKinds == {0, 1, 2}            \* 0: Contains

Trunk == {Edge(1, 2, 1), Edge(2, 2, 1), Edge(3, 4, 2), Edge(1, 4, 0)}

Web == {Edge(1, 3, 1), Edge(2, 4, 1), Edge(4, 1, 1), Edge(3, 4, 1),
        Edge(3, 7, 1), Edge(4, 3, 1)}

Ladder == {Edge(1, 2, 1), Edge(1, 3, 1), Edge(2, 5, 1), Edge(3, 4, 1),
           Edge(5, 6, 1), Edge(4, 6, 2)}

Backwards(g) == {Edge(e.to, e.from, e.kind) : e \in g}

MCGraphs == {Trunk \cup g : g \in SUBSET Web} \cup {Ladder, Backwards(Ladder)}

MCQueries ==
    [root : {1}, depth : {1, 3}, reverse : BOOLEAN, maxResults : {3},
     maxVisited : {3, 6}, maxEdges : {3, 9}]
    \cup [root : {0, 1}, depth : {0, 2}, reverse : {FALSE}, maxResults : {9},
          maxVisited : {0, 6}, maxEdges : {0, 4}]

-----------------------------------------------------------------------------
Text(tokens, ops, open, many) ==
    [sql |-> TRUE, tokens |-> tokens, operators |-> ops, groups |-> open,
     statements |-> many]

Cases == {"name", "operator", "keyword", "CASE", "WHEN", "THEN", "ELSE",
          "END"}

Nesting == Cases \cup {"lparen", "rparen"}

Casts == {"name", "operator", "keyword", "dcolon", "constructor", "lt", "gt",
          "shr", "comma", "CASE", "WHEN", "THEN", "END"}

Types == {"name", "dcolon", "constructor", "lt", "gt", "shr", "comma"}

Statements == {"name", "operator", "head", "set", "comma", "ELSE", "END",
               "keyword"}

Others == {"name", "literal", "value", "char", "infix", "bang", "star",
           "lbracket", "rbracket", "lbrace", "rbrace", "period", "comma",
           "THEN", "set", "constructor"}

\* SQL, and tokens in any order.
SqlTexts ==
    {Text(Cases, 3, 3, 1), Text(Nesting, 2, 3, 1), Text(Casts, 2, 3, 1),
     Text(Types, 5, 3, 1), Text(Statements, 2, 2, 2), Text(Others, 2, 3, 1)}

AllTokens == Nesting \cup Casts \cup Types \cup Statements \cup Others

AllTexts ==
    SqlTexts \cup
    {[Text(AllTokens, 2, 3, 1) EXCEPT !.sql = FALSE],
     [Text(Statements, 1, 2, 2) EXCEPT !.sql = FALSE]}

\* Fields of any name, for the run that shows that they are miscounted.
FieldTexts == {Text({"name", "operator", "period", "set"}, 2, 1, 1)}

NoNames == {}
SetNames == {"set"}

\* No walk.
NoGraphs == {}
=============================================================================
