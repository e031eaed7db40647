----------------------------- MODULE MCCommands -----------------------------
(***************************************************************************)
(* Two commands at a time, in the pairs that share names.                  *)
(***************************************************************************)
EXTENDS Commands, TLC

CONSTANTS a, b

MCProc == {a, b}

MCName == {"in", "x", "y"}

Line(kind, doc, out) == [kind |-> kind, doc |-> doc, out |-> out]

Pair(c, d) == a :> c @@ b :> d

\* Two scans of the same names; the outputs swapped or one left out; outputs
\* that are the input or each other; an import beside a scan and beside an
\* import; a query beside a scan.
MCScenario ==
    {Pair(Line("scan", "x", "y"), d) :
        d \in {Line("scan", "x", "y"), Line("scan", "y", "x"),
               Line("scan", NoName, "y"), Line("scan", "x", NoName),
               Line("scan", "x", "x"), Line("scan", "in", "y"),
               Line("import", "x", "y"), Line("query", NoName, "y")}}
    \cup {Pair(Line("import", "x", "y"), d) :
            d \in {Line("import", "x", "y"), Line("scan", "y", "x"),
                   Line("import", "x", "x")}}
=============================================================================
