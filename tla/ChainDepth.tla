----------------------------- MODULE ChainDepth ----------------------------
(***************************************************************************)
(* What ChainScan counts, beside the tree the parser would build.  A       *)
(* writer emits the tokens of SQL sentences one by one and knows, unlike   *)
(* the scan, what each of them is: whether THEN is a keyword or a column,  *)
(* whether a CASE has ended.  It keeps the depth of the tree in operators. *)
(* The grammar is that of the parser the scan is in front of, a library;   *)
(* it is taken from what the scan's comments and tests say of it.          *)
(***************************************************************************)
EXTENDS ChainScan

CONSTANT AlsoNames  \* which of UNION, CASE and ARRAY also are names

ASSUME NamesAssumption == AlsoNames \subseteq {"set", "CASE", "constructor"}

VARIABLES
    nest,   \* the expressions around this place, outermost first
    place,  \* what may come here
    depths  \* the depths of the trees of the finished statements

depthVars == <<scanVars, nest, place, depths>>

\* Of an expression: the operators of its chain, the deepest of the operands
\* of that chain, and the deepest of the expressions beside it in a list.
Expression(kind, part) ==
    [kind |-> kind, part |-> part, chain |-> 0, inner |-> 0, deepest |-> 0]

Current == nest[Len(nest)]

Depth(e) == Larger(e.deepest, e.chain + e.inner)

\* An expression ends and one beside it begins.
NextOne(e, part) ==
    [e EXCEPT !.deepest = Depth(e), !.chain = 0, !.inner = 0, !.part = part]

Emit(t, n, p) ==
    /\ Step(t)
    /\ nest' = n /\ place' = p
    /\ UNCHANGED depths

InPlace(e) == [nest EXCEPT ![Len(nest)] = e]

\* Something nested opens, or the innermost closes and is an operand.
Into(t, kind, part, p) == Emit(t, Append(nest, Expression(kind, part)), p)

Without(n, k) ==
    LET inner == IF k = 1 THEN Depth(n[Len(n)])
                 ELSE Larger(Depth(n[Len(n)]), Depth(n[Len(n) - 1]))
    IN  [i \in 1..(Len(n) - k) |->
            IF i = Len(n) - k THEN [n[i] EXCEPT !.inner = Larger(@, inner)]
                              ELSE n[i]]

OutOf(t, k, p) == Emit(t, Without(nest, k), p)

Wanted == place \in {"operand", "opening", "case"} \/ place = "start"

Complete == place \in {"after", "typed"} /\ Current.kind # "Angle"

Ended == Complete \/ place = "row"

List == Current.kind \in {"Statement", "Paren", "Bracket", "Brace"}

Query == Current.kind \in {"Statement", "Paren"}

-----------------------------------------------------------------------------
\* Operands.  A keyword may be a column: after an operator, after NOT, and
\* wherever the parser does not look for that keyword.
Operand(t) ==
    /\ Wanted
    /\ \/ t \in {"name", "literal", "value"} \cup (AlsoNames \ {"set"})
       \/ /\ place # "start"
          /\ t \in {"THEN", "ELSE", "END", "keyword"}
       \/ t = "head" /\ place = "operand"
       \/ t = "WHEN" /\ place = "operand"
    /\ Emit(t, nest, "after")

\* All columns, or count( * ).
Wildcard(t) ==
    /\ t = "star" /\ place \in {"operand", "opening"} /\ Query
    /\ Current.chain = 0
    /\ Emit(t, nest, "row")

\* A sign, NOT, or SELECT DISTINCT and the like.
Prefix(t) ==
    /\ Wanted
    /\ t \in {"operator", "keyword"}
    /\ Emit(t, nest, "operand")

Nested(t) ==
    \/ /\ Wanted
       /\ \/ t = "lparen" /\ Into(t, "Paren", "", "opening")
          \/ t = "lbrace" /\ Into(t, "Brace", "", "operand")
          \/ t = "CASE" /\ Into(t, "Case", "start", "case")
          \/ t = "constructor" /\ Emit(t, nest, "array")
    \/ place = "array" /\ t = "lbracket" /\ Into(t, "Bracket", "", "operand")
    \* a call
    \/ Complete /\ t = "lparen" /\ Into(t, "Paren", "", "opening")
    \/ place = "opening" /\ t = "rparen" /\ OutOf(t, 1, "after")
    \/ /\ Ended
       /\ \/ t = "rparen" /\ Current.kind = "Paren"
          \/ t = "rbracket" /\ Current.kind = "Bracket"
          \/ t = "rbrace" /\ Current.kind = "Brace"
       /\ OutOf(t, 1, "after")

\* Operators after an operand; a subscript and a cast are operators as well.
Longer == [Current EXCEPT !.chain = @ + 1]

Operator(t) ==
    \/ /\ Complete
       /\ \/ t \in {"operator", "star", "infix", "lt", "gt", "shr"}
             /\ Emit(t, InPlace(Longer), "operand")
          \/ t = "bang" /\ Emit(t, InPlace(Longer), "after")
          \/ t = "dcolon" /\ Emit(t, InPlace(Longer), "type")
          \/ t = "lbracket" /\ Emit(t, Append(InPlace(Longer),
                                       Expression("Bracket", "")), "operand")
          \* NOT IN
          \/ t = "keyword" /\ Emit(t, nest, "negated")
    \/ place = "negated" /\ t = "infix" /\ Emit(t, InPlace(Longer), "operand")

\* A field of a row, which may have any name.
Member(t) ==
    \/ Complete /\ t = "period" /\ Emit(t, nest, "member")
    \/ place = "member"
       /\ t \in (Words \ {"set", "constructor"}) \cup AlsoNames
       /\ Emit(t, nest, "after")

\* Types: one word or several, or the fields of STRUCT<...>.
Type(t) ==
    \/ place = "type" /\ t \in {"name", "keyword"} /\ Emit(t, nest, "typed")
    \/ place = "typed" /\ t = "keyword" /\ Emit(t, nest, "typed")
    \/ place = "type" /\ t = "constructor" /\ Emit(t, nest, "angle")
    \/ place = "angle" /\ t = "lt" /\ Into(t, "Angle", "", "field")
    \/ place = "field" /\ t \in {"name", "CASE", "END"}
       /\ Emit(t, nest, "type")
    \/ /\ place = "typed" /\ Current.kind = "Angle"
       /\ \/ t = "comma" /\ Emit(t, nest, "field")
          \/ t = "gt" /\ OutOf(t, 1, "typed")
          \/ /\ t = "shr" /\ nest[Len(nest) - 1].kind = "Angle"
             /\ OutOf(t, 2, "typed")

-----------------------------------------------------------------------------
\* What separates expressions that are side by side.
Beside(t, part, p) == Emit(t, InPlace(NextOne(Current, part)), p)

Separator(t) ==
    /\ Ended
    /\ \/ List /\ t = "comma" /\ Beside(t, "", "operand")
       \* FROM, WHERE, or the set operation
       \/ Query /\ t = "keyword" /\ Beside(t, "", "operand")
       \/ Query /\ t = "set" /\ Beside(t, "", "start")

Arm(t) ==
    /\ Current.kind = "Case"
    /\ \/ place = "case" /\ t = "WHEN" /\ Beside(t, "when", "operand")
       \/ /\ Complete
          /\ \/ /\ t = "WHEN" /\ Current.part \in {"start", "then"}
                /\ Beside(t, "when", "operand")
             \/ /\ t = "THEN" /\ Current.part = "when"
                /\ Beside(t, "then", "operand")
             \/ /\ t = "ELSE" /\ Current.part = "then"
                /\ Beside(t, "else", "operand")
             \/ /\ t = "END" /\ Current.part \in {"then", "else"}
                /\ OutOf(t, 1, "after")

\* The keywords that start a statement, also without a semicolon before it,
\* and the blocks and branches around such statements.
StatementWord(t) ==
    \/ /\ t = "head"
       /\ \/ place \in {"start", "opening"} /\ Emit(t, nest, "operand")
          \/ Ended /\ Query /\ Beside(t, "", "operand")
    \/ /\ Current.kind = "Statement" /\ t \in CaseWords
       /\ \/ Ended /\ Beside(t, "", "start")
          \/ place = "start" /\ Emit(t, nest, "start")

\* A text that is no SQL, of which there is no tree.
Nonsense(t) == place = "nonsense" /\ Emit(t, nest, place)

Word(t) ==
    \/ Nonsense(t) \/ Operand(t) \/ Wildcard(t) \/ Prefix(t) \/ Nested(t)
    \/ Operator(t) \/ Member(t) \/ Type(t) \/ Separator(t) \/ Arm(t)
    \/ StatementWord(t)

-----------------------------------------------------------------------------
Outermost == <<Expression("Statement", "")>>

End ==
    /\ Len(nest) = 1 /\ (Ended \/ place \in {"start", "nonsense"})
    /\ EndStatement
    /\ depths' = Append(depths, Depth(Current))
    /\ nest' = Outermost
    /\ place' = IF text.sql THEN "start" ELSE "nonsense"

DepthInit ==
    /\ ScanInit
    /\ nest = Outermost
    /\ place = IF text.sql THEN "start" ELSE "nonsense"
    /\ depths = <<>>

DepthNext ==
    \/ \E t \in text.tokens : Word(t)
    \/ End
    \/ (CloseOne \/ Finish \/ Finished \/ Check)
       /\ UNCHANGED <<nest, place, depths>>

DepthSpec == DepthInit /\ [][DepthNext]_depthVars

\* No statement is said to be shorter than its tree is deep, although the
\* scan does not know which keywords are names and which END ends a CASE.
\* With fields that are called UNION, EXCEPT, INTERSECT or MINUS in AlsoNames
\* it is not so: what such a word is the scan does not ask
\* (parse_limits.rs:83, 292).
NeverUndercounts ==
    \A i \in DOMAIN counts : depths[i] <= counts[i].infix_chain
=============================================================================
