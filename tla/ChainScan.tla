----------------------------- MODULE ChainScan -----------------------------
(***************************************************************************)
(* The scan in front of the SQL parser (parse_limits.rs).  The parser      *)
(* builds a chain of operators as a tree of that depth, and whatever walks *)
(* the tree recurses; so the tokens of a text are counted first, and a     *)
(* statement whose chain is too long is reported and never parsed.         *)
(*                                                                         *)
(* Parentheses, brackets, braces, the angles of a type and CASE ... END    *)
(* are groups.  A group counts the operators of its current segment, keeps *)
(* the longest of the segments that ended, and hands its chain to the      *)
(* group around it when it closes.  Keywords may be names, so that the     *)
(* scan does not always know whether a segment or a CASE has ended.        *)
(*                                                                         *)
(* A token is the class the scan tells apart; the loop that closes several *)
(* groups is one step per group.                                           *)
(***************************************************************************)
EXTENDS Naturals, Sequences, FiniteSets

CONSTANTS
    MaxInfix, MaxSet,   \* MAX_INFIX_OPERATORS and MAX_SET_OPERATORS
    Texts               \* what texts are made of: whether they are SQL, their
                        \* tokens, and bounds of the model on the operators
                        \* of a statement, the open groups, the statements

VARIABLES
    text,           \* the one that is read
    groups,         \* the open groups, the statement itself first
    open_by_kind,   \* how many groups of each kind are open
    set_operators,
    after_operand,  \* a symbol that follows is a binary operator
    operand,        \* whether the operand before the next token is complete
    previous,       \* what the last token makes of the next one
    closing,        \* the loop that is closing groups
    counts,         \* what the finished statements were found to have
    result,         \* of the call
    operators,      \* auxiliary: all infix operators of this statement,
    totals          \* and of the finished ones

scanVars == <<text, groups, open_by_kind, set_operators, after_operand,
              operand, previous, closing, counts, result, operators, totals>>

-----------------------------------------------------------------------------
\* Tokens.  "name" is a word that is no keyword, "value" NULL, TRUE or FALSE,
\* "head" a keyword that starts a statement, "constructor" ARRAY or STRUCT,
\* "keyword" any other keyword; "operator" is a symbol with no other role,
\* "char" a token that is neither an operator nor an operand.
CaseWords == {"WHEN", "THEN", "ELSE", "END"}

Words == {"name", "value", "set", "infix", "CASE", "head", "constructor",
          "keyword"} \cup CaseWords

OperatorSymbols ==
    {"operator", "star", "bang", "dcolon", "lt", "gt", "shr", "lbracket"}

Tokens == Words \cup OperatorSymbols \cup
          {"literal", "char", "lparen", "rparen", "rbracket", "lbrace",
           "rbrace", "comma", "period"}

ASSUME ChainScanAssumption ==
    /\ MaxInfix \in Nat /\ MaxSet \in Nat
    /\ Texts \subseteq [sql : BOOLEAN, tokens : SUBSET Tokens, operators : Nat,
                        groups : Nat, statements : Nat]

IsInfix(t) ==
    \/ t \in {"infix", "bang"}
    \/ after_operand /\ t \in OperatorSymbols

EndsOperand(t) ==
    t \notin ({"set", "infix", "comma", "period", "lparen", "lbrace"} \cup
              (OperatorSymbols \ {"bang"}))

PreviousOf(t) ==
    CASE t = "period"      -> "Period"
      [] t = "dcolon"      -> "DoubleColon"
      [] t = "constructor" -> "TypeConstructor"
      [] OTHER             -> "Other"

-----------------------------------------------------------------------------
\* Groups.
GroupKinds == {"Statement", "Paren", "Bracket", "Brace", "Angle", "Case"}

Group == [kind : GroupKinds, current : Nat, longest : Nat, finished : Nat,
          splits : BOOLEAN]

NewGroup(kind) ==
    [kind |-> kind, current |-> 0, longest |-> 0, finished |-> 0,
     splits |-> TRUE]

Larger(a, b) == IF a < b THEN b ELSE a

\* EndSegment with a bug: the segment goes on counting from where it was.
EndSegment_KeepsCurrent(g) ==
    IF g.splits
      THEN [g EXCEPT !.longest = Larger(@, g.current),
                     !.finished = @ + g.current]
      ELSE g

EndSegment(g) ==
    IF g.splits
      THEN [g EXCEPT !.longest = Larger(@, g.current),
                     !.finished = @ + g.current, !.current = 0]
      ELSE g

MergeSegments(g) ==
    [g EXCEPT !.current = @ + g.finished, !.finished = 0, !.splits = FALSE]

Chain(g) == Larger(g.longest, g.current)

Top == groups[Len(groups)]

\* Counts t into the current segment.
Counted(t) ==
    IF IsInfix(t)
      THEN [groups EXCEPT ![Len(groups)].current = @ + 1]
      ELSE groups

\* The CASE groups on top whose segments may all have ended: those above the
\* last group that is no CASE or was merged before.
Distrusted ==
    {i \in 1..Len(groups) :
        \A j \in i..Len(groups) : groups[j].kind = "Case" /\ groups[j].splits}

-----------------------------------------------------------------------------
\* What t does.
Named == previous \in {"Period", "DoubleColon"}

GroupOf(t) ==
    CASE t \in {"lparen", "rparen"}     -> "Paren"
      [] t \in {"lbracket", "rbracket"} -> "Bracket"
      [] t \in {"lbrace", "rbrace"}     -> "Brace"
      [] t = "lt"                       -> "Angle"
      [] t = "CASE"                     -> "Case"

Opens(t) ==
    \/ t \in {"lparen", "lbracket", "lbrace"}
    \/ t = "lt" /\ previous = "TypeConstructor"
    \/ t = "CASE" /\ ~Named /\ Top.kind # "Angle"

EndsCase(t) ==
    t = "END" /\ ~Named /\ operand = "Complete" /\ Top.kind = "Case"

MayEndCase(t) ==
    t = "END" /\ ~Named /\ operand = "Unknown" /\ Top.kind = "Case"

\* EndsSegment with a bug: a keyword is never taken for a name.
EndsSegment_Keywords(t) ==
    \/ t = "comma"
    \/ t \in CaseWords \cup {"head"} /\ ~Named /\ ~EndsCase(t)

EndsSegment(t) ==
    \/ t = "comma"
    \/ /\ t \in CaseWords \cup {"head"}
       /\ ~Named /\ operand = "Complete" /\ ~EndsCase(t)

\* Where the next token stands, after a token that closes no group.
PlaceAfter(t) ==
    CASE Opens(t) \/ t \in {"comma", "period"} -> "Expected"
      [] t \in Words /\ (Named \/ t \in {"name", "value"}) -> "Complete"
      [] t \in CaseWords /\ ~Named ->
            CASE previous = "CaseStart" /\ t = "WHEN"   -> "Expected"
              [] operand = "Complete" /\ t # "END"      -> "Expected"
              [] operand = "Unknown"                    -> "Unknown"
              [] OTHER                                  -> "Complete"
      [] t = "literal" -> "Complete"
      [] t \in OperatorSymbols \ {"bang", "star"} /\ ~Opens(t) -> "Expected"
      [] OTHER -> "Unknown"

\* The part of a step that depends on the token alone.
Seen(t) ==
    /\ closing = "none" /\ result.outcome = "none"
    /\ IsInfix(t) => operators < text.operators
    /\ t = "set" => set_operators < text.operators
    /\ set_operators' = IF t = "set" THEN set_operators + 1 ELSE set_operators
    /\ operators' = IF IsInfix(t) THEN operators + 1 ELSE operators
    /\ after_operand' = EndsOperand(t)
    /\ previous' = IF t = "CASE" /\ Opens(t) THEN "CaseStart"
                                              ELSE PreviousOf(t)
    /\ UNCHANGED <<text, counts, result, totals>>

Open(t) ==
    /\ Opens(t) /\ Len(groups) < text.groups
    /\ Seen(t)
    /\ groups' = Append(Counted(t), NewGroup(GroupOf(t)))
    /\ open_by_kind' = [open_by_kind EXCEPT ![GroupOf(t)] = @ + 1]
    /\ operand' = PlaceAfter(t)
    /\ UNCHANGED closing

Split(t) ==
    /\ EndsSegment(t)
    /\ Seen(t)
    /\ groups' = [groups EXCEPT ![Len(groups)] = EndSegment(@)]
    /\ operand' = IF t = "head" THEN "Unknown" ELSE PlaceAfter(t)
    /\ UNCHANGED <<open_by_kind, closing>>

\* An END of which the scan does not know whether it ends the CASE.
DistrustCaseEnds(t) ==
    /\ MayEndCase(t)
    /\ Seen(t)
    /\ groups' = [i \in 1..Len(groups) |->
                    IF i \in Distrusted THEN MergeSegments(groups[i])
                                        ELSE groups[i]]
    /\ operand' = "Unknown"
    /\ UNCHANGED <<open_by_kind, closing>>

\* A token after which a loop closes groups: none if a bracket has no
\* partner, one or two angles.
StartClosing(t) ==
    /\ \/ /\ t \in {"rparen", "rbracket", "rbrace"}
          /\ operand' = "Complete"
          /\ closing' = IF open_by_kind[GroupOf(t)] > 0 THEN GroupOf(t)
                                                        ELSE "none"
       \/ /\ t \in {"gt", "shr"} /\ Top.kind = "Angle"
          /\ operand' = "Complete"
          /\ closing' = IF t = "gt" THEN "Angle" ELSE "Angles"
       \/ /\ EndsCase(t)
          /\ operand' = "Complete"
          /\ closing' = "Case"
    /\ Seen(t)
    /\ groups' = Counted(t)
    /\ UNCHANGED open_by_kind

Pass(t) ==
    /\ ~Opens(t) /\ ~EndsSegment(t) /\ ~MayEndCase(t) /\ ~EndsCase(t)
    /\ t \notin {"rparen", "rbracket", "rbrace"}
    /\ t \in {"gt", "shr"} => Top.kind # "Angle"
    /\ Seen(t)
    /\ groups' = Counted(t)
    /\ operand' = PlaceAfter(t)
    /\ UNCHANGED <<open_by_kind, closing>>

Step(t) ==
    Open(t) \/ Split(t) \/ DistrustCaseEnds(t) \/ StartClosing(t) \/ Pass(t)

-----------------------------------------------------------------------------
\* Closing and finishing.
CloseTop ==
    LET n == Len(groups) IN
    /\ groups' = [i \in 1..(n - 1) |->
                    IF i = n - 1
                      THEN [groups[i] EXCEPT !.current = @ + Chain(Top)]
                      ELSE groups[i]]
    /\ open_by_kind' = [open_by_kind EXCEPT ![Top.kind] = @ - 1]

\* The loop of close_through ends with the first group of its kind; a >>
\* closes a second angle if there is one.
CloseOne ==
    /\ closing \in (GroupKinds \ {"Statement"}) \cup {"Angles"}
    /\ CloseTop
    /\ closing' = IF closing = "Angles"
                    THEN IF groups[Len(groups) - 1].kind = "Angle"
                           THEN "Angle" ELSE "none"
                    ELSE IF Top.kind = closing THEN "none" ELSE closing
    /\ UNCHANGED <<text, set_operators, after_operand, operand, previous,
                   counts, result, operators, totals>>

\* A semicolon, or the end of the text.
EndStatement ==
    /\ closing = "none" /\ result.outcome = "none"
    /\ \/ closing' = "Statement" /\ Len(counts) + 1 < text.statements
       \/ closing' = "Text"
    /\ UNCHANGED <<text, groups, open_by_kind, set_operators,
                   after_operand, operand, previous, counts, result, operators,
                   totals>>

Finish ==
    /\ closing \in {"Statement", "Text"}
    /\ Len(groups) > 1
    /\ CloseTop
    /\ UNCHANGED <<text, set_operators, after_operand, operand, previous,
                   closing, counts, result, operators, totals>>

NoGroups == <<NewGroup("Statement")>>
NoneOpen == [k \in GroupKinds |-> IF k = "Statement" THEN 1 ELSE 0]

Finished ==
    /\ closing \in {"Statement", "Text"}
    /\ Len(groups) = 1
    /\ counts' = Append(counts, [set_operators |-> set_operators,
                                 infix_chain |-> Chain(Top)])
    /\ totals' = Append(totals, operators)
    /\ closing' = IF closing = "Text" THEN "checked" ELSE "none"
    /\ groups' = NoGroups /\ open_by_kind' = NoneOpen
    /\ set_operators' = 0 /\ operators' = 0
    /\ after_operand' = FALSE /\ operand' = "Unknown" /\ previous' = "Other"
    /\ UNCHANGED <<text, result>>

OverLimit(c) == c.set_operators > MaxSet \/ c.infix_chain > MaxInfix

\* Every statement is checked before the first is parsed.
Check ==
    /\ closing = "checked" /\ result.outcome = "none"
    /\ \/ \E i \in DOMAIN counts :
            /\ OverLimit(counts[i])
            /\ \A j \in 1..(i - 1) : ~OverLimit(counts[j])
            /\ result' = [outcome |-> IF counts[i].set_operators > MaxSet
                                        THEN "set limit" ELSE "infix limit",
                          statement |-> i]
       \/ /\ \A i \in DOMAIN counts : ~OverLimit(counts[i])
          /\ \E outcome \in {"parsed", "syntax error", "trailing tokens"} :
                result' = [outcome |-> outcome, statement |-> 0]
    /\ UNCHANGED <<text, groups, open_by_kind, set_operators,
                   after_operand, operand, previous, closing, counts, operators,
                   totals>>

ScanInit ==
    /\ text \in Texts
    /\ groups = NoGroups /\ open_by_kind = NoneOpen
    /\ set_operators = 0 /\ operators = 0
    /\ after_operand = FALSE /\ operand = "Unknown" /\ previous = "Other"
    /\ closing = "none"
    /\ counts = <<>> /\ totals = <<>>
    /\ \E outcome \in {"none", "not tokenized"} :
          result = [outcome |-> outcome, statement |-> 0]

Rest == CloseOne \/ EndStatement \/ Finish \/ Finished \/ Check

ScanNext == (\E t \in text.tokens : Step(t)) \/ Rest

ScanSpec == ScanInit /\ [][ScanNext]_scanVars

-----------------------------------------------------------------------------
ScanTypeOK ==
    /\ text \in Texts
    /\ groups \in Seq(Group)
    /\ open_by_kind \in [GroupKinds -> Nat]
    /\ set_operators \in Nat /\ operators \in Nat
    /\ after_operand \in BOOLEAN
    /\ operand \in {"Complete", "Expected", "Unknown"}
    /\ previous \in {"Other", "Period", "DoubleColon", "TypeConstructor",
                     "CaseStart"}
    /\ closing \in GroupKinds \cup {"none", "Angles", "Text", "checked"}
    /\ counts \in Seq([set_operators : Nat, infix_chain : Nat])
    /\ totals \in Seq(Nat)
    /\ result \in [outcome : {"none", "not tokenized", "set limit",
                              "infix limit", "parsed", "syntax error",
                              "trailing tokens"}, statement : Nat]

\* A loop that closes groups finds the group it looks for above the group of
\* the statement, which stays open until the statement is finished: the three
\* expect() of the scan never fail, whatever the brackets of the text.
StatementStaysOpen ==
    /\ Len(groups) >= 1
    /\ groups[1].kind = "Statement"
    /\ \A i \in 2..Len(groups) : groups[i].kind # "Statement"
    /\ closing \in GroupKinds \ {"Statement"} =>
          \E i \in 2..Len(groups) : groups[i].kind = closing
    /\ closing = "Angles" => Len(groups) > 1 /\ Top.kind = "Angle"

\* No statement is said to be longer than it is: a statement that is refused
\* for its chain really has more infix operators than the limit, and no chain
\* is counted twice, however its segments were merged.
LimitIsDeserved ==
    /\ \A i \in DOMAIN counts : counts[i].infix_chain <= totals[i]
    /\ result.outcome = "infix limit" => totals[result.statement] > MaxInfix

\* The brackets never close the statement, and the limit is deserved
\* (close_through, finish and check_chain_lengths of parse_limits.rs).
ScanIsSound == StatementStaysOpen /\ LimitIsDeserved
=============================================================================
