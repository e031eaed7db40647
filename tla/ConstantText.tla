---------------------------- MODULE ConstantText ----------------------------
(***************************************************************************)
(* Dynamic SQL in procedural bodies: the statement extractor of            *)
(* src/engine/parser/src/lib.rs with the evaluator of constant_sql.rs.     *)
(*                                                                         *)
(* The extractor goes through the statements of a body once, from top to   *)
(* bottom, and keeps the texts that variables hold.  An EXECUTE whose      *)
(* command is known in this way is folded: its command becomes edges of    *)
(* the graph.  The body itself runs with branches, loops, handlers and     *)
(* writes that the extractor cannot see through; the second half of the    *)
(* module runs it.                                                         *)
(*                                                                         *)
(* A text is a sequence of pieces.  An expression is a sequence of         *)
(* literals, variables and calls of functions, which are joined.  A        *)
(* statement is a record; `to' is where it may jump.                       *)
(***************************************************************************)
EXTENDS Naturals, Sequences, FiniteSets, SequencesExt, FiniteSetsExt

CONSTANTS
    Bodies,
    Variables,
    Functions,        \* the atoms of an expression that are calls
    MaxText,          \* MAX_TEXT_BYTES
    MaxVariables,     \* MAX_TRACKED_VARIABLES
    MaxBytes          \* MAX_TRACKED_TEXT_BYTES

Ops == {"declare", "assign", "select", "into", "with", "call", "execute",
        "execute into", "begin", "if", "while", "exception", "end"}

ConstantTextAssumption ==
    /\ {MaxText, MaxVariables, MaxBytes} \subseteq Nat
    /\ Variables \cap Functions = {}
    /\ \A body \in Bodies : \A i \in 1..Len(body) : body[i].op \in Ops

VARIABLES
    body,
    state,        \* of the extractor
    phase,        \* "extract" or "run"
    at,           \* the next statement
    memory        \* what the variables hold while the body runs

vars == <<body, state, phase, at, memory>>

-----------------------------------------------------------------------------
(* The evaluator: the value of an expression, or nothing.                  *)

\* evaluate_with_format.
Evaluate(expression, known) ==
    LET atom(a) == IF a \in Variables THEN known[a] ELSE <<a>>
        atoms == ToSet(expression)
        value == FlattenSeq([i \in DOMAIN expression |->
                                atom(expression[i])])
    IN  IF /\ atoms \cap Functions = {}
           /\ atoms \cap Variables \subseteq DOMAIN known
           /\ Len(value) <= MaxText
        THEN {value} ELSE {}

References(expression, names) == ToSet(expression) \cap names # {}

-----------------------------------------------------------------------------
(* ExtractionState.                                                        *)

NewState ==
    [known |-> << >>, capacity |-> << >>, enabled |-> TRUE,
     outer |-> FALSE,          \* outer_block_seen
     overflow |-> FALSE,       \* tracking_overflow
     blocked |-> FALSE,        \* overflow_blocked_folding
     folded |-> << >>]         \* the commands by their statement

Without(f, names) == [v \in DOMAIN f \ names |-> f[v]]

Known(known, v, value) ==
    [u \in DOMAIN known \cup {v} |-> IF u = v THEN value ELSE known[u]]

Invalidate(s) == [s EXCEPT !.enabled = FALSE, !.known = << >>]

\* Not in the code: the limit is forgotten whatever it prevented.
InvalidateControlFlow_Forgets(s) ==
    [Invalidate(s) EXCEPT !.overflow = FALSE]

InvalidateControlFlow(s) ==
    [Invalidate(s) EXCEPT !.overflow = s.overflow /\ s.blocked]

InvalidateVariables(s, names) == [s EXCEPT !.known = Without(@, names)]

\* tracking_overflow.
Overflows(known) ==
    \/ Cardinality(DOMAIN known) > MaxVariables
    \/ MapThenSumSet(LAMBDA v : 1 + Len(known[v]), DOMAIN known) > MaxBytes

SetVariable(s, v, value, limited) ==
    IF value = {} \/ ~s.enabled THEN InvalidateVariables(s, {v})
    ELSE LET known == Known(s.known, v, CHOOSE x \in value : TRUE)
         IN  IF limited /\ Overflows(known)
             THEN [Invalidate(s) EXCEPT !.overflow = TRUE]
             ELSE [s EXCEPT !.known = known]

\* Not in the code: a value that is too long is kept.
AssignedValue_AnyLength(s, v, expression) ==
    IF s.enabled /\ v \in DOMAIN s.capacity
    THEN Evaluate(expression, s.known) ELSE {}

AssignedValue(s, v, expression) ==
    IF s.enabled /\ v \in DOMAIN s.capacity
    THEN {x \in Evaluate(expression, s.known) : Len(x) <= s.capacity[v]}
    ELSE {}

\* A type of size 0 is not a text whose values could be followed.
Declare(s, d, limited) ==
    LET fresh == [InvalidateVariables(s, {d.var}) EXCEPT
                     !.capacity = IF d.size = 0 THEN Without(@, {d.var})
                                  ELSE Known(@, d.var, d.size)]
    IN  IF d.expr = << >> THEN fresh
        ELSE SetVariable(fresh, d.var,
                         AssignedValue(fresh, d.var, d.expr), limited)

\* record_select_assignments: no assignment sees another one.
SelectAssignments(s, pairs, limited) ==
    LET targets == {p.var : p \in ToSet(pairs)}
        value(p) == IF References(p.expr, targets) THEN {}
                    ELSE AssignedValue(s, p.var, p.expr)
    IN  FoldLeft(LAMBDA t, p : SetVariable(t, p.var, value(p), limited),
                 s, pairs)

\* push_dynamic_sql; after a branch literals are still known.
Execute(s, i, expression) ==
    LET value == Evaluate(expression, s.known)
    IN  IF value = {} THEN [s EXCEPT !.blocked = @ \/ s.overflow]
        ELSE [s EXCEPT !.folded = Known(@, i, CHOOSE x \in value : TRUE)]

\* One statement of extract_procedural_statements.  The end of a block says
\* nothing to it, and the targets of an EXECUTE .. INTO are not looked at.
Step(s, i, c, limited) ==
    CASE c.op = "declare" -> Declare(s, c, limited)
      [] c.op = "assign" ->
            SetVariable(s, c.var, AssignedValue(s, c.var, c.expr), limited)
      [] c.op = "select" -> SelectAssignments(s, c.pairs, limited)
      [] c.op \in {"into", "call"} -> InvalidateVariables(s, c.names)
      [] c.op = "with" -> InvalidateVariables(s, Variables)
      [] c.op \in {"execute", "execute into"} -> Execute(s, i, c.expr)
      [] c.op = "begin" -> IF s.outer THEN InvalidateControlFlow(s)
                           ELSE [s EXCEPT !.outer = TRUE]
      [] c.op \in {"if", "while", "exception"} -> InvalidateControlFlow(s)
      [] OTHER -> s

-----------------------------------------------------------------------------
(* The run of the body in the database.                                    *)

Chance == <<"?">>        \* a value that the database computes

\* A variable of n pieces cuts a longer text; other types change it.
Fitting(size, text) ==
    IF size = 0 THEN Append(text, "pad")
    ELSE SubSeq(text, 1, IF size < Len(text) THEN size ELSE Len(text))

Holds(m, expression) ==
    LET atom(a) == IF a \in Variables THEN m[a].text
                   ELSE IF a \in Functions THEN Chance ELSE <<a>>
    IN  FlattenSeq([i \in DOMAIN expression |-> atom(expression[i])])

Store(m, v, text) == [m EXCEPT ![v].text = Fitting(m[v].size, text)]

NoValue == [size |-> 0, text |-> <<"null">>]

Command == body[at]

Init ==
    /\ body \in Bodies
    /\ state = NewState /\ phase = "extract" /\ at = 1
    /\ memory = [v \in Variables |-> NoValue]

Extract ==
    /\ phase = "extract" /\ at <= Len(body)
    /\ state' = Step(state, at, Command, TRUE)
    /\ at' = at + 1
    /\ UNCHANGED <<body, phase, memory>>

Start ==
    /\ phase = "extract" /\ at > Len(body)
    /\ phase' = "run" /\ at' = 1
    /\ UNCHANGED <<body, state, memory>>

Runs(ops) == phase = "run" /\ at <= Len(body) /\ Command.op \in ops

Goes(to) == at' = to /\ UNCHANGED <<body, state, phase>>

RunDeclare ==
    /\ Runs({"declare"})
    /\ LET new == [memory EXCEPT ![Command.var] =
                      [NoValue EXCEPT !.size = Command.size]]
       IN  memory' = IF Command.expr = << >> THEN new
                     ELSE Store(new, Command.var, Holds(memory, Command.expr))
    /\ Goes(at + 1)

RunAssign ==
    /\ Runs({"assign"})
    /\ memory' = Store(memory, Command.var, Holds(memory, Command.expr))
    /\ Goes(at + 1)

\* The order of the assignments is not defined.
RunSelect ==
    /\ Runs({"select"})
    /\ \E order \in SetToSeqs(ToSet(Command.pairs)) :
          memory' = FoldLeft(LAMBDA m, p : Store(m, p.var, Holds(m, p.expr)),
                             memory, order)
    /\ Goes(at + 1)

\* SELECT .. INTO, FETCH, RETURNING .. INTO, OUT arguments: a value from the
\* database, or none.
RunWrite ==
    /\ Runs({"into", "with", "call", "execute into"})
    /\ \E names \in SUBSET (IF Command.op = "with" THEN Variables
                            ELSE Command.names) :
          memory' = [v \in Variables |-> IF v \in names
                        THEN [memory[v] EXCEPT !.text = Chance]
                        ELSE memory[v]]
    /\ Goes(at + 1)

RunPlain ==
    /\ Runs({"execute", "begin"})
    /\ Goes(at + 1) /\ UNCHANGED memory

\* A condition: the next statement, or the one behind the branch or loop.
RunBranch ==
    /\ Runs({"if", "while"})
    /\ \E to \in {at + 1, Command.to} : Goes(to)
    /\ UNCHANGED memory

\* The end of a branch or a loop, and a handler that is not needed.
RunJump ==
    /\ Runs({"end", "exception"})
    /\ Goes(Command.to) /\ UNCHANGED memory

\* A statement of the block fails: its handler is next.
Raise ==
    /\ phase = "run"
    /\ \E e \in 1..Len(body) :
          /\ body[e].op = "exception" /\ at \in body[e].from..(e - 1)
          /\ Goes(e + 1)
    /\ UNCHANGED memory

Next ==
    \/ Extract \/ Start
    \/ RunDeclare \/ RunAssign \/ RunSelect \/ RunWrite \/ RunPlain
    \/ RunBranch \/ RunJump \/ Raise

Spec == Init /\ [][Next]_vars

-----------------------------------------------------------------------------
(* Properties.                                                             *)

\* A command that was folded into the graph is the command that the body
\* executes at this place, whenever it comes there (README.md:319-321:
\* "known text variables in straight-line code are evaluated conservatively.
\* Branches, loops, uncertain writes, unsupported conversions, and unknown
\* values invalidate that knowledge").
FoldedIsExecuted ==
    Runs({"execute", "execute into"}) /\ at \in DOMAIN state.folded =>
        Holds(memory, Command.expr) = state.folded[at]

\* What the extractor folds when nothing is too large.
Ideal ==
    FoldLeft(LAMBDA s, i : Step(s, i, body[i], FALSE), NewState,
             [i \in 1..Len(body) |-> i])

\* take_tracking_limit: what the diagnostics say of the limit.
LimitReported == state.overflow /\ state.blocked

\* If the limit on what is tracked cost a command, the body is reported as
\* partial because of the limit (SG_VARIABLE_STATE_LIMIT), however the body
\* goes on; and without a limit nothing else would have been folded.
LimitIsReported ==
    phase = "run" =>
        /\ \A i \in DOMAIN state.folded :
              /\ i \in DOMAIN Ideal.folded
              /\ state.folded[i] = Ideal.folded[i]
        /\ state.folded # Ideal.folded => LimitReported
=============================================================================
