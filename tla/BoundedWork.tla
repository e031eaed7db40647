----------------------------- MODULE BoundedWork ----------------------------
(***************************************************************************)
(* The two places where the program bounds its own work before it is too   *)
(* late: the neighbour search, which counts the vertices and edges it has  *)
(* used (BudgetedWalk), and the scan of a SQL text, which counts how deep  *)
(* its tree would be (ChainScan, with the tree beside it in ChainDepth).   *)
(* A behaviour does one of the two; the other has not begun.               *)
(***************************************************************************)
EXTENDS BudgetedWalk, ChainDepth

VARIABLE work

NoText == [sql |-> FALSE, tokens |-> {}, operators |-> 0, groups |-> 0,
           statements |-> 0]

NoScan ==
    /\ text = NoText /\ groups = NoGroups /\ open_by_kind = NoneOpen
    /\ set_operators = 0 /\ operators = 0
    /\ after_operand = FALSE /\ operand = "Unknown" /\ previous = "Other"
    /\ closing = "none" /\ counts = << >> /\ totals = << >>
    /\ result = [outcome |-> "none", statement |-> 0]
    /\ nest = Outermost /\ place = "start" /\ depths = << >>

NoWalk ==
    /\ graph = {} /\ query = << >> /\ cancel = FALSE /\ pc = "start"
    /\ seen = << >> /\ queue = << >> /\ current = 0 /\ pending = {}
    /\ visited = 0 /\ examined = 0 /\ reasons = {} /\ neighbors = {}
    /\ complete = FALSE

WorkInit ==
    \/ work = "walk" /\ Init /\ NoScan
    \/ work = "scan" /\ DepthInit /\ NoWalk

WorkNext ==
    \/ work = "walk" /\ Next /\ UNCHANGED <<work, depthVars>>
    \/ work = "scan" /\ DepthNext /\ UNCHANGED <<work, vars>>

WorkSpec == WorkInit /\ [][WorkNext]_<<work, vars, depthVars>>
=============================================================================
