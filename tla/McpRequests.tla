---------------------------- MODULE McpRequests ----------------------------
(***************************************************************************)
(* What `schemagraph serve` promises of every message it receives, apart   *)
(* from the threads, channels and locks that McpServer describes.          *)
(*                                                                         *)
(* A message is answered at most once.  A tool call is first admitted,     *)
(* with at most MaxOutstanding admitted and undecided at a time.  Either a *)
(* cancellation or the completion of the call decides it, never both: a    *)
(* cancelled call is dropped without an answer, a committed one can no     *)
(* longer be cancelled.                                                    *)
(***************************************************************************)
EXTENDS Naturals, FiniteSets

CONSTANTS
    Messages,        \* the messages a client may send
    MaxOutstanding   \* admitted calls not decided yet, at most: positive

VARIABLES
    status,          \* status[m]: what has become of message m
    connected        \* the client still reads what the server writes

vars == <<status, connected>>

Statuses ==
    {"new", "pending", "cancelled", "committed", "answered", "dropped"}

TypeOK ==
    /\ status \in [Messages -> Statuses]
    /\ connected \in BOOLEAN

Undecided == {m \in Messages : status[m] \in {"pending", "cancelled"}}

Init ==
    /\ status = [m \in Messages |-> "new"]
    /\ connected = TRUE

Move(m, from, to) ==
    /\ UNCHANGED connected
    /\ status[m] = from
    /\ status' = [status EXCEPT ![m] = to]

\* A message the server answers on the spot: a reply or an error.
Reply(m) == Move(m, "new", "answered")

\* A notification, or a message whose answer could not be written.
Ignore(m) == Move(m, "new", "dropped")

Admit(m) ==
    /\ Move(m, "new", "pending")
    /\ Cardinality(Undecided) < MaxOutstanding

Cancel(m) == Move(m, "pending", "cancelled")

\* Fatal shutdown gives every call that is still undecided up.
CancelAll ==
    /\ \E m \in Messages : status[m] = "pending"
    /\ status' = [m \in Messages |->
                    IF status[m] = "pending" THEN "cancelled" ELSE status[m]]
    /\ UNCHANGED connected

Commit(m) == Move(m, "pending", "committed")

Deliver(m) == Move(m, "committed", "answered")

Drop(m) == Move(m, "cancelled", "dropped")

\* A committed answer is lost only when the client has gone away.
Lose(m) == ~connected /\ Move(m, "committed", "dropped")

Disconnect == connected' = FALSE /\ UNCHANGED status

Next ==
    \/ \E m \in Messages :
          \/ Reply(m) \/ Ignore(m) \/ Admit(m) \/ Cancel(m)
          \/ Commit(m) \/ Deliver(m) \/ Drop(m) \/ Lose(m)
    \/ CancelAll \/ Disconnect

Spec == Init /\ [][Next]_vars
=============================================================================
