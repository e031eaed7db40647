----------------------------- MODULE McpServer -----------------------------
(***************************************************************************)
(* The stdio server of `schemagraph serve` (src/engine/cli/src/mcp.rs).    *)
(*                                                                         *)
(* Three threads share one process:                                        *)
(*   - the input thread reads lines and sends them over `events`, a        *)
(*     channel that holds one event;                                       *)
(*   - the coordinator takes events, answers cheap requests itself, and    *)
(*     hands tool calls to the worker over `jobs`, a channel that holds    *)
(*     MaxOutstanding - 1 calls;                                           *)
(*   - the worker evaluates one call at a time and writes its answer.      *)
(* The registry maps the id of each outstanding call to its cancellation   *)
(* token; the coordinator sets a token, the worker polls it.  Each access  *)
(* to the registry is one critical section of its mutex, so it is one step *)
(* here, and every channel operation, token load and write is another.     *)
(*                                                                         *)
(* A token is identified with the number of the line that carried its      *)
(* call: the code allocates a new token for every call it registers.       *)
(***************************************************************************)
EXTENDS Naturals, Sequences, FiniteSets

CONSTANTS
    Ids,              \* request ids a client uses
    NoId,             \* stands where a line carries no usable id
    MaxOutstanding,   \* MAX_OUTSTANDING_JOBS
    MaxLines          \* bound: lines the client sends before end of input

ASSUME ServerAssumption ==
    /\ NoId \notin Ids
    /\ MaxOutstanding \in Nat \ {0, 1}
    /\ MaxLines \in Nat

VARIABLES
    inputPc, inputLine, linesRead,      \* the input thread
    events, eventsOpen, stopInput,      \* its channel and its stop flag
    coordPc, msg, initialized, result,  \* the coordinator
    jobs, jobsOpen, workerAlive,        \* the job channel and its two ends
    registry, cancelled,                \* RequestRegistry and its tokens
    workerPc, job, partial, workerOk,   \* the worker
    writerOpen, out                     \* standard output

inputVars  == <<inputPc, inputLine, linesRead>>
eventVars  == <<events, eventsOpen, stopInput>>
coordVars  == <<coordPc, msg, initialized, result>>
jobVars    == <<jobs, jobsOpen, workerAlive>>
tokenVars  == <<registry, cancelled>>
workerVars == <<workerPc, job, partial, workerOk>>
outputVars == <<writerOpen, out>>
vars == <<inputVars, eventVars, coordVars, jobVars, tokenVars, workerVars,
          outputVars>>

----------------------------------------------------------------------------
(* What travels: lines, events, jobs, responses.                           *)

LineNumbers == 1..(MaxLines + 1)

\* "invalid" stands for every message answered with an error that names no
\* registered call (oversized, unparsable, not a request); "blank" for what is
\* skipped silently; "list" for the requests the coordinator answers itself
\* once initialized, a tool call with bad arguments included.
AddressedKinds == {"initialize", "ping", "list", "call", "cancel"}
PlainKinds == {"eof", "error", "blank", "invalid", "initialized"}

\* Faulty variant: the reader keeps reading after the end of input.
LastKinds_ErrorOnly == {"error"}

\* What ends read_inputs.
LastKinds == {"eof", "error"}

Line == [kind : AddressedKinds, id : Ids, n : LineNumbers]
          \cup [kind : PlainKinds, id : {NoId}, n : LineNumbers]

NoLine == [kind |-> "blank", id |-> NoId, n |-> 0]

Event == [kind : {"input"}, line : Line] \cup [kind : {"finished"}, ok : BOOLEAN]

Job == [id : Ids, n : LineNumbers]

Response == [n : LineNumbers, partial : BOOLEAN]

None == 0                               \* an id without a registry entry

Registered == {i \in Ids : registry[i] # None}

InputTypeOK ==
    /\ inputPc \in {"check", "read", "send", "stopped"}
    /\ inputLine \in IF inputPc = "send" THEN Line ELSE {NoLine}
    /\ linesRead \in 0..(MaxLines + 1)

EventTypeOK ==
    /\ events \in Seq(Event) /\ Len(events) <= 1
    /\ eventsOpen \in BOOLEAN /\ stopInput \in BOOLEAN

CoordTypeOK ==
    /\ coordPc \in {"recv", "handle", "insert", "offer", "reply", "leave",
                    "cancelAll", "stop", "close", "join", "joinInput", "exited"}
    /\ msg \in Line \cup {NoLine}
    /\ coordPc \in {"handle", "insert", "offer", "reply"} => msg \in Line
    /\ coordPc \in {"insert", "offer"} => msg.kind = "call"
    /\ initialized \in BOOLEAN
    /\ result \in {"running", "ok", "err"}

JobTypeOK ==
    /\ jobs \in Seq(Job) /\ Len(jobs) < MaxOutstanding
    /\ jobsOpen \in BOOLEAN /\ workerAlive \in BOOLEAN

TokenTypeOK ==
    /\ registry \in [Ids -> LineNumbers \cup {None}]
    /\ cancelled \in SUBSET LineNumbers

WorkerTypeOK ==
    /\ workerPc \in {"recv", "start", "evaluate", "finish", "skip", "write",
                     "notify", "done"}
    /\ job \in IF workerPc \in {"start", "evaluate", "finish", "skip", "write"}
               THEN Job ELSE {NoLine}
    /\ partial \in BOOLEAN /\ workerOk \in BOOLEAN

OutputTypeOK == writerOpen \in BOOLEAN /\ out \in Seq(Response)

TypeOK ==
    /\ InputTypeOK /\ EventTypeOK /\ CoordTypeOK /\ JobTypeOK
    /\ TokenTypeOK /\ WorkerTypeOK /\ OutputTypeOK

Init ==
    /\ inputPc = "check" /\ inputLine = NoLine /\ linesRead = 0
    /\ events = <<>> /\ eventsOpen = TRUE /\ stopInput = FALSE
    /\ coordPc = "recv" /\ msg = NoLine
    /\ initialized = FALSE /\ result = "running"
    /\ jobs = <<>> /\ jobsOpen = TRUE /\ workerAlive = TRUE
    /\ registry = [i \in Ids |-> None] /\ cancelled = {}
    /\ workerPc = "recv" /\ job = NoLine
    /\ partial = FALSE /\ workerOk = TRUE
    /\ writerOpen = TRUE /\ out = <<>>

----------------------------------------------------------------------------
(* The input thread: read_inputs.                                          *)

CheckStop ==
    /\ inputPc = "check"
    /\ inputPc' = IF stopInput THEN "stopped" ELSE "read"
    /\ UNCHANGED <<inputLine, linesRead, eventVars, coordVars, jobVars,
                   tokenVars, workerVars, outputVars>>

\* A blocking read of standard input: nothing wakes it but a line, the end of
\* input or a read error (a panic of the reader is reported like one).
ReadLine ==
    /\ inputPc = "read"
    /\ \E l \in Line :
          /\ l.n = linesRead + 1
          /\ l.kind \in LastKinds \/ linesRead < MaxLines
          /\ inputLine' = l
    /\ linesRead' = linesRead + 1
    /\ inputPc' = "send"
    /\ UNCHANGED <<eventVars, coordVars, jobVars, tokenVars, workerVars,
                   outputVars>>

EventSlotFree == eventsOpen /\ Len(events) < 1

SendLine ==
    /\ inputPc = "send"
    /\ EventSlotFree
    /\ events' = Append(events, [kind |-> "input", line |-> inputLine])
    /\ inputPc' = IF inputLine.kind \in LastKinds THEN "stopped" ELSE "check"
    /\ inputLine' = NoLine
    /\ UNCHANGED <<linesRead, eventsOpen, stopInput, coordVars,
                   jobVars, tokenVars, workerVars, outputVars>>

\* The coordinator dropped its receiver: the send fails and the thread ends.
SendLineFails ==
    /\ inputPc = "send"
    /\ ~eventsOpen
    /\ inputPc' = "stopped"
    /\ inputLine' = NoLine
    /\ UNCHANGED <<linesRead, eventVars, coordVars, jobVars,
                   tokenVars, workerVars, outputVars>>

----------------------------------------------------------------------------
(* The coordinator: coordinate, handle_message, enqueue_job.               *)

Respond(n, p) == out' = Append(out, [n |-> n, partial |-> p])

TakeInput ==
    /\ coordPc = "recv"
    /\ events # <<>>
    /\ Head(events).kind = "input"
    /\ LET l == Head(events).line IN
       /\ events' = Tail(events)
       /\ msg' = l
       /\ jobsOpen' = (jobsOpen /\ l.kind # "eof")
       /\ coordPc' = CASE l.kind = "error" -> "leave"
                       [] l.kind \in {"eof", "blank"} -> "recv"
                       [] OTHER -> "handle"
       /\ result' = IF l.kind = "error" THEN "err" ELSE result
    /\ UNCHANGED <<eventsOpen, stopInput, inputVars, initialized, jobs,
                   workerAlive, tokenVars, workerVars, outputVars>>

TakeWorkerFinished ==
    /\ coordPc = "recv"
    /\ events # <<>>
    /\ Head(events).kind = "finished"
    /\ events' = Tail(events)
    /\ result' = IF Head(events).ok THEN "ok" ELSE "err"
    /\ coordPc' = "leave"
    /\ UNCHANGED <<eventsOpen, stopInput, inputVars, msg, initialized, jobVars,
                   tokenVars, workerVars, outputVars>>

\* notifications/cancelled: set the token the id maps to now, if there is one.
HandleCancel ==
    /\ coordPc = "handle"
    /\ msg.kind = "cancel"
    /\ cancelled' = cancelled \cup ({registry[msg.id]} \ {None})
    /\ coordPc' = "recv"
    /\ UNCHANGED <<inputVars, eventVars, msg, initialized, result, jobVars,
                   registry, workerVars, outputVars>>

HandleInitialized ==
    /\ coordPc = "handle"
    /\ msg.kind = "initialized"
    /\ initialized' = TRUE
    /\ coordPc' = "recv"
    /\ UNCHANGED <<inputVars, eventVars, msg, result, jobVars, tokenVars,
                   workerVars, outputVars>>

IsActive(i) == registry[i] # None

\* handle_initialize: whatever it answers, the session is uninitialized after
\* it, also when it is repeated.
StaysInitialized == initialized /\ (msg.kind = "initialize" => IsActive(msg.id))

\* Every message handle_message answers itself.  A duplicate of an active id is
\* refused before its method is looked at.
HandleReply ==
    /\ coordPc = "handle"
    /\ \/ msg.kind = "invalid"
       \/ msg.kind \in {"initialize", "ping", "list"}
       \/ msg.kind = "call" /\ (IsActive(msg.id) \/ ~initialized)
    /\ initialized' = StaysInitialized
    /\ coordPc' = "reply"
    /\ UNCHANGED <<inputVars, eventVars, msg, result, jobVars, tokenVars,
                   workerVars, outputVars>>

HandleCall ==
    /\ coordPc = "handle"
    /\ msg.kind = "call"
    /\ ~IsActive(msg.id)
    /\ initialized
    /\ coordPc' = "insert"
    /\ UNCHANGED <<inputVars, eventVars, msg, initialized, result, jobVars,
                   tokenVars, workerVars, outputVars>>

\* enqueue_job, first half: the critical section that checks and registers.
InsertToken ==
    /\ coordPc = "insert"
    /\ LET refused == IsActive(msg.id)
                        \/ Cardinality(Registered) >= MaxOutstanding
       IN /\ coordPc' = IF refused THEN "reply" ELSE "offer"
          /\ registry' = IF refused THEN registry
                         ELSE [registry EXCEPT ![msg.id] = msg.n]
    /\ UNCHANGED <<inputVars, eventVars, msg, initialized, result, jobVars,
                   cancelled, workerVars, outputVars>>

\* Faulty variant: the entry is kept when its call is over.
Unregister_Leaks(i, n) == UNCHANGED registry

Unregister(i, n) ==
    registry' = IF registry[i] = n THEN [registry EXCEPT ![i] = None]
                ELSE registry

\* enqueue_job, second half: try_send outside the lock, and its two errors.
OfferAccepted ==
    /\ coordPc = "offer"
    /\ workerAlive
    /\ Len(jobs) < MaxOutstanding - 1
    /\ jobs' = Append(jobs, [id |-> msg.id, n |-> msg.n])
    /\ coordPc' = "recv"
    /\ UNCHANGED <<inputVars, eventVars, msg, initialized, result, jobsOpen,
                   workerAlive, tokenVars, workerVars, outputVars>>

OfferFull ==
    /\ coordPc = "offer"
    /\ workerAlive
    /\ Len(jobs) = MaxOutstanding - 1
    /\ Unregister(msg.id, msg.n)
    /\ coordPc' = "reply"
    /\ UNCHANGED <<inputVars, eventVars, msg, initialized, result, jobVars,
                   cancelled, workerVars, outputVars>>

OfferDisconnected ==
    /\ coordPc = "offer"
    /\ ~workerAlive
    /\ Unregister(msg.id, msg.n)
    /\ result' = "err"
    /\ coordPc' = "leave"
    /\ UNCHANGED <<inputVars, eventVars, msg, initialized, jobVars, cancelled,
                   workerVars, outputVars>>

WriteReply ==
    /\ coordPc = "reply"
    /\ writerOpen
    /\ Respond(msg.n, FALSE)
    /\ coordPc' = "recv"
    /\ UNCHANGED <<inputVars, eventVars, msg, initialized, result, jobVars,
                   tokenVars, workerVars, writerOpen>>

WriteReplyFails ==
    /\ coordPc = "reply"
    /\ ~writerOpen
    /\ result' = "err"
    /\ coordPc' = "leave"
    /\ UNCHANGED <<inputVars, eventVars, msg, initialized, jobVars, tokenVars,
                   workerVars, outputVars>>

----------------------------------------------------------------------------
(* Shutdown: the rest of serve, after coordinate returned.                 *)

\* coordinate owns the job sender, so returning from it closes the channel.
LeaveCoordinate ==
    /\ coordPc = "leave"
    /\ jobsOpen' = FALSE
    /\ coordPc' = IF result = "err" THEN "cancelAll" ELSE "stop"
    /\ UNCHANGED <<inputVars, eventVars, msg, initialized, result, jobs,
                   workerAlive, tokenVars, workerVars, outputVars>>

CancelAll ==
    /\ coordPc = "cancelAll"
    /\ cancelled' = cancelled \cup {registry[i] : i \in Registered}
    /\ coordPc' = "stop"
    /\ UNCHANGED <<inputVars, eventVars, msg, initialized, result, jobVars,
                   registry, workerVars, outputVars>>

StopInput ==
    /\ coordPc = "stop"
    /\ stopInput' = TRUE
    /\ coordPc' = "close"
    /\ UNCHANGED <<inputVars, events, eventsOpen, msg, initialized, result,
                   jobVars, tokenVars, workerVars, outputVars>>

\* Faulty variant: the receiver is kept until the worker has been joined.
CloseEvents_TooLate ==
    /\ coordPc = "close"
    /\ coordPc' = "join"
    /\ UNCHANGED <<inputVars, eventVars, msg, initialized, result, jobVars,
                   tokenVars, workerVars, outputVars>>

CloseEvents ==
    /\ coordPc = "close"
    /\ eventsOpen' = FALSE
    /\ events' = <<>>
    /\ coordPc' = "join"
    /\ UNCHANGED <<inputVars, stopInput, msg, initialized, result, jobVars,
                   tokenVars, workerVars, outputVars>>

JoinWorker ==
    /\ coordPc = "join"
    /\ workerPc = "done"
    /\ coordPc' = IF result = "ok" THEN "joinInput" ELSE "exited"
    /\ UNCHANGED <<inputVars, eventVars, msg, initialized, result, jobVars,
                   tokenVars, workerVars, outputVars>>

\* After an error the reader is joined only if it has finished, so only this
\* wait can block.
JoinInput ==
    /\ coordPc = "joinInput"
    /\ inputPc = "stopped"
    /\ coordPc' = "exited"
    /\ UNCHANGED <<inputVars, eventVars, msg, initialized, result, jobVars,
                   tokenVars, workerVars, outputVars>>

----------------------------------------------------------------------------
(* The worker: worker_loop_with, finish_job.                               *)

TakeJob ==
    /\ workerPc = "recv"
    /\ jobs # <<>>
    /\ job' = Head(jobs)
    /\ jobs' = Tail(jobs)
    /\ workerPc' = "start"
    /\ UNCHANGED <<inputVars, eventVars, coordVars, jobsOpen, workerAlive,
                   tokenVars, partial, workerOk, outputVars>>

\* worker_loop returned: the receiver and whatever it still held are dropped.
WorkerEnds(ok) ==
    /\ workerOk' = ok
    /\ workerAlive' = FALSE
    /\ jobs' = <<>>
    /\ job' = NoLine /\ partial' = FALSE
    /\ workerPc' = "notify"

\* Faulty variant: a closed channel ends the worker before it is drained.
JobsExhausted_Undrained == ~jobsOpen

\* recv fails only when the sender is gone and nothing is queued any more.
JobsExhausted == jobs = <<>> /\ ~jobsOpen

NoMoreJobs ==
    /\ workerPc = "recv"
    /\ JobsExhausted
    /\ WorkerEnds(TRUE)
    /\ UNCHANGED <<inputVars, eventVars, coordVars, jobsOpen, tokenVars,
                   outputVars>>

StartJob ==
    /\ workerPc = "start"
    /\ workerPc' = IF job.n \in cancelled THEN "skip" ELSE "evaluate"
    /\ UNCHANGED <<inputVars, eventVars, coordVars, jobVars, tokenVars, job,
                   partial, workerOk, outputVars>>

\* The tools poll the token while they run: one that is set by the time they
\* return may or may not have been seen, and if it was the result is cut short.
Evaluate ==
    /\ workerPc = "evaluate"
    /\ partial' \in BOOLEAN
    /\ partial' => job.n \in cancelled
    /\ workerPc' = "finish"
    /\ UNCHANGED <<inputVars, eventVars, coordVars, jobVars, tokenVars, job,
                   workerOk, outputVars>>

WorkerPanics ==
    /\ workerPc = "evaluate"
    /\ WorkerEnds(FALSE)
    /\ UNCHANGED <<inputVars, eventVars, coordVars, jobsOpen, tokenVars,
                   outputVars>>

\* Faulty variant: only what the evaluation saw of the token counts.
Suppress_SeenByTool == partial

Suppress == registry[job.id] = job.n /\ job.n \in cancelled

\* finish_job: one critical section decides whether the answer is suppressed
\* and frees the id.
FinishJob ==
    /\ workerPc \in {"finish", "skip"}
    /\ IF workerPc = "finish" /\ ~Suppress
       THEN workerPc' = "write" /\ UNCHANGED <<job, partial>>
       ELSE workerPc' = "recv" /\ job' = NoLine /\ partial' = FALSE
    /\ Unregister(job.id, job.n)
    /\ UNCHANGED <<inputVars, eventVars, coordVars, jobVars, cancelled,
                   workerOk, outputVars>>

WriteAnswer ==
    /\ workerPc = "write"
    /\ writerOpen
    /\ Respond(job.n, partial)
    /\ workerPc' = "recv"
    /\ job' = NoLine /\ partial' = FALSE
    /\ UNCHANGED <<inputVars, eventVars, coordVars, jobVars, tokenVars,
                   workerOk, writerOpen>>

WriteAnswerFails ==
    /\ workerPc = "write"
    /\ ~writerOpen
    /\ WorkerEnds(FALSE)
    /\ UNCHANGED <<inputVars, eventVars, coordVars, jobsOpen, tokenVars,
                   outputVars>>

\* The completion event waits for the one-event channel, or is thrown away
\* once the coordinator dropped its receiver.
Notify ==
    /\ workerPc = "notify"
    /\ EventSlotFree
    /\ events' = Append(events, [kind |-> "finished", ok |-> workerOk])
    /\ workerPc' = "done"
    /\ UNCHANGED <<inputVars, eventsOpen, stopInput, coordVars, jobVars,
                   tokenVars, job, partial, workerOk, outputVars>>

NotifyFails ==
    /\ workerPc = "notify"
    /\ ~eventsOpen
    /\ workerPc' = "done"
    /\ UNCHANGED <<inputVars, eventVars, coordVars, jobVars, tokenVars, job,
                   partial, workerOk, outputVars>>

----------------------------------------------------------------------------
\* The client closes its end of standard output.
BreakWriter ==
    /\ writerOpen
    /\ writerOpen' = FALSE
    /\ UNCHANGED <<inputVars, eventVars, coordVars, jobVars, tokenVars,
                   workerVars, out>>

\* The process has exited: nothing is left to do.
Exited == coordPc = "exited" /\ UNCHANGED vars

Input == CheckStop \/ ReadLine \/ SendLine \/ SendLineFails

Coordinator ==
    \/ TakeInput \/ TakeWorkerFinished
    \/ HandleCancel \/ HandleInitialized \/ HandleReply \/ HandleCall
    \/ InsertToken \/ OfferAccepted \/ OfferFull \/ OfferDisconnected
    \/ WriteReply \/ WriteReplyFails
    \/ LeaveCoordinate \/ CancelAll \/ StopInput \/ CloseEvents
    \/ JoinWorker \/ JoinInput

Worker ==
    \/ TakeJob \/ NoMoreJobs \/ StartJob \/ Evaluate \/ WorkerPanics
    \/ FinishJob \/ WriteAnswer \/ WriteAnswerFails \/ Notify \/ NotifyFails

Next == Input \/ Coordinator \/ Worker \/ BreakWriter \/ Exited

Spec == Init /\ [][Next]_vars

\* Every thread that can run eventually does, a blocked one being the only
\* exception: read_line waits for the client, and nobody owes the server a
\* line.  Evaluate and WorkerPanics belong to the same step of the worker.
Fairness ==
    /\ WF_vars(Coordinator)
    /\ WF_vars(Worker)
    /\ WF_vars(CheckStop \/ SendLine \/ SendLineFails)

FairSpec == Spec /\ Fairness

----------------------------------------------------------------------------
(* Properties.                                                             *)

Held == IF workerPc \in {"start", "evaluate", "finish", "skip"}
        THEN {[id |-> job.id, n |-> job.n]} ELSE {}

Queued == {jobs[k] : k \in DOMAIN jobs}

Offered == IF coordPc = "offer" THEN {[id |-> msg.id, n |-> msg.n]} ELSE {}

\* The registry holds exactly the calls that are queued, held by the worker or
\* being offered to it, each under its own id: a slot is never leaked, which
\* would in the end refuse every call as busy, and never freed early, which
\* would let a second call with the same id run.  A dead worker leaves its
\* entries behind, but the server is then shutting down.
\* (enqueue_job, finish_job and remove_job, mcp.rs.)
RegistryMatchesWork ==
    workerAlive =>
        {[id |-> i, n |-> registry[i]] : i \in Registered}
            = Held \cup Queued \cup Offered

\* A call whose token was set is never answered, and no result that was cut
\* short by a cancellation is ever written as if it were the answer: the token
\* is checked and the id freed in one critical section (finish_job), whatever
\* the cancel notification overtakes.
CancelledStaysSilent ==
    \A k \in DOMAIN out : out[k].n \notin cancelled /\ ~out[k].partial

\* The two errors coordinate calls unexpected cannot happen: a tool call never
\* reaches enqueue_job once the end of input dropped the job sender, and the
\* event channel is never found closed, because the worker posts its completion
\* before its sender goes away.
NothingUnexpected ==
    /\ coordPc \in {"insert", "offer"} => jobsOpen
    /\ coordPc = "recv" /\ inputPc = "stopped" /\ workerPc = "done"
          => events # <<>>

\* Closing standard input drains: a server that exits without an error has
\* decided every call it admitted and holds no answer back (serve, mcp.rs).
DrainedAtExit ==
    coordPc = "exited" /\ result = "ok" =>
        Registered = {} /\ jobs = <<>> /\ workerPc = "done"

\* What the server promises: McpRequests, with the status of a message read off
\* the registry, the tokens, the worker and standard output.
Written == {out[k].n : k \in DOMAIN out}

IsRequest(l) == l.kind \in {"invalid", "initialize", "ping", "list", "call"}

\* Not taken yet, or a request that is being looked at.
Untouched(n) ==
    \/ n > msg.n
    \/ /\ n = msg.n
       /\ coordPc \in {"handle", "insert", "offer", "reply"}
       /\ IsRequest(msg)

StatusOf(n) ==
    IF n \in Written THEN "answered"
    ELSE IF Untouched(n) THEN "new"
    ELSE IF \E i \in Ids : registry[i] = n
         THEN IF n \in cancelled THEN "cancelled" ELSE "pending"
    ELSE IF workerPc = "write" /\ job.n = n THEN "committed"
    ELSE "dropped"

Requests == INSTANCE McpRequests WITH
    Messages <- LineNumbers,
    status <- [n \in LineNumbers |-> StatusOf(n)],
    connected <- writerOpen

\* Every step of the threads is a step of McpRequests or changes nothing there:
\* at most one answer per message, at most MaxOutstanding undecided calls, and
\* one decision per call.
ImplementsRequests == Requests!Spec

Asked(n) == coordPc = "handle" /\ msg.n = n /\ IsRequest(msg)

\* Every request the coordinator takes is eventually answered, unless it is
\* cancelled or the server fails: no request waits on a thread that waits on
\* another.
RequestsResolved ==
    \A n \in LineNumbers :
        Asked(n) ~> n \in Written \cup cancelled \/ result = "err"

\* Shutdown completes, whatever the threads are doing when it starts: after the
\* end of input, a read error, a failed write or a panic of the worker the
\* process exits, although both channels may be full and the reader may be
\* blocked in a read nobody can interrupt.
ServerStops ==
    inputPc = "stopped" \/ ~workerAlive \/ result = "err" ~> coordPc = "exited"
=============================================================================
