-------------------------- MODULE McpServerProofs --------------------------
(***************************************************************************)
(* Proofs about McpServer for every set of ids, every capacity above one   *)
(* and every number of lines.                                              *)
(***************************************************************************)
EXTENDS McpServer, SequenceTheorems, FiniteSetTheorems, TLAPS

\* The shape of the lines the input thread reads: addressed kinds carry an id.
LEMMA LineFacts ==
    /\ \A l \in Line : l.n \in LineNumbers
    /\ \A l \in Line : l.kind \in AddressedKinds => l.id \in Ids
  BY DEF Line, AddressedKinds, PlainKinds

\* Line numbers are naturals, and None, which marks a free id, is not one.
LEMMA NumberFacts == LineNumbers \subseteq Nat /\ None \notin LineNumbers
  BY ServerAssumption DEF LineNumbers, None

\* What Append, Head and Tail do to the length and the elements of a queue.
LEMMA SequenceFacts ==
    ASSUME NEW S, NEW s \in Seq(S), NEW e \in S
    PROVE  /\ Append(s, e) \in Seq(S) /\ Len(Append(s, e)) = Len(s) + 1
           /\ s # <<>> => /\ Head(s) \in S /\ Tail(s) \in Seq(S)
                          /\ Len(Tail(s)) = Len(s) - 1
           /\ Len(s) \in Nat /\ <<>> \in Seq(S)
           /\ s # <<>> <=> Len(s) > 0
  BY AppendProperties, HeadTailProperties, EmptySeq, LenProperties

\* The empty channel.
LEMMA NoSequence ==
    \A S : <<>> \in Seq(S) /\ Len(<<>>) = 0
  BY EmptySeq

\* Taking the event out of a channel of one empties it.
LEMMA TailIsEmpty ==
    ASSUME NEW S, NEW s \in Seq(S), s # <<>>, Len(s) <= 1
    PROVE  Tail(s) = <<>> /\ DOMAIN s = {1} /\ Head(s) = s[1]
  <1>1. Len(s) = 1
    <2>1. Len(s) \in Nat \ {0}
      BY EmptySeq
    <2>2. QED
      BY <2>1
  <1>2. Tail(s) \in Seq(S) /\ Len(Tail(s)) = 0 /\ Head(s) = s[1]
    BY <1>1, HeadTailProperties
  <1>3. Tail(s) = <<>>
    BY <1>2, EmptySeq
  <1>4. QED
    BY <1>1, <1>2, <1>3, LenProperties

\* A step that leaves the variables of a thread or channel alone keeps their
\* types.
LEMMA TypeFrame ==
    /\ InputTypeOK /\ UNCHANGED inputVars => InputTypeOK'
    /\ EventTypeOK /\ UNCHANGED eventVars => EventTypeOK'
    /\ CoordTypeOK /\ UNCHANGED coordVars => CoordTypeOK'
    /\ JobTypeOK /\ UNCHANGED jobVars => JobTypeOK'
    /\ TokenTypeOK /\ UNCHANGED tokenVars => TokenTypeOK'
    /\ WorkerTypeOK /\ UNCHANGED workerVars => WorkerTypeOK'
    /\ OutputTypeOK /\ UNCHANGED outputVars => OutputTypeOK'
  <1>1. InputTypeOK /\ UNCHANGED inputVars => InputTypeOK'
    BY DEF InputTypeOK, inputVars
  <1>2. EventTypeOK /\ UNCHANGED eventVars => EventTypeOK'
    BY DEF EventTypeOK, eventVars
  <1>3. CoordTypeOK /\ UNCHANGED coordVars => CoordTypeOK'
    BY DEF CoordTypeOK, coordVars
  <1>4. JobTypeOK /\ UNCHANGED jobVars => JobTypeOK'
    BY DEF JobTypeOK, jobVars
  <1>5. TokenTypeOK /\ UNCHANGED tokenVars => TokenTypeOK'
    BY DEF TokenTypeOK, tokenVars
  <1>6. WorkerTypeOK /\ UNCHANGED workerVars => WorkerTypeOK'
    BY DEF WorkerTypeOK, workerVars
  <1>7. OutputTypeOK /\ UNCHANGED outputVars => OutputTypeOK'
    BY DEF OutputTypeOK, outputVars
  <1>8. QED
    BY <1>1, <1>2, <1>3, <1>4, <1>5, <1>6, <1>7

\* The initial state is well typed.
LEMMA TypeInit == Init => TypeOK
  <1> SUFFICES ASSUME Init PROVE TypeOK
    OBVIOUS
  <1>1. InputTypeOK
    BY ServerAssumption DEF Init, InputTypeOK
  <1>2. events \in Seq(Event) /\ Len(events) <= 1
    BY NoSequence DEF Init
  <1>3. jobs \in Seq(Job) /\ Len(jobs) < MaxOutstanding
    BY NoSequence, ServerAssumption DEF Init
  <1>4. out \in Seq(Response)
    BY NoSequence DEF Init
  <1>5. CoordTypeOK
    BY DEF Init, CoordTypeOK
  <1>6. TokenTypeOK
    BY DEF Init, TokenTypeOK
  <1>7. WorkerTypeOK
    BY DEF Init, WorkerTypeOK
  <1>8. QED
    BY <1>1, <1>2, <1>3, <1>4, <1>5, <1>6, <1>7
    DEF Init, TypeOK, EventTypeOK, JobTypeOK, OutputTypeOK

\* The input thread keeps the types.
LEMMA InputTypes == TypeOK /\ Input => TypeOK'
  <1> SUFFICES ASSUME TypeOK, Input PROVE TypeOK'
    OBVIOUS
  <1> USE TypeFrame DEF TypeOK
  <1>1. CASE CheckStop
    BY <1>1 DEF CheckStop, InputTypeOK
  <1>2. CASE ReadLine
    BY <1>2, LineFacts, ServerAssumption DEF ReadLine, InputTypeOK, LineNumbers
  <1>3. CASE SendLine
    BY <1>3 DEF SendLine, InputTypeOK, EventTypeOK, Event, EventSlotFree
  <1>4. CASE SendLineFails
    BY <1>4 DEF SendLineFails, InputTypeOK
  <1>5. QED
    BY <1>1, <1>2, <1>3, <1>4 DEF Input

\* The coordinator keeps the types.
LEMMA CoordinatorTypes == TypeOK /\ Coordinator => TypeOK'
  <1> SUFFICES ASSUME TypeOK, Coordinator PROVE TypeOK'
    OBVIOUS
  <1> USE TypeFrame DEF TypeOK
  <1>1. CASE TakeInput
    BY <1>1 DEF TakeInput, CoordTypeOK, EventTypeOK, Event, JobTypeOK
  <1>2. CASE TakeWorkerFinished
    BY <1>2 DEF TakeWorkerFinished, CoordTypeOK, EventTypeOK
  <1>3. CASE HandleCancel
    BY <1>3, LineFacts
    DEF HandleCancel, CoordTypeOK, TokenTypeOK, AddressedKinds, None
  <1>4. CASE HandleInitialized
    BY <1>4 DEF HandleInitialized, CoordTypeOK
  <1>5. CASE HandleReply
    BY <1>5 DEF HandleReply, StaysInitialized, CoordTypeOK
  <1>6. CASE HandleCall
    BY <1>6 DEF HandleCall, CoordTypeOK
  <1>7. CASE InsertToken
    BY <1>7, LineFacts DEF InsertToken, AddressedKinds, CoordTypeOK, TokenTypeOK
  <1>8. CASE OfferAccepted
    BY <1>8, SequenceFacts, LineFacts, ServerAssumption
    DEF OfferAccepted, CoordTypeOK, JobTypeOK, Job, AddressedKinds
  <1>9. CASE OfferFull
    BY <1>9 DEF OfferFull, CoordTypeOK, Unregister, TokenTypeOK
  <1>10. CASE OfferDisconnected
    BY <1>10 DEF OfferDisconnected, CoordTypeOK, Unregister, TokenTypeOK
  <1>11. CASE WriteReply
    BY <1>11, SequenceFacts, LineFacts DEF WriteReply, CoordTypeOK, Respond, Response, OutputTypeOK
  <1>12. CASE WriteReplyFails
    BY <1>12 DEF WriteReplyFails, CoordTypeOK
  <1>13. CASE LeaveCoordinate
    BY <1>13 DEF LeaveCoordinate, CoordTypeOK, JobTypeOK
  <1>14. CASE CancelAll
    BY <1>14 DEF CancelAll, Registered, CoordTypeOK, TokenTypeOK
  <1>15. CASE StopInput
    BY <1>15 DEF StopInput, CoordTypeOK, EventTypeOK
  <1>16. CASE CloseEvents
    <2>1. events' \in Seq(Event) /\ Len(events') <= 1
      BY <1>16, NoSequence DEF CloseEvents
    <2>2. CoordTypeOK'
      BY <1>16 DEF CloseEvents, CoordTypeOK
    <2>3. QED
      BY <1>16, <2>1, <2>2 DEF CloseEvents, EventTypeOK
  <1>17. CASE JoinWorker
    BY <1>17 DEF JoinWorker, CoordTypeOK
  <1>18. CASE JoinInput
    BY <1>18 DEF JoinInput, CoordTypeOK
  <1>19. QED
    BY <1>1, <1>2, <1>3, <1>4, <1>5, <1>6, <1>7, <1>8, <1>9, <1>10, <1>11,
       <1>12, <1>13, <1>14, <1>15, <1>16, <1>17, <1>18 DEF Coordinator

\* So does the end of worker_loop_with, however it is reached.
LEMMA EndTypes ==
    ASSUME NEW ok \in BOOLEAN, TypeOK, WorkerEnds(ok), UNCHANGED jobsOpen
    PROVE  JobTypeOK' /\ WorkerTypeOK'
  <1>1. jobs' \in Seq(Job) /\ Len(jobs') < MaxOutstanding
    BY NoSequence, ServerAssumption DEF WorkerEnds
  <1>2. JobTypeOK'
    BY <1>1 DEF TypeOK, WorkerEnds, JobTypeOK
  <1>3. WorkerTypeOK'
    BY DEF WorkerEnds, WorkerTypeOK
  <1>4. QED
    BY <1>2, <1>3

\* The worker keeps the types.
LEMMA WorkerTypes == TypeOK /\ Worker => TypeOK'
  <1> SUFFICES ASSUME TypeOK, Worker PROVE TypeOK'
    OBVIOUS
  <1> USE TypeFrame DEF TypeOK
  <1>1. CASE TakeJob
    <2>1. /\ Head(jobs) \in Job /\ Tail(jobs) \in Seq(Job)
          /\ Len(Tail(jobs)) < MaxOutstanding
      BY <1>1, HeadTailProperties, LenProperties, ServerAssumption
      DEF TakeJob, JobTypeOK
    <2>2. JobTypeOK'
      BY <1>1, <2>1 DEF TakeJob, JobTypeOK
    <2>3. WorkerTypeOK'
      BY <1>1, <2>1 DEF TakeJob, WorkerTypeOK
    <2>4. QED
      BY <1>1, <2>2, <2>3 DEF TakeJob
  <1>2. CASE NoMoreJobs
    BY <1>2, EndTypes DEF NoMoreJobs
  <1>3. CASE StartJob
    BY <1>3 DEF StartJob, WorkerTypeOK
  <1>4. CASE Evaluate
    BY <1>4 DEF Evaluate, WorkerTypeOK
  <1>5. CASE WorkerPanics
    BY <1>5, EndTypes DEF WorkerPanics
  <1>6. CASE FinishJob
    BY <1>6 DEF FinishJob, Unregister, WorkerTypeOK, TokenTypeOK
  <1>7. CASE WriteAnswer
    BY <1>7, SequenceFacts DEF WriteAnswer, Job, Respond, WorkerTypeOK, OutputTypeOK, Response
  <1>8. CASE WriteAnswerFails
    BY <1>8, EndTypes DEF WriteAnswerFails
  <1>9. CASE Notify
    BY <1>9 DEF Notify, WorkerTypeOK, EventTypeOK, Event, EventSlotFree
  <1>10. CASE NotifyFails
    BY <1>10 DEF NotifyFails, WorkerTypeOK
  <1>11. QED
    BY <1>1, <1>2, <1>3, <1>4, <1>5, <1>6, <1>7, <1>8, <1>9, <1>10 DEF Worker

\* Every step keeps the types.
LEMMA TypeStep == TypeOK /\ [Next]_vars => TypeOK'
  <1>1. TypeOK /\ BreakWriter => TypeOK'
    BY TypeFrame DEF TypeOK, BreakWriter, OutputTypeOK
  <1>2. TypeOK /\ UNCHANGED vars => TypeOK'
    BY TypeFrame DEF TypeOK, vars
  <1>3. QED
    BY <1>1, <1>2, InputTypes, CoordinatorTypes, WorkerTypes DEF Next, Exited

\* Every reachable state of the server has the types its variables declare; in
\* particular neither channel ever holds more than its capacity.
THEOREM TypeCorrect == Spec => []TypeOK
  BY TypeInit, TypeStep, PTL DEF Spec

----------------------------------------------------------------------------
(* The inductive invariant.  Its parts say, in the order they are used:    *)
(* line numbers are fresh when a call is registered; a token names one     *)
(* registry entry and is set only while it is there; each entry belongs to *)
(* one queued, held or offered call; the channels close in order.          *)

Serving == coordPc \in {"recv", "handle", "insert", "offer", "reply"}

\* The coordinator has a message in hand that is not answered.
Busy == coordPc \in {"handle", "insert", "offer", "reply"}

\* A number that no later line can carry.
Past(n) == n <= msg.n /\ (Busy => n # msg.n)

FreshInv ==
    /\ msg.n \in 0..linesRead
    /\ inputPc = "send" => inputLine.n = linesRead /\ msg.n < linesRead
    /\ \A k \in DOMAIN events : events[k].kind = "input" =>
          /\ msg.n < events[k].line.n
          /\ events[k].line.n <= linesRead
          /\ inputPc = "send" => events[k].line.n < linesRead

TokenInv ==
    /\ \A i \in Ids : registry[i] <= msg.n
    /\ coordPc \in {"handle", "insert", "reply"} =>
          \A i \in Ids : registry[i] # msg.n
    /\ coordPc = "offer" => registry[msg.id] = msg.n
    /\ \A i, j \in Ids : registry[i] = registry[j] /\ registry[i] # None => i = j
    /\ \A c \in cancelled : Past(c)
    /\ \A k \in DOMAIN out :
          /\ Past(out[k].n)
          /\ out[k].n \notin cancelled /\ ~out[k].partial
          /\ \A i \in Ids : registry[i] # out[k].n

Holding == workerPc \in {"start", "evaluate", "finish", "skip"}

WorkInv ==
    /\ Holding => registry[job.id] = job.n
    /\ Holding \/ workerPc = "write" => Past(job.n)
    /\ partial => workerPc = "finish" /\ job.n \in cancelled
    /\ workerPc = "write" =>
          /\ job.n \notin cancelled
          /\ \A i \in Ids : registry[i] # job.n
    /\ \A k \in DOMAIN jobs :
          /\ registry[jobs[k].id] = jobs[k].n
          /\ Past(jobs[k].n)
          /\ Holding => jobs[k].n # job.n
          /\ \A h \in DOMAIN jobs : h # k => jobs[h].n # jobs[k].n
    /\ workerAlive <=> workerPc \notin {"notify", "done"}
    /\ ~workerAlive => jobs = <<>>
    /\ workerAlive => \A i \in Ids : registry[i] # None =>
          \/ Holding /\ job.id = i
          \/ \E k \in DOMAIN jobs : jobs[k].id = i
          \/ coordPc = "offer" /\ msg.id = i

ChannelInv ==
    /\ Serving => result = "running"
    /\ Serving /\ ~jobsOpen =>
          /\ coordPc = "recv" /\ inputPc = "stopped"
          /\ \A k \in DOMAIN events : events[k].kind = "finished"
    /\ ~Serving /\ coordPc # "leave" => ~jobsOpen
    /\ \A k \in DOMAIN events :
          /\ events[k].kind = "input" /\ events[k].line.kind \in LastKinds
                => inputPc = "stopped"
          /\ events[k].kind = "finished" =>
                workerPc = "done" /\ events[k].ok = workerOk
    /\ Serving => eventsOpen
    /\ Serving /\ workerPc = "done" =>
          events # <<>> /\ Head(events).kind = "finished"

DrainInv ==
    /\ ~workerAlive /\ workerOk => ~jobsOpen /\ \A i \in Ids : registry[i] = None
    /\ result = "ok" => workerPc = "done" /\ workerOk

IInv == TypeOK /\ FreshInv /\ TokenInv /\ WorkInv /\ ChannelInv /\ DrainInv

\* What a well-typed event channel can hold.
LEMMA EventFacts ==
    ASSUME TypeOK, NEW k \in DOMAIN events
    PROVE  /\ events[k].kind \in {"input", "finished"}
           /\ events[k].kind = "input" =>
                events[k].line \in Line /\ events[k].line.n \in Nat
  <1>1. events[k] \in Event
    BY ElementOfSeq, LenProperties DEF TypeOK, EventTypeOK
  <1>2. QED
    BY <1>1, LineFacts, NumberFacts DEF Event

\* Every step keeps FreshInv: no line number is in use before its line is taken.
LEMMA FreshStep == IInv /\ [Next]_vars => FreshInv'
  <1> SUFFICES ASSUME IInv, [Next]_vars PROVE FreshInv'
    OBVIOUS
  <1> USE DEF IInv, TypeOK, inputVars, eventVars, coordVars
  <1>1. ASSUME UNCHANGED <<msg, linesRead, inputPc, inputLine, events>>
        PROVE  FreshInv'
    BY <1>1 DEF FreshInv
  <1>2. CASE CheckStop \/ SendLineFails
    BY <1>2 DEF CheckStop, SendLineFails, FreshInv, InputTypeOK
  <1>3. CASE ReadLine
    <2>1. linesRead' = linesRead + 1 /\ inputLine'.n = linesRead + 1
      BY <1>3 DEF ReadLine
    <2>2. \A k \in DOMAIN events : events[k].kind = "input" =>
             events[k].line.n \in Nat
      BY EventFacts
    <2>3. linesRead \in Nat
      BY ServerAssumption DEF InputTypeOK
    <2>4. UNCHANGED <<msg, events>> /\ inputPc = "read" /\ inputPc' = "send"
      BY <1>3 DEF ReadLine
    <2>5. QED
      BY <2>1, <2>2, <2>3, <2>4 DEF FreshInv
  <1>4. CASE SendLine
    <2>1. events = <<>>
      BY <1>4, SequenceFacts DEF SendLine, EventSlotFree, EventTypeOK
    <2>2. events' = <<[kind |-> "input", line |-> inputLine]>>
      BY <1>4, <2>1 DEF SendLine
    <2>3. QED
      BY <1>4, <2>2 DEF SendLine, FreshInv, InputTypeOK
  <1>5. CASE TakeInput
    <2>1. events' = <<>> /\ Head(events) = events[1] /\ 1 \in DOMAIN events
      BY <1>5, TailIsEmpty DEF TakeInput, EventTypeOK
    <2>2. msg' = events[1].line /\ events[1].kind = "input"
      BY <1>5, <2>1 DEF TakeInput
    <2>3. UNCHANGED <<inputPc, inputLine, linesRead>>
      BY <1>5 DEF TakeInput
    <2>4. events[1].line.n \in Nat /\ linesRead \in Nat
      BY <2>1, <2>2, EventFacts, ServerAssumption DEF InputTypeOK
    <2>5. QED
      BY <2>1, <2>2, <2>3, <2>4 DEF FreshInv
  <1>6. CASE TakeWorkerFinished
    BY <1>6, TailIsEmpty DEF TakeWorkerFinished, FreshInv, EventTypeOK
  <1>7. CASE CloseEvents
    BY <1>7 DEF CloseEvents, FreshInv
  <1>8. CASE Notify
    <2>1. events = <<>>
      BY <1>8, SequenceFacts DEF Notify, EventSlotFree, EventTypeOK
    <2>2. events' = <<[kind |-> "finished", ok |-> workerOk]>>
      BY <1>8, <2>1 DEF Notify
    <2>3. QED
      BY <1>8, <2>2 DEF Notify, FreshInv
  <1>9. CASE HandleCancel \/ HandleInitialized \/ HandleReply \/ HandleCall
              \/ InsertToken \/ OfferAccepted \/ OfferFull
              \/ OfferDisconnected \/ WriteReply \/ WriteReplyFails
              \/ LeaveCoordinate \/ CancelAll \/ StopInput \/ JoinWorker
              \/ JoinInput
    BY <1>9, <1>1
    DEF HandleCancel, HandleInitialized, HandleReply, HandleCall, InsertToken,
        OfferAccepted, OfferFull, OfferDisconnected, WriteReply,
        WriteReplyFails, LeaveCoordinate, CancelAll, StopInput, JoinWorker,
        JoinInput
  <1>10. CASE TakeJob \/ NoMoreJobs \/ StartJob \/ Evaluate \/ WorkerPanics
               \/ FinishJob \/ WriteAnswer \/ WriteAnswerFails \/ NotifyFails
    BY <1>10, <1>1
    DEF TakeJob, NoMoreJobs, StartJob, Evaluate, WorkerPanics, FinishJob,
        WriteAnswer, WriteAnswerFails, NotifyFails
  <1>11. CASE BreakWriter \/ UNCHANGED vars
    BY <1>11, <1>1 DEF BreakWriter, vars
  <1>12. QED
    BY <1>2, <1>3, <1>4, <1>5, <1>6, <1>7, <1>8, <1>9, <1>10, <1>11
    DEF Next, Input, Coordinator, Worker, Exited

\* Line numbers compare as naturals.
LEMMA NumberTypes ==
    ASSUME TypeOK
    PROVE  /\ msg.n \in Nat
           /\ registry \in [Ids -> Nat] /\ cancelled \subseteq Nat
           /\ \A k \in DOMAIN out : out[k].n \in Nat
  <1>1. msg.n \in Nat
    <2>1. CASE msg \in Line
      BY <2>1, LineFacts, NumberFacts
    <2>2. CASE msg = NoLine
      BY <2>2 DEF NoLine
    <2>3. QED
      BY <2>1, <2>2 DEF TypeOK, CoordTypeOK
  <1>2. LineNumbers \cup {None} \subseteq Nat
    BY NumberFacts DEF None
  <1>3. registry \in [Ids -> Nat] /\ cancelled \subseteq Nat
    BY <1>2 DEF TypeOK, TokenTypeOK
  <1>4. \A k \in DOMAIN out : out[k] \in Response
    BY ElementOfSeq, LenProperties DEF TypeOK, OutputTypeOK
  <1>5. QED
    BY <1>1, <1>3, <1>4, NumberFacts DEF Response

\* Where the numbers of written answers come from.
LEMMA OutputNumbers ==
    ASSUME TypeOK, NEW k \in DOMAIN out
    PROVE  out[k].n # 0
  <1>1. out[k] \in Response
    BY ElementOfSeq, LenProperties DEF TypeOK, OutputTypeOK
  <1>2. QED
    BY <1>1, NumberFacts DEF Response, None

\* An element of an appended queue is an old one or the new one.
LEMMA AppendedElements ==
    ASSUME NEW S, NEW s \in Seq(S), NEW e \in S
    PROVE  \A k \in DOMAIN Append(s, e) :
              \/ k \in DOMAIN s /\ Append(s, e)[k] = s[k]
              \/ Append(s, e)[k] = e
  BY AppendProperties, LenProperties

\* Every step keeps TokenInv: a set token silences its call for good.
LEMMA TokenStep == IInv /\ [Next]_vars => TokenInv'
  <1> SUFFICES ASSUME IInv, [Next]_vars PROVE TokenInv'
    OBVIOUS
  <1> USE DEF IInv, TypeOK, inputVars, eventVars, coordVars, tokenVars,
              outputVars
  <1>1. ASSUME UNCHANGED <<msg, coordPc, registry, cancelled, out>>
        PROVE  TokenInv'
    BY <1>1 DEF TokenInv, Past, Busy
  <1>2. /\ msg.n \in Nat
        /\ registry \in [Ids -> Nat] /\ cancelled \subseteq Nat
        /\ \A k \in DOMAIN out : out[k].n \in Nat
        /\ Busy => msg \in Line
    BY NumberTypes DEF CoordTypeOK, Busy
  <1>3. CASE TakeInput
    <2>1. msg' \in Line /\ msg'.n \in Nat /\ msg.n < msg'.n
      BY <1>3, TailIsEmpty, EventFacts DEF TakeInput, FreshInv, EventTypeOK
    <2>2. UNCHANGED <<registry, cancelled, out>> /\ coordPc = "recv"
          /\ coordPc' \in {"leave", "recv", "handle"}
      BY <1>3 DEF TakeInput
    <2>3. QED
      BY <1>2, <2>1, <2>2 DEF TokenInv, Past, Busy, None
  <1>4. CASE TakeWorkerFinished
    BY <1>4 DEF TakeWorkerFinished, TokenInv, Past, Busy
  <1>5. CASE HandleCancel
    <2>1. msg.id \in Ids
      BY <1>2, <1>5, LineFacts DEF HandleCancel, Busy, AddressedKinds
    <2>2. cancelled' = cancelled \cup ({registry[msg.id]} \ {None})
          /\ UNCHANGED <<msg, registry, out>>
          /\ coordPc = "handle" /\ coordPc' = "recv"
      BY <1>5 DEF HandleCancel
    <2>3. QED
      BY <1>2, <2>1, <2>2 DEF TokenInv, Past, Busy
  <1>6. CASE HandleInitialized \/ HandleReply \/ HandleCall
    BY <1>6 DEF HandleInitialized, HandleReply, HandleCall, TokenInv, Past, Busy
  <1>7. CASE InsertToken
    <2>1. CASE UNCHANGED registry /\ coordPc' = "reply"
      BY <1>7, <2>1 DEF InsertToken, TokenInv, Past, Busy
    <2>2. CASE registry' = [registry EXCEPT ![msg.id] = msg.n]
                 /\ coordPc' = "offer"
      <3>1. coordPc = "insert" /\ coordPc' \in {"reply", "offer"}
            /\ UNCHANGED <<msg, cancelled, out>>
        BY <1>7 DEF InsertToken
      <3>2. msg.id \in Ids
        BY <1>2, <3>1, LineFacts DEF CoordTypeOK, Busy, AddressedKinds
      <3>3. QED
        BY <1>2, <2>2, <3>1, <3>2 DEF TokenInv, Past, Busy
    <2>3. QED
      BY <1>7, <2>1, <2>2 DEF InsertToken
  <1>8. CASE OfferAccepted
    BY <1>8 DEF OfferAccepted, TokenInv, Past, Busy
  <1>9. CASE OfferFull \/ OfferDisconnected
    <2>1. msg.id \in Ids /\ coordPc = "offer"
      BY <1>2, <1>9, LineFacts
      DEF OfferFull, OfferDisconnected, Busy, CoordTypeOK, AddressedKinds
    <2>2. registry' = [registry EXCEPT ![msg.id] = None]
          /\ UNCHANGED <<msg, cancelled, out>>
          /\ coordPc' \in {"reply", "leave"}
      BY <1>9, <2>1 DEF OfferFull, OfferDisconnected, Unregister, TokenInv
    <2>3. \A i \in Ids :
            registry'[i] = IF i = msg.id THEN 0 ELSE registry[i]
      BY <1>2, <2>2 DEF None
    <2>4. msg.n # 0
      BY <1>2, <2>1, LineFacts, NumberFacts DEF Busy, None
    <2>5. \A k \in DOMAIN out : out[k].n # 0
      BY OutputNumbers
    <2>6. QED
      BY <1>2, <2>1, <2>2, <2>3, <2>4, <2>5 DEF TokenInv, Past, Busy, None
  <1>10. CASE WriteReply
    <2>1. out' = Append(out, [n |-> msg.n, partial |-> FALSE])
          /\ coordPc = "reply" /\ coordPc' = "recv"
          /\ UNCHANGED <<msg, registry, cancelled>>
      BY <1>10 DEF WriteReply, Respond
    <2>2. \A k \in DOMAIN out' :
            \/ k \in DOMAIN out /\ out'[k] = out[k]
            \/ out'[k] = [n |-> msg.n, partial |-> FALSE]
      BY <1>2, <2>1, LineFacts, AppendedElements DEF Busy, OutputTypeOK, Response
    <2>3. QED
      BY <1>2, <2>1, <2>2 DEF TokenInv, Past, Busy
  <1>11. CASE WriteReplyFails \/ LeaveCoordinate \/ StopInput
                \/ CloseEvents \/ JoinWorker \/ JoinInput
    BY <1>11 DEF WriteReplyFails, LeaveCoordinate, StopInput, CloseEvents,
                 JoinWorker, JoinInput, TokenInv, Past, Busy
  <1>12. CASE CancelAll
    BY <1>12 DEF CancelAll, Registered, TokenInv, Past, Busy
  <1>13. CASE FinishJob
    <2>1. job.id \in Ids
      BY <1>13 DEF FinishJob, WorkerTypeOK, Job
    <2>2. registry' = [registry EXCEPT ![job.id] = None]
          /\ UNCHANGED <<msg, coordPc, cancelled, out>>
      BY <1>13, <2>1 DEF FinishJob, Unregister, WorkInv, Holding
    <2>3. coordPc = "offer" => msg.id # job.id
      BY <1>13 DEF FinishJob, WorkInv, TokenInv, Holding, Past, Busy
    <2>4. \A i \in Ids :
            registry'[i] = IF i = job.id THEN 0 ELSE registry[i]
      BY <1>2, <2>2 DEF None
    <2>5. Busy => msg.n # 0
      BY <1>2, LineFacts, NumberFacts DEF None
    <2>6. \A k \in DOMAIN out : out[k].n # 0
      BY OutputNumbers
    <2>7. coordPc = "offer" => msg.id \in Ids
      BY <1>2, LineFacts DEF Busy, CoordTypeOK, AddressedKinds
    <2>8. QED
      BY <1>2, <2>1, <2>2, <2>3, <2>4, <2>5, <2>6, <2>7
      DEF TokenInv, Past, Busy, None
  <1>14. CASE WriteAnswer
    <2>1. out' = Append(out, [n |-> job.n, partial |-> FALSE])
          /\ UNCHANGED <<msg, coordPc, registry, cancelled>>
      BY <1>14 DEF WriteAnswer, Respond, WorkInv, WorkerTypeOK
    <2>2. job.n \in LineNumbers
      BY <1>14 DEF WriteAnswer, WorkerTypeOK, Job
    <2>3. \A k \in DOMAIN out' :
            \/ k \in DOMAIN out /\ out'[k] = out[k]
            \/ out'[k] = [n |-> job.n, partial |-> FALSE]
      BY <2>1, <2>2, AppendedElements DEF OutputTypeOK, Response
    <2>4. /\ Past(job.n) /\ job.n \notin cancelled
          /\ \A i \in Ids : registry[i] # job.n
      BY <1>14 DEF WriteAnswer, WorkInv
    <2>5. QED
      BY <1>2, <2>1, <2>3, <2>4 DEF TokenInv, Past, Busy
  <1>15. CASE Input \/ TakeJob \/ NoMoreJobs \/ StartJob \/ Evaluate
                \/ WorkerPanics \/ WriteAnswerFails \/ Notify \/ NotifyFails
    BY <1>15, <1>1
    DEF Input, CheckStop, ReadLine, SendLine, SendLineFails, TakeJob,
        NoMoreJobs, StartJob, Evaluate, WorkerPanics, WriteAnswerFails, Notify,
        NotifyFails
  <1>16. CASE BreakWriter \/ UNCHANGED vars
    BY <1>16, <1>1 DEF BreakWriter, vars
  <1>17. QED
    BY <1>3, <1>4, <1>5, <1>6, <1>7, <1>8, <1>9, <1>10, <1>11, <1>12, <1>13,
       <1>14, <1>15, <1>16 DEF Next, Coordinator, Worker, Exited

\* What a well-typed job channel can hold.
LEMMA JobFacts ==
    ASSUME TypeOK
    PROVE  /\ \A k \in DOMAIN jobs : jobs[k].id \in Ids /\ jobs[k].n \in Nat \ {0}
           /\ Holding \/ workerPc = "write" =>
                job \in Job /\ job.id \in Ids /\ job.n \in Nat \ {0}
  <1>1. \A j \in Job : j.id \in Ids /\ j.n \in Nat \ {0}
    BY NumberFacts DEF Job, None
  <1>2. \A k \in DOMAIN jobs : jobs[k] \in Job
    BY ElementOfSeq, LenProperties DEF TypeOK, JobTypeOK
  <1>3. Holding \/ workerPc = "write" => job \in Job
    BY DEF TypeOK, WorkerTypeOK, Holding
  <1>4. QED
    BY <1>1, <1>2, <1>3

\* Every step keeps WorkInv: the registry follows the calls in flight.
LEMMA WorkStep == IInv /\ [Next]_vars => WorkInv'
  <1> SUFFICES ASSUME IInv, [Next]_vars PROVE WorkInv'
    OBVIOUS
  <1> USE DEF IInv, TypeOK, inputVars, eventVars, coordVars, jobVars, tokenVars,
              workerVars, outputVars
  <1>1. ASSUME UNCHANGED <<msg, coordPc, registry, cancelled, jobs, workerAlive,
                           workerPc, job, partial>>
        PROVE  WorkInv'
    BY <1>1 DEF WorkInv, Past, Busy, Holding
  <1>2. /\ msg.n \in Nat
        /\ registry \in [Ids -> Nat]
        /\ \A k \in DOMAIN jobs : jobs[k].id \in Ids /\ jobs[k].n \in Nat \ {0}
        /\ Holding \/ workerPc = "write" => job.id \in Ids /\ job.n \in Nat \ {0}
        /\ Busy => msg \in Line
        /\ coordPc \in {"insert", "offer"} => msg.id \in Ids
    BY NumberTypes, JobFacts, LineFacts DEF CoordTypeOK, Busy, AddressedKinds
  <1>3. CASE TakeInput
    <2>1. msg' \in Line /\ msg'.n \in Nat /\ msg.n < msg'.n
      BY <1>3, TailIsEmpty, EventFacts DEF TakeInput, FreshInv, EventTypeOK
    <2>2. UNCHANGED <<registry, cancelled, jobs, workerAlive, workerPc, job,
                      partial>>
          /\ coordPc = "recv" /\ coordPc' \in {"leave", "recv", "handle"}
      BY <1>3 DEF TakeInput
    <2>3. QED
      BY <1>2, <2>1, <2>2 DEF WorkInv, Past, Busy, Holding
  <1>4. CASE TakeWorkerFinished
    BY <1>4 DEF TakeWorkerFinished, WorkInv, Past, Busy, Holding
  <1>5. CASE HandleCancel
    <2>1. cancelled' = cancelled \cup ({registry[msg.id]} \ {None})
          /\ UNCHANGED <<msg, registry, jobs, workerAlive, workerPc, job, partial>>
          /\ coordPc = "handle" /\ coordPc' = "recv"
      BY <1>5 DEF HandleCancel
    <2>2. msg.id \in Ids
      BY <1>2, <1>5, LineFacts DEF HandleCancel, Busy, AddressedKinds
    <2>3. QED
      BY <1>2, <2>1, <2>2 DEF WorkInv, Past, Busy, Holding
  <1>6. CASE HandleInitialized \/ HandleReply \/ HandleCall
    BY <1>6 DEF HandleInitialized, HandleReply, HandleCall, WorkInv, Past, Busy,
                Holding
  <1>7. CASE InsertToken
    <2>1. coordPc = "insert" /\ coordPc' \in {"reply", "offer"}
          /\ UNCHANGED <<msg, cancelled, jobs, workerAlive, workerPc, job, partial>>
      BY <1>7 DEF InsertToken
    <2>2. CASE UNCHANGED registry
      BY <2>1, <2>2 DEF WorkInv, Past, Busy, Holding
    <2>3. CASE registry' = [registry EXCEPT ![msg.id] = msg.n]
                 /\ registry[msg.id] = 0 /\ coordPc' = "offer"
      <3>1. \A i \in Ids :
              registry'[i] = IF i = msg.id THEN msg.n ELSE registry[i]
        BY <1>2, <2>3
      <3>2. QED
        BY <1>2, <2>1, <2>3, <3>1 DEF WorkInv, Past, Busy, Holding, None
    <2>4. QED
      BY <1>7, <2>2, <2>3 DEF InsertToken, IsActive, None
  <1>8. CASE OfferAccepted
    <2> DEFINE new == [id |-> msg.id, n |-> msg.n]
    <2>1. coordPc = "offer" /\ coordPc' = "recv" /\ jobs' = Append(jobs, new)
          /\ workerAlive
          /\ UNCHANGED <<msg, registry, cancelled, workerAlive, workerPc, job,
                         partial>>
      BY <1>8 DEF OfferAccepted
    <2>2. new \in Job /\ jobs \in Seq(Job)
      BY <1>2, <2>1, LineFacts DEF Job, Busy, JobTypeOK
    <2>3. /\ DOMAIN jobs = 1..Len(jobs) /\ DOMAIN jobs' = 1..(Len(jobs) + 1)
          /\ Len(jobs) \in Nat
          /\ \A k \in DOMAIN jobs : jobs'[k] = jobs[k]
          /\ jobs'[Len(jobs) + 1] = new
      BY <2>1, <2>2, AppendProperties, LenProperties
    <2>4. registry[msg.id] = msg.n
      BY <2>1 DEF TokenInv
    <2>5. \A k \in DOMAIN jobs' : k \in DOMAIN jobs \/ k = Len(jobs) + 1
      BY <2>3
    <2>6. \A k \in DOMAIN jobs : k # Len(jobs) + 1 /\ k \in DOMAIN jobs'
      BY <2>3
    <2>7. Len(jobs) + 1 \in DOMAIN jobs'
      BY <2>3
    <2> HIDE DEF new
    <2>8. new.id = msg.id /\ new.n = msg.n
      BY DEF new
    <2>9. \A k \in DOMAIN jobs' :
            /\ registry'[jobs'[k].id] = jobs'[k].n
            /\ Past(jobs[k].n)'
            /\ Holding' => jobs'[k].n # job'.n
            /\ \A h \in DOMAIN jobs' : h # k => jobs'[h].n # jobs'[k].n
      BY <1>2, <2>1, <2>3, <2>4, <2>5, <2>8 DEF WorkInv, Past, Busy, Holding
    <2>10. \A i \in Ids : registry'[i] # None =>
             \/ Holding' /\ job'.id = i
             \/ \E k \in DOMAIN jobs' : jobs'[k].id = i
      BY <2>1, <2>3, <2>6, <2>7, <2>8 DEF WorkInv, Holding
    <2>11. QED
      BY <2>1, <2>9, <2>10 DEF WorkInv, Past, Busy, Holding
  <1>9. CASE OfferFull \/ OfferDisconnected
    <2>1. coordPc = "offer" /\ coordPc' \in {"reply", "leave"}
          /\ UNCHANGED <<msg, cancelled, jobs, workerAlive, workerPc, job, partial>>
      BY <1>9 DEF OfferFull, OfferDisconnected
    <2>2. registry' = [registry EXCEPT ![msg.id] = None]
      BY <1>9, <2>1 DEF OfferFull, OfferDisconnected, Unregister, TokenInv
    <2>3. \A i \in Ids :
            registry'[i] = IF i = msg.id THEN 0 ELSE registry[i]
      BY <1>2, <2>2 DEF None
    <2>4. registry[msg.id] = msg.n /\ msg.id \in Ids
      BY <1>2, <2>1 DEF TokenInv
    <2>5. QED
      BY <1>2, <2>1, <2>3, <2>4 DEF WorkInv, Past, Busy, Holding, None
  <1>11. CASE WriteReply \/ WriteReplyFails \/ LeaveCoordinate \/ StopInput
                \/ CloseEvents \/ JoinWorker \/ JoinInput
    <2>1. /\ UNCHANGED <<msg, registry, cancelled, jobs, workerAlive, workerPc,
                         job, partial>>
          /\ coordPc # "offer" /\ ~Busy'
      BY <1>11 DEF WriteReply, WriteReplyFails, LeaveCoordinate, StopInput,
                   CloseEvents, JoinWorker, JoinInput, Busy
    <2>2. QED
      BY <2>1 DEF WorkInv, Past, Holding
  <1>12. CASE CancelAll
    BY <1>12 DEF CancelAll, Registered, WorkInv, Past, Busy, Holding
  <1>13. CASE TakeJob
    <2>1. /\ workerPc = "recv" /\ workerPc' = "start"
          /\ jobs # <<>> /\ job' = Head(jobs) /\ jobs' = Tail(jobs)
          /\ UNCHANGED <<msg, coordPc, registry, cancelled, workerAlive, partial>>
      BY <1>13 DEF TakeJob
    <2>2. jobs \in Seq(Job)
      BY DEF JobTypeOK
    <2>3. /\ DOMAIN jobs = 1..Len(jobs) /\ Len(jobs) \in Nat
          /\ DOMAIN jobs' = 1..(Len(jobs) - 1)
          /\ \A k \in DOMAIN jobs' : jobs'[k] = jobs[k + 1]
          /\ job' = jobs[1] /\ 1 \in DOMAIN jobs
      BY <2>1, <2>2, HeadTailProperties, LenProperties, EmptySeq
    <2>4. \A k \in DOMAIN jobs' : k + 1 \in DOMAIN jobs /\ k + 1 # 1
      BY <2>3
    <2>5. \A k \in DOMAIN jobs : k = 1 \/ k - 1 \in DOMAIN jobs'
      BY <2>3
    <2>6. \A k \in DOMAIN jobs : k \in Nat /\ (k # 1 => jobs'[k - 1] = jobs[k])
      BY <2>3, <2>5
    <2>7. \A k \in DOMAIN jobs' :
            /\ registry'[jobs'[k].id] = jobs'[k].n
            /\ Past(jobs[k].n)'
            /\ jobs'[k].n # job'.n
            /\ \A h \in DOMAIN jobs' : h # k => jobs'[h].n # jobs'[k].n
      <3>1. TAKE k \in DOMAIN jobs'
      <3>2. jobs'[k] = jobs[k + 1] /\ k + 1 \in DOMAIN jobs /\ k + 1 # 1
        BY <2>3, <2>4
      <3>3. ASSUME NEW h \in DOMAIN jobs', h # k
            PROVE  jobs'[h].n # jobs'[k].n
        <4>1. jobs'[h] = jobs[h + 1] /\ h + 1 \in DOMAIN jobs /\ h + 1 # k + 1
          BY <2>3, <2>4, <3>3
        <4>2. QED
          BY <3>2, <4>1 DEF WorkInv
      <3>4. QED
        BY <2>1, <2>3, <3>2, <3>3 DEF WorkInv, Past, Busy
    <2>8. \A i \in Ids : registry'[i] # None =>
             \/ job'.id = i
             \/ \E k \in DOMAIN jobs' : jobs'[k].id = i
             \/ coordPc' = "offer" /\ msg'.id = i
      <3>1. SUFFICES ASSUME NEW i \in Ids, registry[i] # None,
                            NEW k \in DOMAIN jobs, jobs[k].id = i
                     PROVE  \/ job'.id = i
                            \/ \E h \in DOMAIN jobs' : jobs'[h].id = i
        BY <2>1 DEF WorkInv, Holding
      <3>2. CASE k = 1
        BY <2>3, <3>1, <3>2
      <3>3. CASE k # 1
        BY <2>5, <2>6, <3>1, <3>3
      <3>4. QED
        BY <3>2, <3>3
    <2>9. /\ registry'[job'.id] = job'.n /\ Past(job.n)'
          /\ ~partial' /\ workerAlive'
      BY <2>1, <2>3 DEF WorkInv, Past, Busy, Holding
    <2>10. QED
      BY <2>1, <2>7, <2>8, <2>9 DEF WorkInv, Holding
  <1>14. CASE NoMoreJobs \/ WorkerPanics \/ WriteAnswerFails
    BY <1>14 DEF NoMoreJobs, WorkerPanics, WriteAnswerFails, WorkerEnds, WorkInv,
                 Past, Busy, Holding
  <1>15. CASE StartJob \/ Evaluate
    BY <1>15 DEF StartJob, Evaluate, WorkInv, Past, Busy, Holding
  <1>16. CASE FinishJob
    <2>1. /\ Holding /\ workerPc \in {"finish", "skip"}
          /\ workerPc' \in {"write", "recv"}
          /\ workerPc' = "write" => UNCHANGED <<job, partial>>
                                    /\ workerPc = "finish" /\ ~Suppress
          /\ workerPc' = "recv" => ~partial'
          /\ UNCHANGED <<msg, coordPc, cancelled, jobs, workerAlive>>
      BY <1>16 DEF FinishJob, Holding
    <2>2. registry[job.id] = job.n /\ job.id \in Ids
      BY <1>2, <2>1 DEF WorkInv
    <2>3. registry' = [registry EXCEPT ![job.id] = None]
      BY <1>16, <2>2 DEF FinishJob, Unregister
    <2>4. \A i \in Ids :
            registry'[i] = IF i = job.id THEN 0 ELSE registry[i]
      BY <1>2, <2>3 DEF None
    <2>5. workerPc' = "write" => job.n \notin cancelled
      BY <2>1, <2>2 DEF Suppress
    <2>6. \A i \in Ids : registry'[i] # job.n
      BY <1>2, <2>1, <2>2, <2>4 DEF TokenInv, None
    <2>7. \A k \in DOMAIN jobs : jobs[k].id # job.id
      BY <2>1, <2>2 DEF WorkInv
    <2>8. ~Holding'
      BY <2>1 DEF Holding
    <2>9. \A k \in DOMAIN jobs' :
            /\ registry'[jobs'[k].id] = jobs'[k].n
            /\ Past(jobs[k].n)'
            /\ \A h \in DOMAIN jobs' : h # k => jobs'[h].n # jobs'[k].n
      BY <1>2, <2>1, <2>4, <2>7 DEF WorkInv, Past, Busy
    <2>10. workerAlive' => \A i \in Ids : registry'[i] # None =>
             \/ \E k \in DOMAIN jobs' : jobs'[k].id = i
             \/ coordPc' = "offer" /\ msg'.id = i
      BY <2>1, <2>4 DEF WorkInv, None
    <2>11. workerPc' = "write" => Past(job.n)' /\ ~partial'
      BY <1>2, <2>1, <2>5 DEF WorkInv, Past, Busy
    <2>12. workerAlive' <=> workerPc' \notin {"notify", "done"}
      BY <2>1 DEF WorkInv
    <2>13. partial' => FALSE
      BY <2>1, <2>11
    <2>14. QED
      BY <2>1, <2>5, <2>6, <2>8, <2>9, <2>10, <2>11, <2>12, <2>13 DEF WorkInv
  <1>17. CASE WriteAnswer \/ Notify \/ NotifyFails
    BY <1>17 DEF WriteAnswer, Notify, NotifyFails, WorkInv, Past, Busy, Holding
  <1>18. CASE Input
    BY <1>18, <1>1
    DEF Input, CheckStop, ReadLine, SendLine, SendLineFails
  <1>19. CASE BreakWriter \/ UNCHANGED vars
    BY <1>19, <1>1 DEF BreakWriter, vars
  <1>20. QED
    BY <1>3, <1>4, <1>5, <1>6, <1>7, <1>8, <1>9, <1>11, <1>12, <1>13, <1>14,
       <1>15, <1>16, <1>17, <1>18, <1>19
    DEF Next, Coordinator, Worker, Exited

\* Every step keeps ChannelInv: the ends of the channels close in order.
LEMMA ChannelStep == IInv /\ [Next]_vars => ChannelInv'
  <1> SUFFICES ASSUME IInv, [Next]_vars PROVE ChannelInv'
    OBVIOUS
  <1> USE DEF IInv, TypeOK, inputVars, eventVars, coordVars, jobVars, tokenVars,
              workerVars, outputVars
  <1>1. ASSUME UNCHANGED <<coordPc, result, jobsOpen, inputPc, events, eventsOpen,
                           workerPc, workerOk>>
        PROVE  ChannelInv'
    BY <1>1 DEF ChannelInv, Serving
  <1>2. \A k \in DOMAIN events : events[k].kind \in {"input", "finished"}
    BY EventFacts
  <1>3. CASE CheckStop \/ ReadLine \/ SendLineFails
    BY <1>3 DEF CheckStop, ReadLine, SendLineFails, ChannelInv, Serving
  <1>4. CASE SendLine
    <2>1. events = <<>>
      BY <1>4, SequenceFacts DEF SendLine, EventSlotFree, EventTypeOK
    <2>2. events' = <<[kind |-> "input", line |-> inputLine]>>
      BY <1>4, <2>1 DEF SendLine
    <2>3. QED
      BY <1>4, <2>1, <2>2 DEF SendLine, ChannelInv, Serving
  <1>5. CASE TakeInput \/ TakeWorkerFinished
    <2>1. events' = <<>> /\ Head(events) = events[1] /\ DOMAIN events = {1}
      BY <1>5, TailIsEmpty DEF TakeInput, TakeWorkerFinished, EventTypeOK
    <2>2. CASE TakeInput
      <3> DEFINE l == events[1].line
      <3>1. /\ coordPc = "recv" /\ events[1].kind = "input"
            /\ jobsOpen' = (jobsOpen /\ l.kind # "eof")
            /\ UNCHANGED <<inputPc, eventsOpen, workerPc, workerOk>>
        BY <2>1, <2>2 DEF TakeInput
      <3>2. jobsOpen
        BY <2>1, <3>1 DEF ChannelInv, Serving
      <3>3. workerPc # "done"
        BY <2>1, <3>1 DEF ChannelInv, Serving
      <3>4. CASE l.kind = "error"
        BY <2>1, <2>2, <3>1, <3>2, <3>3, <3>4 DEF TakeInput, ChannelInv, Serving
      <3>5. CASE l.kind = "eof"
        <4>1. inputPc = "stopped"
          BY <2>1, <3>1, <3>5 DEF ChannelInv, LastKinds
        <4>2. coordPc' = "recv" /\ UNCHANGED result
          BY <2>1, <2>2, <3>5 DEF TakeInput
        <4>3. QED
          BY <2>1, <3>1, <3>3, <4>1, <4>2 DEF ChannelInv, Serving
      <3>6. CASE l.kind \notin {"error", "eof"}
        <4>1. coordPc' \in {"recv", "handle"} /\ UNCHANGED result /\ jobsOpen'
          BY <2>1, <2>2, <3>1, <3>2, <3>6 DEF TakeInput
        <4>2. QED
          BY <2>1, <3>1, <3>3, <4>1 DEF ChannelInv, Serving
      <3>7. QED
        BY <3>4, <3>5, <3>6
    <2>3. CASE TakeWorkerFinished
      BY <1>2, <2>1, <2>3 DEF TakeWorkerFinished, ChannelInv, Serving
    <2>4. QED
      BY <1>5, <2>2, <2>3
  <1>6. CASE HandleCancel \/ HandleInitialized \/ HandleReply \/ HandleCall
              \/ InsertToken \/ OfferAccepted \/ OfferFull \/ WriteReply
    BY <1>6 DEF HandleCancel, HandleInitialized, HandleReply, HandleCall,
                InsertToken, OfferAccepted, OfferFull, WriteReply, ChannelInv,
                Serving
  <1>7. CASE OfferDisconnected \/ WriteReplyFails \/ LeaveCoordinate
              \/ CancelAll \/ StopInput \/ JoinWorker \/ JoinInput
    BY <1>7 DEF OfferDisconnected, WriteReplyFails, LeaveCoordinate, CancelAll,
                StopInput, JoinWorker, JoinInput, ChannelInv, Serving
  <1>8. CASE CloseEvents
    BY <1>8 DEF CloseEvents, ChannelInv, Serving
  <1>9. CASE Notify
    <2>1. events = <<>>
      BY <1>9, SequenceFacts DEF Notify, EventSlotFree, EventTypeOK
    <2>2. events' = <<[kind |-> "finished", ok |-> workerOk]>>
      BY <1>9, <2>1 DEF Notify
    <2>3. QED
      BY <1>9, <2>1, <2>2 DEF Notify, ChannelInv, Serving
  <1>10. CASE NotifyFails
    BY <1>10 DEF NotifyFails, ChannelInv, Serving
  <1>11. CASE TakeJob \/ StartJob \/ Evaluate \/ FinishJob \/ WriteAnswer
    BY <1>11 DEF TakeJob, StartJob, Evaluate, FinishJob, WriteAnswer, ChannelInv,
                 Serving
  <1>12. CASE NoMoreJobs \/ WorkerPanics \/ WriteAnswerFails
    BY <1>12 DEF NoMoreJobs, WorkerPanics, WriteAnswerFails, WorkerEnds,
                 ChannelInv, Serving
  <1>13. CASE BreakWriter \/ UNCHANGED vars
    BY <1>13, <1>1 DEF BreakWriter, vars
  <1>14. QED
    BY <1>3, <1>4, <1>5, <1>6, <1>7, <1>8, <1>9, <1>10, <1>11, <1>12, <1>13
    DEF Next, Input, Coordinator, Worker, Exited

\* Every step keeps DrainInv: an orderly exit has drained the calls.
LEMMA DrainStep == IInv /\ [Next]_vars => DrainInv'
  <1> SUFFICES ASSUME IInv, [Next]_vars PROVE DrainInv'
    OBVIOUS
  <1> USE DEF IInv, TypeOK, inputVars, eventVars, coordVars, jobVars, tokenVars,
              workerVars, outputVars
  <1>1. ASSUME UNCHANGED <<workerAlive, workerOk, workerPc, jobsOpen, registry,
                           result>>
        PROVE  DrainInv'
    BY <1>1 DEF DrainInv
  <1>2. CASE TakeInput
    BY <1>2 DEF TakeInput, DrainInv, ChannelInv, Serving
  <1>3. CASE TakeWorkerFinished
    BY <1>3, TailIsEmpty
    DEF TakeWorkerFinished, DrainInv, ChannelInv, EventTypeOK
  <1>4. CASE InsertToken
    BY <1>4 DEF InsertToken, DrainInv, ChannelInv, Serving
  <1>5. CASE OfferFull
    BY <1>5 DEF OfferFull, DrainInv, ChannelInv, Serving
  <1>6. CASE OfferDisconnected \/ WriteReplyFails \/ LeaveCoordinate
    BY <1>6 DEF OfferDisconnected, WriteReplyFails, LeaveCoordinate, DrainInv,
                ChannelInv, Serving
  <1>7. CASE NoMoreJobs
    <2>1. ~jobsOpen /\ jobs = <<>> /\ workerPc = "recv"
      BY <1>7 DEF NoMoreJobs, JobsExhausted
    <2>2. coordPc # "offer"
      BY <2>1 DEF ChannelInv, Serving
    <2>3. DOMAIN jobs = {}
      BY <2>1
    <2>4. \A i \in Ids : registry[i] = None
      BY <2>1, <2>2, <2>3 DEF WorkInv, Holding
    <2>5. UNCHANGED <<jobsOpen, registry, result>> /\ workerPc' = "notify"
          /\ ~workerAlive'
      BY <1>7 DEF NoMoreJobs, WorkerEnds
    <2>6. QED
      BY <2>1, <2>4, <2>5 DEF DrainInv
  <1>8. CASE WorkerPanics \/ WriteAnswerFails
    BY <1>8 DEF WorkerPanics, WriteAnswerFails, WorkerEnds, DrainInv
  <1>9. CASE TakeJob \/ StartJob \/ Evaluate \/ FinishJob \/ WriteAnswer
    BY <1>9 DEF TakeJob, StartJob, Evaluate, FinishJob, WriteAnswer, DrainInv,
                WorkInv
  <1>10. CASE Notify \/ NotifyFails
    BY <1>10 DEF Notify, NotifyFails, DrainInv
  <1>11. CASE Input \/ HandleCancel \/ HandleInitialized \/ HandleReply
               \/ HandleCall \/ OfferAccepted \/ WriteReply \/ CancelAll
               \/ StopInput \/ CloseEvents \/ JoinWorker \/ JoinInput
    BY <1>11, <1>1
    DEF Input, CheckStop, ReadLine, SendLine, SendLineFails, HandleCancel,
        HandleInitialized, HandleReply, HandleCall, OfferAccepted, WriteReply,
        CancelAll, StopInput, CloseEvents, JoinWorker, JoinInput
  <1>12. CASE BreakWriter \/ UNCHANGED vars
    BY <1>12, <1>1 DEF BreakWriter, vars
  <1>13. QED
    BY <1>2, <1>3, <1>4, <1>5, <1>6, <1>7, <1>8, <1>9, <1>10, <1>11, <1>12
    DEF Next, Coordinator, Worker, Exited

\* The inductive invariant holds initially.
LEMMA InvInit == Init => IInv
  <1> SUFFICES ASSUME Init PROVE IInv
    OBVIOUS
  <1>1. TypeOK
    BY TypeInit
  <1>2. FreshInv
    BY DEF Init, FreshInv, NoLine
  <1>3. TokenInv
    BY DEF Init, TokenInv, NoLine, None
  <1>4. WorkInv
    BY DEF Init, WorkInv, Holding
  <1>5. ChannelInv
    BY DEF Init, ChannelInv, Serving
  <1>6. DrainInv
    BY DEF Init, DrainInv
  <1>7. QED
    BY <1>1, <1>2, <1>3, <1>4, <1>5, <1>6 DEF IInv

\* The inductive invariant: every part of it is kept by every step of every
\* thread (mcp.rs: serve, coordinate, enqueue_job, worker_loop_with, finish_job).
THEOREM Inductive == Spec => []IInv
  <1>1. TypeOK /\ [Next]_vars => TypeOK'
    BY TypeStep
  <1>2. IInv /\ [Next]_vars => IInv'
    BY <1>1, FreshStep, TokenStep, WorkStep, ChannelStep, DrainStep DEF IInv
  <1>3. QED
    BY InvInit, <1>2, PTL DEF Spec

----------------------------------------------------------------------------
\* A cancelled call is never answered and no cut-short result is written
\* (CancelledStaysSilent), whatever the interleaving of the three threads.
THEOREM CancelledSilent == Spec => []CancelledStaysSilent
  <1>1. IInv => CancelledStaysSilent
    BY DEF IInv, TokenInv, CancelledStaysSilent
  <1>2. QED
    BY Inductive, <1>1, PTL

\* The registry never leaks a slot and never frees one early
\* (RegistryMatchesWork).
THEOREM RegistryExact == Spec => []RegistryMatchesWork
  <1>1. IInv => RegistryMatchesWork
    <2> SUFFICES ASSUME IInv, workerAlive PROVE RegistryMatchesWork
      BY DEF RegistryMatchesWork
    <2> DEFINE E == {[id |-> i, n |-> registry[i]] : i \in Registered}
    <2> USE DEF IInv
    <2>1. ASSUME NEW e \in E PROVE e \in Held \cup Queued \cup Offered
      <3>1. PICK i \in Ids : registry[i] # None
                             /\ e = [id |-> i, n |-> registry[i]]
        BY <2>1 DEF Registered
      <3>2. CASE Holding /\ job.id = i
        BY <3>1, <3>2 DEF WorkInv, Holding, Held
      <3>3. CASE \E k \in DOMAIN jobs : jobs[k].id = i
        <4>1. PICK k \in DOMAIN jobs : jobs[k].id = i
          BY <3>3
        <4>2. jobs[k] \in Job /\ registry[i] = jobs[k].n
          BY <4>1, ElementOfSeq, LenProperties DEF WorkInv, TypeOK, JobTypeOK
        <4>3. e = jobs[k]
          BY <3>1, <4>1, <4>2 DEF Job
        <4>4. QED
          BY <4>1, <4>3 DEF Queued
      <3>4. CASE coordPc = "offer" /\ msg.id = i
        BY <3>1, <3>4 DEF TokenInv, Offered
      <3>5. QED
        BY <3>1, <3>2, <3>3, <3>4 DEF WorkInv
    <2>2. ASSUME NEW e \in Held \cup Queued \cup Offered PROVE e \in E
      <3>1. SUFFICES e.id \in Ids /\ e.n = registry[e.id] /\ e.n # None
                     /\ e = [id |-> e.id, n |-> e.n]
        BY DEF Registered
      <3>2. CASE e \in Held
        BY <3>2, JobFacts DEF Held, Holding, WorkInv, None
      <3>3. CASE e \in Queued
        <4>1. PICK k \in DOMAIN jobs : e = jobs[k]
          BY <3>3 DEF Queued
        <4>2. jobs[k] \in Job
          BY ElementOfSeq, LenProperties DEF TypeOK, JobTypeOK
        <4>3. QED
          BY <4>1, <4>2, JobFacts DEF WorkInv, Job, None
      <3>4. CASE e \in Offered
        <4>1. coordPc = "offer" /\ e = [id |-> msg.id, n |-> msg.n]
          BY <3>4 DEF Offered
        <4>2. msg \in Line /\ msg.kind = "call"
          BY <4>1 DEF TypeOK, CoordTypeOK
        <4>3. msg.id \in Ids /\ msg.n # None
          BY <4>2, LineFacts, NumberFacts DEF AddressedKinds
        <4>4. QED
          BY <4>1, <4>3 DEF TokenInv
      <3>5. QED
        BY <2>2, <3>2, <3>3, <3>4
    <2>3. QED
      BY <2>1, <2>2 DEF RegistryMatchesWork
  <1>2. QED
    BY Inductive, <1>1, PTL

\* The errors coordinate reports as unexpected never occur
\* (NothingUnexpected).
THEOREM NoSurprise == Spec => []NothingUnexpected
  <1>1. IInv => NothingUnexpected
    BY DEF IInv, ChannelInv, Serving, NothingUnexpected
  <1>2. QED
    BY Inductive, <1>1, PTL

\* A server that exits without an error has decided every admitted call
\* (DrainedAtExit).
THEOREM Drained == Spec => []DrainedAtExit
  <1>1. IInv => DrainedAtExit
    BY DEF IInv, DrainInv, WorkInv, DrainedAtExit, Registered, None
  <1>2. QED
    BY Inductive, <1>1, PTL

-----------------------------------------------------------------------------
(***************************************************************************)
(* McpServer implements McpRequests, for every set of ids, every capacity  *)
(* above one and every number of lines: what becomes of each message, as   *)
(* StatusOf reads it off the threads, takes only the steps McpRequests     *)
(* allows.                                                                 *)
(*                                                                         *)
(* The inductive invariant of McpServerProofs does not suffice.  A line    *)
(* must not be passed over, or its message would be dropped unseen; the    *)
(* worker skips only what is cancelled and commits only what was not       *)
(* answered; and the registry never holds more than MaxOutstanding calls.  *)
(***************************************************************************)

\* While the coordinator serves, it takes the lines in the order they were
\* read and leaves none out.
OrderInv ==
    Serving =>
      \/ /\ events = << >> \/ Head(events).kind = "finished"
         /\ linesRead = IF inputPc = "send" THEN msg.n + 1 ELSE msg.n
      \/ /\ events # << >> /\ Head(events).kind = "input"
         /\ Head(events).line.n = msg.n + 1
         /\ linesRead = IF inputPc = "send" THEN msg.n + 2 ELSE msg.n + 1

DecisionInv ==
    /\ workerPc = "skip" => job.n \in cancelled
    /\ workerPc = "write" => \A k \in DOMAIN out : out[k].n # job.n

BoundInv ==
    /\ IsFiniteSet(Registered)
    /\ Cardinality(Registered) <= MaxOutstanding

\* Only requests are answered.
ReplyInv == coordPc = "reply" => IsRequest(msg)

RInv == IInv /\ OrderInv /\ DecisionInv /\ BoundInv /\ ReplyInv

LEMMA OrderStep == IInv /\ OrderInv /\ [Next]_vars => OrderInv'
  <1> SUFFICES ASSUME IInv, OrderInv, [Next]_vars PROVE OrderInv'
    OBVIOUS
  <1> USE DEF inputVars, eventVars, coordVars
  <1>1. ASSUME UNCHANGED <<msg, linesRead, events>>,
               inputPc' = "send" <=> inputPc = "send",
               Serving' => Serving
        PROVE  OrderInv'
    BY <1>1 DEF OrderInv
  <1>2. msg.n \in Nat /\ linesRead \in Nat
    BY NumberTypes, ServerAssumption DEF IInv, TypeOK, InputTypeOK
  <1>3. CASE CheckStop
    BY <1>1, <1>3 DEF CheckStop, Serving
  <1>4. CASE ReadLine
    BY <1>2, <1>4 DEF ReadLine, OrderInv, Serving
  <1>5. CASE SendLine
    <2>1. events = << >>
      BY <1>5, SequenceFacts DEF SendLine, EventSlotFree, IInv, TypeOK, EventTypeOK
    <2>2. /\ events' = <<[kind |-> "input", line |-> inputLine]>>
          /\ inputLine.n = linesRead /\ inputPc = "send"
          /\ UNCHANGED <<msg, linesRead, coordPc>>
      BY <1>5, <2>1 DEF SendLine, IInv, FreshInv
    <2>3. inputPc' # "send"
      BY <1>5 DEF SendLine
    <2>4. /\ events' # << >> /\ Head(events').kind = "input"
          /\ Head(events').line.n = linesRead
      BY <2>2
    <2> QED BY <1>2, <2>1, <2>2, <2>3, <2>4 DEF OrderInv, Serving
  <1>6. CASE SendLineFails
    <2>1. ~ Serving /\ ~ Serving'
      BY <1>6 DEF SendLineFails, IInv, ChannelInv, Serving
    <2> QED BY <2>1 DEF OrderInv
  <1>7. CASE TakeInput
    <2>1. /\ events' = << >> /\ UNCHANGED <<inputPc, linesRead>>
          /\ events # << >> /\ Head(events).kind = "input"
          /\ msg' = Head(events).line /\ Serving
      BY <1>7, TailIsEmpty
      DEF TakeInput, Serving, IInv, TypeOK, EventTypeOK
    <2> QED BY <1>2, <2>1 DEF OrderInv
  <1>8. CASE TakeWorkerFinished \/ LeaveCoordinate \/ CancelAll \/ StopInput
              \/ CloseEvents \/ JoinWorker \/ JoinInput \/ OfferDisconnected
              \/ WriteReplyFails
    BY <1>8
    DEF OrderInv, Serving, TakeWorkerFinished, LeaveCoordinate, CancelAll,
        StopInput, CloseEvents, JoinWorker, JoinInput, OfferDisconnected,
        WriteReplyFails
  <1>9. CASE HandleCancel \/ HandleInitialized \/ HandleReply \/ HandleCall
              \/ InsertToken \/ OfferAccepted \/ OfferFull \/ WriteReply
    <2>1. /\ UNCHANGED <<msg, linesRead, events, inputPc>>
          /\ Serving' => Serving
      BY <1>9
      DEF Serving, HandleCancel, HandleInitialized, HandleReply, HandleCall,
          InsertToken, OfferAccepted, OfferFull, WriteReply
    <2> QED BY <1>1, <2>1
  <1>10. CASE Notify
    <2>1. events = << >>
      BY <1>10, SequenceFacts DEF Notify, EventSlotFree, IInv, TypeOK, EventTypeOK
    <2>2. /\ events' = <<[kind |-> "finished", ok |-> workerOk]>>
          /\ UNCHANGED <<msg, linesRead, coordPc, inputPc>>
      BY <1>10, <2>1 DEF Notify
    <2>3. events' # << >> /\ Head(events').kind = "finished"
      BY <2>2
    <2> QED BY <2>1, <2>2, <2>3 DEF OrderInv, Serving
  <1>11. CASE TakeJob \/ NoMoreJobs \/ StartJob \/ Evaluate \/ WorkerPanics
               \/ FinishJob \/ WriteAnswer \/ WriteAnswerFails \/ NotifyFails
    <2>1. /\ UNCHANGED <<msg, linesRead, events, inputPc>>
          /\ Serving' => Serving
      BY <1>11
      DEF Serving, TakeJob, NoMoreJobs, StartJob, Evaluate, WorkerPanics,
          FinishJob, WriteAnswer, WriteAnswerFails, NotifyFails
    <2> QED BY <1>1, <2>1
  <1>12. CASE BreakWriter \/ UNCHANGED vars
    <2>1. UNCHANGED <<msg, linesRead, events, inputPc, coordPc>>
      BY <1>12 DEF BreakWriter, vars
    <2> QED BY <1>1, <2>1 DEF Serving
  <1> QED
    BY <1>3, <1>4, <1>5, <1>6, <1>7, <1>8, <1>9, <1>10, <1>11, <1>12
    DEF Next, Input, Coordinator, Worker, Exited

LEMMA DecisionStep == IInv /\ DecisionInv /\ [Next]_vars => DecisionInv'
  <1> SUFFICES ASSUME IInv, DecisionInv, [Next]_vars PROVE DecisionInv'
    OBVIOUS
  <1> USE DEF inputVars, eventVars, coordVars, jobVars, tokenVars, workerVars,
              outputVars
  <1>1. ASSUME UNCHANGED <<workerPc, job, out>>, cancelled \subseteq cancelled'
        PROVE  DecisionInv'
    BY <1>1 DEF DecisionInv
  <1>2. CASE StartJob
    BY <1>2 DEF StartJob, DecisionInv
  <1>3. CASE FinishJob
    <2>1. /\ workerPc \in {"finish", "skip"} /\ UNCHANGED <<out, cancelled>>
          /\ workerPc' = "write" => job' = job
          /\ workerPc' # "skip"
      BY <1>3 DEF FinishJob
    <2>2. registry[job.id] = job.n /\ job.id \in Ids
      BY <2>1 DEF IInv, WorkInv, Holding, TypeOK, WorkerTypeOK, Job
    <2>3. \A k \in DOMAIN out : out[k].n # job.n
      BY <2>2 DEF IInv, TokenInv
    <2> QED BY <2>1, <2>3 DEF DecisionInv
  <1>4. CASE WriteReply
    <2>1. /\ coordPc = "reply" /\ UNCHANGED <<workerPc, job, cancelled>>
          /\ out' = Append(out, [n |-> msg.n, partial |-> FALSE])
          /\ msg \in Line
      BY <1>4 DEF WriteReply, Respond, IInv, TypeOK, CoordTypeOK
    <2>2. workerPc = "write" => job.n # msg.n
      BY <2>1 DEF IInv, WorkInv, Past, Busy
    <2>3. [n |-> msg.n, partial |-> FALSE] \in Response
      BY <2>1, LineFacts DEF Response
    <2>4. \A k \in DOMAIN out' :
             \/ out'[k] = [n |-> msg.n, partial |-> FALSE]
             \/ k \in DOMAIN out /\ out'[k] = out[k]
      BY <2>1, <2>3, AppendedElements DEF IInv, TypeOK, OutputTypeOK
    <2> QED BY <2>1, <2>2, <2>4 DEF DecisionInv
  <1>5. CASE TakeJob \/ NoMoreJobs \/ Evaluate \/ WorkerPanics \/ WriteAnswer
              \/ WriteAnswerFails \/ Notify \/ NotifyFails
    BY <1>5
    DEF DecisionInv, TakeJob, NoMoreJobs, Evaluate, WorkerPanics, WriteAnswer,
        WriteAnswerFails, Notify, NotifyFails, WorkerEnds
  <1>6. CASE TakeInput \/ TakeWorkerFinished \/ HandleCancel
              \/ HandleInitialized \/ HandleReply \/ HandleCall \/ InsertToken
              \/ OfferAccepted \/ OfferFull \/ OfferDisconnected
              \/ WriteReplyFails \/ LeaveCoordinate \/ CancelAll \/ StopInput
              \/ CloseEvents \/ JoinWorker \/ JoinInput
    BY <1>1, <1>6
    DEF TakeInput, TakeWorkerFinished, HandleCancel, HandleInitialized,
        HandleReply, HandleCall, InsertToken, OfferAccepted, OfferFull,
        OfferDisconnected, WriteReplyFails, LeaveCoordinate, CancelAll,
        StopInput, CloseEvents, JoinWorker, JoinInput
  <1>7. CASE Input \/ BreakWriter \/ UNCHANGED vars
    BY <1>1, <1>7
    DEF Input, CheckStop, ReadLine, SendLine, SendLineFails, BreakWriter, vars
  <1> QED
    BY <1>2, <1>3, <1>4, <1>5, <1>6, <1>7
    DEF Next, Coordinator, Worker, Exited

LEMMA BoundStep == IInv /\ BoundInv /\ [Next]_vars => BoundInv'
  <1> SUFFICES ASSUME IInv, BoundInv, [Next]_vars PROVE BoundInv'
    OBVIOUS
  <1> USE DEF inputVars, eventVars, coordVars, jobVars, tokenVars, workerVars,
              outputVars
  <1>1. registry \in [Ids -> Nat]
    BY NumberTypes DEF IInv
  <1>2. ASSUME Registered' \subseteq Registered
        PROVE  BoundInv'
    BY <1>2, FS_Subset, FS_CardinalityType, ServerAssumption DEF BoundInv
  <1>3. ASSUME UNCHANGED registry PROVE BoundInv'
    BY <1>3 DEF BoundInv, Registered
  <1>4. CASE InsertToken
    <2>1. CASE IsActive(msg.id) \/ Cardinality(Registered) >= MaxOutstanding
      BY <1>3, <1>4, <2>1 DEF InsertToken
    <2>2. CASE ~ (IsActive(msg.id) \/ Cardinality(Registered) >= MaxOutstanding)
      <3>1. registry' = [registry EXCEPT ![msg.id] = msg.n]
        BY <1>4, <2>2 DEF InsertToken
      <3>2. Registered' \subseteq Registered \cup {msg.id}
        BY <1>1, <3>1 DEF Registered
      <3>3. /\ IsFiniteSet(Registered \cup {msg.id})
            /\ Cardinality(Registered \cup {msg.id}) <= Cardinality(Registered) + 1
            /\ Cardinality(Registered \cup {msg.id}) \in Nat
            /\ Cardinality(Registered) \in Nat
        <4>1. IsFiniteSet(Registered) /\ Cardinality(Registered) \in Nat
          BY FS_CardinalityType DEF BoundInv
        <4>2. /\ IsFiniteSet(Registered \cup {msg.id})
              /\ Cardinality(Registered \cup {msg.id})
                   = IF msg.id \in Registered THEN Cardinality(Registered)
                     ELSE Cardinality(Registered) + 1
          BY <4>1, FS_AddElement
        <4> QED BY <4>1, <4>2
      <3>4. /\ IsFiniteSet(Registered')
            /\ Cardinality(Registered') <= Cardinality(Registered \cup {msg.id})
            /\ Cardinality(Registered') \in Nat
        BY <3>2, <3>3, FS_Subset, FS_CardinalityType
      <3> QED BY <2>2, <3>3, <3>4, ServerAssumption DEF BoundInv
    <2> QED BY <2>1, <2>2
  <1>5. CASE OfferFull \/ OfferDisconnected \/ FinishJob
    <2>1. Registered' \subseteq Registered
      BY <1>1, <1>5
      DEF OfferFull, OfferDisconnected, FinishJob, Unregister, Registered, None
    <2> QED BY <1>2, <2>1
  <1>6. CASE TakeInput \/ TakeWorkerFinished \/ HandleCancel
              \/ HandleInitialized \/ HandleReply \/ HandleCall
              \/ OfferAccepted \/ WriteReply \/ WriteReplyFails
              \/ LeaveCoordinate \/ CancelAll \/ StopInput \/ CloseEvents
              \/ JoinWorker \/ JoinInput
    BY <1>3, <1>6
    DEF TakeInput, TakeWorkerFinished, HandleCancel, HandleInitialized,
        HandleReply, HandleCall, OfferAccepted, WriteReply, WriteReplyFails,
        LeaveCoordinate, CancelAll, StopInput, CloseEvents, JoinWorker,
        JoinInput
  <1>7. CASE TakeJob \/ NoMoreJobs \/ StartJob \/ Evaluate \/ WorkerPanics
              \/ WriteAnswer \/ WriteAnswerFails \/ Notify \/ NotifyFails
    BY <1>3, <1>7
    DEF TakeJob, NoMoreJobs, StartJob, Evaluate, WorkerPanics, WriteAnswer,
        WriteAnswerFails, Notify, NotifyFails
  <1>8. CASE Input \/ BreakWriter \/ UNCHANGED vars
    BY <1>3, <1>8
    DEF Input, CheckStop, ReadLine, SendLine, SendLineFails, BreakWriter, vars
  <1> QED
    BY <1>4, <1>5, <1>6, <1>7, <1>8 DEF Next, Coordinator, Worker, Exited

LEMMA ReplyInvStep == IInv /\ ReplyInv /\ [Next]_vars => ReplyInv'
  <1> SUFFICES ASSUME IInv, ReplyInv, [Next]_vars PROVE ReplyInv'
    OBVIOUS
  <1> USE DEF inputVars, eventVars, coordVars
  <1>1. CASE HandleReply
    BY <1>1 DEF HandleReply, ReplyInv, IsRequest
  <1>2. CASE InsertToken \/ OfferFull
    BY <1>2
    DEF InsertToken, OfferFull, ReplyInv, IsRequest, IInv, TypeOK, CoordTypeOK
  <1>3. CASE TakeInput \/ TakeWorkerFinished \/ HandleCancel
              \/ HandleInitialized \/ HandleCall \/ OfferAccepted
              \/ OfferDisconnected \/ WriteReply \/ WriteReplyFails
              \/ LeaveCoordinate \/ CancelAll \/ StopInput \/ CloseEvents
              \/ JoinWorker \/ JoinInput
    BY <1>3
    DEF TakeInput, TakeWorkerFinished, HandleCancel, HandleInitialized,
        HandleCall, OfferAccepted, OfferDisconnected, WriteReply,
        WriteReplyFails, LeaveCoordinate, CancelAll, StopInput, CloseEvents,
        JoinWorker, JoinInput, ReplyInv
  <1>4. CASE Input \/ Worker \/ BreakWriter \/ UNCHANGED vars
    <2>1. UNCHANGED <<coordPc, msg>>
      BY <1>4
      DEF Input, CheckStop, ReadLine, SendLine, SendLineFails, Worker, TakeJob,
          NoMoreJobs, StartJob, Evaluate, WorkerPanics, FinishJob, WriteAnswer,
          WriteAnswerFails, Notify, NotifyFails, BreakWriter, vars
    <2> QED BY <2>1 DEF ReplyInv, IsRequest
  <1> QED BY <1>1, <1>2, <1>3, <1>4 DEF Next, Coordinator, Exited

\* The strengthened invariant.
THEOREM InductiveForRequests == Spec => []RInv
  <1>1. Init => OrderInv /\ DecisionInv /\ BoundInv /\ ReplyInv
    <2> SUFFICES ASSUME Init
                 PROVE  OrderInv /\ DecisionInv /\ BoundInv /\ ReplyInv
      OBVIOUS
    <2>1. OrderInv /\ DecisionInv /\ ReplyInv
      BY DEF Init, OrderInv, DecisionInv, ReplyInv, NoLine
    <2>2. Registered = {}
      BY DEF Init, Registered
    <2>3. BoundInv
      BY <2>2, FS_EmptySet, ServerAssumption DEF BoundInv
    <2> QED BY <2>1, <2>3
  <1>2. Init => RInv
    BY <1>1, InvInit DEF RInv
  <1>3. IInv /\ [Next]_vars => IInv'
    BY TypeStep, FreshStep, TokenStep, WorkStep, ChannelStep, DrainStep
    DEF IInv
  <1>4. RInv /\ [Next]_vars => RInv'
    BY <1>3, OrderStep, DecisionStep, BoundStep, ReplyInvStep DEF RInv
  <1> QED BY <1>2, <1>4, PTL DEF Spec

-----------------------------------------------------------------------------
(* The status of a message, read off the state of the threads.             *)

\* The number is in the registry.
Live(n) == \E i \in Ids : registry[i] = n

\* The worker holds the answer of the call.
Answering(n) == workerPc = "write" /\ job.n = n

\* What StatusOf says, in these words; each case excludes the others.
LEMMA StatusCases ==
    ASSUME RInv, NEW n \in LineNumbers
    PROVE  /\ n \in Written => ~ Untouched(n) /\ ~ Live(n) /\ ~ Answering(n)
           /\ Untouched(n) => n \notin cancelled /\ ~ Answering(n)
           /\ Untouched(n) /\ Live(n) => coordPc = "offer" /\ n = msg.n
           /\ Answering(n) => ~ Live(n) /\ n \notin cancelled
           /\ StatusOf(n) =
                 IF n \in Written THEN "answered"
                 ELSE IF Untouched(n) THEN "new"
                 ELSE IF Live(n)
                      THEN IF n \in cancelled THEN "cancelled" ELSE "pending"
                 ELSE IF Answering(n) THEN "committed" ELSE "dropped"
  <1>1. n \in Nat /\ n # None /\ msg.n \in Nat /\ registry \in [Ids -> Nat]
    BY NumberFacts, NumberTypes DEF RInv, IInv
  <1>2. n \in Written => Past(n) /\ ~ Live(n) /\ ~ Answering(n)
    BY DEF RInv, IInv, TokenInv, DecisionInv, Written, Live, Answering
  <1>3. Past(n) => ~ Untouched(n)
    BY <1>1 DEF Past, Untouched, Busy
  <1>4. n \in cancelled => Past(n)
    BY DEF RInv, IInv, TokenInv
  <1>5. Answering(n) => Past(n) /\ ~ Live(n) /\ n \notin cancelled
    BY DEF RInv, IInv, WorkInv, Answering, Live
  <1>6. Untouched(n) /\ Live(n) => coordPc = "offer" /\ n = msg.n
    BY <1>1 DEF RInv, IInv, TokenInv, Untouched, Live
  <1> QED
    BY <1>2, <1>3, <1>4, <1>5, <1>6 DEF StatusOf, Live, Answering

\* A step that moves one message.
LEMMA Moves ==
    ASSUME NEW m \in LineNumbers, NEW from, NEW to,
           StatusOf(m) = from, StatusOf(m)' = to, UNCHANGED writerOpen,
           \A n \in LineNumbers : n # m => StatusOf(n)' = StatusOf(n)
    PROVE  Requests!Move(m, from, to)
  BY DEF Requests!Move

\* A step that moves none.
LEMMA Stays ==
    ASSUME \A n \in LineNumbers : StatusOf(n)' = StatusOf(n)
    PROVE  UNCHANGED [n \in LineNumbers |-> StatusOf(n)]
  OBVIOUS

\* A step that changes nothing a status depends on.
LEMMA Same ==
    ASSUME RInv, UNCHANGED <<out, cancelled, writerOpen>>,
           \A n \in LineNumbers :
              /\ Untouched(n)' <=> Untouched(n)
              /\ ~ Untouched(n) => /\ Live(n)' <=> Live(n)
                                   /\ Answering(n)' <=> Answering(n)
    PROVE  UNCHANGED Requests!vars
  <1>1. Written' = Written
    BY DEF Written
  <1>2. ASSUME NEW n \in LineNumbers PROVE StatusOf(n)' = StatusOf(n)
    <2>1. (StatusOf(n) =
                 IF n \in Written THEN "answered"
                 ELSE IF Untouched(n) THEN "new"
                 ELSE IF Live(n)
                      THEN IF n \in cancelled THEN "cancelled" ELSE "pending"
                 ELSE IF Answering(n) THEN "committed" ELSE "dropped")'
      BY DEF StatusOf, Live, Answering
    <2> QED BY <1>1, <2>1, StatusCases
  <1> QED BY <1>2, Stays DEF Requests!vars

\* A message none of whose parts changes keeps its status.
LEMMA SameStatus ==
    ASSUME NEW n \in LineNumbers,
           Untouched(n)' <=> Untouched(n),
           Live(n)' <=> Live(n), Answering(n)' <=> Answering(n),
           n \in Written' <=> n \in Written,
           n \in cancelled' <=> n \in cancelled
    PROVE  StatusOf(n)' = StatusOf(n)
  BY DEF StatusOf, Live, Answering

\* The number a step of the coordinator is about.
LEMMA MessageNumber ==
    ASSUME RInv, coordPc \in {"handle", "insert", "offer", "reply"}
    PROVE  /\ msg \in Line /\ msg.n \in LineNumbers
           /\ IsRequest(msg) => Untouched(msg.n)
  BY LineFacts DEF RInv, IInv, TypeOK, CoordTypeOK, Untouched

\* Steps of the input thread, and those in which a thread only goes on.
LEMMA QuietSteps ==
    ASSUME RInv,
           \/ Input \/ TakeWorkerFinished \/ HandleInitialized \/ HandleReply
           \/ HandleCall \/ LeaveCoordinate \/ StopInput \/ CloseEvents
           \/ JoinWorker \/ JoinInput
           \/ TakeJob \/ NoMoreJobs \/ StartJob \/ Evaluate \/ WorkerPanics
           \/ Notify \/ NotifyFails
    PROVE  UNCHANGED Requests!vars
  <1> USE DEF inputVars, eventVars, coordVars, jobVars, tokenVars, workerVars,
              outputVars
  <1>1. UNCHANGED <<out, registry, cancelled, writerOpen, msg>>
    BY DEF Input, CheckStop, ReadLine, SendLine, SendLineFails,
           TakeWorkerFinished, HandleInitialized, HandleReply, HandleCall,
           LeaveCoordinate, StopInput, CloseEvents, JoinWorker, JoinInput,
           TakeJob, NoMoreJobs, StartJob, Evaluate, WorkerPanics, Notify,
           NotifyFails, WorkerEnds
  <1>2. \/ coordPc' = coordPc
        \/ /\ coordPc = "handle" /\ msg.kind = "initialized"
           /\ coordPc' = "recv"
        \/ {coordPc, coordPc'} \subseteq {"handle", "insert", "offer", "reply"}
        \/ /\ coordPc \notin {"handle", "insert", "offer", "reply"}
           /\ coordPc' \notin {"handle", "insert", "offer", "reply"}
    BY DEF Input, CheckStop, ReadLine, SendLine, SendLineFails,
           TakeWorkerFinished, HandleInitialized, HandleReply, HandleCall,
           LeaveCoordinate, StopInput, CloseEvents, JoinWorker, JoinInput,
           TakeJob, NoMoreJobs, StartJob, Evaluate, WorkerPanics, Notify,
           NotifyFails
  <1>3. ASSUME NEW n \in LineNumbers
        PROVE  Untouched(n)' <=> Untouched(n)
    BY <1>1, <1>2 DEF Untouched, IsRequest
  <1>4. \/ UNCHANGED <<workerPc, job>>
        \/ workerPc # "write" /\ workerPc' # "write"
    BY DEF Input, CheckStop, ReadLine, SendLine, SendLineFails,
           TakeWorkerFinished, HandleInitialized, HandleReply, HandleCall,
           LeaveCoordinate, StopInput, CloseEvents, JoinWorker, JoinInput,
           TakeJob, NoMoreJobs, StartJob, Evaluate, WorkerPanics, Notify,
           NotifyFails, WorkerEnds
  <1>5. \A n \in LineNumbers : /\ Live(n)' <=> Live(n)
                               /\ Answering(n)' <=> Answering(n)
    BY <1>1, <1>4 DEF Live, Answering
  <1> QED BY <1>1, <1>3, <1>5, Same

\* A call under registration is not admitted before it is offered.
LEMMA RegisterSteps ==
    ASSUME RInv, InsertToken \/ OfferFull
    PROVE  UNCHANGED Requests!vars
  <1> USE DEF inputVars, eventVars, coordVars, jobVars, tokenVars, workerVars,
              outputVars
  <1>1. /\ UNCHANGED <<out, cancelled, writerOpen, msg, workerPc, job>>
        /\ coordPc \in {"insert", "offer"} /\ coordPc' \in {"offer", "reply"}
    BY DEF InsertToken, OfferFull
  <1>2. /\ msg.id \in Ids /\ registry \in [Ids -> Nat]
        /\ Untouched(msg.n) /\ msg.n \in LineNumbers
    BY <1>1, MessageNumber, LineFacts, NumberTypes
    DEF RInv, IInv, TypeOK, CoordTypeOK, AddressedKinds, IsRequest
  <1>3. \/ registry' = registry
        \/ InsertToken /\ registry[msg.id] = None
             /\ registry' = [registry EXCEPT ![msg.id] = msg.n]
        \/ OfferFull /\ registry[msg.id] = msg.n
             /\ registry' = [registry EXCEPT ![msg.id] = None]
    BY DEF InsertToken, OfferFull, Unregister, IsActive
  <1>4. ASSUME NEW n \in LineNumbers, n # msg.n
        PROVE  Live(n)' <=> Live(n)
    <2>1. n # None
      BY NumberFacts
    <2> QED BY <1>1, <1>2, <1>3, <1>4, <2>1 DEF Live
  <1>5. ASSUME NEW n \in LineNumbers
        PROVE  Untouched(n)' <=> Untouched(n)
    BY <1>1 DEF Untouched, IsRequest
  <1>6. \A n \in LineNumbers : Answering(n)' <=> Answering(n)
    BY <1>1 DEF Answering
  <1> QED BY <1>1, <1>2, <1>4, <1>5, <1>6, Same

\* Taking a line decides what is no request.
LEMMA TakeInputStep ==
    ASSUME RInv, TakeInput
    PROVE  [Requests!Next]_(Requests!vars)
  <1> USE DEF inputVars, eventVars, coordVars, jobVars, tokenVars, workerVars,
              outputVars
  <1> DEFINE l == Head(events).line
  <1>1. /\ UNCHANGED <<out, registry, cancelled, writerOpen, workerPc, job>>
        /\ coordPc = "recv" /\ msg' = l /\ events # << >>
        /\ Head(events).kind = "input"
        /\ coordPc' = CASE l.kind = "error" -> "leave"
                       [] l.kind \in {"eof", "blank"} -> "recv"
                       [] OTHER -> "handle"
    BY DEF TakeInput
  <1>2. l.n = msg.n + 1
    BY <1>1 DEF RInv, OrderInv, Serving
  <1>3. l \in Line /\ l.n \in LineNumbers /\ msg.n \in Nat
    <2>1. Head(events) = events[1] /\ 1 \in DOMAIN events
      BY <1>1, TailIsEmpty DEF RInv, IInv, TypeOK, EventTypeOK
    <2>2. l \in Line
      BY <1>1, <2>1, EventFacts DEF RInv, IInv
    <2> QED BY <2>2, LineFacts, NumberTypes DEF RInv, IInv
  <1> HIDE DEF l
  <1>4. \A n \in LineNumbers :
           /\ Live(n)' <=> Live(n)
           /\ Answering(n)' <=> Answering(n)
           /\ n \in Written' <=> n \in Written
    BY <1>1 DEF Live, Answering, Written
  <1>5. \A n \in LineNumbers : Untouched(n) <=> n > msg.n
    BY <1>1 DEF Untouched
  <1>6. \A n \in LineNumbers : n \in Nat
    BY NumberFacts
  <1>7. \A n \in LineNumbers : n > msg.n <=> n = l.n \/ n > l.n
    BY <1>2, <1>3, <1>6
  <1>8. IsRequest(l) => coordPc' = "handle"
    BY <1>1 DEF IsRequest
  <1>9. CASE IsRequest(l)
    <2>1. \A n \in LineNumbers : Untouched(n)' <=> Untouched(n)
      BY <1>1, <1>5, <1>7, <1>8, <1>9 DEF Untouched
    <2> QED BY <1>1, <1>4, <2>1, Same
  <1>10. CASE ~ IsRequest(l)
    <2>1. \A n \in LineNumbers :
             n # l.n => (Untouched(n)' <=> Untouched(n))
      BY <1>1, <1>5, <1>7, <1>10 DEF Untouched
    <2>2. Untouched(l.n) /\ ~ Live(l.n)
      BY <1>1, <1>3, <1>5, <1>7, StatusCases
    <2>4. StatusOf(l.n) = "new"
      BY <1>3, <2>2, StatusCases
    <2>5. PICK m \in LineNumbers : m = l.n
      BY <1>3
    <2>6. /\ m \notin Written' /\ ~ (Live(m)') /\ ~ (Answering(m)')
          /\ ~ (Untouched(m)')
      <3>1. /\ m \notin Written /\ ~ Live(m) /\ ~ Answering(m)
        BY <1>3, <2>2, <2>5, StatusCases
      <3>2. ~ (Untouched(m)')
        BY <1>1, <1>3, <1>6, <1>10, <2>5 DEF Untouched
      <3> QED BY <1>4, <3>1, <3>2
    <2>7. StatusOf(m)' = "dropped"
      BY <2>6 DEF StatusOf, Live, Answering
    <2>8. ASSUME NEW n \in LineNumbers, n # m
          PROVE  StatusOf(n)' = StatusOf(n)
      <3>1. Untouched(n)' <=> Untouched(n)
        BY <2>1, <2>5, <2>8
      <3>2. /\ Live(n)' <=> Live(n)
            /\ Answering(n)' <=> Answering(n)
            /\ n \in Written' <=> n \in Written
        BY <1>4
      <3>3. cancelled' = cancelled
        BY <1>1
      <3> QED BY <3>1, <3>2, <3>3, SameStatus
    <2>9. Requests!Move(m, "new", "dropped")
      BY <1>1, <2>4, <2>5, <2>7, <2>8, Moves
    <2> QED BY <2>9 DEF Requests!Next, Requests!Ignore
  <1> QED BY <1>9, <1>10

\* What Append adds to the written numbers.
LEMMA WrittenGrows ==
    ASSUME RInv, NEW n \in LineNumbers, NEW p \in BOOLEAN, Respond(n, p)
    PROVE  Written' = Written \cup {n}
  <1>1. [n |-> n, partial |-> p] \in Response /\ out \in Seq(Response)
    BY DEF Response, RInv, IInv, TypeOK, OutputTypeOK
  <1>2. /\ out' = Append(out, [n |-> n, partial |-> p])
        /\ out \in Seq(Response)
    BY <1>1 DEF Respond
  <1>3. \A k \in DOMAIN out' :
           \/ k \in DOMAIN out /\ out'[k] = out[k]
           \/ out'[k] = [n |-> n, partial |-> p]
    BY <1>1, <1>2, AppendedElements
  <1>4. /\ \A k \in DOMAIN out : k \in DOMAIN out' /\ out'[k] = out[k]
        /\ Len(out) + 1 \in DOMAIN out'
        /\ out'[Len(out) + 1] = [n |-> n, partial |-> p]
    BY <1>1, <1>2, AppendProperties, LenProperties
  <1> QED BY <1>3, <1>4 DEF Written

\* A step of the coordinator that is done with the message it holds.
LEMMA MessageDone ==
    ASSUME RInv, coordPc \in {"handle", "offer", "reply"}, msg' = msg,
           coordPc' \in {"recv", "leave"}, NEW n \in LineNumbers
    PROVE  /\ n = msg.n => ~ Untouched(n)'
           /\ n # msg.n => (Untouched(n)' <=> Untouched(n))
  <1>1. msg.n \in Nat /\ ~ (msg.n > msg.n)
    BY NumberTypes DEF RInv, IInv
  <1> QED BY <1>1 DEF Untouched

\* An answer or an error that the coordinator writes itself.
LEMMA ReplySteps ==
    ASSUME RInv, WriteReply \/ WriteReplyFails
    PROVE  [Requests!Next]_(Requests!vars)
  <1> USE DEF inputVars, eventVars, coordVars, jobVars, tokenVars, workerVars,
              outputVars
  <1>1. /\ UNCHANGED <<registry, cancelled, writerOpen, msg, workerPc, job>>
        /\ coordPc = "reply" /\ coordPc' \in {"recv", "leave"}
    BY DEF WriteReply, WriteReplyFails
  <1>2. msg.n \in LineNumbers
    BY <1>1, MessageNumber
  <1>3. \A n \in LineNumbers :
           /\ n = msg.n => ~ Untouched(n)'
           /\ n # msg.n => (Untouched(n)' <=> Untouched(n))
    BY <1>1, MessageDone
  <1>4. \A n \in LineNumbers : /\ Live(n)' <=> Live(n)
                               /\ Answering(n)' <=> Answering(n)
    BY <1>1 DEF Live, Answering
  <1>5. Untouched(msg.n) /\ StatusOf(msg.n) = "new"
    <2>1. IsRequest(msg)
      BY <1>1 DEF RInv, ReplyInv
    <2> QED BY <1>1, <1>2, <2>1, MessageNumber, StatusCases
  <1>6. ~ Live(msg.n) /\ ~ Answering(msg.n) /\ msg.n \notin Written
    BY <1>1, <1>2, <1>5, StatusCases
  <1>7. PICK m \in LineNumbers : m = msg.n
    BY <1>2
  <1>8. ASSUME \A n \in LineNumbers :
                  n # m => (n \in Written' <=> n \in Written)
        PROVE  \A n \in LineNumbers : n # m => StatusOf(n)' = StatusOf(n)
    <2> SUFFICES ASSUME NEW n \in LineNumbers, n # m
                 PROVE  StatusOf(n)' = StatusOf(n)
      OBVIOUS
    <2>1. Untouched(n)' <=> Untouched(n)
      BY <1>3, <1>7
    <2>2. /\ Live(n)' <=> Live(n)
          /\ Answering(n)' <=> Answering(n)
      BY <1>4
    <2>3. n \in Written' <=> n \in Written
      BY <1>8
    <2>4. cancelled' = cancelled
      BY <1>1
    <2> QED BY <2>1, <2>2, <2>3, <2>4, SameStatus
  <1>9. CASE WriteReply
    <2>1. Written' = Written \cup {m}
      BY <1>2, <1>7, <1>9, WrittenGrows DEF WriteReply
    <2>2. StatusOf(m)' = "answered"
      BY <2>1 DEF StatusOf
    <2>3. Requests!Move(m, "new", "answered")
      BY <1>1, <1>5, <1>7, <1>8, <2>1, <2>2, Moves
    <2> QED BY <2>3 DEF Requests!Next, Requests!Reply
  <1>10. CASE WriteReplyFails
    <2>1. Written' = Written
      BY <1>10 DEF WriteReplyFails, Written
    <2>2. /\ m \notin Written' /\ ~ Untouched(m)'
          /\ ~ Live(m)' /\ ~ Answering(m)'
      BY <1>3, <1>4, <1>6, <1>7, <2>1
    <2>3. StatusOf(m)' = "dropped"
      BY <2>2 DEF StatusOf, Live, Answering
    <2>4. Requests!Move(m, "new", "dropped")
      BY <1>1, <1>5, <1>7, <1>8, <2>1, <2>3, Moves
    <2> QED BY <2>4 DEF Requests!Next, Requests!Ignore
  <1> QED BY <1>9, <1>10

\* A cancellation reaches the call that is registered under the id, if there
\* is one that is not cancelled yet.
LEMMA CancelStep ==
    ASSUME RInv, HandleCancel
    PROVE  [Requests!Next]_(Requests!vars)
  <1> USE DEF inputVars, eventVars, coordVars, jobVars, tokenVars, workerVars,
              outputVars
  <1> DEFINE t == registry[msg.id]
  <1>1. /\ UNCHANGED <<registry, out, writerOpen, msg, workerPc, job>>
        /\ coordPc = "handle" /\ coordPc' = "recv" /\ msg.kind = "cancel"
        /\ cancelled' = cancelled \cup ({t} \ {None})
    BY DEF HandleCancel
  <1>2. /\ msg.id \in Ids /\ msg.n \in LineNumbers
        /\ t \in LineNumbers \cup {None} /\ registry \in [Ids -> Nat]
    <2>1. msg \in Line /\ msg.kind \in AddressedKinds
      BY <1>1, MessageNumber DEF AddressedKinds
    <2> QED BY <2>1, LineFacts, NumberTypes
            DEF RInv, IInv, TypeOK, TokenTypeOK
  <1>3. t # None => Live(t)
    BY <1>2 DEF Live
  <1> HIDE DEF t
  <1>4. \A n \in LineNumbers : /\ Untouched(n)' <=> Untouched(n)
                               /\ Live(n)' <=> Live(n)
                               /\ Answering(n)' <=> Answering(n)
                               /\ n \in Written' <=> n \in Written
    BY <1>1 DEF Untouched, IsRequest, Live, Answering, Written
  <1>5. CASE t = None \/ t \in cancelled
    <2>1. UNCHANGED <<out, cancelled, writerOpen>>
      BY <1>1, <1>5
    <2> QED BY <1>4, <2>1, Same
  <1>6. CASE t # None /\ t \notin cancelled
    <2>1. PICK m \in LineNumbers : m = t
      BY <1>2, <1>6
    <2>2. /\ m \notin Written /\ ~ Untouched(m) /\ Live(m)
          /\ m \notin cancelled
      BY <1>1, <1>3, <1>6, <2>1, StatusCases
    <2>3. StatusOf(m) = "pending"
      BY <2>2, StatusCases
    <2>4. /\ m \notin Written' /\ ~ Untouched(m)' /\ Live(m)'
          /\ m \in cancelled'
      BY <1>1, <1>4, <1>6, <2>1, <2>2
    <2>5. StatusOf(m)' = "cancelled"
      BY <2>4 DEF StatusOf, Live
    <2>6. ASSUME NEW n \in LineNumbers, n # m
          PROVE  StatusOf(n)' = StatusOf(n)
      <3>1. n \in cancelled' <=> n \in cancelled
        BY <1>1, <2>1, <2>6
      <3> QED BY <1>4, <3>1, SameStatus
    <2>7. Requests!Move(m, "pending", "cancelled")
      BY <1>1, <2>3, <2>5, <2>6, Moves
    <2> QED BY <2>7 DEF Requests!Next, Requests!Cancel
  <1> QED BY <1>5, <1>6

\* A call the worker can no longer take.
LEMMA DisconnectedStep ==
    ASSUME RInv, OfferDisconnected
    PROVE  [Requests!Next]_(Requests!vars)
  <1> USE DEF inputVars, eventVars, coordVars, jobVars, tokenVars, workerVars,
              outputVars
  <1>1. /\ UNCHANGED <<cancelled, out, writerOpen, msg, workerPc, job>>
        /\ coordPc = "offer" /\ coordPc' = "leave" /\ ~ workerAlive
        /\ Unregister(msg.id, msg.n)
    BY DEF OfferDisconnected
  <1>2. /\ msg.id \in Ids /\ msg.n \in LineNumbers
        /\ registry \in [Ids -> Nat] /\ registry[msg.id] = msg.n
        /\ IsRequest(msg)
    <2>1. msg \in Line /\ msg.kind = "call"
      BY <1>1 DEF RInv, IInv, TypeOK, CoordTypeOK
    <2> QED BY <1>1, <2>1, LineFacts, NumberTypes
            DEF RInv, IInv, TokenInv, AddressedKinds, IsRequest
  <1>3. registry' = [registry EXCEPT ![msg.id] = None]
    BY <1>1, <1>2 DEF Unregister
  <1>4. PICK m \in LineNumbers : m = msg.n
    BY <1>2
  <1>5. /\ \A i \in Ids : registry'[i] # m
        /\ \A n \in LineNumbers : n # m => (Live(n)' <=> Live(n))
    <2>1. \A i \in Ids : registry[i] = m => i = msg.id
      BY <1>2, <1>4, NumberFacts DEF RInv, IInv, TokenInv
    <2> QED BY <1>2, <1>3, <1>4, <2>1, NumberFacts DEF Live
  <1>6. \A n \in LineNumbers :
           /\ n = m => ~ Untouched(n)'
           /\ n # m => (Untouched(n)' <=> Untouched(n))
    BY <1>1, <1>4, MessageDone
  <1>7. \A n \in LineNumbers : /\ Answering(n)' <=> Answering(n)
                               /\ n \in Written' <=> n \in Written
                               /\ n \in cancelled' <=> n \in cancelled
    BY <1>1 DEF Answering, Written
  <1>8. Untouched(m)
    BY <1>1, <1>2, <1>4, MessageNumber
  <1>9. StatusOf(m) = "new" /\ m \notin Written /\ ~ Answering(m)
    BY <1>8, StatusCases
  <1>10. /\ m \notin Written' /\ ~ Untouched(m)' /\ ~ Live(m)'
         /\ ~ Answering(m)'
    BY <1>5, <1>6, <1>7, <1>9 DEF Live
  <1>11. StatusOf(m)' = "dropped"
    BY <1>10 DEF StatusOf, Live, Answering
  <1>12. \A n \in LineNumbers : n # m => StatusOf(n)' = StatusOf(n)
    BY <1>5, <1>6, <1>7, SameStatus
  <1>13. Requests!Move(m, "new", "dropped")
    BY <1>1, <1>9, <1>11, <1>12, Moves
  <1> QED BY <1>13 DEF Requests!Next, Requests!Ignore

\* The instance counts as this module does.
LEMMA SameCount == \A S : Requests!Cardinality(S) = Cardinality(S)
  BY DEF Cardinality, Requests!Cardinality

\* The undecided calls are registered, the one under registration is not yet
\* one of them, and so there is room for it.
LEMMA RoomForOffer ==
    ASSUME RInv, coordPc = "offer"
    PROVE  Cardinality(Requests!Undecided) < MaxOutstanding
  <1> DEFINE D == Registered \ {msg.id}
             f == [i \in D |-> registry[i]]
             T == {registry[i] : i \in D}
  <1>1. /\ msg.id \in Ids /\ msg.n \in LineNumbers
        /\ registry[msg.id] = msg.n /\ IsRequest(msg)
        /\ registry \in [Ids -> Nat]
    <2>1. msg \in Line /\ msg.kind = "call"
      BY DEF RInv, IInv, TypeOK, CoordTypeOK
    <2> QED BY <2>1, LineFacts, NumberTypes
            DEF RInv, IInv, TokenInv, AddressedKinds, IsRequest
  <1>2. msg.id \in Registered
    BY <1>1, NumberFacts DEF Registered
  <1>3. /\ IsFiniteSet(Registered) /\ Cardinality(Registered) \in Nat
        /\ Cardinality(Registered) <= MaxOutstanding
    BY FS_CardinalityType DEF RInv, BoundInv
  <1>4. IsFiniteSet(D) /\ Cardinality(D) = Cardinality(Registered) - 1
    BY <1>2, <1>3, FS_RemoveElement
  <1>5. f \in Surjection(D, T)
    BY DEF Surjection
  <1>6. IsFiniteSet(T) /\ Cardinality(T) <= Cardinality(D)
    BY <1>4, <1>5, FS_Surjection
  <1>7. Requests!Undecided \subseteq T
    <2> SUFFICES ASSUME NEW n \in LineNumbers,
                        StatusOf(n) \in {"pending", "cancelled"}
                 PROVE  n \in T
      BY DEF Requests!Undecided
    <2>1. Live(n) /\ ~ Untouched(n)
      BY StatusCases
    <2>2. n # msg.n
      BY <1>1, <2>1 DEF Untouched
    <2>3. PICK i \in Ids : registry[i] = n
      BY <2>1 DEF Live
    <2>4. i \in D
      BY <1>1, <2>2, <2>3, NumberFacts DEF Registered
    <2> QED BY <2>3, <2>4
  <1> HIDE DEF D, f, T
  <1>8. /\ IsFiniteSet(Requests!Undecided)
        /\ Cardinality(Requests!Undecided) <= Cardinality(T)
    BY <1>6, <1>7, FS_Subset
  <1>9. Cardinality(Requests!Undecided) \in Nat /\ Cardinality(T) \in Nat
    BY <1>6, <1>8, FS_CardinalityType
  <1> QED BY <1>3, <1>4, <1>6, <1>8, <1>9, ServerAssumption

\* A call is admitted when the queue takes it.
LEMMA AcceptedStep ==
    ASSUME RInv, OfferAccepted
    PROVE  [Requests!Next]_(Requests!vars)
  <1> USE DEF inputVars, eventVars, coordVars, jobVars, tokenVars, workerVars,
              outputVars
  <1>1. /\ UNCHANGED <<registry, cancelled, out, writerOpen, msg, workerPc, job>>
        /\ coordPc = "offer" /\ coordPc' = "recv"
    BY DEF OfferAccepted
  <1>2. /\ msg.id \in Ids /\ msg.n \in LineNumbers
        /\ registry[msg.id] = msg.n /\ IsRequest(msg)
    <2>1. msg \in Line /\ msg.kind = "call"
      BY <1>1 DEF RInv, IInv, TypeOK, CoordTypeOK
    <2> QED BY <1>1, <2>1, LineFacts
            DEF RInv, IInv, TokenInv, AddressedKinds, IsRequest
  <1>3. PICK m \in LineNumbers : m = msg.n
    BY <1>2
  <1>4. Live(m) /\ Untouched(m)
    BY <1>1, <1>2, <1>3, MessageNumber DEF Live
  <1>5. StatusOf(m) = "new" /\ m \notin Written /\ m \notin cancelled
    BY <1>4, StatusCases
  <1>6. \A n \in LineNumbers :
           /\ n = m => ~ Untouched(n)'
           /\ n # m => (Untouched(n)' <=> Untouched(n))
    BY <1>1, <1>3, MessageDone
  <1>7. \A n \in LineNumbers : /\ Live(n)' <=> Live(n)
                               /\ Answering(n)' <=> Answering(n)
                               /\ n \in Written' <=> n \in Written
                               /\ n \in cancelled' <=> n \in cancelled
    BY <1>1 DEF Live, Answering, Written
  <1>8. /\ m \notin Written' /\ ~ Untouched(m)' /\ Live(m)'
        /\ m \notin cancelled'
    BY <1>4, <1>5, <1>6, <1>7
  <1>9. StatusOf(m)' = "pending"
    BY <1>8 DEF StatusOf, Live
  <1>10. \A n \in LineNumbers : n # m => StatusOf(n)' = StatusOf(n)
    BY <1>6, <1>7, SameStatus
  <1>11. Requests!Move(m, "new", "pending")
    BY <1>1, <1>5, <1>9, <1>10, Moves
  <1>12. Cardinality(Requests!Undecided) < MaxOutstanding
    BY <1>1, RoomForOffer
  <1>13. Requests!Admit(m)
    BY <1>11, <1>12, SameCount DEF Requests!Admit
  <1> QED BY <1>13 DEF Requests!Next

\* Fatal shutdown cancels every call that is still undecided, and no other.
LEMMA CancelAllStep ==
    ASSUME RInv, CancelAll
    PROVE  [Requests!Next]_(Requests!vars)
  <1> USE DEF inputVars, eventVars, coordVars, jobVars, tokenVars, workerVars,
              outputVars
  <1>1. /\ UNCHANGED <<registry, out, writerOpen, msg, workerPc, job>>
        /\ coordPc = "cancelAll" /\ coordPc' = "stop"
        /\ cancelled' = cancelled \cup {registry[i] : i \in Registered}
    BY DEF CancelAll
  <1>2. \A n \in LineNumbers : /\ Untouched(n)' <=> Untouched(n)
                               /\ Live(n)' <=> Live(n)
                               /\ Answering(n)' <=> Answering(n)
                               /\ n \in Written' <=> n \in Written
    BY <1>1 DEF Untouched, Live, Answering, Written
  <1>3. \A n \in LineNumbers : n \in cancelled' <=> n \in cancelled \/ Live(n)
    <2>1. \A n \in LineNumbers :
             Live(n) <=> n \in {registry[i] : i \in Registered}
      BY NumberFacts DEF Live, Registered
    <2> QED BY <1>1, <2>1
  <1>4. ASSUME NEW n \in LineNumbers
        PROVE  StatusOf(n)' = IF StatusOf(n) = "pending" THEN "cancelled"
                              ELSE StatusOf(n)
    <2>1. CASE StatusOf(n) = "pending"
      <3>1. n \notin Written /\ ~ Untouched(n) /\ Live(n)
        BY <2>1, StatusCases
      <3>2. n \notin Written' /\ ~ Untouched(n)' /\ Live(n)' /\ n \in cancelled'
        BY <1>2, <1>3, <3>1
      <3>3. StatusOf(n)' = "cancelled"
        BY <3>2 DEF StatusOf, Live
      <3> QED BY <2>1, <3>3
    <2>2. CASE StatusOf(n) # "pending" /\ Live(n)
      <3>1. n \notin Written
        BY <2>2, StatusCases
      <3>2. CASE Untouched(n)
        <4>1. n \notin Written' /\ Untouched(n)'
          BY <1>2, <3>1, <3>2
        <4>2. StatusOf(n)' = "new" /\ StatusOf(n) = "new"
          BY <3>1, <3>2, <4>1 DEF StatusOf
        <4> QED BY <4>2
      <3>3. CASE ~ Untouched(n)
        <4>1. StatusOf(n) = "cancelled"
          BY <2>2, <3>1, <3>3, StatusCases
        <4>2. n \notin Written' /\ ~ Untouched(n)' /\ Live(n)' /\ n \in cancelled'
          BY <1>2, <1>3, <2>2, <3>1, <3>3
        <4>3. StatusOf(n)' = "cancelled"
          BY <4>2 DEF StatusOf, Live
        <4> QED BY <4>1, <4>3
      <3> QED BY <3>2, <3>3
    <2>3. CASE StatusOf(n) # "pending" /\ ~ Live(n)
      <3>1. n \in cancelled' <=> n \in cancelled
        BY <1>3, <2>3
      <3>2. StatusOf(n)' = StatusOf(n)
        BY <1>2, <3>1, SameStatus
      <3> QED BY <2>3, <3>2
    <2> QED BY <2>1, <2>2, <2>3
  <1>5. CASE \E n \in LineNumbers : StatusOf(n) = "pending"
    <2>1. Requests!CancelAll
      BY <1>1, <1>4, <1>5 DEF Requests!CancelAll
    <2> QED BY <2>1 DEF Requests!Next
  <1>6. CASE ~ \E n \in LineNumbers : StatusOf(n) = "pending"
    <2>1. \A n \in LineNumbers : StatusOf(n)' = StatusOf(n)
      BY <1>4, <1>6
    <2> QED BY <1>1, <2>1, Stays DEF Requests!vars
  <1> QED BY <1>5, <1>6

\* What the worker holds of a call when it finishes it.
LEMMA HeldCall ==
    ASSUME RInv, workerPc \in {"finish", "skip", "write"}
    PROVE  /\ job.n \in LineNumbers /\ job.id \in Ids
           /\ ~ Untouched(job.n) /\ job.n \notin Written
           /\ workerPc # "write" => registry[job.id] = job.n
  <1>1. job \in Job
    BY DEF RInv, IInv, TypeOK, WorkerTypeOK
  <1>2. job.n \in LineNumbers /\ job.id \in Ids
    BY <1>1 DEF Job
  <1>3. Past(job.n)
    BY DEF RInv, IInv, WorkInv, Holding
  <1>4. ~ Untouched(job.n)
    <2>1. job.n \in Nat /\ msg.n \in Nat
      BY <1>2, NumberFacts, NumberTypes DEF RInv, IInv
    <2>2. ~ (job.n > msg.n)
      BY <1>3, <2>1 DEF Past
    <2> QED BY <1>3, <2>2 DEF Past, Busy, Untouched
  <1>5. workerPc # "write" => registry[job.id] = job.n
    BY DEF RInv, IInv, WorkInv, Holding
  <1>6. job.n \notin Written
    BY <1>2, <1>5 DEF Written, RInv, IInv, TokenInv, DecisionInv
  <1> QED BY <1>2, <1>4, <1>5, <1>6

\* finish_job decides a call: cancelled or committed.
LEMMA FinishStep ==
    ASSUME RInv, FinishJob
    PROVE  [Requests!Next]_(Requests!vars)
  <1> USE DEF inputVars, eventVars, coordVars, jobVars, tokenVars, workerVars,
              outputVars
  <1>1. /\ UNCHANGED <<cancelled, out, writerOpen, msg, coordPc>>
        /\ workerPc \in {"finish", "skip"} /\ Unregister(job.id, job.n)
    BY DEF FinishJob
  <1>2. /\ job.n \in LineNumbers /\ job.id \in Ids
        /\ ~ Untouched(job.n) /\ job.n \notin Written
        /\ registry[job.id] = job.n /\ registry \in [Ids -> Nat]
    BY <1>1, HeldCall, NumberTypes DEF RInv, IInv
  <1>3. registry' = [registry EXCEPT ![job.id] = None]
    BY <1>1, <1>2 DEF Unregister
  <1>4. PICK m \in LineNumbers : m = job.n
    BY <1>2
  <1>5. /\ \A i \in Ids : registry'[i] # m
        /\ \A n \in LineNumbers : n # m => (Live(n)' <=> Live(n))
    <2>1. \A i \in Ids : registry[i] = m => i = job.id
      BY <1>2, <1>4, NumberFacts DEF RInv, IInv, TokenInv
    <2> QED BY <1>2, <1>3, <1>4, <2>1, NumberFacts DEF Live
  <1>6. \A n \in LineNumbers : /\ Untouched(n)' <=> Untouched(n)
                               /\ n \in Written' <=> n \in Written
                               /\ n \in cancelled' <=> n \in cancelled
    BY <1>1 DEF Untouched, Written
  <1>7. \A n \in LineNumbers : n # m => (Answering(n)' <=> Answering(n))
    <2>1. /\ workerPc # "write"
          /\ workerPc' = "write" => job' = job
      BY <1>1 DEF FinishJob
    <2> QED BY <1>4, <2>1 DEF Answering
  <1>8. \A n \in LineNumbers : n # m => StatusOf(n)' = StatusOf(n)
    BY <1>5, <1>6, <1>7, SameStatus
  <1>9. ~ Untouched(m) /\ m \notin Written /\ Live(m)
    BY <1>2, <1>4 DEF Live
  <1>10. m \notin Written' /\ ~ Untouched(m)' /\ ~ Live(m)'
    BY <1>4, <1>5, <1>6, <1>9 DEF Live
  <1>11. CASE workerPc = "finish" /\ ~ Suppress
    <2>1. workerPc' = "write" /\ job' = job
      BY <1>11 DEF FinishJob
    <2>2. m \notin cancelled
      BY <1>2, <1>4, <1>11 DEF Suppress
    <2>3. StatusOf(m) = "pending"
      BY <1>9, <2>2, StatusCases
    <2>4. Answering(m)'
      BY <1>4, <2>1 DEF Answering
    <2>5. StatusOf(m)' = "committed"
      BY <1>10, <2>4 DEF StatusOf, Live, Answering
    <2>6. Requests!Move(m, "pending", "committed")
      BY <1>1, <1>8, <2>3, <2>5, Moves
    <2> QED BY <2>6 DEF Requests!Next, Requests!Commit
  <1>12. CASE ~ (workerPc = "finish" /\ ~ Suppress)
    <2>1. workerPc' = "recv"
      BY <1>12 DEF FinishJob
    <2>2. m \in cancelled
      BY <1>1, <1>4, <1>12 DEF RInv, DecisionInv, Suppress
    <2>3. StatusOf(m) = "cancelled"
      BY <1>9, <2>2, StatusCases
    <2>4. ~ Answering(m)'
      BY <2>1 DEF Answering
    <2>5. StatusOf(m)' = "dropped"
      BY <1>10, <2>4 DEF StatusOf, Live, Answering
    <2>6. Requests!Move(m, "cancelled", "dropped")
      BY <1>1, <1>8, <2>3, <2>5, Moves
    <2> QED BY <2>6 DEF Requests!Next, Requests!Drop
  <1> QED BY <1>11, <1>12

\* A committed answer reaches the client unless the client is gone.
LEMMA AnswerSteps ==
    ASSUME RInv, WriteAnswer \/ WriteAnswerFails
    PROVE  [Requests!Next]_(Requests!vars)
  <1> USE DEF inputVars, eventVars, coordVars, jobVars, tokenVars, workerVars,
              outputVars
  <1>1. /\ UNCHANGED <<registry, cancelled, writerOpen, msg, coordPc>>
        /\ workerPc = "write" /\ workerPc' # "write"
    BY DEF WriteAnswer, WriteAnswerFails, WorkerEnds
  <1>2. job.n \in LineNumbers /\ ~ Untouched(job.n) /\ job.n \notin Written
    BY <1>1, HeldCall
  <1>3. PICK m \in LineNumbers : m = job.n
    BY <1>2
  <1>4. /\ Answering(m) /\ ~ Answering(m)'
        /\ \A n \in LineNumbers : n # m => (Answering(n)' <=> Answering(n))
    BY <1>1, <1>3 DEF Answering
  <1>5. \A n \in LineNumbers : /\ Untouched(n)' <=> Untouched(n)
                               /\ Live(n)' <=> Live(n)
                               /\ n \in cancelled' <=> n \in cancelled
    BY <1>1 DEF Untouched, Live
  <1>6. ~ Untouched(m) /\ m \notin Written /\ ~ Live(m)
    BY <1>2, <1>3, <1>4, StatusCases
  <1>7. StatusOf(m) = "committed"
    BY <1>4, <1>6, StatusCases
  <1>8. ASSUME \A n \in LineNumbers :
                  n # m => (n \in Written' <=> n \in Written)
        PROVE  \A n \in LineNumbers : n # m => StatusOf(n)' = StatusOf(n)
    BY <1>4, <1>5, <1>8, SameStatus
  <1>9. CASE WriteAnswer
    <2>1. partial \in BOOLEAN
      BY DEF RInv, IInv, TypeOK, WorkerTypeOK
    <2>2. Written' = Written \cup {m}
      BY <1>2, <1>3, <1>9, <2>1, WrittenGrows DEF WriteAnswer
    <2>3. StatusOf(m)' = "answered"
      BY <2>2 DEF StatusOf
    <2>4. Requests!Move(m, "committed", "answered")
      BY <1>1, <1>7, <1>8, <2>2, <2>3, Moves
    <2> QED BY <2>4 DEF Requests!Next, Requests!Deliver
  <1>10. CASE WriteAnswerFails
    <2>1. Written' = Written /\ ~ writerOpen
      BY <1>10 DEF WriteAnswerFails, Written
    <2>2. /\ m \notin Written' /\ ~ Untouched(m)'
          /\ ~ Live(m)' /\ ~ Answering(m)'
      BY <1>4, <1>5, <1>6, <2>1
    <2>3. StatusOf(m)' = "dropped"
      BY <2>2 DEF StatusOf, Live, Answering
    <2>4. Requests!Move(m, "committed", "dropped")
      BY <1>1, <1>7, <1>8, <2>1, <2>3, Moves
    <2>5. Requests!Lose(m)
      BY <2>1, <2>4 DEF Requests!Lose
    <2> QED BY <2>5 DEF Requests!Next
  <1> QED BY <1>9, <1>10

\* The client goes away; every status stays.
LEMMA BreakStep ==
    ASSUME RInv, BreakWriter
    PROVE  [Requests!Next]_(Requests!vars)
  <1> USE DEF inputVars, eventVars, coordVars, jobVars, tokenVars, workerVars,
              outputVars
  <1>1. /\ UNCHANGED <<registry, cancelled, out, msg, coordPc, workerPc, job>>
        /\ writerOpen' = FALSE
    BY DEF BreakWriter
  <1>2. \A n \in LineNumbers : StatusOf(n)' = StatusOf(n)
    BY <1>1 DEF StatusOf, Written, Untouched, IsRequest
  <1>3. Requests!Disconnect
    BY <1>1, <1>2, Stays DEF Requests!Disconnect
  <1> QED BY <1>3 DEF Requests!Next

-----------------------------------------------------------------------------
\* The threads start where the promise starts.
LEMMA RequestsInit == Init => Requests!Init
  <1> SUFFICES ASSUME Init PROVE Requests!Init
    OBVIOUS
  <1>1. ASSUME NEW n \in LineNumbers PROVE StatusOf(n) = "new"
    <2>1. n \in Nat /\ n # 0
      BY NumberFacts DEF None
    <2>2. n > msg.n
      BY <2>1 DEF Init, NoLine
    <2>3. Written = {}
      BY DEF Init, Written
    <2> QED BY <2>2, <2>3 DEF StatusOf, Untouched
  <1> QED BY <1>1 DEF Init, Requests!Init

\* Every step of the threads is a step of the promise or changes nothing there.
LEMMA RequestsStep == RInv /\ [Next]_vars => [Requests!Next]_(Requests!vars)
  <1> SUFFICES ASSUME RInv, [Next]_vars
               PROVE  [Requests!Next]_(Requests!vars)
    OBVIOUS
  <1>1. CASE UNCHANGED vars
    <2>1. UNCHANGED <<registry, cancelled, out, msg, coordPc, workerPc, job,
                      writerOpen>>
      BY <1>1 DEF vars, inputVars, eventVars, coordVars, jobVars, tokenVars,
                  workerVars, outputVars
    <2>2. \A n \in LineNumbers : StatusOf(n)' = StatusOf(n)
      BY <2>1 DEF StatusOf, Written, Untouched, IsRequest
    <2> QED BY <2>1, <2>2, Stays DEF Requests!vars
  <1> QED
    BY <1>1, QuietSteps, RegisterSteps, TakeInputStep, ReplySteps, CancelStep,
       DisconnectedStep, AcceptedStep, CancelAllStep, FinishStep, AnswerSteps,
       BreakStep
    DEF Next, Coordinator, Worker, Exited

\* The server implements McpRequests: a message is answered at most once, a
\* call is decided once, by its cancellation or by its completion, at most
\* MaxOutstanding calls are undecided, and an answer is lost only when the
\* client is gone.  (serve, coordinate, worker_loop_with and finish_job, mcp.rs.)
THEOREM ServerImplementsRequests == Spec => ImplementsRequests
  BY InductiveForRequests, RequestsInit, RequestsStep, PTL
  DEF Spec, ImplementsRequests, Requests!Spec
=============================================================================
