----------------------------- MODULE StdioRuntime -----------------------------
(***************************************************************************)
(* run_session, the stdio host of the server (runtime.py), with the        *)
(* lifecycle part of LanguageServer.handle (server.py).  Three threads:    *)
(*                                                                         *)
(*   reader   decodes frames; hands requests and notifications to the      *)
(*            events queue, and applies cancellations out of band          *)
(*   main     the dispatcher: takes events one at a time, owns stdout      *)
(*   worker   executes one client request at a time                        *)
(*                                                                         *)
(* While a request is being executed, main defers what it takes, in order, *)
(* except the frames of the live lane: edits of the documents or of the    *)
(* workspace, replies to requests the client was sent, and one shutdown.   *)
(*                                                                         *)
(* A step is one critical section or one queue operation of one thread.    *)
(* The session starts after the initialize handshake.                      *)
(***************************************************************************)
EXTENDS RequestTracker, ServerOutbox, FiniteSets

CONSTANTS
    FrameKinds,     \* what the client sends, a subset of AllFrameKinds
    Faults,         \* which failures happen: "eof", "write", "raise"
    None            \* "no such thing"

AllFrameKinds == {"request", "cancel", "edit", "other", "reply", "shutdown", "exit"}

ASSUME RuntimeAssumption ==
    /\ MaxFrames \in Nat \ {0}
    /\ MaxRequests \in Nat
    /\ FrameKinds \subseteq AllFrameKinds
    /\ Faults \subseteq {"eof", "write", "raise"}
    /\ None \notin Ids

VARIABLES
    \* the client, as far as the session can see it
    frames,         \* number of frames sent
    lastEdit,       \* number of the last edit sent, or 0
    newest,         \* newest[id]: the last request sent with the id, or 0
    answered,       \* requests whose response was written
    replied,        \* requests of the server the client has replied to
    asked,          \* requests the client sent a cancellation of while unanswered
    early,          \* those of them staged before their request began to execute
    \* the reader thread
    reader, pendingIds,
    \* the queues
    events, controls, deferred,
    \* the main thread and the server's lifecycle
    main, running, sawEdit, held, failed, state, exitCode,
    \* the worker thread, and the refresh a thread is about to post
    worker, refresh,
    \* the documents: the number of the last edit applied; the output stream
    edition, written

clientVars == <<frames, lastEdit, newest, answered, replied, asked, early>>
readerVars == <<reader, pendingIds>>
queueVars == <<events, controls, deferred>>
sessionVars == <<running, sawEdit, held, failed, state, exitCode>>

vars == <<trackerVars, outboxVars, clientVars, readerVars, queueVars,
          main, sessionVars, worker, refresh, edition, written>>

-----------------------------------------------------------------------------
(***************************************************************************)
(* Items of the queues.  A frame carries its number; "after" is the number *)
(* of the last edit the client had sent before it.                         *)
(***************************************************************************)
Outcomes == {"none", "result", "cancelled", "modified", "refused", "null", "raised"}

Item(kind, id, n, after, outcome) ==
    [kind |-> kind, id |-> id, n |-> n, after |-> after, outcome |-> outcome]

Items == [kind : AllFrameKinds \cup {"completed", "ready", "failure"},
          id : Ids \cup {None}, n : 0..(MaxFrames + MaxRequests),
          after : 0..MaxFrames, outcome : Outcomes]

Nothing == Item("other", None, 0, 0, "none")
Ready == Item("ready", None, 0, 0, "none")
Failure == Item("failure", None, 0, 0, "none")

Response(g, outcome) == Message("response", g, outcome)

Messages == [kind : {"notice", "cancel", "request", "response"},
             n : 0..(MaxFrames + MaxRequests), outcome : Outcomes]

\* "No such thing" is no item, no batch and no exit code.
ASSUME NoneAssumption ==
    None \notin Items /\ None \notin Seq(Messages) /\ None \notin {0, 1}

\* What main is doing: "item" the item taken, "next" where to go once the
\* controls are replayed, "cause" the terminal boundary under way, "answer" the
\* direct response and "batch" the messages to write.
Idle == [pc |-> "take", item |-> Nothing, next |-> "take", cause |-> "none",
         answer |-> <<>>, batch |-> <<>>]

\* The request being executed; "edition" is the edition its document had.
NoWork == [pc |-> "off", item |-> Nothing, edition |-> 0, outcome |-> "none", noted |-> FALSE]

Ended == main.pc \in {"returned", "raised"}

BeforeContext == {"route", "capture", "start"}
WorkPcs == BeforeContext \cup
    {"off", "work", "commit", "finish", "clear", "discard", "complete"}
MainPcs == {"take", "replay", "dispatch", "edited", "retire", "stage", "retireOutbox",
            "close", "clear", "discard", "stageRunning", "drainNotices",
            "drainRequests", "write", "returned", "raised"}

ClientTypeOK ==
    /\ frames \in 0..MaxFrames /\ lastEdit \in 0..MaxFrames
    /\ newest \in [Ids -> 0..MaxFrames]
    /\ answered \in SUBSET Generations
    /\ replied \in SUBSET Requests
    /\ early \in SUBSET asked /\ asked \in SUBSET Generations

ReaderTypeOK ==
    /\ reader \in [pc : {"read", "stage", "post", "stopped"}, id : Ids \cup {None}]
    /\ pendingIds \in SUBSET Ids

QueueTypeOK ==
    /\ events \in Seq(Items) /\ deferred \in Seq(Items)
    /\ controls \in Seq(Ids)

MainTypeOK ==
    main \in [pc : MainPcs, item : Items, next : MainPcs,
              cause : {"none", "shutdown", "exit", "abort"},
              answer : Seq(Messages), batch : Seq(Messages)]

SessionTypeOK ==
    /\ running \in Items \cup {None}
    /\ sawEdit \in BOOLEAN /\ failed \in BOOLEAN
    /\ held \in Seq(Messages) \cup {None}
    /\ state \in {"RUNNING", "SHUTDOWN", "EXITED"} /\ exitCode \in {None, 0, 1}

WorkTypeOK ==
    /\ worker \in [pc : WorkPcs, item : Items, edition : 0..MaxFrames,
                   outcome : Outcomes, noted : BOOLEAN]
    /\ refresh \in [{"main", "worker"} -> {"none", "checked", "waking"}]
    /\ edition \in 0..MaxFrames
    /\ written \in Seq(Messages)

TypeOK ==
    /\ TrackerTypeOK /\ OutboxTypeOK /\ ClientTypeOK /\ ReaderTypeOK
    /\ QueueTypeOK /\ MainTypeOK /\ SessionTypeOK /\ WorkTypeOK

Init ==
    /\ TrackerInit
    /\ OutboxInit
    /\ frames = 0 /\ lastEdit = 0
    /\ newest = [id \in Ids |-> 0]
    /\ answered = {} /\ replied = {} /\ asked = {} /\ early = {}
    /\ reader = [pc |-> "read", id |-> None]
    /\ pendingIds = {}
    /\ events = <<>> /\ controls = <<>> /\ deferred = <<>>
    /\ main = Idle
    /\ running = None /\ sawEdit = FALSE /\ held = None /\ failed = FALSE
    /\ state = "RUNNING" /\ exitCode = None
    /\ worker = NoWork
    /\ refresh = [t \in {"main", "worker"} |-> "none"]
    /\ edition = 0
    /\ written = <<>>

-----------------------------------------------------------------------------
(***************************************************************************)
(* The reader.  What the client sends is decided when it is read.          *)
(***************************************************************************)
CanRead(kind) ==
    /\ reader.pc = "read"
    /\ kind \in FrameKinds
    /\ frames < MaxFrames
    /\ frames' = frames + 1

\* Fault: requests go to the front of the queue.
ReadRequestFirst(kind, id) ==
    /\ CanRead(kind)
    /\ newest[id] = 0 \/ newest[id] \in answered
    /\ newest' = [newest EXCEPT ![id] = frames']
    /\ pendingIds' = pendingIds \cup {id}
    /\ events' = <<Item(kind, id, frames', lastEdit, "none")>> \o events
    /\ UNCHANGED <<lastEdit, answered, replied, asked, early, reader, controls, deferred>>

\* A request or a shutdown, under an id that is free on the client's side.  The
\* id becomes pending before the frame becomes an event.
ReadRequest(kind, id) ==
    /\ CanRead(kind)
    /\ newest[id] = 0 \/ newest[id] \in answered
    /\ newest' = [newest EXCEPT ![id] = frames']
    /\ pendingIds' = pendingIds \cup {id}
    /\ events' = Append(events, Item(kind, id, frames', lastEdit, "none"))
    /\ UNCHANGED <<lastEdit, answered, replied, asked, early, reader, controls, deferred>>

ReadNotification(kind) ==
    /\ CanRead(kind)
    /\ lastEdit' = IF kind = "edit" THEN frames' ELSE lastEdit
    /\ events' = Append(events, Item(kind, None, frames', lastEdit, "none"))
    /\ reader' = IF kind = "exit" THEN [reader EXCEPT !.pc = "stopped"] ELSE reader
    /\ UNCHANGED <<newest, answered, replied, asked, early, pendingIds, controls, deferred>>

\* The client replies once to a request it was sent; the item carries its number.
ReadReply(r) ==
    /\ CanRead("reply")
    /\ \E i \in DOMAIN written : written[i] = RefreshRequest(r)
    /\ r \notin replied
    /\ replied' = replied \cup {r}
    /\ events' = Append(events, Item("reply", None, r, lastEdit, "none"))
    /\ UNCHANGED <<lastEdit, newest, answered, asked, early, reader, pendingIds, controls, deferred>>

\* $/cancelRequest: whether the id is pending is looked up under the lock ...
ReadCancel(id) ==
    /\ CanRead("cancel")
    /\ asked' = IF newest[id] # 0 /\ newest[id] \notin answered
                THEN asked \cup {newest[id]} ELSE asked
    /\ reader' = [pc |-> IF id \in pendingIds THEN "stage" ELSE "post", id |-> id]
    /\ UNCHANGED <<lastEdit, newest, answered, replied, early, pendingIds, queueVars>>

\* The request has been read and its execution has not reached start().
NotStarted(g) ==
    \/ \E f \in Range(events) \cup Range(deferred) \cup {main.item} :
          f.kind = "request" /\ f.n = g
    \/ worker.item.n = g /\ worker.pc \in BeforeContext

\* ... the cancellation is staged after the lock was given back ...
ReaderStages ==
    /\ reader.pc = "stage"
    /\ StageCancel(reader.id)
    /\ early' = early \cup {g \in asked : g = newest[reader.id] /\ NotStarted(g)}
    /\ reader' = [reader EXCEPT !.pc = "post"]
    /\ UNCHANGED <<frames, lastEdit, newest, answered, replied, asked, pendingIds, queueVars>>

\* ... and the frame itself is left for main to replay.
ReaderPosts ==
    /\ reader.pc = "post"
    /\ controls' = Append(controls, reader.id)
    /\ reader' = [pc |-> "read", id |-> None]
    /\ UNCHANGED <<clientVars, pendingIds, events, deferred>>

\* End of file, or a frame that cannot be decoded.
ReadFailure ==
    /\ reader.pc = "read"
    /\ "eof" \in Faults
    /\ events' = Append(events, Failure)
    /\ reader' = [reader EXCEPT !.pc = "stopped"]
    /\ UNCHANGED <<clientVars, pendingIds, controls, deferred>>

ClientSends ==
    /\ \/ \E kind \in {"request", "shutdown"}, id \in Ids : ReadRequest(kind, id)
       \/ \E kind \in {"edit", "other", "exit"} : ReadNotification(kind)
       \/ \E r \in Requests : ReadReply(r)
       \/ \E id \in Ids : ReadCancel(id)
       \/ ReadFailure
    /\ UNCHANGED <<trackerVars, outboxVars, main, sessionVars, worker, refresh,
                   edition, written>>

ReaderStep ==
    /\ \/ ReaderStages
       \/ ReaderPosts /\ UNCHANGED trackerVars
    /\ UNCHANGED <<outboxVars, main, sessionVars, worker, refresh, edition, written>>

-----------------------------------------------------------------------------
(***************************************************************************)
(* A refresh request, by the thread that changed the workspace: nothing of *)
(* the method pending, then the request, then - outside the lock - the     *)
(* wakeup, which puts an event in main's queue.                            *)
(***************************************************************************)
MayRefresh(t) == IF t = "main" THEN main.pc = "edited" ELSE worker.pc = "work"

CheckRefresh(t) ==
    /\ refresh[t] = "none"
    /\ MayRefresh(t)
    /\ owed = {}
    /\ nextRequest + Cardinality({o \in DOMAIN refresh : refresh[o] = "checked"}) <= MaxRequests
    /\ refresh' = [refresh EXCEPT ![t] = "checked"]
    /\ UNCHANGED <<outboxVars, events>>

PostRefresh(t) ==
    /\ refresh[t] = "checked"
    /\ QueueRequest
    /\ refresh' = [refresh EXCEPT ![t] = IF WakesTransport THEN "waking" ELSE "none"]
    /\ UNCHANGED events

WakeTransport(t) ==
    /\ refresh[t] = "waking"
    /\ events' = Append(events, Ready)
    /\ refresh' = [refresh EXCEPT ![t] = "none"]
    /\ UNCHANGED outboxVars

RefreshStep(t) ==
    /\ CheckRefresh(t) \/ PostRefresh(t) \/ WakeTransport(t)
    /\ UNCHANGED <<trackerVars, clientVars, readerVars, controls, deferred, main,
                   sessionVars, worker, edition, written>>

-----------------------------------------------------------------------------
(***************************************************************************)
(* The worker: dispatch_request around the handler of a document request.  *)
(***************************************************************************)
WorkerAt(pc) == worker.pc = pc /\ refresh["worker"] = "none"

\* handle: in SHUTDOWN every request is refused.
WorkerRoutes ==
    /\ WorkerAt("route")
    /\ worker' = IF state = "RUNNING" THEN [worker EXCEPT !.pc = "capture"]
                 ELSE [worker EXCEPT !.pc = "clear", !.outcome = "refused"]
    /\ UNCHANGED <<trackerVars, notices, pendingIds, events>>

WorkerCaptures ==
    /\ WorkerAt("capture")
    /\ worker' = [worker EXCEPT !.pc = "start", !.edition = edition]
    /\ UNCHANGED <<trackerVars, notices, pendingIds, events>>

WorkerStarts ==
    /\ WorkerAt("start")
    /\ StartContext(worker.item.id, worker.item.n)
    /\ worker' = [worker EXCEPT !.pc = "work"]
    /\ UNCHANGED <<notices, pendingIds, events>>

\* A notification of the handler: progress, diagnostics, trace.
WorkerNotifies ==
    /\ WorkerAt("work")
    /\ ~worker.noted
    /\ AppendNotice
    /\ worker' = [worker EXCEPT !.noted = TRUE]
    /\ UNCHANGED <<trackerVars, pendingIds, events>>

\* checkpoint: cancelled work is given up, then work on a stale document.
WorkerChecks ==
    /\ WorkerAt("work")
    /\ worker' =
          IF worker.item.n \in cancelled
          THEN [worker EXCEPT !.pc = "finish", !.outcome = "cancelled"]
          ELSE IF worker.edition # edition
          THEN [worker EXCEPT !.pc = "finish", !.outcome = "modified"]
          ELSE [worker EXCEPT !.pc = "commit"]
    /\ UNCHANGED <<trackerVars, notices, pendingIds, events>>

\* commit_if_current compares the document once more, and nothing else.
WorkerCommits ==
    /\ WorkerAt("commit")
    /\ worker' = [worker EXCEPT !.pc = "finish",
                     !.outcome = IF worker.edition = edition THEN "result" ELSE "modified"]
    /\ UNCHANGED <<trackerVars, notices, pendingIds, events>>

\* An exception no handler expects.
WorkerRaises ==
    /\ WorkerAt("work")
    /\ "raise" \in Faults
    /\ worker' = [worker EXCEPT !.pc = "finish", !.outcome = "raised"]
    /\ UNCHANGED <<trackerVars, notices, pendingIds, events>>

WorkerFinishes ==
    /\ WorkerAt("finish")
    /\ FinishContext(worker.item.id, worker.item.n)
    /\ worker' = [worker EXCEPT !.pc = "clear"]
    /\ UNCHANGED <<notices, pendingIds, events>>

\* finish_transport_request, under two locks.
WorkerClears ==
    /\ WorkerAt("clear")
    /\ ClearStaged(worker.item.id)
    /\ worker' = [worker EXCEPT !.pc = "discard"]
    /\ UNCHANGED <<notices, pendingIds, events>>

WorkerDiscards ==
    /\ WorkerAt("discard")
    /\ pendingIds' = pendingIds \ {worker.item.id}
    /\ worker' = [worker EXCEPT !.pc = "complete"]
    /\ UNCHANGED <<trackerVars, notices, events>>

WorkerCompletes ==
    /\ WorkerAt("complete")
    /\ events' = Append(events, [worker.item EXCEPT !.kind = "completed",
                                                    !.outcome = worker.outcome])
    /\ worker' = NoWork
    /\ UNCHANGED <<trackerVars, notices, pendingIds>>

WorkerStep ==
    /\ \/ WorkerRoutes \/ WorkerCaptures \/ WorkerStarts \/ WorkerNotifies
       \/ WorkerChecks \/ WorkerCommits \/ WorkerRaises \/ WorkerFinishes
       \/ WorkerClears \/ WorkerDiscards \/ WorkerCompletes
    /\ UNCHANGED <<open, outbox, owed, nextRequest, wakeup, clientVars, reader,
                   controls, deferred, main, sessionVars, refresh, edition, written>>

-----------------------------------------------------------------------------
(***************************************************************************)
(* The main thread: take an item ...                                       *)
(***************************************************************************)
MainAt(pc) == main.pc = pc /\ refresh["main"] = "none"

Go(pc) == main' = [main EXCEPT !.pc = pc]

\* Replay the controls, then go on at "pc".
Replaying(item, pc, answer) ==
    [Idle EXCEPT !.pc = "replay", !.item = item, !.next = pc, !.answer = answer]

Crossing(item, cause) ==
    [Idle EXCEPT !.pc = "retire", !.item = item, !.cause = cause]

Taking == MainAt("take") /\ state # "EXITED"

\* Fault: the frame deferred last is taken first.
TakesDeferredLast ==
    /\ Taking
    /\ running = None
    /\ deferred # <<>>
    /\ deferred' = Front(deferred)
    /\ main' = Replaying(Last(deferred), "dispatch", <<>>)
    /\ UNCHANGED <<outboxVars, events, controls, sessionVars>>

TakesDeferred ==
    /\ Taking
    /\ running = None
    /\ deferred # <<>>
    /\ deferred' = Tail(deferred)
    /\ main' = Replaying(Head(deferred), "dispatch", <<>>)
    /\ UNCHANGED <<outboxVars, events, controls, sessionVars>>

TakesEvent(kinds) ==
    /\ Taking
    /\ ~(running = None /\ deferred # <<>>)
    /\ events # <<>>
    /\ Head(events).kind \in kinds
    /\ events' = Tail(events)
    /\ UNCHANGED <<controls, deferred>>

\* After the output failed only the worker's completion is waited for.
Dropping == failed /\ running # None

TakesDropped ==
    /\ TakesEvent(AllFrameKinds \cup {"ready", "failure"})
    /\ Dropping
    /\ UNCHANGED <<outboxVars, main, sessionVars>>

TakesFrame ==
    /\ TakesEvent(AllFrameKinds)
    /\ ~Dropping
    /\ main' = Replaying(Head(events), "dispatch", <<>>)
    /\ UNCHANGED <<outboxVars, sessionVars>>

TakesReady ==
    /\ TakesEvent({"ready"})
    /\ ~Dropping
    /\ main' = IF state = "RUNNING" THEN [Idle EXCEPT !.pc = "drainNotices"] ELSE Idle
    /\ UNCHANGED <<outboxVars, sessionVars>>

TakesFailure ==
    /\ TakesEvent({"failure"})
    /\ ~Dropping
    /\ main' = Crossing(Failure, "abort")
    /\ UNCHANGED <<outboxVars, sessionVars>>

\* The completion of the running request.  After an abort it ends the session;
\* after a live shutdown the answer is "cancelled", and the held one follows.
TakesCompletion ==
    LET done == Head(events)
        raised == done.outcome = "raised"
    IN  /\ TakesEvent({"completed"})
        /\ running' = None
        /\ IF failed /\ ~raised THEN RetireLocally /\ wakeup' = FALSE
           ELSE wakeup' = (wakeup /\ ~(raised /\ (failed \/ held # None)))
                /\ UNCHANGED <<notices, open, outbox, owed, nextRequest>>
        /\ main' =
              IF raised /\ (failed \/ held # None) THEN [Idle EXCEPT !.pc = "raised"]
              ELSE IF failed THEN [Idle EXCEPT !.pc = "returned"]
              ELSE IF held # None
              THEN [Idle EXCEPT !.pc = "write", !.item = done,
                      !.batch = Front(held) \o
                                <<Response(done.n, "cancelled"), Last(held)>>]
              ELSE Replaying(done, IF raised THEN "raised" ELSE "drainNotices",
                             <<Response(done.n, done.outcome)>>)
        /\ UNCHANGED <<sawEdit, held, failed, state, exitCode>>

MainTakes ==
    /\ \/ TakesDeferred \/ TakesDropped \/ TakesFrame \/ TakesReady
       \/ TakesFailure \/ TakesCompletion
    /\ UNCHANGED <<trackerVars, clientVars, readerVars, worker, refresh, edition, written>>

-----------------------------------------------------------------------------
(***************************************************************************)
(* ... replay the cancellations read meanwhile, through handle ...         *)
(***************************************************************************)
ReplaysControl ==
    /\ MainAt("replay")
    /\ controls # <<>>
    /\ controls' = Tail(controls)
    /\ IF state = "RUNNING" THEN CancelActive(Head(controls)) ELSE UNCHANGED trackerVars
    /\ UNCHANGED <<outboxVars, main>>

ControlsReplayed ==
    /\ MainAt("replay")
    /\ controls = <<>>
    /\ main' = [main EXCEPT !.pc = main.next, !.next = "drainNotices"]
    /\ IF main.next = "raised"
       THEN wakeup' = FALSE /\ UNCHANGED <<notices, open, outbox, owed, nextRequest>>
       ELSE UNCHANGED outboxVars
    /\ UNCHANGED <<trackerVars, controls>>

MainReplays ==
    /\ ReplaysControl \/ ControlsReplayed
    /\ UNCHANGED <<clientVars, readerVars, events, deferred, sessionVars, worker,
                   refresh, edition, written>>

-----------------------------------------------------------------------------
(***************************************************************************)
(* ... and dispatch the frame.                                             *)
(***************************************************************************)
Dispatching(kind) == MainAt("dispatch") /\ main.item.kind = kind

\* Nothing deferred but requests for the worker.
OnlyRequestsDeferred ==
    state = "RUNNING" /\ \A f \in Range(deferred) : f.kind = "request"

LiveReply == OnlyRequestsDeferred /\ main.item.kind = "reply" /\ Delivered(main.item.n)

LiveShutdown == OnlyRequestsDeferred /\ main.item.kind = "shutdown" /\ ~sawEdit

LiveEdit == main.item.kind = "edit"

\* Whether main handles the frame now rather than defer it.
Foreground == running = None \/ LiveReply \/ LiveShutdown \/ LiveEdit

\* Fault: the frame is dropped instead of deferred.
DropsDeferred ==
    /\ MainAt("dispatch")
    /\ ~Foreground
    /\ main' = Idle
    /\ UNCHANGED <<outboxVars, deferred, sessionVars, worker, edition>>

Defers ==
    /\ MainAt("dispatch")
    /\ ~Foreground
    /\ deferred' = Append(deferred, main.item)
    /\ main' = Idle
    /\ UNCHANGED <<outboxVars, sessionVars, worker, edition>>

StartsWorker ==
    /\ Dispatching("request")
    /\ running = None
    /\ state = "RUNNING"
    /\ running' = main.item
    /\ sawEdit' = FALSE
    /\ worker' = [NoWork EXCEPT !.pc = "route", !.item = main.item]
    /\ main' = Idle
    /\ UNCHANGED <<outboxVars, deferred, held, failed, state, exitCode, edition>>

RefusesRequest ==
    /\ \/ Dispatching("request") /\ running = None
       \/ Dispatching("shutdown") /\ Foreground
    /\ state = "SHUTDOWN"
    /\ main' = [main EXCEPT !.pc = "clear", !.answer = <<Response(main.item.n, "refused")>>]
    /\ UNCHANGED <<outboxVars, deferred, sessionVars, worker, edition>>

AcceptsShutdown ==
    /\ Dispatching("shutdown")
    /\ Foreground
    /\ state = "RUNNING"
    /\ main' = Crossing(main.item, "shutdown")
    /\ UNCHANGED <<outboxVars, deferred, sessionVars, worker, edition>>

AcceptsExit ==
    /\ Dispatching("exit")
    /\ running = None
    /\ main' = Crossing(main.item, "exit")
    /\ UNCHANGED <<outboxVars, deferred, sessionVars, worker, edition>>

\* An edit is ignored in SHUTDOWN; the live lane takes it all the same.
AppliesEdit ==
    /\ Dispatching("edit")
    /\ edition' = IF state = "RUNNING" THEN main.item.n ELSE edition
    /\ sawEdit' = (sawEdit \/ running # None)
    /\ Go(IF state = "RUNNING" THEN "edited" ELSE "replay")
    /\ UNCHANGED <<outboxVars, deferred, running, held, failed, state, exitCode, worker>>

ConsumesReply ==
    /\ Dispatching("reply")
    /\ Foreground
    /\ IF state = "RUNNING" THEN ConsumeReply(main.item.n) ELSE UNCHANGED outboxVars
    /\ Go("replay")
    /\ UNCHANGED <<deferred, sessionVars, worker, edition>>

HandlesOther ==
    /\ Dispatching("other")
    /\ running = None
    /\ Go("replay")
    /\ UNCHANGED <<outboxVars, deferred, sessionVars, worker, edition>>

\* After the edit was published to the stores and the refresh was posted.
EditHandled ==
    /\ MainAt("edited")
    /\ Go("replay")
    /\ UNCHANGED <<outboxVars, deferred, sessionVars, worker, edition>>

MainDispatches ==
    /\ \/ Defers \/ StartsWorker \/ RefusesRequest \/ AcceptsShutdown \/ AcceptsExit
       \/ AppliesEdit \/ ConsumesReply \/ HandlesOther \/ EditHandled
    /\ UNCHANGED <<trackerVars, clientVars, readerVars, events, controls, refresh, written>>

-----------------------------------------------------------------------------
(***************************************************************************)
(* The terminal boundaries: shutdown, exit, and the abort of the transport *)
(* by a failing input or output.  Each retires the contexts and what the   *)
(* server sends, in this order.                                            *)
(***************************************************************************)
RetiresContexts ==
    /\ MainAt("retire")
    /\ RetireContexts
    /\ Go(IF main.cause = "abort" /\ running # None THEN "stage" ELSE "retireOutbox")
    /\ UNCHANGED <<outboxVars, failed, state, exitCode>>

\* The running request may not have registered its context yet.
StagesRunning ==
    /\ MainAt("stage")
    /\ StageCancel(running.id)
    /\ Go("retireOutbox")
    /\ UNCHANGED <<outboxVars, failed, state, exitCode>>

RetiresOutbox ==
    /\ MainAt("retireOutbox")
    /\ IF main.cause = "shutdown" THEN RetireWithCancel
       ELSE RetireLocally /\ wakeup' = wakeup
    /\ Go("close")
    /\ UNCHANGED <<trackerVars, failed, state, exitCode>>

\* Fault: exit is taken for a success whatever came before.
ClosesCleanly ==
    /\ MainAt("close")
    /\ CloseNotices(main.cause = "shutdown")
    /\ wakeup' = (wakeup /\ main.cause # "abort")
    /\ state' = CASE main.cause = "shutdown" -> "SHUTDOWN"
                  [] main.cause = "exit"     -> "EXITED"
                  [] main.cause = "abort"    -> state
    /\ exitCode' = IF main.cause = "exit" THEN 0 ELSE exitCode
    /\ failed' = (failed \/ (main.cause = "abort" /\ running # None))
    /\ main' = CASE main.cause = "shutdown" ->
                      [main EXCEPT !.pc = "clear", !.answer = <<Response(main.item.n, "null")>>]
                 [] main.cause = "exit" -> Replaying(main.item, "drainNotices", <<>>)
                 [] main.cause = "abort" ->
                      IF running # None THEN Idle ELSE [Idle EXCEPT !.pc = "returned"]
    /\ UNCHANGED trackerVars

\* The notifications are closed, the new state is entered and, at the end of the
\* session, what it returns is fixed.
Closes ==
    /\ MainAt("close")
    /\ CloseNotices(main.cause = "shutdown")
    /\ wakeup' = (wakeup /\ main.cause # "abort")
    /\ state' = CASE main.cause = "shutdown" -> "SHUTDOWN"
                  [] main.cause = "exit"     -> "EXITED"
                  [] main.cause = "abort"    -> state
    /\ exitCode' = IF main.cause = "shutdown" THEN exitCode
                   ELSE IF main.cause = "exit" /\ state = "SHUTDOWN" THEN 0 ELSE 1
    /\ failed' = (failed \/ (main.cause = "abort" /\ running # None))
    /\ main' = CASE main.cause = "shutdown" ->
                      [main EXCEPT !.pc = "clear", !.answer = <<Response(main.item.n, "null")>>]
                 [] main.cause = "exit" -> Replaying(main.item, "drainNotices", <<>>)
                 [] main.cause = "abort" ->
                      IF running # None THEN Idle ELSE [Idle EXCEPT !.pc = "returned"]
    /\ UNCHANGED trackerVars

MainCrosses ==
    /\ RetiresContexts \/ StagesRunning \/ RetiresOutbox \/ Closes
    /\ UNCHANGED <<clientVars, readerVars, queueVars, running, sawEdit, held, worker,
                   refresh, edition, written>>

-----------------------------------------------------------------------------
(***************************************************************************)
(* finish_transport_request of a request handled by main, and, behind a    *)
(* live shutdown, the cancellation of the running request.                 *)
(***************************************************************************)
MainClears ==
    /\ MainAt("clear")
    /\ ClearStaged(main.item.id)
    /\ Go("discard")
    /\ UNCHANGED <<outboxVars, pendingIds, held, answered, written>>

MainDiscards ==
    /\ MainAt("discard")
    /\ pendingIds' = pendingIds \ {main.item.id}
    /\ main' = IF running # None THEN [main EXCEPT !.pc = "stageRunning"]
               ELSE Replaying(main.item, "drainNotices", main.answer)
    /\ UNCHANGED <<trackerVars, outboxVars, held, answered, written>>

CancelsRunning ==
    /\ MainAt("stageRunning")
    /\ StageCancel(running.id)
    /\ Go("drainNotices")
    /\ UNCHANGED <<outboxVars, pendingIds, held, answered, written>>

(***************************************************************************)
(* One batch: notifications, then requests, then the direct response.      *)
(***************************************************************************)
TakesNotices ==
    /\ MainAt("drainNotices")
    /\ DrainNotices
    /\ main' = [main EXCEPT !.pc = "drainRequests", !.batch = notices]
    /\ UNCHANGED <<trackerVars, pendingIds, held, answered, written>>

\* Fault: a live shutdown is answered at once.
TakesRequestsUnheld ==
    /\ MainAt("drainRequests")
    /\ DrainRequests
    /\ main' = [main EXCEPT !.pc = "write",
                   !.batch = main.batch \o [i \in DOMAIN outbox |-> RefreshRequest(outbox[i])]
                                        \o main.answer]
    /\ UNCHANGED <<trackerVars, pendingIds, held, answered, written>>

\* Fault: a live shutdown is answered at once and again with the completion.
TakesRequestsTwice ==
    LET batch == main.batch \o [i \in DOMAIN outbox |-> RefreshRequest(outbox[i])]
                            \o main.answer
    IN  /\ MainAt("drainRequests")
        /\ DrainRequests
        /\ held' = IF main.item.kind = "shutdown" /\ running # None THEN batch ELSE held
        /\ main' = [main EXCEPT !.pc = "write", !.batch = batch]
        /\ UNCHANGED <<trackerVars, pendingIds, answered, written>>

\* The batch of a live shutdown is held until the running request completes.
TakesRequests ==
    LET batch == main.batch \o [i \in DOMAIN outbox |-> RefreshRequest(outbox[i])]
                            \o main.answer
        holding == main.item.kind = "shutdown" /\ running # None
    IN  /\ MainAt("drainRequests")
        /\ DrainRequests
        /\ held' = IF holding THEN batch ELSE held
        /\ main' = IF holding THEN Idle
                   ELSE [main EXCEPT !.pc = "write", !.batch = batch]
        /\ UNCHANGED <<trackerVars, pendingIds, answered, written>>

\* The client is given the first k messages of the batch.
Deliver(k) ==
    /\ written' = written \o SubSeq(main.batch, 1, k)
    /\ answered' = answered \cup
          {main.batch[i].n : i \in {j \in 1..k : main.batch[j].kind = "response"}}

Writes ==
    /\ MainAt("write")
    /\ Deliver(Len(main.batch))
    /\ held' = IF main.item.kind = "completed" THEN None ELSE held
    /\ main' = Idle
    /\ UNCHANGED <<trackerVars, outboxVars, pendingIds>>

\* OSError from a write or from the flush, some of the batch already gone.
WriteFails ==
    /\ MainAt("write")
    /\ "write" \in Faults
    /\ main.batch # <<>>
    /\ \E k \in 0..Len(main.batch) : Deliver(k)
    /\ main' = Crossing(main.item, "abort")
    /\ UNCHANGED <<trackerVars, outboxVars, pendingIds, held>>

\* The loop ends at EXITED; the reader has stopped at the same frame.
Returns ==
    /\ MainAt("take")
    /\ state = "EXITED"
    /\ running = None
    /\ reader.pc = "stopped"
    /\ wakeup' = FALSE
    /\ Go("returned")
    /\ UNCHANGED <<trackerVars, notices, open, outbox, owed, nextRequest, pendingIds,
                   held, answered, written>>

MainAnswers ==
    /\ \/ MainClears \/ MainDiscards \/ CancelsRunning \/ TakesNotices
       \/ TakesRequests \/ Writes \/ WriteFails \/ Returns
    /\ UNCHANGED <<frames, lastEdit, newest, replied, asked, early, reader, queueVars,
                   running, sawEdit, failed, state, exitCode, worker, refresh, edition>>

-----------------------------------------------------------------------------
MainStep == MainTakes \/ MainReplays \/ MainDispatches \/ MainCrosses \/ MainAnswers

Next ==
    \/ ~Ended /\ ClientSends
    \/ ReaderStep
    \/ WorkerStep
    \/ \E t \in {"main", "worker"} : RefreshStep(t)
    \/ MainStep

Spec == Init /\ [][Next]_vars

\* Threads run when they can; the client need not send anything.
Fairness ==
    /\ WF_vars(ReaderStep)
    /\ WF_vars(WorkerStep \/ RefreshStep("worker"))
    /\ WF_vars(MainStep \/ RefreshStep("main"))

FairSpec == Spec /\ Fairness

-----------------------------------------------------------------------------
(***************************************************************************)
(* Properties.                                                             *)
(***************************************************************************)
Responses == {i \in DOMAIN written : written[i].kind = "response"}

\* A request is answered at most once: neither its completion and a held
\* shutdown, nor an abort and a late completion, produce a second response.
AnsweredOnce ==
    \A i, j \in Responses : written[i].n = written[j].n => i = j

\* Responses leave in the order their requests were read, except that a live
\* shutdown passes requests which are then refused.
AnsweredInOrder ==
    \A i, j \in Responses :
        i < j /\ written[i].n > written[j].n =>
            written[i].outcome = "null" /\ written[j].outcome = "refused"

\* A cancellation that reached the tracker before its request began to execute
\* is never lost: that request does not answer with a result.
EarlyCancelHonoured ==
    \A i \in Responses : written[i].n \in early => written[i].outcome # "result"

\* A request is computed on a document no older than the edits the client sent
\* before it, however requests are deferred and edits overtake them.
RequestSeesEarlierEdits ==
    worker.pc \in WorkPcs \ {"off", "route", "capture"} /\ worker.outcome # "refused" =>
        worker.edition >= worker.item.after

\* A shutdown is only acknowledged once the request that was being executed has
\* completed and every context is gone, whoever registered it meanwhile.
ShutdownWaitsForWorker ==
    (\E i \in Responses : written[i].outcome = "null") =>
        worker.pc = "off" /\ \A id \in Ids : active[id] = 0

\* Behind the acknowledged shutdown the client sees no ordinary notification,
\* even one of a worker that was racing with the boundary.
NoNoticeAfterShutdown ==
    \A i, j \in DOMAIN written :
        written[i].kind = "response" /\ written[i].outcome = "null"
            /\ written[j].kind = "notice" => j < i

\* The session reports success only if the client was told that the shutdown took
\* effect and then sent exit: not after a lost output or an early end of input.
SuccessMeansAcknowledged ==
    main.pc = "returned" /\ exitCode = 0 =>
        /\ \E i \in Responses : written[i].outcome = "null"
        /\ state = "EXITED"

\* A session that returned left nothing behind: no context, no owed request, no
\* queued traffic, no wakeup bound to its queue, no thread at work.
QuietAtReturn ==
    main.pc = "returned" =>
        /\ \A id \in Ids : active[id] = 0
        /\ owed = {} /\ outbox = <<>> /\ notices = <<>>
        /\ ~open /\ ~wakeup
        /\ worker.pc = "off"

\* No wakeup is lost: main does not wait for events while requests to the client
\* sit in the outbox, unless a thread is about to wake it.
NoLostWakeup ==
    main.pc = "take" /\ events = <<>> /\ outbox # <<>> /\ state = "RUNNING" /\ ~failed =>
        \E t \in {"main", "worker"} : refresh[t] = "waking"

\* Every request that was read is answered, unless the session ends first.
EveryRequestAnswered ==
    \A g \in Generations, id \in Ids :
        (newest[id] = g /\ g \notin answered) ~> (g \in answered \/ Ended)

\* Once the reader has seen exit, or the end of its input, the session ends.
SessionEnds == (reader.pc = "stopped") ~> Ended

=============================================================================
