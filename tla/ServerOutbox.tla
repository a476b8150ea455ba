----------------------------- MODULE ServerOutbox -----------------------------
(***************************************************************************)
(* What the server sends of its own accord (server.py): the outbox of      *)
(* notifications and the outbox of tracked requests to the client, each    *)
(* with its lock, the requests the client still owes an answer to, and the *)
(* wakeup that tells the transport that requests wait.                     *)
(*                                                                         *)
(* The requests are those of one refresh method, of which one at a time is *)
(* to be pending.  Notifications are of two kinds: "notice" (diagnostics,  *)
(* progress, trace) and "cancel" of a request the client has been sent.    *)
(***************************************************************************)
EXTENDS Integers, Sequences, SequencesExt, FiniteSets

CONSTANTS
    MaxRequests     \* bound: requests to the client in a behaviour

VARIABLES
    notices,        \* the notification outbox
    open,           \* whether the notification outbox takes ordinary traffic
    outbox,         \* requests to the client not yet handed to the transport
    owed,           \* requests pending: not answered, superseded or retired
    nextRequest,    \* number of the next request
    wakeup          \* whether a transport wakeup is bound

outboxVars == <<notices, open, outbox, owed, nextRequest, wakeup>>

Requests == 1..MaxRequests

\* A message of the output stream.  "n" numbers the request it answers, cancels or is.
Message(kind, n, outcome) == [kind |-> kind, n |-> n, outcome |-> outcome]

Notice == Message("notice", 0, "none")
RemoteCancel(r) == Message("cancel", r, "none")
RefreshRequest(r) == Message("request", r, "none")

OutboxTypeOK ==
    /\ notices \in Seq({Notice} \cup {RemoteCancel(r) : r \in Requests})
    /\ open \in BOOLEAN
    /\ outbox \in Seq(Requests)
    /\ owed \in SUBSET Requests
    /\ nextRequest \in 1..(MaxRequests + 1)
    /\ wakeup \in BOOLEAN

OutboxInit ==
    /\ notices = <<>>
    /\ open = TRUE
    /\ outbox = <<>>
    /\ owed = {}
    /\ nextRequest = 1
    /\ wakeup = TRUE

\* Fault: the lifecycle gate is not consulted.
AppendNoticeUngated ==
    /\ notices' = Append(notices, Notice)
    /\ UNCHANGED <<open, outbox, owed, nextRequest, wakeup>>

\* _append_notification: the gate and the append are one critical section.
AppendNotice ==
    /\ notices' = IF open THEN Append(notices, Notice) ELSE notices
    /\ UNCHANGED <<open, outbox, owed, nextRequest, wakeup>>

\* _queue_server_request up to the release of its lock: ownership is fixed
\* before the request can be drained.
QueueRequest ==
    /\ owed' = owed \cup {nextRequest}
    /\ outbox' = Append(outbox, nextRequest)
    /\ nextRequest' = nextRequest + 1
    /\ UNCHANGED <<notices, open, wakeup>>

\* Fault: the transition is looked for in the outbox that already has the request.
WakesTransportLate == Append(outbox, nextRequest) = <<>> /\ wakeup

\* Whether the caller of QueueRequest has to call the wakeup afterwards.
WakesTransport == outbox = <<>> /\ wakeup

\* _handle_server_response: unknown ids are ignored.
ConsumeReply(r) ==
    /\ owed' = owed \ {r}
    /\ UNCHANGED <<notices, open, outbox, nextRequest, wakeup>>

\* The elements of s at the positions P, in their order: a set of one sequence.
Selection(s, P) ==
    {[k \in 1..Cardinality(P) |-> s[at[k]]] :
        at \in {f \in [1..Cardinality(P) -> P] : \A j, k \in DOMAIN f : j < k => f[j] < f[k]}}

\* _can_dispatch_server_response_live: pending, and no longer in the outbox.
Delivered(r) == r \in owed /\ r \notin Range(outbox)

\* _retire_all_server_requests(cancel_remote=True): what the client has seen is
\* cancelled there, what it has not is withdrawn.
RetireWithCancel ==
    /\ \E seen \in Selection([r \in Requests |-> r], {r \in owed : Delivered(r)}) :
          notices' = IF open THEN notices \o [i \in DOMAIN seen |-> RemoteCancel(seen[i])]
                     ELSE notices
    /\ outbox' \in Selection(outbox, {i \in DOMAIN outbox : outbox[i] \notin owed})
    /\ owed' = {}
    /\ UNCHANGED <<open, nextRequest, wakeup>>

\* Fault: ownership is retired and the queued requests stay.
RetireOwedOnly ==
    /\ owed' = {}
    /\ UNCHANGED <<notices, open, outbox, nextRequest>>

\* _retire_all_server_requests(cancel_remote=False)
RetireLocally ==
    /\ outbox' = <<>>
    /\ owed' = {}
    /\ UNCHANGED <<notices, open, nextRequest>>

\* _close_notification_outbox: closed for good; of what is queued only the
\* cancellations of the requests retired just before are kept.
CloseNotices(keepCancels) ==
    /\ open' = FALSE
    /\ notices' \in Selection(notices, {i \in DOMAIN notices :
                                         keepCancels /\ notices[i].kind = "cancel"})
    /\ UNCHANGED <<outbox, owed, nextRequest>>

DrainNotices ==
    /\ notices' = <<>>
    /\ UNCHANGED <<open, outbox, owed, nextRequest, wakeup>>

DrainRequests ==
    /\ outbox' = <<>>
    /\ UNCHANGED <<notices, open, owed, nextRequest, wakeup>>

=============================================================================
