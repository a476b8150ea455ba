---------------------------- MODULE RequestTracker ----------------------------
(***************************************************************************)
(* The tracker of in-flight client requests (cancellation.py).  A request  *)
(* is one generation of its JSON-RPC id: the client may use the id again   *)
(* once it has been answered.  A generation is named by a number, and its  *)
(* context is the identity-bearing token the tracker holds for it.         *)
(*                                                                         *)
(* Each operator is one critical section of the tracker's lock, to be used *)
(* as a conjunct of the step that calls it.                                *)
(***************************************************************************)
EXTENDS Integers

CONSTANTS
    Ids,            \* JSON-RPC ids the client gives its requests
    MaxFrames       \* bound: frames the client sends; they number the generations

VARIABLES
    active,         \* active[id]: the generation whose context is registered, or 0
    staged,         \* ids with a one-shot cancellation waiting for their context
    cancelled       \* generations whose context carries the cancelled event

trackerVars == <<active, staged, cancelled>>

Generations == 1..MaxFrames

TrackerTypeOK ==
    /\ active \in [Ids -> 0..MaxFrames]
    /\ staged \in SUBSET Ids
    /\ cancelled \in SUBSET Generations

TrackerInit ==
    /\ active = [id \in Ids |-> 0]
    /\ staged = {}
    /\ cancelled = {}

\* Fault: the staged cancellation is dropped, not consumed.
StartContextUnaware(id, g) ==
    /\ active[id] = 0
    /\ active' = [active EXCEPT ![id] = g]
    /\ staged' = staged \ {id}
    /\ UNCHANGED cancelled

\* start: refused while another generation of the id is registered; the staged
\* cancellation, if there is one, is consumed by the new context.
StartContext(id, g) ==
    /\ active[id] = 0
    /\ active' = [active EXCEPT ![id] = g]
    /\ staged' = staged \ {id}
    /\ cancelled' = IF id \in staged THEN cancelled \cup {g} ELSE cancelled

\* stage_cancel: cancel the registered generation, or the one to come.
StageCancel(id) ==
    /\ active' = active
    /\ IF active[id] # 0
       THEN cancelled' = cancelled \cup {active[id]} /\ staged' = staged
       ELSE cancelled' = cancelled /\ staged' = staged \cup {id}

\* clear_staged_cancel
ClearStaged(id) ==
    /\ staged' = staged \ {id}
    /\ UNCHANGED <<active, cancelled>>

\* cancel: an unknown or finished id is harmless.
CancelActive(id) ==
    /\ cancelled' = IF active[id] # 0 THEN cancelled \cup {active[id]} ELSE cancelled
    /\ UNCHANGED <<active, staged>>

\* retire_all: cancel and detach every context at a terminal boundary.
RetireContexts ==
    /\ cancelled' = cancelled \cup {active[id] : id \in {i \in Ids : active[i] # 0}}
    /\ active' = [id \in Ids |-> 0]
    /\ staged' = {}

\* finish: exactly this generation; it may have been detached already.
FinishContext(id, g) ==
    /\ active' = IF active[id] = g THEN [active EXCEPT ![id] = 0] ELSE active
    /\ UNCHANGED <<staged, cancelled>>

=============================================================================
