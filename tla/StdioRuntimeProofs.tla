-------------------------- MODULE StdioRuntimeProofs --------------------------
(***************************************************************************)
(* Theorems about StdioRuntime, for any number of ids, frames and requests *)
(* to the client, and every set of failures.                               *)
(*                                                                         *)
(* The argument rests on who owns what.  Main alone starts a request and   *)
(* takes its completion, so that a request is running exactly while the    *)
(* worker holds it or its completion waits in the queue (Lane).  From the  *)
(* boundary on the outbox of notifications is closed, and what main still  *)
(* carries was taken behind it (Boundary).  An acknowledgement is carried  *)
(* by main, or held, or written, or the session is ending with a failure   *)
(* (Acknowledged).                                                         *)
(*                                                                         *)
(* Two more invariants rest on it.  Requests take turns (Turns): what      *)
(* waits is in the order of its numbers, and a response answers a request  *)
(* that waits no longer.  A cancellation staged for a request that has not *)
(* been registered yet stays until that request registers its context or   *)
(* the session is over (EarlyInv).                                         *)
(***************************************************************************)
EXTENDS StdioRuntime, SequenceTheorems, FiniteSetTheorems, TLAPS

-----------------------------------------------------------------------------
(***************************************************************************)
(* The inductive invariant.                                                *)
(***************************************************************************)
\* Items of requests carry their id and their number; so do responses.
Sound(f) ==
    /\ f.kind \in {"request", "shutdown", "completed"} => f.id \in Ids /\ f.n \in Generations
    /\ f.kind = "edit" => f.n \in Generations
    /\ f.kind = "reply" => f.n \in Requests
    /\ f.outcome # "null"

SoundMessage(m) == m.kind = "response" => m.n \in Generations

OutboxTyped ==
    /\ OutboxTypeOK
    /\ nextRequest + Cardinality({o \in DOMAIN refresh : refresh[o] = "checked"})
          <= MaxRequests + 1

ReaderTyped == ReaderTypeOK /\ (reader.pc \in {"stage", "post"} => reader.id \in Ids)

QueueTyped ==
    /\ QueueTypeOK
    /\ \A i \in DOMAIN events : Sound(events[i])
    /\ \A i \in DOMAIN deferred : Sound(deferred[i])

MainTyped ==
    /\ MainTypeOK
    /\ Sound(main.item)
    /\ \A i \in DOMAIN main.answer : SoundMessage(main.answer[i])
    /\ \A i \in DOMAIN main.batch : SoundMessage(main.batch[i])
    /\ main.pc \in {"clear", "discard"} => main.item.kind \in {"request", "shutdown"}
    /\ main.cause = "shutdown" => main.item.kind = "shutdown"

SessionTyped ==
    /\ SessionTypeOK
    /\ running # None => Sound(running) /\ running.kind = "request"
    /\ held # None => \A i \in DOMAIN held : SoundMessage(held[i])

WorkTyped == WorkTypeOK /\ Sound(worker.item)

Typed ==
    /\ TrackerTypeOK /\ OutboxTyped /\ ClientTypeOK /\ ReaderTyped
    /\ QueueTyped /\ MainTyped /\ SessionTyped /\ WorkTyped

Completions == {i \in DOMAIN events : events[i].kind = "completed"}

\* One request at a time, from the start of its worker to its completion; a
\* context is registered only by the worker, and a refresh posted only by a
\* thread that is where it changes the workspace.
Lane ==
    /\ running = None => worker.pc = "off" /\ Completions = {}
    /\ worker.pc # "off" => worker.item = running /\ Completions = {}
    /\ \A i, j \in Completions : i = j
    /\ worker.outcome # "null"
    /\ \A id \in Ids : active[id] # 0 =>
          worker.pc \in {"work", "commit", "finish"} /\ worker.item.id = id
              /\ worker.item.n = active[id]
    /\ refresh["worker"] # "none" => worker.pc = "work"
    /\ refresh["main"] # "none" => main.pc = "edited"

Null(s) == \E i \in DOMAIN s : s[i].kind = "response" /\ s[i].outcome = "null"
Noisy(s) == \E i \in DOMAIN s : s[i].kind = "notice"

CrossingPcs == {"retire", "stage", "retireOutbox", "close"}
CarryingPcs == {"clear", "discard", "stageRunning", "replay", "drainNotices", "drainRequests"}

\* What main carries, and where it may be with it.
Shape ==
    /\ main.pc = "take" => main = Idle
    /\ main.pc \in {"stage", "stageRunning"} => running # None
    /\ main.batch # <<>> => main.pc \in {"drainRequests", "write"}
    /\ main.answer # <<>> => main.pc \in CarryingPcs \cup {"write", "raised"}
    /\ main.pc \in CrossingPcs => main.cause # "none"
    /\ main.cause \in {"exit", "abort"} => main.pc \in CrossingPcs
    /\ main.pc = "replay" => main.next \in {"dispatch", "drainNotices", "raised"}
    /\ main.pc # "replay" => main.next \in {"take", "drainNotices"}
    /\ main.next = "dispatch" => main.answer = <<>>
    /\ main.next = "dispatch" \/ main.pc = "dispatch" => state # "EXITED"
    /\ main.next = "raised" \/ Ended => running = None
    /\ main.pc \in {"dispatch", "edited"} => main.next = "drainNotices"
    /\ main.pc = "edited" => state = "RUNNING" /\ main.item.kind = "edit"
    /\ main.item.kind = "completed" => running = None
    /\ main.pc = "replay" /\ main.next = "drainNotices" /\ main.item.kind = "shutdown" =>
          running = None
    /\ main.pc \in CrossingPcs /\ main.cause = "shutdown" => state = "RUNNING"
    /\ main.cause = "exit" => running = None /\ state # "EXITED"

\* Behind the boundary: nothing ordinary is queued or carried.
Boundary ==
    /\ state # "RUNNING" => ~open
    /\ ~open => ~Noisy(notices) /\ ~Noisy(main.batch)
    /\ ~Noisy(main.answer)
    /\ held # None => Null(held) /\ ~Noisy(held) /\ state # "RUNNING"
    /\ Null(main.answer) => state # "RUNNING" /\ main.item.kind = "shutdown"
    /\ Null(main.batch) \/ Null(written) => state # "RUNNING" /\ running = None
    /\ main.item.kind = "shutdown" /\ running # None
          /\ main.pc \in {"clear", "discard", "stageRunning", "drainNotices", "drainRequests"}
          => Null(main.answer)
    /\ main.pc = "write" /\ Null(main.answer) => Null(main.batch)

\* An accepted shutdown is acknowledged, or on its way, or the session fails.
Acknowledged ==
    /\ state = "SHUTDOWN" /\ ~failed /\ ~Ended /\ main.cause # "abort" =>
          \/ Null(written)
          \/ Null(main.answer)
          \/ Null(main.batch)
          \/ held # None /\ running # None
    /\ exitCode = 0 => state = "EXITED" /\ Null(written)

\* What an ending session has left.
Ending ==
    /\ failed => ~open /\ notices = <<>> /\ (Ended \/ (main.pc = "take" /\ running # None))
    /\ main.pc = "close" /\ main.cause # "shutdown" /\ running = None =>
          owed = {} /\ outbox = <<>>
    /\ state = "EXITED" =>
          running = None /\ owed = {} /\ outbox = <<>> /\ notices = <<>>
    /\ main.pc = "returned" =>
          owed = {} /\ outbox = <<>> /\ notices = <<>> /\ ~open /\ ~wakeup
    /\ wakeup \/ failed \/ Ended

ReadyWaits == \E i \in DOMAIN events : events[i].kind = "ready"

\* Requests to the client that wait are about to be taken.
Waking ==
    outbox # <<>> /\ state = "RUNNING" /\ ~failed /\ ~Ended =>
        \/ \E t \in {"main", "worker"} : refresh[t] = "waking"
        \/ ReadyWaits
        \/ main.pc \in {"drainNotices", "drainRequests"}

\* What main has before it, and what it left behind.
Course == Shape /\ Boundary /\ Acknowledged /\ Ending /\ Waking

RuntimeInv == Typed /\ Lane /\ Course

-----------------------------------------------------------------------------
(***************************************************************************)
(* Sequences.                                                              *)
(***************************************************************************)

\* What is appended comes last, and the rest is where it was.
LEMMA AppendFacts ==
    ASSUME NEW S, NEW s \in Seq(S), NEW x \in S
    PROVE  /\ Append(s, x) \in Seq(S)
           /\ DOMAIN Append(s, x) = 1..(Len(s) + 1) /\ DOMAIN s = 1..Len(s) /\ Len(s) \in Nat
           /\ \A i \in 1..Len(s) : Append(s, x)[i] = s[i]
           /\ Append(s, x)[Len(s) + 1] = x
           /\ Append(s, x) # <<>>
BY AppendProperties, LenProperties

\* The tail of a sequence is the sequence moved down by one.
LEMMA TailFacts ==
    ASSUME NEW S, NEW s \in Seq(S), s # <<>>
    PROVE  /\ Tail(s) \in Seq(S) /\ Head(s) \in S /\ Head(s) = s[1]
           /\ Len(s) \in Nat /\ Len(s) >= 1 /\ DOMAIN s = 1..Len(s)
           /\ DOMAIN Tail(s) = 1..(Len(s) - 1)
           /\ \A i \in DOMAIN Tail(s) : i + 1 \in DOMAIN s /\ Tail(s)[i] = s[i + 1]
BY HeadTailProperties, EmptySeq, LenProperties

\* A concatenation has the elements of both.
LEMMA ConcatFacts ==
    ASSUME NEW S, NEW s \in Seq(S), NEW t \in Seq(S)
    PROVE  /\ s \o t \in Seq(S)
           /\ Len(s) \in Nat /\ Len(t) \in Nat
           /\ DOMAIN s = 1..Len(s) /\ DOMAIN t = 1..Len(t)
           /\ DOMAIN (s \o t) = 1..(Len(s) + Len(t))
           /\ \A i \in 1..Len(s) : (s \o t)[i] = s[i]
           /\ \A i \in 1..Len(t) : (s \o t)[Len(s) + i] = t[i]
           /\ \A i \in DOMAIN (s \o t) : i \notin DOMAIN s =>
                 i - Len(s) \in DOMAIN t /\ (s \o t)[i] = t[i - Len(s)]
BY ConcatProperties, LenProperties

\* What main writes is a beginning of its batch.
LEMMA BeginningFacts ==
    ASSUME NEW S, NEW s \in Seq(S), NEW k \in 0..Len(s)
    PROVE  /\ SubSeq(s, 1, k) \in Seq(S)
           /\ DOMAIN SubSeq(s, 1, k) = 1..k /\ Len(SubSeq(s, 1, k)) = k
           /\ \A i \in 1..k : SubSeq(s, 1, k)[i] = s[i] /\ i \in DOMAIN s
           /\ k = Len(s) => SubSeq(s, 1, k) = s
<1>1. Len(s) \in Nat /\ DOMAIN s = 1..Len(s)
  BY LenProperties
<1>2. SubSeq(s, 1, k) \in Seq(S)
  BY <1>1, SubSeqProperties, Z3
<1>3. Len(SubSeq(s, 1, k)) = k
  BY <1>1, SubSeqProperties, Z3
<1>4. \A i \in 1..k : SubSeq(s, 1, k)[i] = s[i] /\ i \in DOMAIN s
  BY <1>1, SubSeqProperties, Z3
<1>5. DOMAIN SubSeq(s, 1, k) = 1..k
  BY <1>2, <1>3, LenProperties
<1>6. k = Len(s) => SubSeq(s, 1, k) = s
  BY <1>1, <1>2, <1>3, <1>4, SeqEqual
<1> QED BY <1>2, <1>3, <1>4, <1>5, <1>6

\* A selection takes its elements from the positions it was given.
LEMMA SelectionFacts ==
    ASSUME NEW S, NEW s \in Seq(S), NEW P, P \subseteq DOMAIN s, NEW t \in Selection(s, P)
    PROVE  /\ t \in Seq(S)
           /\ \A k \in DOMAIN t : \E i \in P : t[k] = s[i]
           /\ P = {} => t = <<>>
<1>1. DOMAIN s = 1..Len(s) /\ Len(s) \in Nat
  BY LenProperties
<1>2. IsFiniteSet(P) /\ Cardinality(P) \in Nat
  <2>1. IsFiniteSet(1..Len(s))
    BY <1>1, FS_Interval
  <2>2. IsFiniteSet(P)
    BY <1>1, <2>1, FS_Subset
  <2> QED BY <2>2, FS_CardinalityType
<1>3. PICK at \in [1..Cardinality(P) -> P] : t = [k \in 1..Cardinality(P) |-> s[at[k]]]
  BY DEF Selection
<1>4. \A k \in 1..Cardinality(P) : t[k] = s[at[k]] /\ at[k] \in P /\ s[at[k]] \in S
  BY <1>1, <1>3, ElementOfSeq
<1>5. t \in [1..Cardinality(P) -> S]
  BY <1>3, <1>4
<1>6. t \in Seq(S)
  BY <1>2, <1>5, SeqDef
<1>7. P = {} => t = <<>>
  <2>1. P = {} => Cardinality(P) = 0
    BY FS_EmptySet
  <2>2. Len(t) = Cardinality(P)
    BY <1>2, <1>5, <1>6, LenProperties
  <2> QED BY <1>6, <2>1, <2>2, EmptySeq, SeqEqual
<1> QED BY <1>3, <1>4, <1>6, <1>7

-----------------------------------------------------------------------------
(***************************************************************************)
(* Types.                                                                  *)
(***************************************************************************)

\* The refreshes that were checked and not posted, as a refresh moves on.
LEMMA CheckedFacts ==
    ASSUME NEW old \in [{"main", "worker"} -> {"none", "checked", "waking"}],
           NEW t \in {"main", "worker"}, NEW v \in {"none", "checked", "waking"},
           NEW new, new = [old EXCEPT ![t] = v]
    PROVE  LET C == {o \in DOMAIN old : old[o] = "checked"}
               D == {o \in DOMAIN new : new[o] = "checked"}
           IN  /\ Cardinality(C) \in Nat
               /\ old[t] = "none" /\ v = "checked" => Cardinality(D) = Cardinality(C) + 1
               /\ old[t] = "checked" /\ v # "checked" => Cardinality(D) + 1 = Cardinality(C)
               /\ old[t] = "waking" /\ v = "none" => Cardinality(D) = Cardinality(C)
<1> DEFINE C == {o \in DOMAIN old : old[o] = "checked"}
           D == {o \in DOMAIN new : new[o] = "checked"}
<1>1. IsFiniteSet({"main", "worker"})
  <2>1. IsFiniteSet({}) /\ {"main", "worker"} = ({} \cup {"main"}) \cup {"worker"}
    BY FS_EmptySet
  <2>2. IsFiniteSet({} \cup {"main"})
    BY <2>1, FS_AddElement
  <2>3. IsFiniteSet(({} \cup {"main"}) \cup {"worker"})
    BY <2>2, FS_AddElement
  <2> QED BY <2>1, <2>3
<1>2. IsFiniteSet(C)
  BY <1>1, FS_Subset
<1>3. Cardinality(C) \in Nat
  BY <1>2, FS_CardinalityType
<1>4. old[t] = "none" /\ v = "checked" => D = C \cup {t} /\ t \notin C
  OBVIOUS
<1>5. old[t] = "checked" /\ v # "checked" => D = C \ {t} /\ t \in C
  OBVIOUS
<1>6. old[t] = "waking" /\ v = "none" => D = C
  OBVIOUS
<1>7. Cardinality(C \cup {t}) = IF t \in C THEN Cardinality(C) ELSE Cardinality(C) + 1
  BY <1>2, FS_AddElement
<1>8. Cardinality(C \ {t}) = IF t \in C THEN Cardinality(C) - 1 ELSE Cardinality(C)
  BY <1>2, FS_RemoveElement
<1>9. old[t] = "none" /\ v = "checked" => Cardinality(D) = Cardinality(C) + 1
  BY <1>4, <1>7
<1>10. old[t] = "checked" /\ v # "checked" => Cardinality(D) + 1 = Cardinality(C)
  <2> HIDE DEF C, D
  <2> QED BY <1>3, <1>5, <1>8
<1>11. old[t] = "waking" /\ v = "none" => Cardinality(D) = Cardinality(C)
  BY <1>6
<1> QED BY <1>3, <1>9, <1>10, <1>11

\* The events stay items when a sound one is appended.
LEMMA EventAppended ==
    ASSUME QueueTyped, NEW f \in Items, Sound(f), events' = Append(events, f),
           deferred' = deferred, controls' = controls
    PROVE  QueueTyped'
<1>1. events \in Seq(Items)
  BY DEF QueueTyped, QueueTypeOK
<1>2. \A i \in 1..Len(events) : Sound(events[i])
  BY <1>1, LenProperties DEF QueueTyped
<1>3. \A i \in 1..(Len(events) + 1) : Sound(Append(events, f)[i])
  BY <1>1, <1>2, AppendFacts
<1>4. events' \in Seq(Items) /\ \A i \in DOMAIN events' : Sound(events'[i])
  BY <1>1, <1>3, AppendFacts
<1> QED BY <1>4 DEF QueueTyped, QueueTypeOK

\* What the client sends keeps the types.
LEMMA ClientTyped ==
    ASSUME Typed, ClientSends
    PROVE  Typed'
<1> USE RuntimeAssumption
<1>1. /\ frames \in 0..MaxFrames /\ lastEdit \in 0..MaxFrames /\ MaxFrames \in Nat
      /\ MaxRequests \in Nat /\ newest \in [Ids -> 0..MaxFrames]
      /\ reader \in [pc : {"read", "stage", "post", "stopped"}, id : Ids \cup {None}]
      /\ ClientTypeOK /\ ReaderTyped /\ QueueTyped
  BY DEF Typed, ClientTypeOK, ReaderTyped, ReaderTypeOK
<1> DEFINE Retyped == ClientTypeOK' /\ ReaderTyped' /\ QueueTyped'
<1>2. ASSUME NEW kind \in {"request", "shutdown"}, NEW id \in Ids, ReadRequest(kind, id)
      PROVE Retyped
  <2>1. frames' \in 1..MaxFrames
    BY <1>1, <1>2 DEF ReadRequest, CanRead
  <2>2. /\ Item(kind, id, frames', lastEdit, "none") \in Items
        /\ Sound(Item(kind, id, frames', lastEdit, "none"))
    BY <1>1, <2>1 DEF Item, Items, AllFrameKinds, Outcomes, Sound, Generations
  <2>3. QueueTyped'
    BY <1>1, <1>2, <2>2, EventAppended DEF ReadRequest
  <2>4. newest' \in [Ids -> 0..MaxFrames] /\ frames' \in 0..MaxFrames
    BY <1>1, <1>2, <2>1 DEF ReadRequest
  <2> QED BY <1>1, <1>2, <2>3, <2>4 DEF ReadRequest, ClientTypeOK, ReaderTyped, ReaderTypeOK
<1>3. ASSUME NEW kind \in {"edit", "other", "exit"}, ReadNotification(kind)
      PROVE Retyped
  <2>1. frames' \in 1..MaxFrames
    BY <1>1, <1>3 DEF ReadNotification, CanRead
  <2>2. /\ Item(kind, None, frames', lastEdit, "none") \in Items
        /\ Sound(Item(kind, None, frames', lastEdit, "none"))
    BY <1>1, <2>1 DEF Item, Items, AllFrameKinds, Outcomes, Sound, Generations
  <2>3. QueueTyped'
    BY <1>1, <1>3, <2>2, EventAppended DEF ReadNotification
  <2>4. lastEdit' \in 0..MaxFrames /\ frames' \in 0..MaxFrames
    BY <1>1, <1>3, <2>1 DEF ReadNotification
  <2>5. ReaderTyped'
    BY <1>1, <1>3 DEF ReadNotification, ReaderTyped, ReaderTypeOK, CanRead
  <2> QED BY <1>1, <1>3, <2>3, <2>4, <2>5 DEF ReadNotification, ClientTypeOK
<1>4. ASSUME NEW r \in Requests, ReadReply(r)
      PROVE Retyped
  <2>1. frames' \in 0..MaxFrames /\ r \in 0..(MaxFrames + MaxRequests)
    BY <1>1, <1>4 DEF ReadReply, CanRead, Requests
  <2>2. /\ Item("reply", None, r, lastEdit, "none") \in Items
        /\ Sound(Item("reply", None, r, lastEdit, "none"))
    BY <1>1, <2>1 DEF Item, Items, AllFrameKinds, Outcomes, Sound
  <2>3. QueueTyped'
    BY <1>1, <1>4, <2>2, EventAppended DEF ReadReply
  <2> QED BY <1>1, <1>4, <2>1, <2>3 DEF ReadReply, ClientTypeOK, ReaderTyped, ReaderTypeOK
<1>5. ASSUME NEW id \in Ids, ReadCancel(id)
      PROVE Retyped
  <2>1. frames' \in 0..MaxFrames
    BY <1>1, <1>5 DEF ReadCancel, CanRead
  <2>2. newest[id] # 0 => newest[id] \in Generations
    BY <1>1 DEF Generations
  <2>3. ReaderTyped'
    BY <1>1, <1>5 DEF ReadCancel, ReaderTyped, ReaderTypeOK
  <2>4. ClientTypeOK'
    BY <1>1, <1>5, <2>1, <2>2 DEF ReadCancel, ClientTypeOK
  <2> QED BY <1>1, <1>5, <2>3, <2>4 DEF ReadCancel, QueueTyped, QueueTypeOK, queueVars
<1>6. ASSUME ReadFailure PROVE Retyped
  <2>1. Failure \in Items /\ Sound(Failure)
    BY <1>1 DEF Failure, Item, Items, Outcomes, Sound
  <2>2. QueueTyped'
    BY <1>1, <1>6, <2>1, EventAppended DEF ReadFailure
  <2>3. ReaderTyped'
    BY <1>1, <1>6 DEF ReadFailure, ReaderTyped, ReaderTypeOK
  <2> QED BY <1>1, <1>6, <2>2, <2>3 DEF ReadFailure, ClientTypeOK, clientVars
<1>7. Retyped
  <2> HIDE DEF Retyped
  <2> QED BY <1>2, <1>3, <1>4, <1>5, <1>6 DEF ClientSends
<1>8. TrackerTypeOK' /\ OutboxTyped'
  BY DEF Typed, ClientSends, trackerVars, outboxVars, TrackerTypeOK, OutboxTyped, OutboxTypeOK
<1>9. MainTyped' /\ SessionTyped' /\ WorkTyped'
  BY DEF Typed, ClientSends, sessionVars, MainTyped, MainTypeOK, SessionTyped, SessionTypeOK,
         WorkTyped, WorkTypeOK
<1> QED BY <1>7, <1>8, <1>9 DEF Typed

\* The values the tracker holds.
LEMMA StageTyped ==
    ASSUME TrackerTypeOK, NEW id \in Ids, StageCancel(id)
    PROVE  TrackerTypeOK'
<1>1. active[id] # 0 => active[id] \in Generations
  BY RuntimeAssumption DEF TrackerTypeOK, Generations
<1> QED BY <1>1 DEF TrackerTypeOK, StageCancel

\* The reader keeps the types when it stages a cancellation and when it posts it.
LEMMA ReaderTypedStep ==
    ASSUME Typed, ReaderStep
    PROVE  Typed'
<1>1. TrackerTypeOK /\ ClientTypeOK /\ ReaderTyped /\ QueueTyped
  BY DEF Typed
<1>2. ASSUME ReaderStages
      PROVE  TrackerTypeOK' /\ ClientTypeOK' /\ ReaderTyped' /\ QueueTyped'
  <2>1. reader.id \in Ids
    BY <1>1, <1>2 DEF ReaderStages, ReaderTyped
  <2>2. TrackerTypeOK'
    BY <1>1, <1>2, <2>1, StageTyped DEF ReaderStages
  <2>3. ReaderTyped'
    BY <1>1, <1>2, <2>1 DEF ReaderStages, ReaderTyped, ReaderTypeOK
  <2>4. ClientTypeOK'
    BY <1>1, <1>2 DEF ReaderStages, ClientTypeOK
  <2> QED BY <1>1, <1>2, <2>2, <2>3, <2>4 DEF ReaderStages, queueVars, QueueTyped, QueueTypeOK
<1>3. ASSUME ReaderPosts, UNCHANGED trackerVars
      PROVE  TrackerTypeOK' /\ ClientTypeOK' /\ ReaderTyped' /\ QueueTyped'
  <2>1. controls' \in Seq(Ids)
    BY <1>1, <1>3, AppendFacts DEF ReaderPosts, ReaderTyped, QueueTyped, QueueTypeOK
  <2> QED
    BY <1>1, <1>3, <2>1 DEF ReaderPosts, trackerVars, clientVars, TrackerTypeOK, ClientTypeOK,
       ReaderTyped, ReaderTypeOK, QueueTyped, QueueTypeOK
<1>4. TrackerTypeOK' /\ ClientTypeOK' /\ ReaderTyped' /\ QueueTyped'
  BY <1>2, <1>3 DEF ReaderStep
<1>5. OutboxTyped'
  BY DEF Typed, ReaderStep, outboxVars, OutboxTyped, OutboxTypeOK
<1>6. MainTyped' /\ SessionTyped' /\ WorkTyped'
  BY DEF Typed, ReaderStep, sessionVars, MainTyped, MainTypeOK, SessionTyped, SessionTypeOK,
         WorkTyped, WorkTypeOK
<1> QED BY <1>4, <1>5, <1>6 DEF Typed

\* Neither thread posts more requests than there are numbers for.
LEMMA RefreshTyped ==
    ASSUME Typed, NEW t \in {"main", "worker"}, RefreshStep(t)
    PROVE  Typed'
<1> USE RuntimeAssumption
<1> DEFINE Checked == Cardinality({o \in DOMAIN refresh : refresh[o] = "checked"})
<1>1. /\ OutboxTypeOK /\ nextRequest + Checked <= MaxRequests + 1 /\ QueueTyped
      /\ refresh \in [{"main", "worker"} -> {"none", "checked", "waking"}]
      /\ nextRequest \in Nat /\ nextRequest >= 1 /\ MaxRequests \in Nat
  BY DEF Typed, OutboxTyped, OutboxTypeOK, WorkTyped, WorkTypeOK
<1>2. Checked \in Nat
  BY <1>1, CheckedFacts
<1> DEFINE Retyped ==
      /\ OutboxTyped' /\ QueueTyped'
      /\ refresh' \in [{"main", "worker"} -> {"none", "checked", "waking"}]
<1>3. ASSUME CheckRefresh(t) PROVE Retyped
  <2>1. Checked' = Checked + 1
    BY <1>1, <1>3, CheckedFacts DEF CheckRefresh
  <2>2. nextRequest + Checked <= MaxRequests
    BY <1>3 DEF CheckRefresh
  <2>3. nextRequest' + Checked' <= MaxRequests' + 1
    BY <1>1, <1>2, <1>3, <2>1, <2>2 DEF CheckRefresh, outboxVars
  <2>4. OutboxTypeOK'
    BY <1>1, <1>3 DEF CheckRefresh, outboxVars, OutboxTypeOK
  <2>5. QueueTyped'
    BY <1>1, <1>3 DEF CheckRefresh, RefreshStep, QueueTyped, QueueTypeOK
  <2> QED BY <1>1, <1>3, <2>3, <2>4, <2>5 DEF CheckRefresh, OutboxTyped
<1>4. ASSUME PostRefresh(t) PROVE Retyped
  <2>1. refresh' \in [{"main", "worker"} -> {"none", "checked", "waking"}]
    BY <1>1, <1>4 DEF PostRefresh
  <2>2. Checked' + 1 = Checked
    <3>1. PICK v \in {"none", "waking"} : refresh' = [refresh EXCEPT ![t] = v]
      BY <1>4 DEF PostRefresh
    <3> QED BY <1>1, <1>4, <3>1, CheckedFacts DEF PostRefresh
  <2>3. Checked' \in Nat
    BY <2>1, CheckedFacts
  <2>4. nextRequest \in Requests
    BY <1>1, <1>2, <2>2, <2>3 DEF Requests
  <2>5. nextRequest' = nextRequest + 1 /\ nextRequest' \in 1..(MaxRequests + 1)
    BY <1>1, <1>4, <2>4 DEF PostRefresh, QueueRequest, Requests
  <2>6. nextRequest' + Checked' <= MaxRequests' + 1
    BY <1>1, <1>2, <2>2, <2>3, <2>5
  <2>7. outbox' \in Seq(Requests)
    BY <1>1, <1>4, <2>4, AppendFacts DEF PostRefresh, QueueRequest, OutboxTypeOK
  <2>8. OutboxTypeOK'
    BY <1>1, <1>4, <2>4, <2>5, <2>7 DEF PostRefresh, QueueRequest, OutboxTypeOK
  <2>9. QueueTyped'
    BY <1>1, <1>4 DEF PostRefresh, RefreshStep, QueueTyped, QueueTypeOK
  <2> QED BY <2>1, <2>6, <2>8, <2>9 DEF OutboxTyped
<1>5. ASSUME WakeTransport(t) PROVE Retyped
  <2>1. refresh' \in [{"main", "worker"} -> {"none", "checked", "waking"}]
    BY <1>1, <1>5 DEF WakeTransport
  <2>2. Checked' = Checked
    BY <1>1, <1>5, CheckedFacts DEF WakeTransport
  <2>3. OutboxTyped'
    BY <1>1, <1>5, <2>2 DEF WakeTransport, outboxVars, OutboxTyped, OutboxTypeOK
  <2>4. Ready \in Items /\ Sound(Ready)
    BY DEF Ready, Item, Items, Outcomes, Sound
  <2>5. QueueTyped'
    BY <1>1, <1>5, <2>4, EventAppended DEF WakeTransport, RefreshStep
  <2> QED BY <2>1, <2>3, <2>5
<1>6. Retyped
  <2> HIDE DEF Retyped
  <2> QED BY <1>3, <1>4, <1>5 DEF RefreshStep
<1>7. WorkTyped'
  BY <1>6 DEF Typed, RefreshStep, WorkTyped, WorkTypeOK
<1>8. TrackerTypeOK' /\ ClientTypeOK' /\ ReaderTyped' /\ MainTyped' /\ SessionTyped'
  BY DEF Typed, RefreshStep, trackerVars, clientVars, readerVars, sessionVars, TrackerTypeOK,
         ClientTypeOK, ReaderTyped, ReaderTypeOK, MainTyped, MainTypeOK, SessionTyped, SessionTypeOK
<1> QED BY <1>6, <1>7, <1>8 DEF Typed

\* What the worker works on is the running request.
LEMMA AtWork ==
    ASSUME Typed, Lane, worker.pc # "off"
    PROVE  /\ running # None /\ worker.item = running /\ running \in Items
           /\ running.kind = "request" /\ running.id \in Ids /\ running.n \in Generations
           /\ running.after \in 0..MaxFrames /\ running.outcome \in Outcomes
BY DEF Typed, Lane, SessionTyped, SessionTypeOK, Sound, Items

LEMMA NoWorkTyped ==
    /\ NoWork \in [pc : WorkPcs, item : Items, edition : 0..MaxFrames,
                   outcome : Outcomes, noted : BOOLEAN]
    /\ Sound(NoWork.item)
BY RuntimeAssumption DEF NoWork, WorkPcs, Nothing, Item, Items, AllFrameKinds, Outcomes, Sound

\* The worker keeps the types.
LEMMA WorkerTyped ==
    ASSUME Typed, Lane, WorkerStep
    PROVE  Typed'
<1>1. /\ TrackerTypeOK /\ OutboxTypeOK /\ ReaderTyped /\ QueueTyped /\ WorkTyped
      /\ worker \in [pc : WorkPcs, item : Items, edition : 0..MaxFrames,
                     outcome : Outcomes, noted : BOOLEAN]
      /\ edition \in 0..MaxFrames
  BY DEF Typed, OutboxTyped, WorkTyped, WorkTypeOK
<1>2. worker.pc # "off"
  BY DEF WorkerStep, WorkerAt, WorkerRoutes, WorkerCaptures, WorkerStarts, WorkerNotifies,
         WorkerChecks, WorkerCommits, WorkerRaises, WorkerFinishes, WorkerClears, WorkerDiscards,
         WorkerCompletes
<1>3. /\ worker.item.id \in Ids /\ worker.item.n \in Generations /\ worker.item \in Items
      /\ worker.item.kind = "request"
  BY <1>2, AtWork
<1> DEFINE Retyped ==
      /\ worker' \in [pc : WorkPcs, item : Items, edition : 0..MaxFrames,
                      outcome : Outcomes, noted : BOOLEAN]
      /\ Sound(worker'.item)
      /\ TrackerTypeOK' /\ pendingIds' \in SUBSET Ids /\ QueueTyped'
      /\ notices' \in Seq({Notice} \cup {RemoteCancel(r) : r \in Requests})
<1> DEFINE Rest == /\ TrackerTypeOK' /\ pendingIds' \in SUBSET Ids /\ QueueTyped'
                   /\ notices' \in Seq({Notice} \cup {RemoteCancel(r) : r \in Requests})
           Rewritten == worker' \in [pc : WorkPcs, item : Items, edition : 0..MaxFrames,
                                     outcome : Outcomes, noted : BOOLEAN]
                        /\ worker'.item = worker.item
<1>4. UNCHANGED <<trackerVars, notices, pendingIds, events>> => Rest
  BY <1>1 DEF WorkerStep, trackerVars, TrackerTypeOK, OutboxTypeOK, ReaderTyped, ReaderTypeOK,
              QueueTyped, QueueTypeOK
<1>5. ASSUME WorkerRoutes PROVE Rewritten /\ Rest
  BY <1>1, <1>4, <1>5 DEF WorkerRoutes, WorkPcs, BeforeContext, Outcomes
<1>6. ASSUME WorkerCaptures PROVE Rewritten /\ Rest
  BY <1>1, <1>4, <1>6 DEF WorkerCaptures, WorkPcs, BeforeContext
<1>7. ASSUME WorkerStarts PROVE Rewritten /\ Rest
  <2>1. TrackerTypeOK'
    BY <1>1, <1>3, <1>7 DEF WorkerStarts, StartContext, TrackerTypeOK, Generations
  <2>2. Rewritten
    BY <1>1, <1>7 DEF WorkerStarts, WorkPcs
  <2>3. pendingIds' \in SUBSET Ids /\ QueueTyped' /\ notices' = notices
    BY <1>1, <1>7 DEF WorkerStarts, WorkerStep, ReaderTyped, ReaderTypeOK, QueueTyped, QueueTypeOK
  <2> QED BY <1>1, <2>1, <2>2, <2>3 DEF OutboxTypeOK
<1>8. ASSUME WorkerNotifies PROVE Rewritten /\ Rest
  <2>1. notices' \in Seq({Notice} \cup {RemoteCancel(r) : r \in Requests})
    BY <1>1, <1>8, AppendFacts DEF WorkerNotifies, AppendNotice, OutboxTypeOK
  <2>2. Rewritten
    BY <1>1, <1>8 DEF WorkerNotifies
  <2>3. TrackerTypeOK' /\ pendingIds' \in SUBSET Ids /\ QueueTyped'
    BY <1>1, <1>8 DEF WorkerNotifies, WorkerStep, trackerVars, TrackerTypeOK, ReaderTyped,
                      ReaderTypeOK, QueueTyped, QueueTypeOK
  <2> QED BY <2>1, <2>2, <2>3
<1>9. ASSUME WorkerChecks PROVE Rewritten /\ Rest
  BY <1>1, <1>4, <1>9 DEF WorkerChecks, WorkPcs, Outcomes
<1>10. ASSUME WorkerCommits PROVE Rewritten /\ Rest
  BY <1>1, <1>4, <1>10 DEF WorkerCommits, WorkPcs, Outcomes
<1>11. ASSUME WorkerRaises PROVE Rewritten /\ Rest
  BY <1>1, <1>4, <1>11 DEF WorkerRaises, WorkPcs, Outcomes
<1>12. ASSUME WorkerFinishes PROVE Rewritten /\ Rest
  <2>1. TrackerTypeOK'
    <3>1. active \in [Ids -> 0..MaxFrames] /\ 0 \in 0..MaxFrames
      BY <1>1, RuntimeAssumption DEF TrackerTypeOK
    <3>2. active' \in [Ids -> 0..MaxFrames]
      BY <1>12, <3>1 DEF WorkerFinishes, FinishContext
    <3> QED BY <1>1, <1>12, <3>2 DEF WorkerFinishes, FinishContext, TrackerTypeOK
  <2>2. Rewritten
    BY <1>1, <1>12 DEF WorkerFinishes, WorkPcs
  <2>3. pendingIds' \in SUBSET Ids /\ QueueTyped' /\ notices' = notices
    BY <1>1, <1>12 DEF WorkerFinishes, WorkerStep, ReaderTyped, ReaderTypeOK, QueueTyped, QueueTypeOK
  <2> QED BY <1>1, <2>1, <2>2, <2>3 DEF OutboxTypeOK
<1>13. ASSUME WorkerClears PROVE Rewritten /\ Rest
  <2>1. TrackerTypeOK'
    BY <1>1, <1>13 DEF WorkerClears, ClearStaged, TrackerTypeOK
  <2>2. Rewritten
    BY <1>1, <1>13 DEF WorkerClears, WorkPcs
  <2>3. pendingIds' \in SUBSET Ids /\ QueueTyped' /\ notices' = notices
    BY <1>1, <1>13 DEF WorkerClears, WorkerStep, ReaderTyped, ReaderTypeOK, QueueTyped, QueueTypeOK
  <2> QED BY <1>1, <2>1, <2>2, <2>3 DEF OutboxTypeOK
<1>14. ASSUME WorkerDiscards PROVE Rewritten /\ Rest
  <2>1. pendingIds' \in SUBSET Ids
    BY <1>1, <1>14 DEF WorkerDiscards, ReaderTyped, ReaderTypeOK
  <2>2. Rewritten
    BY <1>1, <1>14 DEF WorkerDiscards, WorkPcs
  <2>3. TrackerTypeOK' /\ QueueTyped' /\ notices' = notices
    BY <1>1, <1>14 DEF WorkerDiscards, WorkerStep, trackerVars, TrackerTypeOK, QueueTyped, QueueTypeOK
  <2> QED BY <1>1, <2>1, <2>2, <2>3 DEF OutboxTypeOK
<1>15. ASSUME WorkerCompletes PROVE Retyped
  <2> DEFINE done == [worker.item EXCEPT !.kind = "completed", !.outcome = worker.outcome]
  <2>1. done \in Items /\ Sound(done)
    BY <1>1, <1>3 DEF Lane, Items, Sound
  <2>2. QueueTyped'
    BY <1>1, <1>15, <2>1, EventAppended DEF WorkerCompletes, WorkerStep
  <2>4. TrackerTypeOK' /\ pendingIds' \in SUBSET Ids /\ notices' = notices /\ worker' = NoWork
    BY <1>1, <1>15 DEF WorkerCompletes, trackerVars, TrackerTypeOK, ReaderTyped, ReaderTypeOK
  <2> QED BY <1>1, <2>2, <2>4, NoWorkTyped DEF OutboxTypeOK
<1>16. Retyped
  <2>1. Rewritten /\ Rest => Retyped
    BY <1>1 DEF WorkTyped
  <2> HIDE DEF Retyped, Rewritten, Rest
  <2> QED
    BY <2>1, <1>5, <1>6, <1>7, <1>8, <1>9, <1>10, <1>11, <1>12, <1>13, <1>14, <1>15 DEF WorkerStep
<1>17. OutboxTyped' /\ ReaderTyped' /\ WorkTyped'
  <2>1. nextRequest' = nextRequest /\ refresh' = refresh
    BY DEF WorkerStep
  <2> QED
    BY <1>1, <1>16, <2>1 DEF Typed, WorkerStep, OutboxTyped, OutboxTypeOK, ReaderTyped,
       ReaderTypeOK, WorkTyped, WorkTypeOK
<1>18. ClientTypeOK' /\ MainTyped' /\ SessionTyped'
  BY DEF Typed, WorkerStep, clientVars, sessionVars, ClientTypeOK, MainTyped, MainTypeOK,
         SessionTyped, SessionTypeOK
<1> QED BY <1>16, <1>17, <1>18 DEF Typed

MainStates == [pc : MainPcs, item : Items, next : MainPcs,
               cause : {"none", "shutdown", "exit", "abort"},
               answer : Seq(Messages), batch : Seq(Messages)]

\* What main is set to when it turns to an item.
LEMMA IdleForms ==
    /\ Idle \in MainStates /\ Sound(Idle.item)
    /\ Idle.pc = "take" /\ Idle.next = "take" /\ Idle.cause = "none"
    /\ Idle.answer = <<>> /\ Idle.batch = <<>> /\ Idle.item.kind = "other"
<1>1. Nothing \in Items /\ Sound(Nothing) /\ Nothing.kind = "other"
  BY RuntimeAssumption DEF Nothing, Item, Items, AllFrameKinds, Outcomes, Sound
<1>2. <<>> \in Seq(Messages)
  BY EmptySeq
<1>3. "take" \in MainPcs
  BY DEF MainPcs
<1>4. Idle \in MainStates /\ Sound(Idle.item) /\ Idle.item.kind = "other"
  BY <1>1, <1>2, <1>3 DEF Idle, MainStates
<1> QED BY <1>4 DEF Idle

LEMMA IdleAtForms ==
    ASSUME NEW pc \in MainPcs
    PROVE  LET m == [Idle EXCEPT !.pc = pc]
           IN  /\ m \in MainStates /\ m.item = Idle.item
               /\ m.pc = pc /\ m.cause = "none" /\ m.next = "take"
               /\ m.answer = <<>> /\ m.batch = <<>>
<1>1. [Idle EXCEPT !.pc = pc] \in MainStates
  BY IdleForms DEF MainStates
<1> QED BY <1>1 DEF Idle

LEMMA ReplayingForms ==
    ASSUME NEW item \in Items, NEW pc \in MainPcs, NEW answer \in Seq(Messages)
    PROVE  LET m == Replaying(item, pc, answer)
           IN  /\ m \in MainStates /\ m.item = item
               /\ m.pc = "replay" /\ m.cause = "none" /\ m.next = pc
               /\ m.answer = answer /\ m.batch = <<>>
<1>1. "replay" \in MainPcs
  BY DEF MainPcs
<1>2. Replaying(item, pc, answer) \in MainStates
  BY <1>1, IdleForms DEF MainStates, Replaying
<1> QED BY <1>2 DEF Idle, Replaying

LEMMA CrossingForms ==
    ASSUME NEW item \in Items, NEW cause \in {"shutdown", "exit", "abort"}
    PROVE  LET m == Crossing(item, cause)
           IN  /\ m \in MainStates /\ m.item = item
               /\ m.pc = "retire" /\ m.cause = cause /\ m.next = "take"
               /\ m.answer = <<>> /\ m.batch = <<>>
<1>1. "retire" \in MainPcs
  BY DEF MainPcs
<1>2. Crossing(item, cause) \in MainStates
  BY <1>1, IdleForms DEF MainStates, Crossing
<1> QED BY <1>2 DEF Idle, Crossing

\* Main turning to an item with an answer.
LEMMA ReplayingTyped ==
    ASSUME NEW item \in Items, Sound(item), NEW pc \in MainPcs,
           NEW answer \in Seq(Messages), \A i \in DOMAIN answer : SoundMessage(answer[i]),
           main' = Replaying(item, pc, answer)
    PROVE  /\ MainTyped'
           /\ main'.item = item /\ main'.pc = "replay" /\ main'.next = pc
           /\ main'.cause = "none" /\ main'.answer = answer /\ main'.batch = <<>>
<1>1. main' \in MainStates
  BY ReplayingForms
<1>2. main'.item = item /\ main'.pc = "replay" /\ main'.next = pc /\ main'.cause = "none"
  BY ReplayingForms
<1>3. main'.answer = answer
  BY ReplayingForms
<1>4. main'.batch = <<>>
  BY ReplayingForms
<1>5. MainTyped'
  BY <1>1, <1>2, <1>3, <1>4 DEF MainTyped, MainTypeOK, MainStates
<1> QED BY <1>2, <1>3, <1>4, <1>5

\* A message of the server's own is a message.
LEMMA MessageFacts ==
    /\ Notice \in Messages /\ SoundMessage(Notice)
    /\ \A r \in Requests : RemoteCancel(r) \in Messages /\ SoundMessage(RemoteCancel(r))
    /\ \A r \in Requests : RefreshRequest(r) \in Messages /\ SoundMessage(RefreshRequest(r))
    /\ \A g \in Generations, o \in Outcomes :
          Response(g, o) \in Messages /\ SoundMessage(Response(g, o))
BY RuntimeAssumption
   DEF Notice, RemoteCancel, RefreshRequest, Response, Message, Messages, SoundMessage, Requests,
       Generations, Outcomes

\* A message alone, or the answer of a request.
LEMMA AnswerFacts ==
    ASSUME NEW m \in Messages, SoundMessage(m)
    PROVE  /\ <<m>> \in Seq(Messages)
           /\ DOMAIN <<m>> = {1} /\ <<m>>[1] = m
           /\ \A i \in DOMAIN <<m>> : SoundMessage(<<m>>[i])
<1>1. <<m>> \in Seq(Messages) /\ Len(<<m>>) = 1 /\ <<m>>[1] = m
  OBVIOUS
<1>2. DOMAIN <<m>> = {1}
  BY <1>1, LenProperties
<1> QED BY <1>1, <1>2

\* The queue without its first event.
LEMMA EventTaken ==
    ASSUME QueueTyped, NEW kinds, TakesEvent(kinds)
    PROVE  /\ QueueTyped'
           /\ Head(events) \in Items /\ Sound(Head(events)) /\ Head(events).kind \in kinds
           /\ 1 \in DOMAIN events /\ Head(events) = events[1]
<1>1. events \in Seq(Items) /\ events # <<>>
  BY DEF QueueTyped, QueueTypeOK, TakesEvent
<1>2. /\ Head(events) \in Items /\ Head(events).kind \in kinds
      /\ 1 \in DOMAIN events /\ Head(events) = events[1]
  BY <1>1, TailFacts DEF TakesEvent
<1>3. Sound(Head(events))
  BY <1>2 DEF QueueTyped
<1>4. events' \in Seq(Items) /\ \A i \in DOMAIN events' : Sound(events'[i])
  <2>1. events' = Tail(events)
    BY DEF TakesEvent
  <2>2. \A i \in DOMAIN events : Sound(events[i])
    BY DEF QueueTyped
  <2> QED BY <1>1, <2>1, <2>2, TailFacts
<1> QED BY <1>2, <1>3, <1>4 DEF QueueTyped, QueueTypeOK, TakesEvent

\* The batch that is written when the request behind a shutdown has completed.
LEMMA HeldFacts ==
    ASSUME NEW h \in Seq(Messages), Null(h), \A i \in DOMAIN h : SoundMessage(h[i]),
           NEW m \in Messages, SoundMessage(m)
    PROVE  LET b == Front(h) \o <<m, Last(h)>>
           IN  /\ b \in Seq(Messages)
               /\ \A i \in DOMAIN b : SoundMessage(b[i])
               /\ Null(b)
               /\ m.kind # "notice" /\ ~Noisy(h) => ~Noisy(b)
<1> DEFINE k == Len(h) - 1
           f == SubSeq(h, 1, k)
           l == <<m, h[Len(h)]>>
           b == f \o l
<1>1. DOMAIN h = 1..Len(h) /\ Len(h) \in Nat /\ Len(h) >= 1
  <2>1. DOMAIN h = 1..Len(h) /\ Len(h) \in Nat
    BY LenProperties
  <2> QED BY <2>1 DEF Null
<1>2. /\ f \in Seq(Messages) /\ Len(f) = k /\ DOMAIN f = 1..k
      /\ \A i \in 1..k : f[i] = h[i] /\ i \in DOMAIN h
  BY <1>1, BeginningFacts
<1>3. h[Len(h)] \in Messages /\ Len(h) \in DOMAIN h
  BY <1>1, ElementOfSeq
<1>4. l \in Seq(Messages) /\ Len(l) = 2 /\ l[1] = m /\ l[2] = h[Len(h)]
  BY <1>3
<1>5. DOMAIN l = 1..2
  BY <1>4, LenProperties
<1>6. /\ b \in Seq(Messages) /\ DOMAIN b = 1..(k + 2)
      /\ \A i \in 1..k : b[i] = f[i]
      /\ b[k + 1] = m /\ b[k + 2] = h[Len(h)]
  <2> HIDE DEF f, l
  <2>1. /\ b \in Seq(Messages) /\ DOMAIN b = 1..(Len(f) + Len(l))
        /\ \A i \in 1..Len(f) : b[i] = f[i]
        /\ \A i \in 1..Len(l) : b[Len(f) + i] = l[i]
    <3>1. f \in Seq(Messages) /\ l \in Seq(Messages)
      BY <1>2, <1>4
    <3>2. b \in Seq(Messages)
      BY <3>1, ConcatFacts
    <3>3. DOMAIN b = 1..(Len(f) + Len(l))
      BY <3>1, ConcatFacts
    <3>4. \A i \in 1..Len(f) : b[i] = f[i]
      BY <3>1, ConcatFacts
    <3>5. \A i \in 1..Len(l) : b[Len(f) + i] = l[i]
      BY <3>1, ConcatFacts
    <3> QED BY <3>2, <3>3, <3>4, <3>5
  <2>2. b[Len(f) + 1] = l[1] /\ b[Len(f) + 2] = l[2]
    BY <1>4, <2>1
  <2> QED BY <1>1, <1>2, <1>4, <2>1, <2>2
<1>7. \A i \in DOMAIN b : b[i] = m \/ \E j \in DOMAIN h : b[i] = h[j]
  <2> TAKE i \in DOMAIN b
  <2>1. i \in 1..k \/ i = k + 1 \/ i = k + 2
    BY <1>1, <1>6
  <2> HIDE DEF b, f, l, k
  <2> QED BY <1>2, <1>3, <1>6, <2>1
<1>8. \A j \in DOMAIN h : \E i \in DOMAIN b : b[i] = h[j]
  <2> TAKE j \in DOMAIN h
  <2>1. j \in 1..k \/ j = Len(h)
    BY <1>1
  <2>2. 1..k \subseteq DOMAIN b /\ k + 2 \in DOMAIN b
    BY <1>1, <1>6
  <2> HIDE DEF b, f, l, k
  <2> QED BY <1>2, <1>6, <2>1, <2>2
<1>9. \A i \in DOMAIN b : SoundMessage(b[i])
  <2> HIDE DEF b
  <2> QED BY <1>7
<1>10. b = Front(h) \o <<m, Last(h)>>
  BY DEF Front, Last
<1>11. Null(b)
  <2> HIDE DEF b
  <2> QED BY <1>8 DEF Null
<1>12. m.kind # "notice" /\ ~Noisy(h) => ~Noisy(b)
  <2> HIDE DEF b
  <2> QED BY <1>7 DEF Noisy
<1>13. b \in Seq(Messages)
  BY <1>6
<1> HIDE DEF b
<1> QED BY <1>9, <1>10, <1>11, <1>12, <1>13

\* Main keeps the types when it takes an item.
LEMMA TakesTyped ==
    ASSUME Typed, Lane, Shape, Boundary, MainTakes
    PROVE  Typed'
<1> USE RuntimeAssumption
<1>1. /\ QueueTyped /\ OutboxTypeOK /\ OutboxTyped /\ SessionTyped /\ SessionTypeOK /\ MainTyped
      /\ main \in MainStates /\ <<>> \in Seq(Messages)
  BY EmptySeq DEF Typed, SessionTyped, OutboxTyped, MainTyped, MainTypeOK, MainStates
<1> DEFINE MainFine == main' \in MainStates /\ MainTyped'
           SessionFine == /\ running' \in {running, None}
                          /\ UNCHANGED <<sawEdit, held, failed, state, exitCode>>
           OutboxFine == OutboxTypeOK' /\ nextRequest' = nextRequest
<1>2. UNCHANGED outboxVars => OutboxFine
  BY <1>1 DEF outboxVars, OutboxTypeOK
<1>3. ASSUME TakesDeferred PROVE QueueTyped' /\ MainFine /\ SessionFine /\ OutboxFine
  <2>1. deferred \in Seq(Items) /\ deferred # <<>> /\ \A i \in DOMAIN deferred : Sound(deferred[i])
    BY <1>1, <1>3 DEF QueueTyped, QueueTypeOK, TakesDeferred
  <2>2. /\ Head(deferred) \in Items /\ Sound(Head(deferred))
        /\ Tail(deferred) \in Seq(Items)
        /\ \A i \in DOMAIN Tail(deferred) : Sound(Tail(deferred)[i])
    BY <2>1, TailFacts
  <2>3. QueueTyped'
    BY <1>1, <1>3, <2>2 DEF TakesDeferred, QueueTyped, QueueTypeOK
  <2>4. main' = Replaying(Head(deferred), "dispatch", <<>>)
    BY <1>3 DEF TakesDeferred
  <2>5. MainFine
    <3>1. "dispatch" \in MainPcs
      BY DEF MainPcs
    <3> QED BY <1>1, <2>2, <2>4, <3>1, ReplayingForms DEF MainTyped, MainTypeOK, MainStates
  <2> QED BY <1>2, <1>3, <2>3, <2>5 DEF TakesDeferred, sessionVars
<1>4. ASSUME TakesDropped PROVE QueueTyped' /\ MainFine /\ SessionFine /\ OutboxFine
  <2>1. QueueTyped'
    BY <1>1, <1>4, EventTaken DEF TakesDropped
  <2> QED BY <1>1, <1>2, <1>4, <2>1 DEF TakesDropped, sessionVars, MainTyped, MainTypeOK
<1>5. ASSUME TakesFrame PROVE QueueTyped' /\ MainFine /\ SessionFine /\ OutboxFine
  <2> PICK f : f = Head(events)
    OBVIOUS
  <2>1. QueueTyped' /\ f \in Items /\ Sound(f)
    BY <1>1, <1>5, EventTaken DEF TakesFrame
  <2>2. main' = Replaying(f, "dispatch", <<>>)
    BY <1>5 DEF TakesFrame
  <2>3. MainFine
    <3>1. "dispatch" \in MainPcs
      BY DEF MainPcs
    <3>2. PICK r : r = Replaying(f, "dispatch", <<>>)
      OBVIOUS
    <3>3. /\ r \in MainStates /\ r.item = f /\ r.pc = "replay" /\ r.cause = "none"
          /\ r.answer = <<>> /\ r.batch = <<>>
      <4>1. PICK e : e = <<>>
        OBVIOUS
      <4>2. f \in Items /\ e \in Seq(Messages) /\ r = Replaying(f, "dispatch", e)
        BY <1>1, <2>1, <3>2, <4>1
      <4>3. r \in MainStates /\ r.item = f /\ r.pc = "replay" /\ r.cause = "none"
        BY <3>1, <4>2, ReplayingForms
      <4>4. r.answer = e
        BY <3>1, <4>2, ReplayingForms
      <4>5. r.batch = <<>>
        BY <3>1, <4>2, ReplayingForms
      <4> QED BY <4>1, <4>3, <4>4, <4>5
    <3> QED BY <2>1, <2>2, <3>2, <3>3 DEF MainTyped, MainTypeOK, MainStates
  <2> QED BY <1>2, <1>5, <2>1, <2>3 DEF TakesFrame, sessionVars
<1>6. ASSUME TakesReady PROVE QueueTyped' /\ MainFine /\ SessionFine /\ OutboxFine
  <2>1. QueueTyped'
    BY <1>1, <1>6, EventTaken DEF TakesReady
  <2>2. main' = [Idle EXCEPT !.pc = "drainNotices"] \/ main' = Idle
    BY <1>6 DEF TakesReady
  <2>3. MainFine
    <3>1. "drainNotices" \in MainPcs
      BY DEF MainPcs
    <3> QED BY <1>1, <2>1, <2>2, <3>1, IdleForms, IdleAtForms DEF MainTyped, MainTypeOK, MainStates
  <2> QED BY <1>2, <1>6, <2>1, <2>3 DEF TakesReady, sessionVars
<1>7. ASSUME TakesFailure PROVE QueueTyped' /\ MainFine /\ SessionFine /\ OutboxFine
  <2>1. QueueTyped'
    BY <1>1, <1>7, EventTaken DEF TakesFailure
  <2>2. main' = Crossing(Failure, "abort")
    BY <1>7 DEF TakesFailure
  <2>3. Failure \in Items /\ Sound(Failure)
    BY DEF Failure, Item, Items, Outcomes, Sound
  <2>4. MainFine
    BY <1>1, <2>2, <2>3, CrossingForms DEF MainTyped, MainTypeOK, MainStates
  <2> QED BY <1>2, <1>7, <2>1, <2>4 DEF TakesFailure, sessionVars
<1>8. ASSUME TakesCompletion PROVE QueueTyped' /\ MainFine /\ SessionFine /\ OutboxFine
  <2> DEFINE done == Head(events)
             stop == done.outcome = "raised" /\ (failed \/ held # None)
  <2>1. QueueTyped' /\ done \in Items /\ Sound(done) /\ done.kind = "completed"
    <3>1. TakesEvent({"completed"})
      BY <1>8 DEF TakesCompletion
    <3> QED BY <1>1, <3>1, EventTaken
  <2>2. done.n \in Generations /\ done.outcome \in Outcomes
    BY <2>1 DEF Sound, Items
  <2>3. OutboxFine
    <3>1. CASE failed /\ done.outcome # "raised"
      BY <1>1, <1>8, <3>1, EmptySeq DEF TakesCompletion, RetireLocally, OutboxTypeOK
    <3>2. CASE ~(failed /\ done.outcome # "raised")
      <4>1. wakeup' = (wakeup /\ ~(done.outcome = "raised" /\ (failed \/ held # None)))
            /\ UNCHANGED <<notices, open, outbox, owed, nextRequest>>
        BY <1>8, <3>2 DEF TakesCompletion
      <4>2. wakeup' \in BOOLEAN
        BY <4>1
      <4> QED BY <1>1, <4>1, <4>2 DEF OutboxTypeOK
    <3> QED BY <3>1, <3>2
  <2>4. SessionFine
    BY <1>8 DEF TakesCompletion
  <2>5. MainFine
    <3>1. ASSUME NEW pc \in {"raised", "returned"}, main' = [Idle EXCEPT !.pc = pc] PROVE MainFine
      <4>1. pc \in MainPcs
        BY DEF MainPcs
      <4> QED BY <1>1, <3>1, <4>1, IdleForms, IdleAtForms DEF MainTyped, MainTypeOK, MainStates
    <3>2. ASSUME held # None,
                 main' = [Idle EXCEPT !.pc = "write", !.item = done,
                            !.batch = Front(held) \o <<Response(done.n, "cancelled"), Last(held)>>]
          PROVE MainFine
      <4>1. held \in Seq(Messages) /\ Null(held) /\ \A i \in DOMAIN held : SoundMessage(held[i])
        BY <1>1, <3>2 DEF SessionTyped, SessionTypeOK, Boundary
      <4>2. Response(done.n, "cancelled") \in Messages
            /\ SoundMessage(Response(done.n, "cancelled"))
        BY <2>2, MessageFacts DEF Outcomes
      <4>3. PICK b : b = Front(held) \o <<Response(done.n, "cancelled"), Last(held)>>
        OBVIOUS
      <4>4. b \in Seq(Messages) /\ \A i \in DOMAIN b : SoundMessage(b[i])
        BY <4>1, <4>2, <4>3, HeldFacts
      <4>5. "write" \in MainPcs
        BY DEF MainPcs
      <4>6. main' \in MainStates /\ main'.item = done /\ main'.batch = b /\ main'.answer = <<>>
            /\ main'.pc = "write" /\ main'.cause = "none"
        BY <1>1, <2>1, <3>2, <4>3, <4>4, <4>5, IdleForms DEF MainStates
      <4> QED BY <2>1, <4>4, <4>6 DEF MainTyped, MainTypeOK, MainStates
    <3>3. ASSUME NEW pc \in {"raised", "drainNotices"},
                 main' = Replaying(done, pc, <<Response(done.n, done.outcome)>>)
          PROVE MainFine
      <4>1. PICK m : m = Response(done.n, done.outcome)
        OBVIOUS
      <4>2. m \in Messages /\ SoundMessage(m)
        BY <2>2, <4>1, MessageFacts
      <4>3. <<m>> \in Seq(Messages) /\ \A i \in DOMAIN <<m>> : SoundMessage(<<m>>[i])
        BY <4>2, AnswerFacts
      <4>4. pc \in MainPcs
        BY DEF MainPcs
      <4>5. main' \in MainStates /\ main'.item = done /\ main'.batch = <<>>
            /\ main'.answer = <<m>> /\ main'.pc = "replay" /\ main'.cause = "none"
        <5>1. PICK f, a : f = done /\ a = <<m>>
          OBVIOUS
        <5>2. f \in Items /\ a \in Seq(Messages) /\ main' = Replaying(f, pc, a)
          BY <2>1, <3>3, <4>1, <4>3, <5>1
        <5> HIDE DEF done
        <5>3. PICK r : r = Replaying(f, pc, a)
          OBVIOUS
        <5>4. /\ r \in MainStates /\ r.item = f /\ r.pc = "replay" /\ r.cause = "none"
              /\ r.answer = a /\ r.batch = <<>>
          BY <5>2, <5>3, <4>4, ReplayingForms
        <5> QED BY <5>1, <5>2, <5>3, <5>4
      <4> QED BY <2>1, <4>3, <4>5 DEF MainTyped, MainTypeOK, MainStates
    <3> HIDE DEF MainFine, done
    <3> QED
      BY <1>8, <3>1, <3>2, <3>3 DEF TakesCompletion, done
  <2> QED BY <2>1, <2>3, <2>4, <2>5
<1>9. QueueTyped' /\ MainFine /\ SessionFine /\ OutboxFine
  <2> HIDE DEF MainFine, SessionFine, OutboxFine
  <2> QED BY <1>3, <1>4, <1>5, <1>6, <1>7, <1>8 DEF MainTakes
<1>10. SessionTyped'
  BY <1>1, <1>9 DEF SessionTyped, SessionTypeOK
<1>11. OutboxTyped'
  <2>1. refresh' = refresh
    BY DEF MainTakes
  <2> QED BY <1>1, <1>9, <2>1 DEF OutboxTyped
<1>12. TrackerTypeOK' /\ ClientTypeOK' /\ ReaderTyped' /\ WorkTyped'
  BY DEF Typed, MainTakes, trackerVars, clientVars, readerVars, TrackerTypeOK, ClientTypeOK,
         ReaderTyped, ReaderTypeOK, WorkTyped, WorkTypeOK
<1> QED BY <1>9, <1>10, <1>11, <1>12 DEF Typed

\* Where main goes on with the item it has.
LEMMA GoTyped ==
    ASSUME MainTyped, NEW pc \in MainPcs, Go(pc),
           pc \in {"clear", "discard"} => main.item.kind \in {"request", "shutdown"}
    PROVE  /\ MainTyped' /\ main'.pc = pc
           /\ main'.item = main.item /\ main'.next = main.next /\ main'.cause = main.cause
           /\ main'.answer = main.answer /\ main'.batch = main.batch
<1>1. /\ main' \in MainStates /\ main'.pc = pc
      /\ main'.item = main.item /\ main'.next = main.next /\ main'.cause = main.cause
      /\ main'.answer = main.answer /\ main'.batch = main.batch
  BY DEF MainTyped, MainTypeOK, MainStates, Go
<1> QED BY <1>1 DEF MainTyped, MainTypeOK, MainStates

\* Main keeps the types when it replays the cancellations.
LEMMA ReplaysTyped ==
    ASSUME Typed, Shape, MainReplays
    PROVE  Typed'
<1>1. /\ TrackerTypeOK /\ OutboxTyped /\ OutboxTypeOK /\ QueueTyped /\ MainTyped
      /\ controls \in Seq(Ids)
  BY DEF Typed, OutboxTyped, QueueTyped, QueueTypeOK
<1> DEFINE Retyped == TrackerTypeOK' /\ OutboxTypeOK' /\ MainTyped' /\ controls' \in Seq(Ids)
                      /\ nextRequest' = nextRequest
<1>2. ASSUME ReplaysControl PROVE Retyped
  <2>1. Head(controls) \in Ids /\ Tail(controls) \in Seq(Ids)
    BY <1>1, <1>2, TailFacts DEF ReplaysControl
  <2>2. TrackerTypeOK'
    <3>1. CASE state = "RUNNING"
      <4>1. PICK id \in Ids : id = Head(controls)
        BY <2>1
      <4>2. CancelActive(id)
        BY <1>2, <3>1, <4>1 DEF ReplaysControl
      <4>3. active[id] # 0 => active[id] \in Generations
        BY <1>1, RuntimeAssumption DEF TrackerTypeOK, Generations
      <4> QED BY <1>1, <4>2, <4>3 DEF CancelActive, TrackerTypeOK
    <3>2. CASE state # "RUNNING"
      BY <1>1, <1>2, <3>2 DEF ReplaysControl, trackerVars, TrackerTypeOK
    <3> QED BY <3>1, <3>2
  <2> QED
    BY <1>1, <1>2, <2>1, <2>2 DEF ReplaysControl, outboxVars, OutboxTypeOK, MainTyped, MainTypeOK
<1>3. ASSUME ControlsReplayed PROVE Retyped
  <2>1. main.next \in MainPcs /\ main.next \notin {"clear", "discard"} /\ main \in MainStates
    BY <1>1, <1>3 DEF ControlsReplayed, MainAt, Shape, MainPcs, MainTyped, MainTypeOK, MainStates
  <2>2. main' = [main EXCEPT !.pc = main.next, !.next = "drainNotices"]
    BY <1>3 DEF ControlsReplayed
  <2>3. /\ main' \in MainStates /\ main'.pc = main.next
        /\ main'.item = main.item /\ main'.cause = main.cause
        /\ main'.answer = main.answer /\ main'.batch = main.batch
    BY <2>1, <2>2 DEF MainStates, MainPcs
  <2>4. MainTyped'
    BY <1>1, <2>1, <2>3 DEF MainTyped, MainTypeOK, MainStates
  <2>5. OutboxTypeOK' /\ nextRequest' = nextRequest
    BY <1>1, <1>3 DEF ControlsReplayed, outboxVars, OutboxTypeOK
  <2> QED BY <1>1, <1>3, <2>4, <2>5 DEF ControlsReplayed, trackerVars, TrackerTypeOK
<1>4. Retyped
  <2> HIDE DEF Retyped
  <2> QED BY <1>2, <1>3 DEF MainReplays
<1>5. OutboxTyped' /\ QueueTyped'
  <2>1. refresh' = refresh /\ events' = events /\ deferred' = deferred
    BY DEF MainReplays
  <2> QED BY <1>1, <1>4, <2>1 DEF OutboxTyped, QueueTyped, QueueTypeOK
<1>6. ClientTypeOK' /\ ReaderTyped' /\ SessionTyped' /\ WorkTyped'
  BY DEF Typed, MainReplays, clientVars, readerVars, sessionVars, ClientTypeOK, ReaderTyped,
         ReaderTypeOK, SessionTyped, SessionTypeOK, WorkTyped, WorkTypeOK
<1> QED BY <1>4, <1>5, <1>6 DEF Typed

\* Main keeps the types when it handles or defers a frame.
LEMMA DispatchesTyped ==
    ASSUME Typed, MainDispatches
    PROVE  Typed'
<1> USE RuntimeAssumption
<1>1. /\ OutboxTyped /\ OutboxTypeOK /\ QueueTyped /\ MainTyped /\ SessionTyped /\ WorkTyped
      /\ WorkTypeOK /\ SessionTypeOK /\ main \in MainStates /\ main.item \in Items
      /\ Sound(main.item)
  BY DEF Typed, OutboxTyped, MainTyped, MainTypeOK, MainStates, WorkTyped, SessionTyped
<1> DEFINE OutboxFine == OutboxTypeOK' /\ nextRequest' = nextRequest
           DeferredFine == /\ deferred' \in Seq(Items)
                           /\ \A i \in DOMAIN deferred' : Sound(deferred'[i])
           WorkerFine == /\ Sound(worker'.item)
                         /\ worker' \in [pc : WorkPcs, item : Items, edition : 0..MaxFrames,
                                         outcome : Outcomes, noted : BOOLEAN]
                         /\ edition' \in 0..MaxFrames
           Fine == OutboxFine /\ DeferredFine /\ WorkerFine /\ MainTyped' /\ SessionTyped'
<1>2. /\ UNCHANGED outboxVars => OutboxFine
      /\ UNCHANGED deferred => DeferredFine
      /\ UNCHANGED <<worker, edition>> => WorkerFine
      /\ UNCHANGED sessionVars => SessionTyped'
  BY <1>1 DEF outboxVars, OutboxTypeOK, QueueTyped, QueueTypeOK, WorkTyped, WorkTypeOK, sessionVars,
              SessionTyped, SessionTypeOK
<1>3. main' = Idle => MainTyped'
  BY IdleForms DEF MainTyped, MainTypeOK, MainStates
<1>4. ASSUME Go("replay") \/ Go("edited") PROVE MainTyped'
  <2>1. {"replay", "edited"} \subseteq MainPcs
    BY DEF MainPcs
  <2> QED BY <1>1, <1>4, <2>1, GoTyped
<1>5. ASSUME Defers PROVE Fine
  <2>1. \A i \in DOMAIN deferred : Sound(deferred[i])
    BY <1>1 DEF QueueTyped
  <2>2. deferred \in Seq(Items) /\ DOMAIN deferred = 1..Len(deferred)
    BY <1>1, LenProperties DEF QueueTyped, QueueTypeOK
  <2>3. Append(deferred, main.item) \in Seq(Items)
        /\ \A i \in DOMAIN Append(deferred, main.item) : Sound(Append(deferred, main.item)[i])
    <3>1. \A i \in 1..(Len(deferred) + 1) : Sound(Append(deferred, main.item)[i])
      BY <1>1, <2>1, <2>2, AppendFacts
    <3> QED BY <1>1, <2>2, <3>1, AppendFacts
  <2>4. DeferredFine
    BY <1>5, <2>3 DEF Defers
  <2> QED BY <1>2, <1>3, <1>5, <2>4 DEF Defers
<1>6. ASSUME StartsWorker PROVE Fine
  <2>1. WorkerFine
    <3>1. worker' = [NoWork EXCEPT !.pc = "route", !.item = main.item] /\ edition' = edition
      BY <1>6 DEF StartsWorker
    <3>2. "none" \in Outcomes /\ "route" \in WorkPcs
      BY DEF Outcomes, WorkPcs, BeforeContext
    <3> QED BY <1>1, <3>1, <3>2, NoWorkTyped DEF WorkTypeOK
  <2>2. SessionTyped'
    BY <1>1, <1>6 DEF StartsWorker, Dispatching, SessionTyped, SessionTypeOK
  <2> QED BY <1>2, <1>3, <1>6, <2>1, <2>2 DEF StartsWorker
<1>7. ASSUME RefusesRequest PROVE Fine
  <2>1. main.item.kind \in {"request", "shutdown"}
    BY <1>7 DEF RefusesRequest, Dispatching
  <2>2. PICK m : m = Response(main.item.n, "refused")
    OBVIOUS
  <2>3. m \in Messages /\ SoundMessage(m)
    BY <1>1, <2>1, <2>2, MessageFacts DEF Sound, Outcomes
  <2>4. <<m>> \in Seq(Messages) /\ \A i \in DOMAIN <<m>> : SoundMessage(<<m>>[i])
    BY <2>3, AnswerFacts
  <2>5. main' = [main EXCEPT !.pc = "clear", !.answer = <<m>>] /\ "clear" \in MainPcs
    BY <1>7, <2>2 DEF RefusesRequest, MainPcs
  <2>6. /\ main' \in MainStates /\ main'.item = main.item /\ main'.cause = main.cause
        /\ main'.answer = <<m>> /\ main'.batch = main.batch
    BY <1>1, <2>4, <2>5 DEF MainStates
  <2>7. MainTyped'
    BY <1>1, <2>1, <2>4, <2>6 DEF MainTyped, MainTypeOK, MainStates
  <2> QED BY <1>2, <1>7, <2>7 DEF RefusesRequest
<1>8. ASSUME AcceptsShutdown \/ AcceptsExit PROVE Fine
  <2>1. PICK cause \in {"shutdown", "exit"} :
          main' = Crossing(main.item, cause) /\ (cause = "shutdown" => main.item.kind = "shutdown")
    BY <1>8 DEF AcceptsShutdown, AcceptsExit, Dispatching
  <2>2. MainTyped'
    BY <1>1, <2>1, CrossingForms DEF MainTyped, MainTypeOK, MainStates
  <2> QED BY <1>2, <1>8, <2>2 DEF AcceptsShutdown, AcceptsExit
<1>9. ASSUME AppliesEdit PROVE Fine
  <2>1. MainTyped'
    BY <1>4, <1>9 DEF AppliesEdit
  <2>2. SessionTyped'
    <3>1. sawEdit' \in BOOLEAN
      BY <1>1, <1>9 DEF AppliesEdit, SessionTypeOK
    <3> QED BY <1>1, <1>9, <3>1 DEF AppliesEdit, SessionTyped, SessionTypeOK
  <2>3. main.item.n \in 0..MaxFrames
    BY <1>1, <1>9 DEF AppliesEdit, Dispatching, Sound, Generations
  <2>4. WorkerFine
    BY <1>1, <1>9, <2>3 DEF AppliesEdit, WorkTyped, WorkTypeOK
  <2> QED BY <1>2, <1>9, <2>1, <2>2, <2>4 DEF AppliesEdit
<1>10. ASSUME ConsumesReply PROVE Fine
  <2>1. OutboxFine
    BY <1>1, <1>2, <1>10 DEF ConsumesReply, ConsumeReply, OutboxTypeOK
  <2> QED BY <1>2, <1>4, <1>10, <2>1 DEF ConsumesReply
<1>11. ASSUME HandlesOther \/ EditHandled PROVE Fine
  BY <1>2, <1>4, <1>11 DEF HandlesOther, EditHandled
<1>12. Fine
  <2> HIDE DEF Fine
  <2> QED BY <1>5, <1>6, <1>7, <1>8, <1>9, <1>10, <1>11 DEF MainDispatches
<1>13. OutboxTyped' /\ QueueTyped' /\ WorkTyped'
  <2>1. UNCHANGED <<refresh, events, controls, written>>
    BY DEF MainDispatches
  <2> QED
    BY <1>1, <1>12, <2>1 DEF OutboxTyped, QueueTyped, QueueTypeOK, WorkTyped, WorkTypeOK
<1>14. TrackerTypeOK' /\ ClientTypeOK' /\ ReaderTyped'
  BY DEF Typed, MainDispatches, trackerVars, clientVars, readerVars, TrackerTypeOK, ClientTypeOK,
         ReaderTyped, ReaderTypeOK
<1> QED BY <1>12, <1>13, <1>14 DEF Typed

Sendings == {Notice} \cup {RemoteCancel(r) : r \in Requests}

\* Retiring what the server sends leaves nothing owed, nothing in the outbox that was not
\* there, and in the notifications what was there and cancellations.
LEMMA RetireFacts ==
    ASSUME OutboxTypeOK, RetireWithCancel
    PROVE  /\ OutboxTypeOK'
           /\ owed' = {} /\ (outbox = <<>> => outbox' = <<>>)
           /\ Noisy(notices') => Noisy(notices)
           /\ ~open => notices' = notices
           /\ UNCHANGED <<open, nextRequest, wakeup>>
<1>1. /\ notices \in Seq(Sendings) /\ outbox \in Seq(Requests) /\ owed \in SUBSET Requests
      /\ MaxRequests \in Nat
  BY RuntimeAssumption DEF OutboxTypeOK, Sendings
<1>2. PICK P : P = {r \in owed : Delivered(r)}
  OBVIOUS
<1>3. PICK ids : ids = [r \in Requests |-> r]
  OBVIOUS
<1>4. ids \in Seq(Requests) /\ DOMAIN ids = Requests
  BY <1>1, <1>3, SeqDef DEF Requests
<1>5. PICK seen \in Selection(ids, P) :
        notices' = IF open THEN notices \o [i \in DOMAIN seen |-> RemoteCancel(seen[i])] ELSE notices
  BY <1>2, <1>3 DEF RetireWithCancel
<1>6. seen \in Seq(Requests)
  BY <1>1, <1>2, <1>4, <1>5, SelectionFacts
<1>7. PICK c : c = [i \in DOMAIN seen |-> RemoteCancel(seen[i])]
  OBVIOUS
<1>8. c \in Seq(Sendings) /\ ~Noisy(c)
  <2>1. DOMAIN seen = 1..Len(seen) /\ Len(seen) \in Nat /\ \A i \in DOMAIN seen : seen[i] \in Requests
    BY <1>6, LenProperties, ElementOfSeq
  <2>2. \A i \in 1..Len(seen) : RemoteCancel(seen[i]) \in Sendings
    BY <2>1 DEF Sendings
  <2>3. c \in [1..Len(seen) -> Sendings]
    BY <1>7, <2>1, <2>2
  <2>4. c \in Seq(Sendings)
    BY <2>1, <2>3, SeqDef
  <2>5. \A i \in DOMAIN c : c[i].kind = "cancel"
    BY <1>7 DEF RemoteCancel, Message
  <2> QED BY <2>4, <2>5 DEF Noisy
<1>9. notices \o c \in Seq(Sendings) /\ (Noisy(notices \o c) => Noisy(notices))
  <2>1. notices \o c \in Seq(Sendings)
    BY <1>1, <1>8, ConcatFacts
  <2>2. ASSUME NEW i \in DOMAIN (notices \o c), (notices \o c)[i].kind = "notice"
        PROVE Noisy(notices)
    <3>1. i \in DOMAIN notices => (notices \o c)[i] = notices[i]
      BY <1>1, <1>8, ConcatFacts
    <3>2. i \notin DOMAIN notices =>
            i - Len(notices) \in DOMAIN c /\ (notices \o c)[i] = c[i - Len(notices)]
      BY <1>1, <1>8, ConcatFacts
    <3> QED BY <1>8, <2>2, <3>1, <3>2 DEF Noisy
  <2> QED BY <2>1, <2>2 DEF Noisy
<1>10. notices' \in Seq(Sendings) /\ (Noisy(notices') => Noisy(notices))
       /\ (~open => notices' = notices)
  BY <1>1, <1>5, <1>7, <1>9
<1>11. outbox' \in Seq(Requests) /\ (outbox = <<>> => outbox' = <<>>)
  <2>1. PICK Q : Q = {i \in DOMAIN outbox : outbox[i] \notin owed}
    OBVIOUS
  <2>2. outbox' \in Selection(outbox, Q) /\ Q \subseteq DOMAIN outbox
    BY <2>1 DEF RetireWithCancel
  <2>3. outbox = <<>> => Q = {}
    BY <2>1, EmptySeq, LenProperties
  <2> QED BY <1>1, <2>2, <2>3, SelectionFacts
<1>12. owed' = {} /\ UNCHANGED <<open, nextRequest, wakeup>>
  BY DEF RetireWithCancel
<1>13. OutboxTypeOK'
  BY <1>10, <1>11, <1>12 DEF OutboxTypeOK, Sendings
<1> QED BY <1>10, <1>11, <1>12, <1>13

\* Closing the notifications leaves nothing ordinary, and at the end nothing at all.
LEMMA CloseFacts ==
    ASSUME OutboxTypeOK, NEW keep \in BOOLEAN, CloseNotices(keep)
    PROVE  /\ notices' \in Seq(Sendings) /\ ~Noisy(notices') /\ (~keep => notices' = <<>>)
           /\ ~open' /\ UNCHANGED <<outbox, owed, nextRequest>>
<1>1. notices \in Seq(Sendings)
  BY DEF OutboxTypeOK, Sendings
<1>2. PICK P : P = {i \in DOMAIN notices : keep /\ notices[i].kind = "cancel"}
  OBVIOUS
<1>3. notices' \in Selection(notices, P) /\ P \subseteq DOMAIN notices
  BY <1>2 DEF CloseNotices
<1>4. /\ notices' \in Seq(Sendings)
      /\ \A k \in DOMAIN notices' : \E i \in P : notices'[k] = notices[i]
      /\ P = {} => notices' = <<>>
  BY <1>1, <1>3, SelectionFacts
<1>5. ~Noisy(notices') /\ (~keep => notices' = <<>>)
  BY <1>2, <1>4 DEF Noisy
<1> QED BY <1>4, <1>5 DEF CloseNotices

\* Main keeps the types when it crosses a boundary.
LEMMA CrossesTyped ==
    ASSUME Typed, Shape, MainCrosses
    PROVE  Typed'
<1> USE RuntimeAssumption
<1>1. /\ TrackerTypeOK /\ OutboxTyped /\ OutboxTypeOK /\ MainTyped /\ SessionTyped
      /\ SessionTypeOK /\ main \in MainStates /\ main.item \in Items /\ Sound(main.item)
  BY DEF Typed, OutboxTyped, MainTyped, MainTypeOK, MainStates, SessionTyped
<1> DEFINE SessionFine == failed' \in BOOLEAN /\ state' \in {"RUNNING", "SHUTDOWN", "EXITED"}
                          /\ exitCode' \in {None, 0, 1}
           OutboxFine == OutboxTypeOK' /\ nextRequest' = nextRequest
           Fine == TrackerTypeOK' /\ OutboxFine /\ SessionFine /\ MainTyped'
<1>2. /\ UNCHANGED outboxVars => OutboxFine
      /\ UNCHANGED trackerVars => TrackerTypeOK'
      /\ UNCHANGED <<failed, state, exitCode>> => SessionFine
  BY <1>1 DEF outboxVars, OutboxTypeOK, trackerVars, TrackerTypeOK, SessionTypeOK
<1>3. ASSUME NEW pc \in {"stage", "retireOutbox", "close"}, Go(pc) PROVE MainTyped'
  <2>1. pc \in MainPcs /\ pc \notin {"clear", "discard"}
    BY DEF MainPcs
  <2> QED BY <1>1, <1>3, <2>1, GoTyped
<1>4. ASSUME RetiresContexts PROVE Fine
  <2>1. \A id \in Ids : active[id] # 0 => active[id] \in Generations
    BY <1>1 DEF TrackerTypeOK, Generations
  <2>2. TrackerTypeOK'
    BY <1>1, <1>4, <2>1 DEF RetiresContexts, RetireContexts, TrackerTypeOK
  <2>3. Go("stage") \/ Go("retireOutbox")
    BY <1>4 DEF RetiresContexts
  <2> QED BY <1>2, <1>3, <1>4, <2>2, <2>3 DEF RetiresContexts
<1>5. ASSUME StagesRunning PROVE Fine
  <2>1. running.id \in Ids
    BY <1>1, <1>5 DEF StagesRunning, MainAt, Shape, SessionTyped, Sound
  <2>2. TrackerTypeOK'
    BY <1>1, <1>5, <2>1, StageTyped DEF StagesRunning
  <2>3. Go("retireOutbox")
    BY <1>5 DEF StagesRunning
  <2> QED BY <1>2, <1>3, <1>5, <2>2, <2>3 DEF StagesRunning
<1>6. ASSUME RetiresOutbox PROVE Fine
  <2>1. OutboxFine
    <3>1. CASE main.cause = "shutdown"
      BY <1>1, <1>6, <3>1, RetireFacts DEF RetiresOutbox
    <3>2. CASE main.cause # "shutdown"
      BY <1>1, <1>6, <3>2, EmptySeq DEF RetiresOutbox, RetireLocally, OutboxTypeOK
    <3> QED BY <3>1, <3>2
  <2>2. Go("close")
    BY <1>6 DEF RetiresOutbox
  <2> QED BY <1>2, <1>3, <1>6, <2>1, <2>2 DEF RetiresOutbox
<1>7. ASSUME Closes PROVE Fine
  <2>1. OutboxFine
    <3>1. CloseNotices(main.cause = "shutdown") /\ wakeup' = (wakeup /\ main.cause # "abort")
      BY <1>7 DEF Closes
    <3>2. /\ notices' \in Seq(Sendings) /\ ~open'
          /\ UNCHANGED <<outbox, owed, nextRequest>>
      BY <1>1, <3>1, CloseFacts
    <3>3. wakeup' \in BOOLEAN /\ open' \in BOOLEAN
      <4>1. wakeup' \in BOOLEAN
        BY <3>1
      <4>2. open' = FALSE
        BY <3>1 DEF CloseNotices
      <4> QED BY <4>1, <4>2
    <3> QED BY <1>1, <3>2, <3>3 DEF OutboxTypeOK, Sendings
  <2>2. main.cause \in {"shutdown", "exit", "abort"}
    BY <1>1, <1>7 DEF Closes, MainAt, Shape, CrossingPcs, MainStates
  <2>3. SessionFine
    <3>1. failed' \in BOOLEAN
      BY <1>1, <1>7 DEF Closes, SessionTypeOK
    <3> QED BY <1>1, <1>7, <2>2, <3>1 DEF Closes, SessionTypeOK
  <2>4. MainTyped'
    <3>1. CASE main.cause = "shutdown"
      <4>1. main.item.kind = "shutdown"
        BY <1>1, <3>1 DEF MainTyped
      <4>2. PICK m : m = Response(main.item.n, "null")
        OBVIOUS
      <4>3. m \in Messages /\ SoundMessage(m)
        BY <1>1, <4>1, <4>2, MessageFacts DEF Sound, Outcomes
      <4>4. <<m>> \in Seq(Messages) /\ \A i \in DOMAIN <<m>> : SoundMessage(<<m>>[i])
        BY <4>3, AnswerFacts
      <4>5. main' = [main EXCEPT !.pc = "clear", !.answer = <<m>>] /\ "clear" \in MainPcs
        BY <1>7, <3>1, <4>2 DEF Closes, MainPcs
      <4>6. /\ main' \in MainStates /\ main'.item = main.item /\ main'.cause = main.cause
            /\ main'.answer = <<m>> /\ main'.batch = main.batch
        BY <1>1, <4>4, <4>5 DEF MainStates
      <4> QED BY <1>1, <4>1, <4>4, <4>6 DEF MainTyped, MainTypeOK, MainStates
    <3>2. CASE main.cause = "exit"
      <4>1. main' = Replaying(main.item, "drainNotices", <<>>) /\ "drainNotices" \in MainPcs
        BY <1>7, <3>2 DEF Closes, MainPcs
      <4>2. <<>> \in Seq(Messages)
        BY EmptySeq
      <4>3. PICK e : e = <<>>
        OBVIOUS
      <4>4. e \in Seq(Messages) /\ \A i \in DOMAIN e : SoundMessage(e[i])
        <5>1. DOMAIN <<>> = {}
          BY EmptySeq, LenProperties
        <5> QED BY <4>2, <4>3, <5>1
      <4>5. main' = Replaying(main.item, "drainNotices", e)
        BY <4>1, <4>3
      <4> QED BY <1>1, <4>1, <4>4, <4>5, ReplayingTyped
    <3>3. CASE main.cause = "abort"
      <4>1. main' = Idle \/ main' = [Idle EXCEPT !.pc = "returned"]
        BY <1>7, <3>3 DEF Closes
      <4>2. "returned" \in MainPcs
        BY DEF MainPcs
      <4> QED BY <4>1, <4>2, IdleForms, IdleAtForms DEF MainTyped, MainTypeOK, MainStates
    <3> QED BY <2>2, <3>1, <3>2, <3>3
  <2> QED BY <1>2, <1>7, <2>1, <2>3, <2>4 DEF Closes
<1>8. Fine
  <2> HIDE DEF Fine
  <2> QED BY <1>4, <1>5, <1>6, <1>7 DEF MainCrosses
<1>9. OutboxTyped' /\ SessionTyped'
  <2>1. refresh' = refresh /\ UNCHANGED <<running, sawEdit, held>>
    BY DEF MainCrosses
  <2> QED BY <1>1, <1>8, <2>1 DEF OutboxTyped, SessionTyped, SessionTypeOK
<1>10. ClientTypeOK' /\ ReaderTyped' /\ QueueTyped' /\ WorkTyped'
  BY DEF Typed, MainCrosses, clientVars, readerVars, queueVars, ClientTypeOK, ReaderTyped,
         ReaderTypeOK, QueueTyped, QueueTypeOK, WorkTyped, WorkTypeOK
<1> QED BY <1>8, <1>9, <1>10 DEF Typed

\* A batch is what it had, the requests that wait, and the answer.
LEMMA BatchFacts ==
    ASSUME MainTyped, outbox \in Seq(Requests),
           NEW c, c = main.batch \o [i \in DOMAIN outbox |-> RefreshRequest(outbox[i])]
                                \o main.answer
    PROVE  /\ c \in Seq(Messages)
           /\ \A i \in DOMAIN c : SoundMessage(c[i])
           /\ Null(c) => Null(main.batch) \/ Null(main.answer)
           /\ Null(main.batch) \/ Null(main.answer) => Null(c)
           /\ Noisy(c) => Noisy(main.batch) \/ Noisy(main.answer)
<1>a. PICK b, o, a : b = main.batch /\ o = outbox /\ a = main.answer
  OBVIOUS
<1>0. /\ b \in Seq(Messages) /\ o \in Seq(Requests) /\ a \in Seq(Messages)
      /\ \A i \in DOMAIN b : SoundMessage(b[i])
      /\ \A i \in DOMAIN a : SoundMessage(a[i])
  BY <1>a DEF MainTyped, MainTypeOK
<1>1. PICK r : r = [i \in DOMAIN o |-> RefreshRequest(o[i])]
  OBVIOUS
<1>2. DOMAIN o = 1..Len(o) /\ Len(o) \in Nat /\ \A i \in DOMAIN o : o[i] \in Requests
  BY <1>0, LenProperties, ElementOfSeq
<1>3. /\ r \in Seq(Messages)
      /\ \A i \in DOMAIN r : SoundMessage(r[i]) /\ r[i].kind = "request"
  <2>1. \A i \in DOMAIN o : r[i] \in Messages /\ SoundMessage(r[i])
    BY <1>1, <1>2, MessageFacts
  <2>2. r \in [1..Len(o) -> Messages]
    BY <1>1, <1>2, <2>1
  <2>3. \A i \in DOMAIN r : r[i].kind = "request"
    BY <1>1 DEF RefreshRequest, Message
  <2> QED BY <1>1, <1>2, <2>1, <2>2, <2>3, SeqDef
<1>4. PICK d : d = b \o r
  OBVIOUS
<1>5. /\ d \in Seq(Messages) /\ DOMAIN b \subseteq DOMAIN d
      /\ \A i \in DOMAIN b : d[i] = b[i]
      /\ \A i \in DOMAIN d : i \in DOMAIN b \/ (i - Len(b) \in DOMAIN r /\ d[i] = r[i - Len(b)])
  <2>1. /\ d \in Seq(Messages) /\ Len(b) \in Nat /\ Len(r) \in Nat
        /\ DOMAIN b = 1..Len(b) /\ DOMAIN d = 1..(Len(b) + Len(r))
    BY <1>0, <1>3, <1>4, ConcatFacts
  <2>2. /\ \A i \in 1..Len(b) : d[i] = b[i]
        /\ \A i \in DOMAIN d : i \notin DOMAIN b => i - Len(b) \in DOMAIN r /\ d[i] = r[i - Len(b)]
    BY <1>0, <1>3, <1>4, ConcatFacts
  <2> QED BY <2>1, <2>2
<1>6. PICK e : e = d \o a
  OBVIOUS
<1>7. /\ e \in Seq(Messages) /\ DOMAIN d \subseteq DOMAIN e
      /\ \A i \in DOMAIN d : e[i] = d[i]
      /\ \A i \in DOMAIN e : i \in DOMAIN d \/ (i - Len(d) \in DOMAIN a /\ e[i] = a[i - Len(d)])
      /\ \A i \in DOMAIN a : Len(d) + i \in DOMAIN e /\ e[Len(d) + i] = a[i]
  <2>1. /\ e \in Seq(Messages) /\ Len(d) \in Nat /\ Len(a) \in Nat
        /\ DOMAIN a = 1..Len(a) /\ DOMAIN d = 1..Len(d) /\ DOMAIN e = 1..(Len(d) + Len(a))
    BY <1>0, <1>5, <1>6, ConcatFacts
  <2>2. /\ \A i \in 1..Len(d) : e[i] = d[i]
        /\ \A i \in DOMAIN e : i \notin DOMAIN d => i - Len(d) \in DOMAIN a /\ e[i] = a[i - Len(d)]
    BY <1>0, <1>5, <1>6, ConcatFacts
  <2>3. \A i \in 1..Len(a) : e[Len(d) + i] = a[i]
    BY <1>0, <1>5, <1>6, ConcatFacts
  <2> QED BY <2>1, <2>2, <2>3
<1>8. \A i \in DOMAIN e : \/ \E j \in DOMAIN b : e[i] = b[j]
                          \/ \E j \in DOMAIN r : e[i] = r[j]
                          \/ \E j \in DOMAIN a : e[i] = a[j]
  BY <1>5, <1>7
<1>9. \A i \in DOMAIN e : SoundMessage(e[i])
  BY <1>0, <1>3, <1>8
<1>10. Noisy(e) => Noisy(b) \/ Noisy(a)
  BY <1>3, <1>8 DEF Noisy
<1>11. Null(e) => Null(b) \/ Null(a)
  BY <1>3, <1>8 DEF Null
<1>12. Null(b) => Null(e)
  BY <1>5, <1>7 DEF Null
<1>13. Null(a) => Null(e)
  BY <1>7 DEF Null
<1>14. c = e
  <2>1. c = b \o r \o a
    BY <1>a, <1>1
  <2> QED BY <2>1, <1>4, <1>6
<1> QED BY <1>a, <1>7, <1>9, <1>10, <1>11, <1>12, <1>13, <1>14

\* What is sent is a message.
LEMMA SendingFacts ==
    ASSUME NEW s \in Seq(Sendings)
    PROVE  s \in Seq(Messages) /\ \A i \in DOMAIN s : SoundMessage(s[i]) /\ s[i].kind # "response"
<1>1. DOMAIN s = 1..Len(s) /\ Len(s) \in Nat /\ \A i \in DOMAIN s : s[i] \in Sendings
  BY LenProperties, ElementOfSeq
<1>2. \A m \in Sendings : m \in Messages /\ SoundMessage(m) /\ m.kind # "response"
  BY MessageFacts DEF Sendings, Notice, RemoteCancel, Message
<1>3. s \in [1..Len(s) -> Messages]
  <2>1. s \in [1..Len(s) -> Sendings]
    BY <1>1, SeqDef
  <2> QED BY <1>1, <1>2, <2>1
<1> QED BY <1>1, <1>2, <1>3, SeqDef

\* What the client is given of a batch.
LEMMA DeliverFacts ==
    ASSUME written \in Seq(Messages), answered \in SUBSET Generations,
           main.batch \in Seq(Messages), \A i \in DOMAIN main.batch : SoundMessage(main.batch[i]),
           NEW k \in 0..Len(main.batch), Deliver(k)
    PROVE  /\ written' \in Seq(Messages) /\ answered' \in SUBSET Generations
           /\ DOMAIN written = 1..Len(written) /\ Len(written) \in Nat
           /\ DOMAIN written' = 1..(Len(written) + k)
           /\ \A i \in DOMAIN written : i \in DOMAIN written' /\ written'[i] = written[i]
           /\ \A i \in DOMAIN written' : i \notin DOMAIN written =>
                 i - Len(written) \in DOMAIN main.batch /\ written'[i] = main.batch[i - Len(written)]
           /\ k = Len(main.batch) => \A i \in DOMAIN main.batch :
                 Len(written) + i \in DOMAIN written' /\ written'[Len(written) + i] = main.batch[i]
<1>1. PICK b : b = SubSeq(main.batch, 1, k)
  OBVIOUS
<1>2. /\ b \in Seq(Messages) /\ DOMAIN b = 1..k /\ Len(b) = k
      /\ \A i \in 1..k : b[i] = main.batch[i] /\ i \in DOMAIN main.batch
      /\ DOMAIN main.batch = 1..Len(main.batch)
  BY <1>1, BeginningFacts, LenProperties
<1>3. written' = written \o b
  BY <1>1 DEF Deliver
<1>4. /\ written' \in Seq(Messages) /\ Len(written) \in Nat /\ DOMAIN written = 1..Len(written)
      /\ DOMAIN written' = 1..(Len(written) + k)
  <2>1. written' \in Seq(Messages) /\ Len(written) \in Nat /\ DOMAIN written = 1..Len(written)
    BY <1>2, <1>3, ConcatFacts
  <2>2. DOMAIN written' = 1..(Len(written) + Len(b))
    <3>1. b \in Seq(Messages)
      BY <1>2
    <3>2. DOMAIN (written \o b) = 1..(Len(written) + Len(b))
      BY <3>1, ConcatFacts
    <3> QED BY <1>3, <3>2
  <2> QED BY <1>2, <2>1, <2>2
<1>5. /\ \A i \in 1..Len(written) : written'[i] = written[i]
      /\ \A i \in 1..k : written'[Len(written) + i] = b[i]
      /\ \A i \in DOMAIN written' : i \notin DOMAIN written =>
            i - Len(written) \in DOMAIN b /\ written'[i] = b[i - Len(written)]
  BY <1>2, <1>3, ConcatFacts
<1>6. answered' \in SUBSET Generations
  BY <1>2 DEF Deliver, SoundMessage
<1>7. k \in Nat
  BY LenProperties
<1> QED BY <1>2, <1>4, <1>5, <1>6, <1>7

\* Main keeps the types when it finishes, gathers a batch, writes it or returns.
LEMMA AnswersTyped ==
    ASSUME Typed, Shape, MainAnswers
    PROVE  Typed'
<1> USE RuntimeAssumption
<1>1. /\ TrackerTypeOK /\ OutboxTyped /\ OutboxTypeOK /\ MainTyped /\ SessionTyped /\ ReaderTyped
      /\ SessionTypeOK /\ main \in MainStates /\ main.item \in Items /\ Sound(main.item)
      /\ pendingIds \in SUBSET Ids /\ answered \in SUBSET Generations
      /\ written \in Seq(Messages) /\ notices \in Seq(Sendings) /\ outbox \in Seq(Requests)
      /\ held \in Seq(Messages) \cup {None} /\ ClientTypeOK
  BY DEF Typed, OutboxTyped, OutboxTypeOK, MainTyped, MainTypeOK, MainStates, SessionTyped,
         SessionTypeOK, ReaderTyped, ReaderTypeOK, ClientTypeOK, WorkTyped, WorkTypeOK, Sendings
<1>2. /\ main.answer \in Seq(Messages) /\ \A i \in DOMAIN main.answer : SoundMessage(main.answer[i])
      /\ main.batch \in Seq(Messages) /\ \A i \in DOMAIN main.batch : SoundMessage(main.batch[i])
  BY <1>1 DEF MainTyped, MainStates
<1> DEFINE OutboxFine == OutboxTypeOK' /\ nextRequest' = nextRequest
           HeldFine == /\ held' \in Seq(Messages) \cup {None}
                       /\ held' # None => \A i \in DOMAIN held' : SoundMessage(held'[i])
           Rest == pendingIds' \in SUBSET Ids /\ answered' \in SUBSET Generations
                   /\ written' \in Seq(Messages)
           Fine == TrackerTypeOK' /\ OutboxFine /\ HeldFine /\ MainTyped' /\ Rest
<1>3. /\ UNCHANGED outboxVars => OutboxFine
      /\ UNCHANGED trackerVars => TrackerTypeOK'
      /\ UNCHANGED held => HeldFine
      /\ UNCHANGED <<pendingIds, answered, written>> => Rest
  BY <1>1 DEF outboxVars, OutboxTypeOK, trackerVars, TrackerTypeOK, SessionTyped
<1>4. ASSUME MainClears PROVE Fine
  <2>1. main.item.id \in Ids /\ main.item.kind \in {"request", "shutdown"}
    BY <1>1, <1>4 DEF MainClears, MainAt, MainTyped, Sound
  <2>2. TrackerTypeOK'
    BY <1>1, <1>4 DEF MainClears, ClearStaged, TrackerTypeOK
  <2>3. "discard" \in MainPcs
    BY DEF MainPcs
  <2>4. MainTyped'
    BY <1>1, <1>4, <2>1, <2>3, GoTyped DEF MainClears
  <2> QED BY <1>3, <1>4, <2>2, <2>4 DEF MainClears
<1>5. ASSUME MainDiscards PROVE Fine
  <2>1. MainTyped'
    <3>1. CASE running # None
      <4>1. main' = [main EXCEPT !.pc = "stageRunning"] /\ "stageRunning" \in MainPcs
        BY <1>5, <3>1 DEF MainDiscards, MainPcs
      <4>2. Go("stageRunning")
        BY <4>1 DEF Go
      <4> QED BY <1>1, <4>1, <4>2, GoTyped
    <3>2. CASE running = None
      <4>1. main' = Replaying(main.item, "drainNotices", main.answer)
            /\ "drainNotices" \in MainPcs
        BY <1>5, <3>2 DEF MainDiscards, MainPcs
      <4> QED BY <1>1, <1>2, <4>1, ReplayingTyped
    <3> QED BY <3>1, <3>2
  <2> QED BY <1>1, <1>3, <1>5, <2>1 DEF MainDiscards
<1>6. ASSUME CancelsRunning PROVE Fine
  <2>1. running.id \in Ids
    BY <1>1, <1>6 DEF CancelsRunning, MainAt, Shape, SessionTyped, Sound
  <2>2. TrackerTypeOK'
    BY <1>1, <1>6, <2>1, StageTyped DEF CancelsRunning
  <2>3. "drainNotices" \in MainPcs
    BY DEF MainPcs
  <2>4. MainTyped'
    BY <1>1, <1>6, <2>3, GoTyped DEF CancelsRunning
  <2> QED BY <1>3, <1>6, <2>2, <2>4 DEF CancelsRunning
<1>7. ASSUME TakesNotices PROVE Fine
  <2>1. OutboxFine
    BY <1>1, <1>7, EmptySeq DEF TakesNotices, DrainNotices, OutboxTypeOK
  <2>2. notices \in Seq(Messages) /\ \A i \in DOMAIN notices : SoundMessage(notices[i])
    BY <1>1, SendingFacts
  <2>3. main' = [main EXCEPT !.pc = "drainRequests", !.batch = notices]
        /\ "drainRequests" \in MainPcs
    BY <1>7 DEF TakesNotices, MainPcs
  <2>4. /\ main' \in MainStates /\ main'.item = main.item /\ main'.cause = main.cause
        /\ main'.pc = "drainRequests" /\ main'.answer = main.answer /\ main'.batch = notices
    BY <1>1, <2>2, <2>3 DEF MainStates
  <2>5. MainTyped'
    BY <1>1, <1>2, <2>2, <2>4 DEF MainTyped, MainTypeOK, MainStates
  <2> QED BY <1>3, <1>7, <2>1, <2>5 DEF TakesNotices
<1>8. ASSUME TakesRequests PROVE Fine
  <2>1. OutboxFine
    BY <1>1, <1>8, EmptySeq DEF TakesRequests, DrainRequests, OutboxTypeOK
  <2>2. PICK b : b = main.batch \o [i \in DOMAIN outbox |-> RefreshRequest(outbox[i])]
                                \o main.answer
    OBVIOUS
  <2>3. b \in Seq(Messages) /\ \A i \in DOMAIN b : SoundMessage(b[i])
    BY <1>1, <2>2, BatchFacts
  <2>4. held' \in {held, b} /\ (main' = Idle \/ main' = [main EXCEPT !.pc = "write", !.batch = b])
    BY <1>8, <2>2 DEF TakesRequests
  <2>5. HeldFine
    BY <1>1, <2>3, <2>4 DEF SessionTyped
  <2>6. MainTyped'
    <3>1. CASE main' = Idle
      BY <3>1, IdleForms DEF MainTyped, MainTypeOK, MainStates
    <3>2. CASE main' = [main EXCEPT !.pc = "write", !.batch = b]
      <4>1. "write" \in MainPcs
        BY DEF MainPcs
      <4>2. /\ main' \in MainStates /\ main'.item = main.item /\ main'.cause = main.cause
            /\ main'.pc = "write" /\ main'.answer = main.answer /\ main'.batch = b
        BY <1>1, <2>3, <3>2, <4>1 DEF MainStates
      <4> QED BY <1>1, <1>2, <2>3, <4>2 DEF MainTyped, MainTypeOK, MainStates
    <3> QED BY <2>4, <3>1, <3>2
  <2> QED BY <1>3, <1>8, <2>1, <2>5, <2>6 DEF TakesRequests
<1>9. ASSUME NEW k \in 0..Len(main.batch), Deliver(k), UNCHANGED pendingIds PROVE Rest
  BY <1>1, <1>2, <1>9, DeliverFacts
<1>10. ASSUME Writes PROVE Fine
  <2>1. Len(main.batch) \in 0..Len(main.batch)
    BY <1>2, LenProperties
  <2>2. Rest
    BY <1>9, <1>10, <2>1 DEF Writes
  <2>3. held' \in {held, None}
    BY <1>10 DEF Writes
  <2>4. HeldFine
    BY <1>1, <2>3 DEF SessionTyped
  <2>5. MainTyped'
    BY <1>10, IdleForms DEF Writes, MainTyped, MainTypeOK, MainStates
  <2> QED BY <1>3, <1>10, <2>2, <2>4, <2>5 DEF Writes
<1>11. ASSUME WriteFails PROVE Fine
  <2>1. PICK k \in 0..Len(main.batch) : Deliver(k)
    BY <1>11 DEF WriteFails
  <2>2. Rest
    BY <1>9, <1>11, <2>1 DEF WriteFails
  <2>3. MainTyped'
    BY <1>1, <1>11, CrossingForms DEF WriteFails, MainTyped, MainTypeOK, MainStates
  <2> QED BY <1>3, <1>11, <2>2, <2>3 DEF WriteFails
<1>12. ASSUME Returns PROVE Fine
  <2>1. "returned" \in MainPcs
    BY DEF MainPcs
  <2>2. MainTyped'
    BY <1>1, <1>12, <2>1, GoTyped DEF Returns
  <2>3. OutboxFine
    BY <1>1, <1>12 DEF Returns, OutboxTypeOK
  <2> QED BY <1>3, <1>12, <2>2, <2>3 DEF Returns
<1>13. Fine
  <2> HIDE DEF Fine
  <2> QED BY <1>4, <1>5, <1>6, <1>7, <1>8, <1>10, <1>11, <1>12 DEF MainAnswers
<1>14. UNCHANGED <<frames, lastEdit, newest, replied, asked, early, reader, queueVars,
                  running, sawEdit, failed, state, exitCode, worker, refresh, edition>>
  BY DEF MainAnswers
<1>15. OutboxTyped' /\ SessionTyped' /\ ReaderTyped' /\ ClientTypeOK'
  BY <1>1, <1>13, <1>14 DEF OutboxTyped, SessionTyped, SessionTypeOK, ReaderTyped, ReaderTypeOK,
                            ClientTypeOK
<1>16. QueueTyped' /\ WorkTyped'
  BY <1>13, <1>14 DEF Typed, queueVars, QueueTyped, QueueTypeOK, WorkTyped, WorkTypeOK
<1> QED BY <1>13, <1>15, <1>16 DEF Typed

\* Every step keeps the types.
LEMMA TypedStep ==
    ASSUME Typed, Lane, Shape, Boundary, [Next]_vars
    PROVE  Typed'
<1>1. CASE Next
  BY <1>1, ClientTyped, ReaderTypedStep, WorkerTyped, RefreshTyped, TakesTyped, ReplaysTyped,
     DispatchesTyped, CrossesTyped, AnswersTyped DEF Next, MainStep
<1>2. CASE UNCHANGED vars
  BY SMTT(20), <1>2 DEF vars, trackerVars, outboxVars, clientVars, readerVars, queueVars, sessionVars, Typed,
     TrackerTypeOK, OutboxTyped, OutboxTypeOK, ClientTypeOK, ReaderTyped, ReaderTypeOK, QueueTyped,
     QueueTypeOK, MainTyped, MainTypeOK, SessionTyped, SessionTypeOK, WorkTyped, WorkTypeOK
<1> QED BY <1>1, <1>2

-----------------------------------------------------------------------------
(***************************************************************************)
(* One request at a time.                                                  *)
(***************************************************************************)

\* The completions that wait, when an event is appended and when one is taken.
LEMMA CompletionsAppended ==
    ASSUME QueueTyped, NEW f \in Items, events' = Append(events, f)
    PROVE  /\ f.kind # "completed" => Completions' = Completions
           /\ f.kind = "completed" /\ Completions = {} => \A i, j \in Completions' : i = j
<1>1. events \in Seq(Items)
  BY DEF QueueTyped, QueueTypeOK
<1>2. /\ DOMAIN events' = 1..(Len(events) + 1) /\ DOMAIN events = 1..Len(events)
      /\ Len(events) \in Nat
      /\ \A i \in 1..Len(events) : events'[i] = events[i]
      /\ events'[Len(events) + 1] = f
  BY <1>1, AppendFacts
<1>3. f.kind # "completed" => Completions' = Completions
  BY <1>2 DEF Completions
<1>4. f.kind = "completed" /\ Completions = {} => \A i, j \in Completions' : i = j
  BY <1>2 DEF Completions
<1> QED BY <1>3, <1>4

LEMMA CompletionsTaken ==
    ASSUME QueueTyped, NEW kinds, TakesEvent(kinds)
    PROVE  /\ \A i \in Completions' : i \in Nat /\ i >= 1 /\ i + 1 \in Completions
           /\ Head(events).kind = "completed" => 1 \in Completions
<1>1. events \in Seq(Items) /\ events # <<>> /\ events' = Tail(events)
  BY DEF QueueTyped, QueueTypeOK, TakesEvent
<1>2. \A i \in DOMAIN events' : i + 1 \in DOMAIN events /\ events'[i] = events[i + 1]
  BY <1>1, TailFacts
<1>3. DOMAIN events' = 1..(Len(events) - 1) /\ Len(events) \in Nat
  BY <1>1, TailFacts
<1>4. Head(events).kind = "completed" => 1 \in Completions
  BY EventTaken DEF Completions
<1> QED BY <1>2, <1>3, <1>4 DEF Completions

\* What the invariant does not depend on.
LEMMA LaneFrame ==
    ASSUME Lane, UNCHANGED <<running, worker, active>>, refresh'["worker"] = refresh["worker"],
           refresh'["main"] # "none" => main'.pc = "edited",
           \A i, j \in Completions' : i = j, Completions = {} => Completions' = {}
    PROVE  Lane'
BY DEF Lane

\* A step of main is taken when main is not inside a refresh.
LEMMA MainOutside ==
    ASSUME MainStep
    PROVE  refresh["main"] = "none" /\ refresh' = refresh /\ UNCHANGED <<reader, frames>>
<1>1. ASSUME MainTakes PROVE refresh["main"] = "none" /\ refresh' = refresh
                             /\ UNCHANGED <<reader, frames>>
  BY <1>1 DEF MainTakes, TakesDeferred, TakesDropped, TakesFrame, TakesReady, TakesFailure,
     TakesCompletion, TakesEvent, Taking, MainAt, readerVars, clientVars
<1>2. ASSUME MainReplays PROVE refresh["main"] = "none" /\ refresh' = refresh
                             /\ UNCHANGED <<reader, frames>>
  BY <1>2 DEF MainReplays, ReplaysControl, ControlsReplayed, MainAt, readerVars, clientVars
<1>3. ASSUME MainDispatches PROVE refresh["main"] = "none" /\ refresh' = refresh
                             /\ UNCHANGED <<reader, frames>>
  BY <1>3 DEF MainDispatches, Defers, StartsWorker, RefusesRequest, AcceptsShutdown, AcceptsExit,
     AppliesEdit, ConsumesReply, HandlesOther, EditHandled, Dispatching, MainAt, readerVars,
     clientVars
<1>4. ASSUME MainCrosses PROVE refresh["main"] = "none" /\ refresh' = refresh
                             /\ UNCHANGED <<reader, frames>>
  BY <1>4 DEF MainCrosses, RetiresContexts, StagesRunning, RetiresOutbox, Closes, MainAt,
     readerVars, clientVars
<1>5. ASSUME MainAnswers PROVE refresh["main"] = "none" /\ refresh' = refresh
                             /\ UNCHANGED <<reader, frames>>
  BY <1>5 DEF MainAnswers, MainClears, MainDiscards, CancelsRunning, TakesNotices, TakesRequests,
     Writes, WriteFails, Returns, MainAt
<1> QED BY <1>1, <1>2, <1>3, <1>4, <1>5 DEF MainStep

\* What the client sends is appended to the events.
LEMMA ClientAppends ==
    ASSUME Typed, ClientSends
    PROVE  events' = events \/ \E f \in Items : events' = Append(events, f) /\ f.kind # "completed"
<1>1. ASSUME NEW kind \in {"request", "shutdown"}, NEW id \in Ids, ReadRequest(kind, id)
      PROVE  \E f \in Items : events' = Append(events, f) /\ f.kind # "completed"
  <2>1. Item(kind, id, frames', lastEdit, "none") \in Items
        /\ Item(kind, id, frames', lastEdit, "none").kind = kind
    BY <1>1, RuntimeAssumption DEF ReadRequest, CanRead, Item, Items, AllFrameKinds, Outcomes,
       Typed, ClientTypeOK
  <2> QED BY <1>1, <2>1 DEF ReadRequest
<1>2. ASSUME NEW kind \in {"edit", "other", "exit"}, ReadNotification(kind)
      PROVE  \E f \in Items : events' = Append(events, f) /\ f.kind # "completed"
  <2>1. Item(kind, None, frames', lastEdit, "none") \in Items
        /\ Item(kind, None, frames', lastEdit, "none").kind = kind
    BY <1>2, RuntimeAssumption DEF ReadNotification, CanRead, Item, Items, AllFrameKinds,
       Outcomes, Typed, ClientTypeOK
  <2> QED BY <1>2, <2>1 DEF ReadNotification
<1>3. ASSUME NEW r \in Requests, ReadReply(r)
      PROVE  \E f \in Items : events' = Append(events, f) /\ f.kind # "completed"
  <2>1. Item("reply", None, r, lastEdit, "none") \in Items
        /\ Item("reply", None, r, lastEdit, "none").kind = "reply"
    <3>1. r \in 0..(MaxFrames + MaxRequests) /\ lastEdit \in 0..MaxFrames
      BY RuntimeAssumption DEF Requests, Typed, ClientTypeOK
    <3> QED BY <3>1 DEF Item, Items, AllFrameKinds, Outcomes
  <2> QED BY <1>3, <2>1 DEF ReadReply
<1>4. ASSUME ReadFailure
      PROVE  \E f \in Items : events' = Append(events, f) /\ f.kind # "completed"
  <2>1. Failure \in Items /\ Failure.kind = "failure"
    BY RuntimeAssumption DEF Failure, Item, Items, Outcomes
  <2> QED BY <1>4, <2>1 DEF ReadFailure
<1>5. ASSUME NEW id \in Ids, ReadCancel(id) PROVE events' = events
  BY <1>5 DEF ReadCancel, queueVars
<1> QED BY <1>1, <1>2, <1>3, <1>4, <1>5 DEF ClientSends

\* The threads other than main keep one request at a time.
LEMMA LaneOthers ==
    ASSUME Typed, Lane, Shape,
           ClientSends \/ ReaderStep \/ \E t \in {"main", "worker"} : RefreshStep(t)
    PROVE  Lane'
<1>1. QueueTyped /\ refresh \in [{"main", "worker"} -> {"none", "checked", "waking"}]
      /\ RuntimeAssumption
  BY RuntimeAssumption DEF Typed, WorkTyped, WorkTypeOK
<1>2. CASE ClientSends
  <2>1. Completions' = Completions
    <3>1. ASSUME NEW f, events' = Append(events, f), f.kind # "completed", f \in Items
          PROVE Completions' = Completions
      BY <1>1, <3>1, CompletionsAppended
    <3>2. UNCHANGED events => Completions' = Completions
      BY DEF Completions
    <3>3. events' = events \/ \E f \in Items : events' = Append(events, f) /\ f.kind # "completed"
      BY <1>2, ClientAppends
    <3> QED BY <3>1, <3>2, <3>3
  <2> QED
    BY <1>2, <2>1 DEF Lane, ClientSends, trackerVars, sessionVars
<1>3. CASE ReaderStep
  <2>1. UNCHANGED <<running, worker, active, refresh, main, events>>
    BY <1>3 DEF ReaderStep, ReaderStages, ReaderPosts, StageCancel, trackerVars, sessionVars, queueVars
  <2> QED BY <2>1, LaneFrame DEF Lane, Completions
<1>4. ASSUME NEW t \in {"main", "worker"}, RefreshStep(t) PROVE Lane'
  <2>1. Completions' = Completions
    <3>1. Ready \in Items /\ Ready.kind = "ready"
      BY RuntimeAssumption DEF Ready, Item, Items, Outcomes
    <3>2. UNCHANGED events => Completions' = Completions
      BY DEF Completions
    <3>3. events' = Append(events, Ready) \/ UNCHANGED events
      BY <1>4 DEF RefreshStep, CheckRefresh, PostRefresh, WakeTransport
    <3> QED BY <1>1, <3>1, <3>2, <3>3, CompletionsAppended
  <2>2. UNCHANGED <<running, worker, active, main>>
    BY <1>4 DEF RefreshStep, sessionVars, trackerVars
  <2>3. /\ refresh'["worker"] # "none" => worker.pc = "work"
        /\ refresh'["main"] # "none" => main.pc = "edited"
    BY <1>1, <1>4 DEF RefreshStep, CheckRefresh, PostRefresh, WakeTransport, MayRefresh, Lane
  <2> QED BY <2>1, <2>2, <2>3 DEF Lane
<1> QED BY <1>2, <1>3, <1>4

\* The worker keeps one request at a time.
LEMMA LaneWorker ==
    ASSUME Typed, Lane, WorkerStep
    PROVE  Lane'
<1>1. /\ worker \in [pc : WorkPcs, item : Items, edition : 0..MaxFrames,
                     outcome : Outcomes, noted : BOOLEAN]
      /\ active \in [Ids -> 0..MaxFrames] /\ QueueTyped
  BY DEF Typed, WorkTyped, WorkTypeOK, TrackerTypeOK
<1>2. worker.pc # "off" /\ refresh["worker"] = "none"
  BY DEF WorkerStep, WorkerAt, WorkerRoutes, WorkerCaptures, WorkerStarts, WorkerNotifies,
         WorkerChecks, WorkerCommits, WorkerRaises, WorkerFinishes, WorkerClears, WorkerDiscards,
         WorkerCompletes
<1>3. /\ running # None /\ worker.item = running /\ Completions = {} /\ worker.outcome # "null"
      /\ worker.item.id \in Ids /\ worker.item.n \in Generations /\ worker.item \in Items
  BY <1>2, AtWork DEF Lane
<1>4. UNCHANGED <<running, refresh, main>>
  BY DEF WorkerStep, sessionVars
<1> DEFINE Same == UNCHANGED <<active, events>>
           Kept == worker'.item = worker.item /\ worker'.pc # "off" /\ worker'.outcome # "null"
<1>5. ASSUME Same, Kept,
             worker.pc \notin {"work", "commit", "finish"}
                \/ worker'.pc \in {"work", "commit", "finish"}
      PROVE Lane'
  <2>1. Completions' = {}
    BY <1>3, <1>5 DEF Completions
  <2>2. \A id \in Ids : active'[id] # 0 =>
          worker'.pc \in {"work", "commit", "finish"} /\ worker'.item.id = id
              /\ worker'.item.n = active'[id]
    BY <1>5 DEF Lane
  <2> QED BY <1>2, <1>3, <1>4, <1>5, <2>1, <2>2 DEF Lane
<1>6. CASE WorkerRoutes
  BY <1>1, <1>3, <1>5, <1>6 DEF WorkerRoutes, WorkerAt, trackerVars
<1>7. CASE WorkerCaptures
  BY <1>1, <1>3, <1>5, <1>7 DEF WorkerCaptures, WorkerAt, trackerVars
<1>8. CASE WorkerStarts
  <2>1. worker' = [worker EXCEPT !.pc = "work"] /\ UNCHANGED events
        /\ active' = [active EXCEPT ![worker.item.id] = worker.item.n]
        /\ worker.pc = "start"
    BY <1>8 DEF WorkerStarts, WorkerAt, StartContext
  <2>2. worker'.item = worker.item /\ worker'.pc = "work" /\ worker'.outcome = worker.outcome
    BY <1>1, <2>1
  <2>3. Completions' = {}
    BY <1>3, <2>1 DEF Completions
  <2>4. \A id \in Ids : active[id] = 0
    BY <2>1 DEF Lane
  <2>5. \A id \in Ids : active'[id] # 0 => id = worker.item.id /\ active'[id] = worker.item.n
    BY <1>1, <1>3, <2>1, <2>4
  <2> QED BY <1>2, <1>3, <1>4, <2>2, <2>3, <2>5 DEF Lane
<1>9. CASE WorkerNotifies
  BY <1>1, <1>3, <1>5, <1>9 DEF WorkerNotifies, WorkerAt, trackerVars
<1>10. CASE WorkerChecks
  BY <1>1, <1>3, <1>5, <1>10 DEF WorkerChecks, WorkerAt, trackerVars
<1>11. CASE WorkerCommits
  BY <1>1, <1>3, <1>5, <1>11 DEF WorkerCommits, WorkerAt, trackerVars
<1>12. CASE WorkerRaises
  BY <1>1, <1>3, <1>5, <1>12 DEF WorkerRaises, WorkerAt, trackerVars
<1>13. CASE WorkerFinishes
  <2>1. worker' = [worker EXCEPT !.pc = "clear"] /\ UNCHANGED events
        /\ active' = IF active[worker.item.id] = worker.item.n
                     THEN [active EXCEPT ![worker.item.id] = 0] ELSE active
    BY <1>13 DEF WorkerFinishes, FinishContext
  <2>2. worker'.item = worker.item /\ worker'.pc = "clear" /\ worker'.outcome = worker.outcome
    BY <1>1, <2>1
  <2>3. Completions' = {}
    BY <1>3, <2>1 DEF Completions
  <2>4. \A id \in Ids : active'[id] = 0
    BY <1>1, <1>3, <2>1 DEF Lane
  <2> QED BY <1>2, <1>3, <1>4, <2>2, <2>3, <2>4 DEF Lane
<1>14. CASE WorkerClears
  BY <1>1, <1>3, <1>5, <1>14 DEF WorkerClears, WorkerAt, ClearStaged
<1>15. CASE WorkerDiscards
  BY <1>1, <1>3, <1>5, <1>15 DEF WorkerDiscards, WorkerAt, trackerVars
<1>16. CASE WorkerCompletes
  <2> DEFINE done == [worker.item EXCEPT !.kind = "completed", !.outcome = worker.outcome]
  <2>1. done \in Items /\ done.kind = "completed"
    BY <1>1, <1>3 DEF Items
  <2>2. events' = Append(events, done) /\ worker' = NoWork /\ UNCHANGED active
        /\ worker.pc = "complete"
    BY <1>16 DEF WorkerCompletes, WorkerAt, trackerVars
  <2>3. \A i, j \in Completions' : i = j
    BY <1>1, <1>3, <2>1, <2>2, CompletionsAppended
  <2>4. worker'.pc = "off" /\ worker'.outcome = "none"
    BY <2>2 DEF NoWork
  <2>5. \A id \in Ids : active'[id] = 0
    BY <2>2 DEF Lane
  <2> QED BY <1>2, <1>3, <1>4, <2>3, <2>4, <2>5 DEF Lane
<1> HIDE DEF Same, Kept
<1> QED BY <1>6, <1>7, <1>8, <1>9, <1>10, <1>11, <1>12, <1>13, <1>14, <1>15, <1>16 DEF WorkerStep

\* Main keeps one request at a time: it starts the next one when none is running, and
\* takes the completion of the one that was.
LEMMA LaneMain ==
    ASSUME Typed, Lane, MainStep
    PROVE  Lane'
<1>1. /\ refresh["main"] = "none" /\ refresh' = refresh /\ QueueTyped
      /\ active \in [Ids -> 0..MaxFrames]
  BY MainOutside DEF Typed, TrackerTypeOK
<1>2. UNCHANGED events => Completions' = Completions
  BY DEF Completions
<1>3. ASSUME UNCHANGED <<running, worker, active, events>> PROVE Lane'
  BY <1>1, <1>2, <1>3 DEF Lane
<1>4. ASSUME NEW kinds, TakesEvent(kinds), UNCHANGED <<running, worker, active>> PROVE Lane'
  <2>1. \A i \in Completions' : i \in Nat /\ i + 1 \in Completions
    BY <1>1, <1>4, CompletionsTaken
  <2>2. \A i, j \in Completions' : i = j
    BY <2>1 DEF Lane
  <2>3. Completions = {} => Completions' = {}
    BY <2>1
  <2> QED BY <1>1, <1>4, <2>2, <2>3 DEF Lane
<1>5. CASE MainTakes
  <2>1. UNCHANGED <<worker, active>>
    BY <1>5 DEF MainTakes, trackerVars
  <2>2. CASE TakesDeferred
    BY <1>3, <2>1, <2>2 DEF TakesDeferred, sessionVars
  <2>3. CASE TakesDropped
    BY <1>4, <2>1, <2>3 DEF TakesDropped, sessionVars
  <2>4. CASE TakesFrame
    BY <1>4, <2>1, <2>4 DEF TakesFrame, sessionVars
  <2>5. CASE TakesReady
    BY <1>4, <2>1, <2>5 DEF TakesReady, sessionVars
  <2>6. CASE TakesFailure
    BY <1>4, <2>1, <2>6 DEF TakesFailure, sessionVars
  <2>7. CASE TakesCompletion
    <3>1. TakesEvent({"completed"}) /\ running' = None
      BY <2>7 DEF TakesCompletion
    <3>2. Head(events).kind = "completed"
      BY <3>1 DEF TakesEvent
    <3>3. \A i \in Completions' : i \in Nat /\ i >= 1 /\ i + 1 \in Completions
      BY <1>1, <3>1, CompletionsTaken
    <3>4. 1 \in Completions
      BY <1>1, <3>1, <3>2, CompletionsTaken
    <3>5. Completions' = {}
      <4>1. \A i \in Completions' : FALSE
        BY <3>3, <3>4 DEF Lane
      <4> QED BY <4>1
    <3>6. worker.pc = "off"
      BY <3>4 DEF Lane
    <3> QED BY <1>1, <2>1, <3>1, <3>5, <3>6 DEF Lane
  <2> QED BY <1>5, <2>2, <2>3, <2>4, <2>5, <2>6, <2>7 DEF MainTakes
<1>6. CASE MainReplays
  BY <1>3, <1>6 DEF MainReplays, ReplaysControl, ControlsReplayed, CancelActive, trackerVars,
     sessionVars
<1>7. CASE MainDispatches
  <2>1. CASE StartsWorker
    <3>1. running = None /\ running' = main.item /\ UNCHANGED <<active, events>>
          /\ worker' = [NoWork EXCEPT !.pc = "route", !.item = main.item]
          /\ main.item.kind = "request"
      BY <1>7, <2>1 DEF StartsWorker, MainDispatches, Dispatching, trackerVars
    <3>2. worker'.pc = "route" /\ worker'.item = main.item /\ worker'.outcome = "none"
      BY <3>1 DEF NoWork
    <3>3. worker.pc = "off" /\ Completions = {} /\ Completions' = {}
      BY <1>2, <3>1 DEF Lane
    <3>4. (\A id \in Ids : active'[id] = 0) /\ refresh'["worker"] = "none"
      BY <1>1, <3>1, <3>3 DEF Lane
    <3>5. running' # None
      BY <3>1, NoneAssumption DEF Typed, MainTyped, MainTypeOK
    <3> QED BY <1>1, <3>1, <3>2, <3>3, <3>4, <3>5 DEF Lane
  <2>2. ASSUME Defers \/ RefusesRequest \/ AcceptsShutdown \/ AcceptsExit \/ AppliesEdit
                 \/ ConsumesReply \/ HandlesOther \/ EditHandled
        PROVE Lane'
    <3>1. UNCHANGED <<running, worker>>
      BY <2>2 DEF Defers, RefusesRequest, AcceptsShutdown, AcceptsExit, AppliesEdit,
         ConsumesReply, HandlesOther, EditHandled, sessionVars
    <3>2. UNCHANGED <<active, events>>
      BY <1>7 DEF MainDispatches, trackerVars
    <3> QED BY <1>3, <3>1, <3>2
  <2> QED BY <1>7, <2>1, <2>2 DEF MainDispatches
<1>8. CASE MainCrosses
  <2>1. UNCHANGED <<running, worker, events>>
    BY <1>8 DEF MainCrosses, queueVars
  <2>2. UNCHANGED active \/ \A id \in Ids : active'[id] = 0
    BY <1>8 DEF MainCrosses, RetiresContexts, StagesRunning, RetiresOutbox, Closes,
       RetireContexts, StageCancel, trackerVars
  <2>3. \A id \in Ids : active'[id] # 0 => active' = active
    BY <2>2
  <2> QED BY <1>1, <1>2, <2>1, <2>3 DEF Lane
<1>9. CASE MainAnswers
  <2>1. UNCHANGED <<running, worker, events>>
    BY <1>9 DEF MainAnswers, queueVars
  <2>2. UNCHANGED active
    BY <1>9 DEF MainAnswers, MainClears, MainDiscards, CancelsRunning, TakesNotices,
       TakesRequests, Writes, WriteFails, Returns, ClearStaged, StageCancel, trackerVars
  <2> QED BY <1>3, <2>1, <2>2
<1> QED BY <1>5, <1>6, <1>7, <1>8, <1>9 DEF MainStep

LEMMA LaneStep ==
    ASSUME Typed, Lane, Shape, [Next]_vars
    PROVE  Lane'
<1>1. CASE Next
  BY <1>1, LaneOthers, LaneWorker, LaneMain DEF Next
<1>2. CASE UNCHANGED vars
  BY <1>2 DEF vars, trackerVars, queueVars, sessionVars, Lane, Completions
<1> QED BY <1>1, <1>2

-----------------------------------------------------------------------------
(***************************************************************************)
(* The course of the session.                                              *)
(***************************************************************************)

\* An event that is appended, or another one that is taken, leaves the wakeups there.
LEMMA ReadyAppended ==
    ASSUME QueueTyped, ReadyWaits, NEW f \in Items, events' = Append(events, f)
    PROVE  ReadyWaits'
<1>1. events \in Seq(Items)
  BY DEF QueueTyped, QueueTypeOK
<1>2. /\ DOMAIN events' = 1..(Len(events) + 1) /\ DOMAIN events = 1..Len(events)
      /\ Len(events) \in Nat
      /\ \A i \in 1..Len(events) : events'[i] = events[i]
  BY <1>1, AppendFacts
<1> QED BY <1>2 DEF ReadyWaits

LEMMA ReadyTaken ==
    ASSUME QueueTyped, ReadyWaits, NEW kinds, TakesEvent(kinds), Head(events).kind # "ready"
    PROVE  ReadyWaits'
<1>1. events \in Seq(Items) /\ events # <<>> /\ events' = Tail(events)
  BY DEF QueueTyped, QueueTypeOK, TakesEvent
<1>2. /\ DOMAIN events = 1..Len(events) /\ Len(events) \in Nat /\ Head(events) = events[1]
      /\ DOMAIN events' = 1..(Len(events) - 1)
      /\ \A i \in DOMAIN events' : events'[i] = events[i + 1]
  BY <1>1, TailFacts
<1>3. PICK i \in DOMAIN events : events[i].kind = "ready"
  BY DEF ReadyWaits
<1>4. i # 1
  BY <1>2, <1>3
<1>5. i - 1 \in DOMAIN events' /\ (i - 1) + 1 = i
  BY <1>2, <1>4
<1> QED BY <1>2, <1>3, <1>5 DEF ReadyWaits

\* What the reader, the worker and the refreshes leave alone.
LEMMA OthersLeave ==
    ASSUME ClientSends \/ ReaderStep \/ WorkerStep \/ \E t \in {"main", "worker"} : RefreshStep(t)
    PROVE  UNCHANGED <<main, running, held, failed, state, exitCode, written, open, wakeup, sawEdit>>
<1>1. CASE ClientSends
  BY <1>1 DEF ClientSends, outboxVars, sessionVars
<1>2. CASE ReaderStep
  BY <1>2 DEF ReaderStep, outboxVars, sessionVars
<1>3. CASE WorkerStep
  BY <1>3 DEF WorkerStep, sessionVars
<1>4. CASE \E t \in {"main", "worker"} : RefreshStep(t)
  BY <1>4 DEF RefreshStep, CheckRefresh, PostRefresh, WakeTransport, QueueRequest, outboxVars,
     sessionVars
<1> QED BY <1>1, <1>2, <1>3, <1>4

\* The invariant depends on what they change only through the outboxes and the events.
LEMMA CourseFrame ==
    ASSUME Course,
           UNCHANGED <<main, running, held, failed, state, exitCode, written, open, wakeup>>,
           ~open => notices' = notices,
           state = "EXITED" \/ main.pc = "returned"
              \/ (main.pc = "close" /\ main.cause # "shutdown" /\ running = None)
              => UNCHANGED <<owed, outbox>>,
           Waking'
    PROVE  Course'
<1>1. Shape' /\ Acknowledged'
  BY DEF Course, Shape, Acknowledged, Ended
<1>2. Boundary'
  BY DEF Course, Boundary
<1>3. Ending'
  BY DEF Course, Ending, Boundary, Ended
<1> QED BY <1>1, <1>2, <1>3 DEF Course

\* The threads other than main keep it.
LEMMA CourseOthers ==
    ASSUME RuntimeInv,
           ClientSends \/ ReaderStep \/ WorkerStep \/ \E t \in {"main", "worker"} : RefreshStep(t)
    PROVE  Course'
<1>1. UNCHANGED <<main, running, held, failed, state, exitCode, written, open, wakeup>>
  BY OthersLeave
<1>2. Typed /\ Lane /\ Course /\ QueueTyped /\ Waking
      /\ refresh \in [{"main", "worker"} -> {"none", "checked", "waking"}]
  BY DEF RuntimeInv, Typed, Course, WorkTyped, WorkTypeOK
<1>3. ASSUME UNCHANGED <<outbox, refresh>>, ReadyWaits => ReadyWaits' PROVE Waking'
  BY <1>1, <1>2, <1>3 DEF Waking, Ended
<1>4. ASSUME UNCHANGED events PROVE ReadyWaits' = ReadyWaits
  BY <1>4 DEF ReadyWaits
<1>5. CASE ClientSends
  <2>1. UNCHANGED <<notices, outbox, owed, refresh>>
    BY <1>5 DEF ClientSends, outboxVars
  <2>2. UNCHANGED events \/ \E f \in Items : events' = Append(events, f)
    BY <1>2, <1>5, ClientAppends
  <2>3. ReadyWaits => ReadyWaits'
    BY <1>2, <1>4, <2>2, ReadyAppended
  <2> QED BY <1>1, <1>2, <1>3, <2>1, <2>3, CourseFrame
<1>6. CASE ReaderStep
  <2>1. UNCHANGED <<notices, outbox, owed, refresh, events>>
    BY <1>6 DEF ReaderStep, ReaderStages, ReaderPosts, outboxVars, queueVars
  <2> QED BY <1>1, <1>2, <1>3, <1>4, <2>1, CourseFrame
<1>7. CASE WorkerStep
  <2>1. UNCHANGED <<outbox, owed, refresh>>
    BY <1>7 DEF WorkerStep
  <2>2. ~open => notices' = notices
    BY <1>7 DEF WorkerStep, WorkerRoutes, WorkerCaptures, WorkerStarts, WorkerNotifies,
       WorkerChecks, WorkerCommits, WorkerRaises, WorkerFinishes, WorkerClears, WorkerDiscards,
       WorkerCompletes, AppendNotice
  <2>3. UNCHANGED events \/ WorkerCompletes
    BY <1>7 DEF WorkerStep, WorkerRoutes, WorkerCaptures, WorkerStarts, WorkerNotifies,
       WorkerChecks, WorkerCommits, WorkerRaises, WorkerFinishes, WorkerClears, WorkerDiscards
  <2>4. ReadyWaits => ReadyWaits'
    <3>1. ASSUME WorkerCompletes PROVE \E f \in Items : events' = Append(events, f)
      <4>1. [worker.item EXCEPT !.kind = "completed", !.outcome = worker.outcome] \in Items
        BY <1>2 DEF Typed, WorkTyped, WorkTypeOK, Items
      <4> QED BY <3>1, <4>1 DEF WorkerCompletes
    <3> QED BY <1>2, <1>4, <2>3, <3>1, ReadyAppended
  <2> QED BY <1>1, <1>2, <1>3, <2>1, <2>2, <2>4, CourseFrame
<1>8. ASSUME NEW t \in {"main", "worker"}, RefreshStep(t) PROVE Course'
  <2>1. CASE CheckRefresh(t)
    <3>1. /\ UNCHANGED <<outbox, owed, notices, events>>
          /\ refresh[t] = "none" /\ refresh' = [refresh EXCEPT ![t] = "checked"]
      BY <2>1 DEF CheckRefresh, outboxVars
    <3>2. (\E o \in {"main", "worker"} : refresh[o] = "waking")
            => \E o \in {"main", "worker"} : refresh'[o] = "waking"
      BY <1>2, <3>1
    <3>3. Waking'
      BY <1>1, <1>2, <1>4, <3>1, <3>2 DEF Waking, Ended
    <3> QED BY <1>1, <1>2, <3>1, <3>3, CourseFrame
  <2>2. CASE PostRefresh(t)
    <3>1. /\ UNCHANGED <<notices, events>> /\ refresh[t] = "checked"
          /\ refresh' = [refresh EXCEPT ![t] = IF WakesTransport THEN "waking" ELSE "none"]
      BY <2>2 DEF PostRefresh, QueueRequest
    <3>2. /\ state = "EXITED" => running = None
          /\ main.pc = "returned" => running = None
      BY <1>2 DEF Course, Ending, Shape, Ended
    <3>3. (t = "worker" => running # None) /\ (t = "main" => main.pc = "edited" /\ state = "RUNNING")
      BY <1>2, <3>1 DEF Lane, Course, Shape
    <3>4. Waking'
      <4>1. (\E o \in {"main", "worker"} : refresh[o] = "waking")
              => \E o \in {"main", "worker"} : refresh'[o] = "waking"
        BY <1>2, <3>1
      <4>2. WakesTransport => refresh'[t] = "waking"
        BY <1>2, <3>1
      <4>3. ~WakesTransport => outbox # <<>> \/ failed \/ Ended
        BY <1>2 DEF WakesTransport, Course, Ending
      <4> QED BY <1>1, <1>2, <1>4, <3>1, <4>1, <4>2, <4>3 DEF Waking, Ended
    <3> QED BY <1>1, <1>2, <3>1, <3>2, <3>3, <3>4, CourseFrame
  <2>3. CASE WakeTransport(t)
    <3>1. /\ UNCHANGED <<outbox, owed, notices>> /\ events' = Append(events, Ready)
      BY <2>3 DEF WakeTransport, outboxVars
    <3>2. ReadyWaits'
      <4>1. Ready \in Items /\ Ready.kind = "ready" /\ events \in Seq(Items)
        BY <1>2, RuntimeAssumption DEF Ready, Item, Items, Outcomes, QueueTyped, QueueTypeOK
      <4>2. /\ DOMAIN events' = 1..(Len(events) + 1) /\ Len(events) \in Nat
            /\ events'[Len(events) + 1] = Ready
        BY <3>1, <4>1, AppendFacts
      <4> QED BY <4>1, <4>2 DEF ReadyWaits
    <3>3. Waking'
      BY <3>2 DEF Waking
    <3> QED BY <1>1, <1>2, <3>1, <3>3, CourseFrame
  <2> QED BY <1>8, <2>1, <2>2, <2>3 DEF RefreshStep
<1> QED BY <1>5, <1>6, <1>7, <1>8

Is(m, pc, next, cause) == m.pc = pc /\ m.next = next /\ m.cause = cause

Bare(m) == m.answer = <<>> /\ m.batch = <<>>

\* Nothing is said by nothing, and by another answer than the acknowledgement.
LEMMA SilentFacts ==
    /\ ~Null(<<>>) /\ ~Noisy(<<>>)
    /\ \A g \in Generations, o \in Outcomes :
          LET a == <<Response(g, o)>>
          IN  a # <<>> /\ ~Noisy(a) /\ (Null(a) <=> o = "null")
<1>1. ~Null(<<>>) /\ ~Noisy(<<>>)
  <2>1. DOMAIN <<>> = {}
    BY EmptySeq, LenProperties
  <2> QED BY <2>1 DEF Null, Noisy
<1>2. ASSUME NEW g \in Generations, NEW o \in Outcomes
      PROVE  LET a == <<Response(g, o)>>
             IN  a # <<>> /\ ~Noisy(a) /\ (Null(a) <=> o = "null")
  <2>1. PICK m : m = Response(g, o)
    OBVIOUS
  <2>2. m \in Messages /\ SoundMessage(m) /\ m.kind = "response" /\ m.outcome = o
    BY <2>1, MessageFacts DEF Response, Message
  <2>3. PICK a : a = <<m>>
    OBVIOUS
  <2>4. a \in Seq(Messages) /\ DOMAIN a = {1} /\ a[1] = m
    BY <2>2, <2>3, AnswerFacts
  <2>5. a # <<>>
    <3>1. DOMAIN <<>> = {}
      BY EmptySeq, LenProperties
    <3> QED BY <2>4, <3>1
  <2>6. ~Noisy(a) /\ (Null(a) <=> o = "null")
    BY <2>2, <2>4 DEF Noisy, Null
  <2> QED BY <2>1, <2>3, <2>5, <2>6
<1> QED BY <1>1, <1>2

\* Main turns to an item, to a boundary, or to nothing.
LEMMA TurnsToItem ==
    ASSUME NEW item \in Items, NEW pc \in MainPcs, main' = Replaying(item, pc, <<>>)
    PROVE  Is(main', "replay", pc, "none") /\ Bare(main') /\ main'.item = item
<1>1. PICK e : e = <<>>
  OBVIOUS
<1>2. e \in Seq(Messages)
  BY <1>1, EmptySeq
<1>3. main' = Replaying(item, pc, e)
  BY <1>1
<1>4. Is(main', "replay", pc, "none") /\ main'.item = item
  BY <1>2, <1>3, ReplayingForms DEF Is
<1>5. main'.answer = e
  BY <1>2, <1>3, ReplayingForms
<1>6. main'.batch = <<>>
  BY <1>2, <1>3, ReplayingForms
<1> QED BY <1>1, <1>4, <1>5, <1>6 DEF Bare

LEMMA TurnsWithAnswer ==
    ASSUME NEW item \in Items, NEW pc \in MainPcs, NEW answer \in Seq(Messages),
           main' = Replaying(item, pc, answer)
    PROVE  /\ Is(main', "replay", pc, "none") /\ main'.item = item
           /\ main'.answer = answer /\ main'.batch = <<>>
<1>1. Is(main', "replay", pc, "none") /\ main'.item = item
  BY ReplayingForms DEF Is
<1>2. main'.answer = answer
  BY ReplayingForms
<1>3. main'.batch = <<>>
  BY ReplayingForms
<1> QED BY <1>1, <1>2, <1>3

LEMMA TurnsToBoundary ==
    ASSUME NEW item \in Items, NEW cause \in {"shutdown", "exit", "abort"},
           main' = Crossing(item, cause)
    PROVE  Is(main', "retire", "take", cause) /\ Bare(main') /\ main'.item = item
<1>1. Is(main', "retire", "take", cause) /\ main'.item = item
  BY CrossingForms DEF Is
<1>2. main'.answer = <<>>
  BY CrossingForms
<1>3. main'.batch = <<>>
  BY CrossingForms
<1> QED BY <1>1, <1>2, <1>3 DEF Bare

LEMMA TurnsToNothing ==
    ASSUME NEW pc \in MainPcs, main' = [Idle EXCEPT !.pc = pc]
    PROVE  Is(main', pc, "take", "none") /\ Bare(main') /\ main'.item = Idle.item
<1>1. Is(main', pc, "take", "none") /\ main'.item = Idle.item
  BY IdleAtForms DEF Is
<1>2. main'.answer = <<>>
  BY IdleAtForms
<1>3. main'.batch = <<>>
  BY IdleAtForms
<1> QED BY <1>1, <1>2, <1>3 DEF Bare

LEMMA IdleIs ==
    Is(Idle, "take", "take", "none") /\ Bare(Idle) /\ Idle.item.kind = "other"
<1>1. Is(Idle, "take", "take", "none") /\ Idle.item.kind = "other"
  BY IdleForms DEF Is
<1>2. Idle.answer = <<>>
  BY IdleForms
<1>3. Idle.batch = <<>>
  BY IdleForms
<1> QED BY <1>1, <1>2, <1>3 DEF Bare

\* Main carries nothing, at an item, a boundary or the next event: the invariant asks
\* only where it may be with it.
LEMMA CourseBare ==
    ASSUME Course, Bare(main'), main.cause # "abort", ~Null(main.answer), ~Null(main.batch),
           UNCHANGED <<running, held, failed, state, exitCode, written, outboxVars>>,
           ~failed \/ (main' = Idle /\ running # None), ~Ended, main' = Idle \/ main'.pc # "take",
           main'.pc \notin {"stage", "close", "stageRunning", "returned", "raised", "edited",
                            "dispatch"},
           main'.pc \in CrossingPcs => main'.cause # "none",
           main'.cause \in {"exit", "abort"} => main'.pc \in CrossingPcs,
           main'.pc = "replay" => main'.next = "dispatch" /\ state # "EXITED",
           main'.pc # "replay" => main'.next \in {"take", "drainNotices"},
           main'.item.kind = "completed" => running = None,
           main'.cause = "shutdown" => state = "RUNNING",
           main'.cause = "exit" => running = None /\ state # "EXITED",
           main'.item.kind # "shutdown" \/ running = None
              \/ main'.pc \notin {"clear", "discard", "stageRunning", "drainNotices", "drainRequests"},
           Waking'
    PROVE  Course'
<1>1. UNCHANGED <<notices, open, outbox, owed, wakeup>>
  BY DEF outboxVars
<1>2. main'.answer = <<>> /\ main'.batch = <<>> /\ ~Null(<<>>) /\ ~Noisy(<<>>)
  BY SilentFacts DEF Bare
<1>3. Shape'
  BY <1>2, IdleIs DEF Course, Shape, Ended, CrossingPcs, CarryingPcs, Is
<1>4. Boundary'
  BY <1>1, <1>2 DEF Course, Boundary
<1>5. Acknowledged'
  BY <1>2 DEF Course, Acknowledged
<1>6. Ending'
  BY <1>1, IdleIs DEF Course, Ending, Ended, Is
<1> QED BY <1>3, <1>4, <1>5, <1>6 DEF Course

\* A main that waits carries nothing.
LEMMA WaitingFacts ==
    ASSUME Course, main.pc = "take"
    PROVE  /\ main = Idle /\ Bare(main) /\ main.cause = "none" /\ ~Ended
           /\ ~Null(main.answer) /\ ~Null(main.batch)
<1>1. main = Idle
  BY DEF Course, Shape
<1>2. Bare(main) /\ main.cause = "none"
  BY <1>1, IdleIs DEF Is
<1> QED BY <1>1, <1>2, SilentFacts DEF Bare, Ended

\* Main takes an item that is not a completion.
LEMMA CourseTakes ==
    ASSUME RuntimeInv, MainTakes, ~TakesCompletion
    PROVE  Course'
<1>1. /\ Typed /\ Course /\ Shape /\ Waking /\ QueueTyped /\ Ending
      /\ Failure \in Items /\ Failure.kind = "failure"
      /\ {"dispatch", "drainNotices"} \subseteq MainPcs
  BY RuntimeAssumption
     DEF RuntimeInv, Typed, Course, Failure, Item, Items, Outcomes, MainPcs
<1>2. UNCHANGED <<refresh, written>>
  BY DEF MainTakes
<1>3. ASSUME NEW kinds, TakesEvent(kinds), Head(events).kind = "ready" => state # "RUNNING" \/ failed,
             UNCHANGED <<outbox, state, failed>>, main' = main \/ ~Ended, main.pc = "take"
      PROVE Waking'
  <2>1. Head(events).kind # "ready" /\ ReadyWaits => ReadyWaits'
    BY <1>1, <1>3, ReadyTaken
  <2> QED BY <1>1, <1>2, <1>3, <2>1 DEF Waking, Ended
<1>4. CASE TakesDeferred
  <2>1. /\ main.pc = "take" /\ state # "EXITED" /\ running = None
        /\ UNCHANGED <<running, held, failed, state, exitCode, outboxVars, events>>
        /\ deferred # <<>> /\ deferred \in Seq(Items)
        /\ main' = Replaying(Head(deferred), "dispatch", <<>>)
    BY <1>1, <1>4 DEF TakesDeferred, Taking, MainAt, sessionVars, QueueTyped, QueueTypeOK
  <2>2. PICK f \in Items : f = Head(deferred)
    BY <2>1, TailFacts
  <2>3. Is(main', "replay", "dispatch", "none") /\ Bare(main')
    BY <1>1, <2>1, <2>2, TurnsToItem
  <2>4. Waking'
    <3>1. outbox' = outbox /\ ReadyWaits' = ReadyWaits
      BY <2>1 DEF outboxVars, ReadyWaits
    <3> QED BY <1>1, <1>2, <2>1, <3>1 DEF Waking, Ended
  <2>5. ~failed
    BY <1>1, <2>1 DEF Ending, Ended
  <2> QED
    BY <1>1, <1>2, <2>1, <2>3, <2>4, <2>5, WaitingFacts, CourseBare DEF Is, CrossingPcs
<1>5. CASE TakesDropped
  <2>1. /\ main.pc = "take" /\ failed /\ running # None
        /\ UNCHANGED <<main, running, held, failed, state, exitCode, outboxVars>>
    BY <1>1, <1>5 DEF TakesDropped, Dropping, TakesEvent, Taking, MainAt, sessionVars
  <2>2. Waking'
    BY <2>1 DEF Waking
  <2> QED
    BY <1>1, <1>2, <2>1, <2>2, WaitingFacts, CourseFrame DEF outboxVars
<1>6. CASE TakesFrame
  <2>1. /\ main.pc = "take" /\ state # "EXITED" /\ ~Dropping /\ TakesEvent(AllFrameKinds)
        /\ UNCHANGED <<running, held, failed, state, exitCode, outboxVars>>
        /\ main' = Replaying(Head(events), "dispatch", <<>>)
    BY <1>6 DEF TakesFrame, TakesEvent, Taking, MainAt, sessionVars
  <2>2. PICK f \in Items : f = Head(events) /\ f.kind \in AllFrameKinds
    BY <1>1, <2>1, EventTaken
  <2>3. Is(main', "replay", "dispatch", "none") /\ Bare(main') /\ main'.item = f
    BY <1>1, <2>1, <2>2, TurnsToItem
  <2>4. f.kind \notin {"completed", "ready", "failure"}
    BY <2>2 DEF AllFrameKinds
  <2>5. Waking'
    BY <1>1, <1>2, <1>3, <2>1, <2>2, <2>3, <2>4 DEF outboxVars, Is, Ended
  <2>6. ~failed
    BY <1>1, <2>1 DEF Ending, Ended, Dropping
  <2> QED
    BY <1>1, <1>2, <2>1, <2>3, <2>4, <2>5, <2>6, WaitingFacts, CourseBare DEF Is, CrossingPcs
<1>7. CASE TakesReady
  <2>1. /\ main.pc = "take" /\ state # "EXITED" /\ ~Dropping /\ TakesEvent({"ready"})
        /\ UNCHANGED <<running, held, failed, state, exitCode, outboxVars>>
        /\ main' = IF state = "RUNNING" THEN [Idle EXCEPT !.pc = "drainNotices"] ELSE Idle
    BY <1>7 DEF TakesReady, TakesEvent, Taking, MainAt, sessionVars
  <2>2. ~failed
    BY <1>1, <2>1 DEF Ending, Ended, Dropping
  <2>3. CASE state = "RUNNING"
    <3>1. Is(main', "drainNotices", "take", "none") /\ Bare(main') /\ main'.item = Idle.item
      BY <1>1, <2>1, <2>3, TurnsToNothing
    <3>2. Waking'
      BY <3>1 DEF Waking, Is
    <3> QED
      BY <1>1, <1>2, <2>1, <2>2, <3>1, <3>2, IdleIs, WaitingFacts, CourseBare DEF Is, CrossingPcs
  <2>4. CASE state # "RUNNING"
    <3>1. main' = Idle
      BY <2>1, <2>4
    <3>2. Waking'
      BY <2>1, <2>4 DEF Waking
    <3> QED
      BY <1>1, <1>2, <2>1, <2>2, <3>1, <3>2, IdleIs, WaitingFacts, CourseBare DEF Is, CrossingPcs
  <2> QED BY <2>3, <2>4
<1>8. CASE TakesFailure
  <2>1. /\ main.pc = "take" /\ state # "EXITED" /\ ~Dropping /\ TakesEvent({"failure"})
        /\ UNCHANGED <<running, held, failed, state, exitCode, outboxVars>>
        /\ main' = Crossing(Failure, "abort") /\ Head(events).kind = "failure"
    BY <1>8 DEF TakesFailure, TakesEvent, Taking, MainAt, sessionVars
  <2>2. Is(main', "retire", "take", "abort") /\ Bare(main') /\ main'.item = Failure
    BY <1>1, <2>1, TurnsToBoundary
  <2>3. Waking'
    BY <1>1, <1>2, <1>3, <2>1, <2>2 DEF outboxVars, Is, Ended
  <2>4. ~failed
    BY <1>1, <2>1 DEF Ending, Ended, Dropping
  <2> QED
    BY <1>1, <1>2, <2>1, <2>2, <2>3, <2>4, WaitingFacts, CourseBare DEF Is, CrossingPcs
<1> QED BY <1>4, <1>5, <1>6, <1>7, <1>8 DEF MainTakes

\* Main takes the completion of the running request.
LEMMA CourseCompletes ==
    ASSUME RuntimeInv, TakesCompletion, UNCHANGED <<refresh, written>>
    PROVE  Course'
<1>1. /\ Typed /\ Course /\ Shape /\ Waking /\ QueueTyped /\ Ending /\ Boundary /\ Acknowledged
      /\ {"dispatch", "drainNotices", "raised", "returned", "write"} \subseteq MainPcs
      /\ SessionTyped
  BY DEF RuntimeInv, Typed, Course, MainPcs
<1>2. /\ main.pc = "take" /\ state # "EXITED" /\ TakesEvent({"completed"}) /\ running' = None
      /\ UNCHANGED <<held, failed, state, exitCode>>
  BY DEF TakesCompletion, TakesEvent, Taking, MainAt
<1>3. PICK done \in Items : /\ done = Head(events) /\ done.kind = "completed"
                            /\ done.n \in Generations /\ done.outcome \in Outcomes
                            /\ done.outcome # "null"
  <2>1. Head(events) \in Items /\ Sound(Head(events)) /\ Head(events).kind = "completed"
    BY <1>1, <1>2, EventTaken
  <2> QED BY <2>1 DEF Sound, Items
<1>4. main = Idle /\ Bare(main) /\ main.cause = "none" /\ ~Ended
      /\ ~Null(main.answer) /\ ~Null(main.batch)
  BY <1>1, <1>2, WaitingFacts
<1>5. ReadyWaits => ReadyWaits'
  BY <1>1, <1>2, <1>3, ReadyTaken
<1> DEFINE stop == done.outcome = "raised" /\ (failed \/ held # None)
<1>6. CASE stop
  <2>1. /\ main' = [Idle EXCEPT !.pc = "raised"]
        /\ UNCHANGED <<notices, open, outbox, owed>>
    BY <1>3, <1>6 DEF TakesCompletion
  <2>2. Is(main', "raised", "take", "none") /\ Bare(main') /\ main'.item = Idle.item
    BY <1>1, <2>1, TurnsToNothing
  <2>3. main'.answer = <<>> /\ main'.batch = <<>> /\ ~Null(<<>>) /\ ~Noisy(<<>>)
    BY <2>2, SilentFacts DEF Bare
  <2>4. Shape'
    BY <1>1, <1>2, <2>2, <2>3, IdleIs DEF Is, Shape, Ended, CrossingPcs, CarryingPcs
  <2>5. Boundary'
    BY <1>1, <1>2, <2>1, <2>2, <2>3, IdleIs DEF Is, Boundary
  <2>6. Acknowledged' /\ Waking'
    BY <1>1, <1>2, <2>2, <2>3 DEF Is, Acknowledged, Waking, Ended
  <2>7. Ending'
    BY <1>1, <1>2, <2>1, <2>2 DEF Is, Ending, Ended
  <2> QED BY <2>4, <2>5, <2>6, <2>7 DEF Course
<1>7. CASE ~stop /\ failed
  <2>1. /\ main' = [Idle EXCEPT !.pc = "returned"] /\ ~wakeup'
        /\ outbox' = <<>> /\ owed' = {} /\ UNCHANGED <<notices, open>>
    BY <1>3, <1>7 DEF TakesCompletion, RetireLocally
  <2>2. Is(main', "returned", "take", "none") /\ Bare(main') /\ main'.item = Idle.item
    BY <1>1, <2>1, TurnsToNothing
  <2>3. main'.answer = <<>> /\ main'.batch = <<>> /\ ~Null(<<>>) /\ ~Noisy(<<>>)
    BY <2>2, SilentFacts DEF Bare
  <2>4. Shape'
    BY <1>1, <1>2, <2>2, <2>3, IdleIs DEF Is, Shape, Ended, CrossingPcs, CarryingPcs
  <2>5. Boundary'
    BY <1>1, <1>2, <2>1, <2>2, <2>3, IdleIs DEF Is, Boundary
  <2>6. Acknowledged' /\ Waking'
    BY <1>1, <1>2, <2>2, <2>3 DEF Is, Acknowledged, Waking, Ended
  <2>7. Ending'
    BY <1>1, <1>2, <1>7, <2>1, <2>2 DEF Is, Ending, Ended
  <2> QED BY <2>4, <2>5, <2>6, <2>7 DEF Course
<1>8. CASE ~failed /\ held # None /\ done.outcome # "raised"
  <2> PICK m : m = Response(done.n, "cancelled")
    OBVIOUS
  <2> PICK b : b = Front(held) \o <<m, Last(held)>>
    OBVIOUS
  <2>1. /\ main' = [Idle EXCEPT !.pc = "write", !.item = done, !.batch = b]
        /\ wakeup' = wakeup /\ UNCHANGED <<notices, open, outbox, owed>>
  <3>1. main' = [Idle EXCEPT !.pc = "write", !.item = done, !.batch = b]
    BY <1>3, <1>8 DEF TakesCompletion
  <3>2. wakeup' = (wakeup /\ ~(done.outcome = "raised" /\ (failed \/ held # None)))
        /\ UNCHANGED <<notices, open, outbox, owed>>
    BY <1>3, <1>8 DEF TakesCompletion
  <3>3. wakeup \in BOOLEAN
    BY <1>1 DEF Typed, OutboxTyped, OutboxTypeOK
  <3>4. wakeup' = wakeup
    BY <1>8, <3>2, <3>3
  <3> QED BY <3>1, <3>2, <3>4
  <2>2. held \in Seq(Messages) /\ Null(held) /\ ~Noisy(held) /\ state # "RUNNING"
        /\ \A i \in DOMAIN held : SoundMessage(held[i])
    BY <1>1, <1>8 DEF Boundary, SessionTyped, SessionTypeOK
  <2>3. m \in Messages /\ SoundMessage(m) /\ m.kind = "response"
    BY <1>3, MessageFacts DEF Outcomes, Response, Message
  <2>4. Null(b)
    BY <2>2, <2>3, HeldFacts
  <2>5. Null(b) /\ ~Noisy(b)
    BY <2>2, <2>3, <2>4, HeldFacts
  <2>6. /\ main'.pc = "write" /\ main'.item = done /\ main'.next = "take"
        /\ main'.cause = "none" /\ main'.batch = b
    BY <2>1 DEF Idle
  <2>7. main'.answer = <<>> /\ ~Null(<<>>) /\ ~Noisy(<<>>)
    <3>1. main'.answer = Idle.answer
      BY <2>1 DEF Idle
    <3> QED BY <3>1, IdleIs, SilentFacts DEF Bare
  <2>8. Shape'
    BY <1>1, <1>2, <1>3, <2>6, <2>7 DEF Shape, Ended, CrossingPcs, CarryingPcs
  <2>9. Boundary'
    BY <1>1, <1>2, <1>3, <2>1, <2>2, <2>5, <2>6, <2>7 DEF Boundary
  <2>10. Acknowledged' /\ Waking'
    BY <1>1, <1>2, <2>2, <2>5, <2>6, <2>7 DEF Acknowledged, Waking, Ended
  <2>11. Ending'
    BY <1>1, <1>2, <1>4, <1>8, <2>1, <2>6 DEF Ending, Ended
  <2> QED BY <2>8, <2>9, <2>10, <2>11 DEF Course
<1>9. CASE ~failed /\ held = None
  <2> PICK a : a = <<Response(done.n, done.outcome)>>
    OBVIOUS
  <2> PICK next \in {"raised", "drainNotices"} :
         next = IF done.outcome = "raised" THEN "raised" ELSE "drainNotices"
    OBVIOUS
  <2>1. main' = Replaying(done, next, a) /\ wakeup' = wakeup
        /\ UNCHANGED <<notices, open, outbox, owed>>
    <3>1. main' = Replaying(done, next, a)
      BY <1>3, <1>9 DEF TakesCompletion
    <3>2. wakeup' = (wakeup /\ ~(done.outcome = "raised" /\ (failed \/ held # None)))
          /\ UNCHANGED <<notices, open, outbox, owed>>
      BY <1>3, <1>9 DEF TakesCompletion
    <3>3. wakeup \in BOOLEAN
      BY <1>1 DEF Typed, OutboxTyped, OutboxTypeOK
    <3>4. wakeup' = wakeup
      BY <1>9, <3>2, <3>3
    <3> QED BY <3>1, <3>2, <3>4
  <2>2. a \in Seq(Messages) /\ ~Noisy(a) /\ ~Null(a) /\ a # <<>>
    <3>1. PICK m : m = Response(done.n, done.outcome)
      OBVIOUS
    <3>2. m \in Messages /\ SoundMessage(m)
      BY <1>3, <3>1, MessageFacts
    <3>3. a = <<m>> /\ a \in Seq(Messages)
      BY <3>1, <3>2, AnswerFacts
    <3> QED BY <1>3, <3>3, SilentFacts
  <2>3. /\ Is(main', "replay", next, "none") /\ main'.item = done
        /\ main'.answer = a /\ main'.batch = <<>>
    <3> HIDE DEF stop
    <3>1. next \in MainPcs
      BY <1>1
    <3> QED BY <2>1, <2>2, <3>1, TurnsWithAnswer
  <2>4. main'.pc = "replay" /\ main'.next = next /\ main'.cause = "none" /\ main'.answer = a
    BY <2>3 DEF Is
  <2>5. main'.batch = <<>> /\ ~Null(<<>>) /\ ~Noisy(<<>>)
    BY <2>3, SilentFacts
  <2>6. Shape'
    BY <1>1, <1>2, <1>3, <2>2, <2>3, <2>4, <2>5 DEF Shape, Ended, CrossingPcs, CarryingPcs
  <2>7. Boundary'
    BY <1>1, <1>2, <1>3, <1>9, <2>1, <2>2, <2>3, <2>4, <2>5 DEF Boundary
  <2>8. Acknowledged'
    BY <1>1, <1>2, <1>4, <1>9, <2>2, <2>3, <2>4, <2>5 DEF Acknowledged
  <2>9. Ending' /\ Waking'
    BY <1>1, <1>2, <1>4, <1>5, <1>9, <2>1, <2>4 DEF Ending, Ended, Waking
  <2> QED BY <2>6, <2>7, <2>8, <2>9 DEF Course
<1> QED BY <1>6, <1>7, <1>8, <1>9

\* Main replays the cancellations.
LEMMA CourseReplays ==
    ASSUME RuntimeInv, MainReplays
    PROVE  Course'
<1>1. /\ Typed /\ Course /\ Shape /\ Boundary /\ Acknowledged /\ Ending /\ Waking
      /\ MainTyped /\ main \in MainStates
  BY DEF RuntimeInv, Typed, Course, MainTyped, MainTypeOK, MainStates
<1>2. /\ main.pc = "replay" /\ UNCHANGED <<refresh, written, events>>
      /\ UNCHANGED <<running, held, failed, state, exitCode>>
  BY DEF MainReplays, ReplaysControl, ControlsReplayed, MainAt, sessionVars
<1>3. ReadyWaits' = ReadyWaits /\ main.batch = <<>> /\ ~Ended /\ ~failed
  BY <1>1, <1>2 DEF ReadyWaits, Shape, Ending, Ended
<1>4. CASE ReplaysControl
  <2>1. UNCHANGED <<main, notices, open, outbox, owed, wakeup>>
    BY <1>4 DEF ReplaysControl, outboxVars
  <2>2. Waking'
    BY <1>1, <1>2, <1>3, <2>1 DEF Waking, Ended
  <2> QED BY <1>1, <1>2, <2>1, <2>2, CourseFrame
<1>5. CASE ControlsReplayed
  <2>1. /\ main' = [main EXCEPT !.pc = main.next, !.next = "drainNotices"]
        /\ UNCHANGED <<notices, open, outbox, owed>>
        /\ wakeup' = wakeup \/ main.next = "raised"
    BY <1>5 DEF ControlsReplayed, outboxVars
  <2>2. /\ main'.pc = main.next /\ main'.next = "drainNotices" /\ main'.item = main.item
        /\ main'.cause = main.cause /\ main'.answer = main.answer /\ main'.batch = main.batch
    BY <1>1, <2>1 DEF MainStates
  <2>3. main.next \in {"dispatch", "drainNotices", "raised"}
    BY <1>1, <1>2 DEF Shape
  <2>4. Shape'
    BY <1>1, <1>2, <1>3, <2>2, <2>3 DEF Shape, Ended, CrossingPcs, CarryingPcs
  <2>5. Boundary'
    BY <1>1, <1>2, <1>3, <2>1, <2>2, <2>3 DEF Boundary, Shape
  <2>6. Acknowledged' /\ Waking'
    BY <1>1, <1>2, <1>3, <2>1, <2>2, <2>3 DEF Acknowledged, Waking, Ended
  <2>7. Ending'
    BY <1>1, <1>2, <1>3, <2>1, <2>2, <2>3 DEF Ending, Ended
  <2> QED BY <2>4, <2>5, <2>6, <2>7 DEF Course
<1> QED BY <1>4, <1>5 DEF MainReplays

\* Main handles or defers a frame.
LEMMA CourseDispatches ==
    ASSUME RuntimeInv, MainDispatches
    PROVE  Course'
<1>1. /\ Typed /\ Course /\ Shape /\ Boundary /\ Acknowledged /\ Ending /\ Waking
      /\ MainTyped /\ main \in MainStates /\ main.item \in Items /\ Sound(main.item)
  BY DEF RuntimeInv, Typed, Course, MainTyped, MainTypeOK, MainStates
<1>2. /\ UNCHANGED <<refresh, written, events, held, failed, state, exitCode>>
      /\ UNCHANGED <<notices, open, outbox, wakeup>>
      /\ main.pc \in {"dispatch", "edited"}
  BY DEF MainDispatches, Defers, StartsWorker, RefusesRequest, AcceptsShutdown, AcceptsExit,
     AppliesEdit, ConsumesReply, HandlesOther, EditHandled, Dispatching, MainAt, sessionVars,
     outboxVars, ConsumeReply
<1>3. /\ ReadyWaits' = ReadyWaits /\ main.batch = <<>> /\ main.answer = <<>> /\ ~Ended /\ ~failed
      /\ ~Null(<<>>) /\ ~Noisy(<<>>) /\ main.cause \notin {"exit", "abort"} /\ state # "EXITED"
      /\ main.next = "drainNotices"
  BY <1>1, <1>2, SilentFacts DEF ReadyWaits, Shape, Ending, Ended, CrossingPcs, CarryingPcs
<1>4. ~Ended' => Waking'
  BY <1>1, <1>2, <1>3 DEF Waking, Ended
<1>5. ASSUME main'.answer = <<>>, main'.batch = <<>>, running' = running \/ state = "RUNNING",
             main'.pc \notin {"clear", "discard", "stageRunning", "drainNotices",
                              "drainRequests", "close", "returned", "raised"}
      PROVE Boundary' /\ Acknowledged' /\ Ending' /\ Waking'
  <2>1. Boundary'
    BY <1>1, <1>2, <1>3, <1>5 DEF Boundary
  <2>2. Acknowledged'
    BY <1>1, <1>2, <1>3, <1>5 DEF Acknowledged
  <2>3. Ending'
    BY <1>1, <1>2, <1>3, <1>5 DEF Ending, Ended
  <2> QED BY <1>4, <1>5, <2>1, <2>2, <2>3 DEF Ended
<1>6. CASE Defers \/ StartsWorker
  <2>1. main' = Idle /\ (running' = running \/ (state = "RUNNING" /\ StartsWorker))
    BY <1>6 DEF Defers, StartsWorker, sessionVars
  <2>2. Is(main', "take", "take", "none") /\ Bare(main') /\ main'.item.kind = "other"
    BY <2>1, IdleIs
  <2>3. Shape'
    BY <2>1, <2>2 DEF Shape, Is, Bare, CrossingPcs, CarryingPcs, Ended
  <2> QED BY <1>5, <2>1, <2>2, <2>3 DEF Is, Bare, Course
<1>7. CASE RefusesRequest
  <2>1. /\ main.item.kind \in {"request", "shutdown"} /\ running = None /\ state = "SHUTDOWN"
        /\ main' = [main EXCEPT !.pc = "clear", !.answer = <<Response(main.item.n, "refused")>>]
        /\ UNCHANGED <<running, owed>>
    BY <1>7 DEF RefusesRequest, Dispatching, Foreground, LiveReply, LiveShutdown, LiveEdit,
       OnlyRequestsDeferred, sessionVars, outboxVars
  <2>2. PICK a : a = <<Response(main.item.n, "refused")>>
    OBVIOUS
  <2>3. a # <<>> /\ ~Noisy(a) /\ ~Null(a)
    <3>1. main.item.n \in Generations /\ "refused" \in Outcomes
      BY <1>1, <2>1 DEF Sound, Outcomes
    <3> QED BY <2>2, <3>1, SilentFacts
  <2>4. /\ main'.pc = "clear" /\ main'.answer = a /\ main'.item = main.item
        /\ main'.next = main.next /\ main'.cause = main.cause /\ main'.batch = main.batch
    BY <1>1, <2>1, <2>2 DEF MainStates
  <2>5. Shape'
    BY <1>1, <1>2, <1>3, <2>1, <2>3, <2>4 DEF Shape, Ended, CrossingPcs, CarryingPcs
  <2>6. Boundary'
    BY <1>1, <1>2, <1>3, <2>1, <2>3, <2>4 DEF Boundary
  <2>7. Acknowledged'
    BY <1>1, <1>2, <1>3, <2>1, <2>3, <2>4 DEF Acknowledged
  <2>8. Ending' /\ Waking'
    BY <1>1, <1>2, <1>3, <1>4, <2>1, <2>4 DEF Ending, Ended
  <2> QED BY <2>5, <2>6, <2>7, <2>8 DEF Course
<1>8. CASE AcceptsShutdown \/ AcceptsExit
  <2>1. PICK cause \in {"shutdown", "exit"} :
          /\ main' = Crossing(main.item, cause) /\ UNCHANGED running
          /\ cause = "shutdown" => state = "RUNNING" /\ main.item.kind = "shutdown"
          /\ cause = "exit" => running = None
    BY <1>8 DEF AcceptsShutdown, AcceptsExit, Dispatching, sessionVars
  <2>2. Is(main', "retire", "take", cause) /\ Bare(main') /\ main'.item = main.item
    BY <1>1, <2>1, TurnsToBoundary
  <2>3. Shape'
    BY <1>1, <1>2, <1>3, <2>1, <2>2 DEF Shape, Is, Bare, CrossingPcs, CarryingPcs, Ended
  <2> QED BY <1>5, <2>1, <2>2, <2>3 DEF Is, Bare, Course
<1>9. ASSUME NEW pc \in {"replay", "edited"}, main' = [main EXCEPT !.pc = pc], UNCHANGED running,
             pc = "edited" => state = "RUNNING" /\ main.item.kind = "edit",
             main.item.kind # "shutdown"
      PROVE Course'
  <2>1. /\ main'.pc = pc /\ main'.answer = main.answer /\ main'.item = main.item
        /\ main'.next = main.next /\ main'.cause = main.cause /\ main'.batch = main.batch
    BY <1>1, <1>9 DEF MainStates
  <2>2. Shape'
    BY <1>1, <1>2, <1>3, <1>9, <2>1 DEF Shape, CrossingPcs, CarryingPcs, Ended
  <2> QED BY <1>3, <1>5, <1>9, <2>1, <2>2 DEF Course
<1>10. CASE AppliesEdit
  <2>1. /\ main.item.kind = "edit" /\ UNCHANGED running
        /\ main' = [main EXCEPT !.pc = IF state = "RUNNING" THEN "edited" ELSE "replay"]
    BY <1>10 DEF AppliesEdit, Dispatching, Go
  <2> QED BY <1>9, <2>1
<1>11. CASE ConsumesReply
  <2>1. main.item.kind = "reply" /\ UNCHANGED running /\ main' = [main EXCEPT !.pc = "replay"]
    BY <1>11 DEF ConsumesReply, Dispatching, Go, sessionVars
  <2> QED BY <1>9, <2>1
<1>12. CASE HandlesOther
  <2>1. main.item.kind = "other" /\ UNCHANGED running /\ main' = [main EXCEPT !.pc = "replay"]
    BY <1>12 DEF HandlesOther, Dispatching, Go, sessionVars
  <2> QED BY <1>9, <2>1
<1>13. CASE EditHandled
  <2>1. main.item.kind = "edit" /\ UNCHANGED running /\ main' = [main EXCEPT !.pc = "replay"]
    BY <1>1, <1>13 DEF EditHandled, MainAt, Go, sessionVars, Shape
  <2> QED BY <1>9, <2>1
<1> QED BY <1>6, <1>7, <1>8, <1>10, <1>11, <1>12, <1>13 DEF MainDispatches

\* Main crosses a terminal boundary.
LEMMA CourseCrosses ==
    ASSUME RuntimeInv, MainCrosses
    PROVE  Course'
<1>1. /\ Typed /\ Course /\ Shape /\ Boundary /\ Acknowledged /\ Ending /\ Waking
      /\ MainTyped /\ main \in MainStates /\ main.item \in Items /\ Sound(main.item)
      /\ OutboxTypeOK
  BY DEF RuntimeInv, Typed, OutboxTyped, Course, MainTyped, MainTypeOK, MainStates
<1>2. /\ UNCHANGED <<refresh, written, events, held, running>>
      /\ main.pc \in CrossingPcs
  BY DEF MainCrosses, RetiresContexts, StagesRunning, RetiresOutbox, Closes, MainAt, CrossingPcs,
     queueVars
<1>3. /\ ReadyWaits' = ReadyWaits /\ main.batch = <<>> /\ main.answer = <<>> /\ ~Ended /\ ~failed
      /\ ~Null(<<>>) /\ ~Noisy(<<>>) /\ main.cause \in {"shutdown", "exit", "abort"}
      /\ main.pc \in {"retire", "stage", "retireOutbox", "close"}
      /\ main.next \in {"take", "drainNotices"}
  BY <1>1, <1>2, SilentFacts DEF ReadyWaits, Shape, Ending, Ended, CrossingPcs, CarryingPcs,
     MainStates
<1>4. ASSUME NEW pc \in {"stage", "retireOutbox", "close"}, Go(pc),
             UNCHANGED <<failed, state, exitCode, open, wakeup>>,
             pc = "stage" => running # None,
             pc = "close" /\ main.cause # "shutdown" => owed' = {} /\ outbox' = <<>>,
             ~open => ~Noisy(notices'),
             state = "EXITED" => owed' = {} /\ outbox' = <<>> /\ notices' = <<>>,
             outbox = <<>> => outbox' = <<>>
      PROVE Course'
  <2>1. /\ main'.pc = pc /\ main'.answer = main.answer /\ main'.item = main.item
        /\ main'.next = main.next /\ main'.cause = main.cause /\ main'.batch = main.batch
    BY <1>1, <1>4 DEF MainStates, Go
  <2>2. Shape'
    BY <1>1, <1>2, <1>3, <1>4, <2>1 DEF Shape, CrossingPcs, CarryingPcs, Ended
  <2>3. Boundary'
    BY <1>1, <1>2, <1>3, <1>4, <2>1 DEF Boundary
  <2>4. Acknowledged' /\ Waking'
    BY <1>1, <1>2, <1>3, <1>4, <2>1 DEF Acknowledged, Waking, Ended
  <2>5. Ending'
    BY <1>1, <1>2, <1>3, <1>4, <2>1 DEF Ending, Ended
  <2> QED BY <2>2, <2>3, <2>4, <2>5 DEF Course
<1>5. CASE RetiresContexts
  <2>1. /\ UNCHANGED <<notices, open, outbox, owed, wakeup, failed, state, exitCode>>
        /\ Go(IF main.cause = "abort" /\ running # None THEN "stage" ELSE "retireOutbox")
    BY <1>5 DEF RetiresContexts, outboxVars
  <2> QED BY <1>1, <1>4, <2>1 DEF Boundary, Ending
<1>6. CASE StagesRunning
  <2>1. /\ UNCHANGED <<notices, open, outbox, owed, wakeup, failed, state, exitCode>>
        /\ Go("retireOutbox")
    BY <1>6 DEF StagesRunning, outboxVars
  <2> QED BY <1>1, <1>4, <2>1 DEF Boundary, Ending
<1>7. CASE RetiresOutbox
  <2>1. UNCHANGED <<failed, state, exitCode>> /\ Go("close")
    BY <1>7 DEF RetiresOutbox
  <2>2. CASE main.cause = "shutdown"
    <3>1. /\ (outbox = <<>> => outbox' = <<>>) /\ (Noisy(notices') => Noisy(notices))
          /\ UNCHANGED <<open, wakeup>>
      BY <1>1, <1>7, <2>2, RetireFacts DEF RetiresOutbox
    <3>2. state = "RUNNING"
      BY <1>1, <1>2, <2>2 DEF Shape
    <3> QED BY <1>1, <1>4, <2>1, <2>2, <3>1, <3>2 DEF Boundary
  <2>3. CASE main.cause # "shutdown"
    <3>1. owed' = {} /\ outbox' = <<>> /\ UNCHANGED <<notices, open, wakeup>>
      BY <1>7, <2>3 DEF RetiresOutbox, RetireLocally
    <3> QED BY <1>1, <1>4, <2>1, <3>1 DEF Boundary, Ending
  <2> QED BY <2>2, <2>3
<1>8. CASE Closes
  <2>1. /\ main.pc = "close" /\ CloseNotices(main.cause = "shutdown")
        /\ wakeup' = (wakeup /\ main.cause # "abort")
        /\ failed' = (failed \/ (main.cause = "abort" /\ running # None))
    BY <1>8 DEF Closes, MainAt
  <2>2. /\ ~Noisy(notices') /\ (main.cause # "shutdown" => notices' = <<>>)
        /\ ~open' /\ UNCHANGED <<outbox, owed>>
    BY <1>1, <2>1, CloseFacts
  <2>3. {"returned", "drainNotices"} \subseteq MainPcs
    BY DEF MainPcs
  <2>4. CASE main.cause = "shutdown"
    <3>1. PICK a : a = <<Response(main.item.n, "null")>>
      OBVIOUS
    <3>2. main.item.kind = "shutdown" /\ a # <<>> /\ ~Noisy(a) /\ Null(a) /\ state = "RUNNING"
      <4>1. main.item.kind = "shutdown" /\ state = "RUNNING"
        BY <1>1, <1>2, <2>4 DEF MainTyped, Shape
      <4>2. main.item.n \in Generations /\ "null" \in Outcomes
        BY <1>1, <4>1 DEF Sound, Outcomes
      <4> QED BY <3>1, <4>1, <4>2, SilentFacts
    <3>3. /\ state' = "SHUTDOWN" /\ exitCode' = exitCode
          /\ main' = [main EXCEPT !.pc = "clear", !.answer = a]
      BY <1>8, <2>4, <3>1 DEF Closes
    <3>4. ~failed' /\ wakeup'
      BY <1>1, <1>3, <2>1, <2>4 DEF Ending
    <3>5. /\ main'.pc = "clear" /\ main'.answer = a /\ main'.item = main.item
          /\ main'.next = main.next /\ main'.cause = main.cause /\ main'.batch = main.batch
      BY <1>1, <3>3 DEF MainStates
    <3>6. Shape'
      BY <1>1, <1>2, <1>3, <2>4, <3>2, <3>3, <3>5 DEF Shape, CrossingPcs, CarryingPcs, Ended
    <3>7. Boundary'
      BY <1>1, <1>2, <1>3, <2>2, <3>2, <3>3, <3>5 DEF Boundary
    <3>8. Acknowledged' /\ Waking'
      BY <1>1, <3>2, <3>3, <3>5 DEF Acknowledged, Waking, Ended
    <3>9. Ending'
      BY <3>3, <3>4, <3>5 DEF Ending, Ended
    <3> QED BY <3>6, <3>7, <3>8, <3>9 DEF Course
  <2>5. CASE main.cause = "exit"
    <3>1. /\ state' = "EXITED" /\ exitCode' = (IF state = "SHUTDOWN" THEN 0 ELSE 1)
          /\ main' = Replaying(main.item, "drainNotices", <<>>)
      BY <1>8, <2>5 DEF Closes
    <3>2. Is(main', "replay", "drainNotices", "none") /\ Bare(main') /\ main'.item = main.item
      BY <1>1, <2>3, <3>1, TurnsToItem
    <3>3. running = None /\ state # "EXITED" /\ owed = {} /\ outbox = <<>>
      BY <1>1, <2>1, <2>5 DEF Shape, Ending
    <3>4. ~failed' /\ wakeup'
      BY <1>1, <1>3, <2>1, <2>5 DEF Ending
    <3>5. main'.answer = <<>> /\ main'.batch = <<>>
      BY <3>2 DEF Bare
    <3>6. Shape'
      BY <1>2, <3>2, <3>3, <3>5 DEF Is, Shape, CrossingPcs, CarryingPcs, Ended
    <3>7. Boundary'
      BY <1>1, <1>2, <1>3, <2>2, <3>1, <3>2, <3>3, <3>5 DEF Is, Boundary
    <3>8. Acknowledged'
      BY <1>1, <1>2, <1>3, <2>5, <3>1, <3>3 DEF Acknowledged
    <3>9. Ending' /\ Waking'
      BY <1>2, <2>2, <2>5, <3>1, <3>2, <3>3, <3>4 DEF Is, Ending, Waking, Ended
    <3> QED BY <3>6, <3>7, <3>8, <3>9 DEF Course
  <2>6. CASE main.cause = "abort"
    <3>1. /\ state' = state /\ exitCode' = 1 /\ ~wakeup' /\ notices' = <<>>
          /\ main' = IF running # None THEN Idle ELSE [Idle EXCEPT !.pc = "returned"]
      BY <1>8, <2>1, <2>2, <2>6 DEF Closes
    <3>2. CASE running # None
      <4>1. main' = Idle /\ Is(main', "take", "take", "none") /\ Bare(main')
            /\ main'.item.kind = "other" /\ failed'
        BY <2>1, <2>6, <3>1, <3>2, IdleIs
      <4>2. main'.answer = <<>> /\ main'.batch = <<>>
        BY <4>1 DEF Bare
      <4>3. Shape'
        BY <4>1, <4>2 DEF Is, Shape, CrossingPcs, CarryingPcs, Ended
      <4>4. Boundary'
        BY <1>1, <1>2, <1>3, <2>2, <3>1, <4>1, <4>2 DEF Is, Boundary
      <4>5. Acknowledged' /\ Waking'
        BY <3>1, <4>1 DEF Acknowledged, Waking
      <4>6. Ending'
        BY <1>1, <1>2, <2>2, <3>1, <3>2, <4>1 DEF Is, Ending
      <4> QED BY <4>3, <4>4, <4>5, <4>6 DEF Course
    <3>3. CASE running = None
      <4>1. Is(main', "returned", "take", "none") /\ Bare(main') /\ main'.item = Idle.item
        BY <2>3, <3>1, <3>3, TurnsToNothing
      <4>2. main'.answer = <<>> /\ main'.batch = <<>> /\ main'.item.kind = "other"
        BY <4>1, IdleIs DEF Bare
      <4>3. Shape'
        BY <1>2, <3>3, <4>1, <4>2 DEF Is, Shape, CrossingPcs, CarryingPcs, Ended
      <4>4. Boundary'
        BY <1>1, <1>2, <1>3, <2>2, <3>1, <4>1, <4>2 DEF Is, Boundary
      <4>5. Acknowledged' /\ Waking'
        BY <3>1, <4>1 DEF Is, Acknowledged, Waking, Ended
      <4>6. owed = {} /\ outbox = <<>>
        BY <1>1, <2>1, <2>6, <3>3 DEF Ending
      <4>7. Ending'
        BY <1>1, <1>2, <2>2, <3>1, <3>3, <4>1, <4>6 DEF Is, Ending, Ended
      <4> QED BY <4>3, <4>4, <4>5, <4>7 DEF Course
    <3> QED BY <3>2, <3>3
  <2> QED BY <1>3, <2>4, <2>5, <2>6
<1> QED BY <1>5, <1>6, <1>7, <1>8 DEF MainCrosses

\* A written batch is acknowledged as it was, and what is written stays written.
LEMMA WrittenFacts ==
    ASSUME written \in Seq(Messages), answered \in SUBSET Generations,
           main.batch \in Seq(Messages), \A i \in DOMAIN main.batch : SoundMessage(main.batch[i]),
           NEW k \in 0..Len(main.batch), Deliver(k)
    PROVE  /\ Null(written) => Null(written')
           /\ Null(written') => Null(written) \/ Null(main.batch)
           /\ k = Len(main.batch) /\ Null(main.batch) => Null(written')
<1>1. \A i \in DOMAIN written : i \in DOMAIN written' /\ written'[i] = written[i]
  BY DeliverFacts
<1>2. \A i \in DOMAIN written' : i \notin DOMAIN written =>
         i - Len(written) \in DOMAIN main.batch /\ written'[i] = main.batch[i - Len(written)]
  BY DeliverFacts
<1>3. k = Len(main.batch) => \A i \in DOMAIN main.batch :
         Len(written) + i \in DOMAIN written' /\ written'[Len(written) + i] = main.batch[i]
  BY DeliverFacts
<1>4. Null(written) => Null(written')
  BY <1>1 DEF Null
<1>5. Null(written') => Null(written) \/ Null(main.batch)
  BY <1>1, <1>2 DEF Null
<1>6. k = Len(main.batch) /\ Null(main.batch) => Null(written')
  BY <1>3 DEF Null
<1> QED BY <1>4, <1>5, <1>6

\* Main finishes, gathers a batch, writes it or returns.
LEMMA CourseAnswers ==
    ASSUME RuntimeInv, MainAnswers
    PROVE  Course'
<1>1. /\ Typed /\ Course /\ Shape /\ Boundary /\ Acknowledged /\ Ending /\ Waking
      /\ MainTyped /\ main \in MainStates
      /\ outbox \in Seq(Requests) /\ notices \in Seq(Sendings) /\ wakeup \in BOOLEAN
      /\ written \in Seq(Messages) /\ answered \in SUBSET Generations
  BY DEF RuntimeInv, Typed, OutboxTyped, OutboxTypeOK, Course, MainTyped, MainTypeOK, MainStates,
     Sendings, WorkTyped, WorkTypeOK, ClientTypeOK
<1>2. /\ main.answer \in Seq(Messages) /\ \A i \in DOMAIN main.answer : SoundMessage(main.answer[i])
      /\ main.batch \in Seq(Messages) /\ \A i \in DOMAIN main.batch : SoundMessage(main.batch[i])
  BY <1>1 DEF MainTyped, MainStates
<1>3. UNCHANGED <<running, failed, state, exitCode, refresh, events, reader>>
  BY DEF MainAnswers, queueVars
<1>4. /\ ReadyWaits' = ReadyWaits /\ ~Null(<<>>) /\ ~Noisy(<<>>)
  BY <1>3, SilentFacts DEF ReadyWaits
<1>5. ASSUME NEW pc \in {"discard", "stageRunning", "drainNotices"},
             main' = [main EXCEPT !.pc = pc],
             main.pc \in {"clear", "discard", "stageRunning"},
             UNCHANGED <<notices, open, outbox, owed, wakeup, held, written>>,
             pc = "stageRunning" => running # None
      PROVE Course'
  <2>1. /\ main'.pc = pc /\ main'.answer = main.answer /\ main'.item = main.item
        /\ main'.next = main.next /\ main'.cause = main.cause /\ main'.batch = main.batch
    BY <1>1, <1>5 DEF MainStates
  <2>2. Shape'
    BY <1>1, <1>3, <1>5, <2>1 DEF Shape, CrossingPcs, CarryingPcs, Ended
  <2>3. Boundary'
    BY <1>1, <1>3, <1>5, <2>1 DEF Boundary
  <2>4. Acknowledged' /\ Waking'
    BY <1>1, <1>3, <1>4, <1>5, <2>1 DEF Acknowledged, Waking, Ended
  <2>5. Ending'
    BY <1>1, <1>3, <1>5, <2>1 DEF Ending, Ended
  <2> QED BY <2>2, <2>3, <2>4, <2>5 DEF Course
<1>6. CASE MainClears
  BY <1>5, <1>6 DEF MainClears, MainAt, Go, outboxVars
<1>7. CASE MainDiscards
  <2>1. CASE running # None
    BY <1>5, <1>7, <2>1 DEF MainDiscards, MainAt, outboxVars
  <2>2. CASE running = None
    <3>1. /\ main.pc = "discard" /\ UNCHANGED <<notices, open, outbox, owed, wakeup, held, written>>
          /\ main' = Replaying(main.item, "drainNotices", main.answer)
      BY <1>7, <2>2 DEF MainDiscards, MainAt, outboxVars
    <3>2. main.item \in Items /\ "drainNotices" \in MainPcs
      BY <1>1 DEF MainStates, MainPcs
    <3>3. Is(main', "replay", "drainNotices", "none") /\ main'.item = main.item
          /\ main'.answer = main.answer /\ main'.batch = <<>>
      BY <1>2, <3>1, <3>2, TurnsWithAnswer
    <3>4. main.batch = <<>> /\ main.cause \notin {"exit", "abort"} /\ ~failed /\ ~Ended
      BY <1>1, <3>1 DEF Shape, Ending, Ended, CrossingPcs
    <3>5. Shape'
      BY <1>3, <2>2, <3>1, <3>3 DEF Is, Shape, CrossingPcs, CarryingPcs, Ended
    <3>6. Boundary'
      BY <1>1, <1>3, <1>4, <3>1, <3>3 DEF Is, Boundary
    <3>7. Acknowledged' /\ Waking'
      BY <1>1, <1>3, <1>4, <3>1, <3>3, <3>4 DEF Is, Acknowledged, Waking, Ended
    <3>8. Ending'
      BY <1>1, <1>3, <3>1, <3>3, <3>4 DEF Is, Ending, Ended
    <3> QED BY <3>5, <3>6, <3>7, <3>8 DEF Course
  <2> QED BY <2>1, <2>2
<1>8. CASE CancelsRunning
  BY <1>5, <1>8 DEF CancelsRunning, MainAt, Go, outboxVars
<1>9. CASE TakesNotices
  <2>1. /\ main.pc = "drainNotices" /\ notices' = <<>>
        /\ UNCHANGED <<open, outbox, owed, wakeup, held, written>>
        /\ main' = [main EXCEPT !.pc = "drainRequests", !.batch = notices]
    BY <1>9 DEF TakesNotices, DrainNotices, MainAt
  <2>2. notices \in Seq(Messages) /\ ~Null(notices)
    BY <1>1, SendingFacts DEF Null
  <2>3. /\ main'.pc = "drainRequests" /\ main'.answer = main.answer /\ main'.item = main.item
        /\ main'.next = main.next /\ main'.cause = main.cause /\ main'.batch = notices
    BY <1>1, <2>1, <2>2 DEF MainStates
  <2>4. main.batch = <<>> /\ main.cause \notin {"exit", "abort"} /\ ~failed /\ ~Ended
    BY <1>1, <2>1 DEF Shape, Ending, Ended, CrossingPcs
  <2>5. Shape'
    BY <1>1, <1>3, <2>1, <2>3 DEF Shape, CrossingPcs, CarryingPcs, Ended
  <2>6. Boundary'
    BY <1>1, <1>3, <1>4, <2>1, <2>2, <2>3 DEF Boundary
  <2>7. Acknowledged' /\ Waking'
    BY <1>1, <1>3, <1>4, <2>1, <2>3, <2>4 DEF Acknowledged, Waking, Ended
  <2>8. Ending'
    BY <1>1, <1>3, <2>1, <2>3, <2>4 DEF Ending, Ended
  <2> QED BY <2>5, <2>6, <2>7, <2>8 DEF Course
<1>10. CASE TakesRequests
  <2>1. PICK b : b = main.batch \o [i \in DOMAIN outbox |-> RefreshRequest(outbox[i])]
                                \o main.answer
    OBVIOUS
  <2>2. b \in Seq(Messages) /\ (Null(b) <=> Null(main.batch) \/ Null(main.answer))
        /\ (Noisy(b) => Noisy(main.batch) \/ Noisy(main.answer))
    BY <1>1, <2>1, BatchFacts
  <2>3. /\ main.pc = "drainRequests" /\ outbox' = <<>>
        /\ UNCHANGED <<notices, open, owed, wakeup, written>>
    BY <1>10 DEF TakesRequests, DrainRequests, MainAt
  <2>4. main.cause \notin {"exit", "abort"} /\ ~failed /\ ~Ended
    BY <1>1, <2>3 DEF Shape, Ending, Ended, CrossingPcs
  <2>5. CASE main.item.kind = "shutdown" /\ running # None
    <3>1. held' = b /\ main' = Idle
      BY <1>10, <2>1, <2>5 DEF TakesRequests
    <3>2. Is(main', "take", "take", "none") /\ main'.item.kind = "other"
          /\ main'.answer = <<>> /\ main'.batch = <<>>
      BY <3>1, IdleIs DEF Bare
    <3>3. Null(main.answer) /\ state # "RUNNING" /\ Null(b) /\ ~Noisy(b)
      BY <1>1, <2>2, <2>3, <2>5 DEF Boundary
    <3>4. held' # None
      BY <2>2, <3>1, NoneAssumption
    <3>5. Shape'
      BY <3>1, <3>2 DEF Is, Shape, CrossingPcs, CarryingPcs, Ended
    <3>6. Boundary'
      BY <1>1, <1>3, <1>4, <2>3, <3>1, <3>2, <3>3 DEF Is, Boundary
    <3>7. Acknowledged' /\ Waking'
      BY <1>1, <1>3, <2>3, <2>5, <3>3, <3>4 DEF Acknowledged, Waking
    <3>8. Ending'
      BY <1>1, <1>3, <2>3, <2>4, <3>2 DEF Is, Ending, Ended
    <3> QED BY <3>5, <3>6, <3>7, <3>8 DEF Course
  <2>6. CASE ~(main.item.kind = "shutdown" /\ running # None)
    <3>1. held' = held /\ main' = [main EXCEPT !.pc = "write", !.batch = b]
      BY <1>10, <2>1, <2>6 DEF TakesRequests
    <3>2. /\ main'.pc = "write" /\ main'.answer = main.answer /\ main'.item = main.item
          /\ main'.next = main.next /\ main'.cause = main.cause /\ main'.batch = b
      BY <1>1, <2>2, <3>1 DEF MainStates
    <3>3. Shape'
      BY <1>1, <1>3, <2>3, <3>2 DEF Shape, CrossingPcs, CarryingPcs, Ended
    <3>4. Boundary'
      BY <1>1, <1>3, <2>2, <2>3, <2>6, <3>1, <3>2 DEF Boundary
    <3>5. Acknowledged' /\ Waking'
      BY <1>1, <1>3, <2>2, <2>3, <2>4, <3>1, <3>2 DEF Acknowledged, Waking, Ended
    <3>6. Ending'
      BY <1>1, <1>3, <2>3, <2>4, <3>2 DEF Ending, Ended
    <3> QED BY <3>3, <3>4, <3>5, <3>6 DEF Course
  <2> QED BY <2>5, <2>6
<1>11. CASE Writes
  <2>1. /\ main.pc = "write" /\ main' = Idle /\ Deliver(Len(main.batch))
        /\ UNCHANGED <<notices, open, outbox, owed, wakeup>>
        /\ held' = IF main.item.kind = "completed" THEN None ELSE held
    BY <1>11 DEF Writes, MainAt, outboxVars
  <2>2. Len(main.batch) \in 0..Len(main.batch)
    BY <1>2, LenProperties
  <2>3. Null(written') <=> Null(written) \/ Null(main.batch)
    BY <1>1, <1>2, <2>1, <2>2, WrittenFacts
  <2>4. main.cause \notin {"exit", "abort"} /\ ~failed /\ ~Ended
        /\ (main.item.kind = "completed" => running = None)
    BY <1>1, <2>1 DEF Shape, Ending, Ended, CrossingPcs
  <2>5. Is(main', "take", "take", "none") /\ main'.item.kind = "other"
        /\ main'.answer = <<>> /\ main'.batch = <<>>
    BY <2>1, IdleIs DEF Bare
  <2>6. Shape'
    BY <2>1, <2>5 DEF Is, Shape, CrossingPcs, CarryingPcs, Ended
  <2>7. Boundary'
    <3>1. held' # None => held' = held
      BY <2>1
    <3> QED BY <1>1, <1>3, <1>4, <2>1, <2>3, <2>5, <3>1 DEF Is, Boundary
  <2>8. Acknowledged'
    <3>1. Null(main.answer) => Null(main.batch)
      BY <1>1, <2>1 DEF Boundary
    <3>2. held # None /\ running # None => held' = held
      BY <2>1, <2>4
    <3> QED BY <1>1, <1>3, <2>3, <2>4, <3>1, <3>2 DEF Acknowledged
  <2>9. Ending' /\ Waking'
    BY <1>1, <1>3, <1>4, <2>1, <2>4, <2>5 DEF Is, Ending, Waking, Ended
  <2> QED BY <2>6, <2>7, <2>8, <2>9 DEF Course
<1>12. CASE WriteFails
  <2>1. /\ main.pc = "write" /\ main' = Crossing(main.item, "abort")
        /\ UNCHANGED <<notices, open, outbox, owed, wakeup, held>>
    BY <1>12 DEF WriteFails, MainAt, outboxVars
  <2>2. PICK k \in 0..Len(main.batch) : Deliver(k)
    BY <1>12 DEF WriteFails
  <2>3. (Null(written') => Null(written) \/ Null(main.batch)) /\ (Null(written) => Null(written'))
    BY <1>1, <1>2, <2>2, WrittenFacts
  <2>4. main.item \in Items /\ ~failed /\ ~Ended
    BY <1>1, <2>1 DEF MainStates, Ending, Ended
  <2>5. Is(main', "retire", "take", "abort") /\ main'.item = main.item
        /\ main'.answer = <<>> /\ main'.batch = <<>>
    BY <2>1, <2>4, TurnsToBoundary DEF Bare
  <2>6. Shape'
    BY <1>1, <1>3, <2>5 DEF Is, Shape, CrossingPcs, CarryingPcs, Ended
  <2>7. Boundary'
    BY <1>1, <1>3, <1>4, <2>1, <2>3, <2>5 DEF Is, Boundary
  <2>8. Acknowledged' /\ Waking'
    BY <1>1, <1>3, <1>4, <2>1, <2>3, <2>4, <2>5 DEF Is, Acknowledged, Waking, Ended
  <2>9. Ending'
    BY <1>1, <1>3, <2>1, <2>4, <2>5 DEF Is, Ending, Ended
  <2> QED BY <2>6, <2>7, <2>8, <2>9 DEF Course
<1>13. CASE Returns
  <2>1. /\ main.pc = "take" /\ state = "EXITED" /\ running = None /\ ~wakeup'
        /\ main' = [main EXCEPT !.pc = "returned"]
        /\ UNCHANGED <<notices, open, outbox, owed, held, written>>
    BY <1>13 DEF Returns, MainAt, Go
  <2>2. /\ main'.pc = "returned" /\ main'.answer = main.answer /\ main'.item = main.item
        /\ main'.next = main.next /\ main'.cause = main.cause /\ main'.batch = main.batch
    BY <1>1, <2>1 DEF MainStates
  <2>3. Bare(main) /\ main.cause = "none" /\ main = Idle
    BY <1>1, <2>1, WaitingFacts
  <2>4. Shape'
    BY <1>1, <1>3, <2>1, <2>2, <2>3 DEF Bare, Shape, CrossingPcs, CarryingPcs, Ended
  <2>5. Boundary'
    BY <1>1, <1>3, <2>1, <2>2 DEF Boundary
  <2>6. Acknowledged' /\ Waking'
    BY <1>1, <1>3, <2>1, <2>2 DEF Acknowledged, Waking, Ended
  <2>7. Ending'
    BY <1>1, <1>3, <2>1, <2>2 DEF Boundary, Ending, Ended
  <2> QED BY <2>4, <2>5, <2>6, <2>7 DEF Course
<1> QED BY <1>6, <1>7, <1>8, <1>9, <1>10, <1>11, <1>12, <1>13 DEF MainAnswers

\* Every step keeps the course.
LEMMA CourseStep ==
    ASSUME RuntimeInv, [Next]_vars
    PROVE  Course'
<1>1. CASE ClientSends \/ ReaderStep \/ WorkerStep \/ \E t \in {"main", "worker"} : RefreshStep(t)
  BY <1>1, CourseOthers
<1>2. CASE MainTakes
  <2>1. UNCHANGED <<refresh, written>>
    BY <1>2 DEF MainTakes
  <2> QED BY <1>2, <2>1, CourseTakes, CourseCompletes
<1>3. CASE MainReplays
  BY <1>3, CourseReplays
<1>4. CASE MainDispatches
  BY <1>4, CourseDispatches
<1>5. CASE MainCrosses
  BY <1>5, CourseCrosses
<1>6. CASE MainAnswers
  BY <1>6, CourseAnswers
<1>7. CASE UNCHANGED vars
  <2>1. /\ UNCHANGED <<main, running, held, failed, state, exitCode, written, open, wakeup>>
        /\ UNCHANGED <<notices, owed, outbox, events, refresh>>
    BY <1>7 DEF vars, outboxVars, queueVars, sessionVars
  <2>2. Waking'
    BY <2>1 DEF RuntimeInv, Course, Waking, ReadyWaits, Ended
  <2> QED BY <2>1, <2>2, CourseFrame DEF RuntimeInv
<1> QED BY <1>1, <1>2, <1>3, <1>4, <1>5, <1>6, <1>7 DEF Next, MainStep

-----------------------------------------------------------------------------
(***************************************************************************)
(* The theorems.                                                           *)
(***************************************************************************)

\* The session starts in the invariant.
LEMMA InitRuntime ==
    ASSUME Init
    PROVE  RuntimeInv
<1> USE RuntimeAssumption
<1>1. /\ <<>> \in Seq(Requests) /\ <<>> \in Seq({Notice} \cup {RemoteCancel(r) : r \in Requests})
      /\ <<>> \in Seq(Items) /\ <<>> \in Seq(Ids) /\ <<>> \in Seq(Messages) /\ DOMAIN <<>> = {}
  BY EmptySeq, LenProperties
<1>2. TrackerTypeOK
  BY DEF Init, TrackerInit, TrackerTypeOK, Generations
<1>3. OutboxTyped
  <2>1. {o \in DOMAIN refresh : refresh[o] = "checked"} = {}
    BY DEF Init
  <2>2. Cardinality({o \in DOMAIN refresh : refresh[o] = "checked"}) = 0
    BY <2>1, FS_EmptySet
  <2>3. notices \in Seq({Notice} \cup {RemoteCancel(r) : r \in Requests}) /\ outbox \in Seq(Requests)
    BY <1>1 DEF Init, OutboxInit
  <2>4. nextRequest = 1 /\ owed = {} /\ open = TRUE /\ wakeup = TRUE
    BY DEF Init, OutboxInit
  <2> QED BY <2>2, <2>3, <2>4 DEF OutboxTyped, OutboxTypeOK
<1>4. ClientTypeOK /\ ReaderTyped
  BY DEF Init, ClientTypeOK, ReaderTyped, ReaderTypeOK, Generations
<1>5. QueueTyped
  BY <1>1 DEF Init, QueueTyped, QueueTypeOK
<1>6. MainTyped
  <2>1. main = Idle
    BY DEF Init
  <2> QED BY <1>1, <2>1, IdleForms DEF MainTyped, MainTypeOK, MainStates
<1>7. SessionTyped
  BY DEF Init, SessionTyped, SessionTypeOK
<1>8. WorkTyped
  <2>1. worker = NoWork /\ edition = 0 /\ written = <<>>
        /\ refresh = [t \in {"main", "worker"} |-> "none"]
    BY DEF Init
  <2> QED BY <1>1, <2>1, NoWorkTyped DEF WorkTyped, WorkTypeOK
<1>9. Lane
  <2>1. Completions = {}
    BY <1>1 DEF Init, Completions
  <2>2. worker.pc = "off" /\ worker.outcome = "none"
    BY DEF Init, NoWork
  <2> QED BY <2>1, <2>2 DEF Init, TrackerInit, Lane
<1>10. /\ main = Idle /\ Is(main, "take", "take", "none") /\ Bare(main) /\ main.item.kind = "other"
       /\ ~Null(<<>>) /\ ~Noisy(<<>>)
  BY IdleIs, SilentFacts DEF Init
<1>11. Shape
  BY <1>10 DEF Init, Is, Bare, Shape, CrossingPcs, CarryingPcs, Ended
<1>12. Boundary
  BY <1>10 DEF Init, OutboxInit, Is, Bare, Boundary
<1>13. Acknowledged /\ Ending /\ Waking
  BY <1>10, NoneAssumption DEF Init, OutboxInit, Is, Acknowledged, Ending, Waking, Ended
<1> QED BY <1>2, <1>3, <1>4, <1>5, <1>6, <1>7, <1>8, <1>9, <1>11, <1>12, <1>13
        DEF RuntimeInv, Typed, Course

\* Every step keeps the invariant.
LEMMA NextRuntime ==
    ASSUME RuntimeInv, [Next]_vars
    PROVE  RuntimeInv'
BY TypedStep, LaneStep, CourseStep DEF RuntimeInv, Course

\* The invariant of the session: the types; one request at a time, from the start of
\* its worker to its completion; and what main carries to and over the boundaries.
THEOREM RuntimeKeepsInvariant == Spec => []RuntimeInv
<1>1. Init => RuntimeInv
  BY InitRuntime
<1>2. RuntimeInv /\ [Next]_vars => RuntimeInv'
  BY NextRuntime
<1> QED BY <1>1, <1>2, PTL DEF Spec

\* Every variable of the three threads stays in its type, for any ids, frames,
\* requests and failures (run_session).
THEOREM RuntimeTyped == Spec => []TypeOK
<1>1. RuntimeInv => TypeOK
  BY DEF RuntimeInv, Typed, OutboxTyped, ReaderTyped, QueueTyped, MainTyped, SessionTyped,
         WorkTyped, TypeOK
<1> QED BY <1>1, RuntimeKeepsInvariant, PTL

\* run_session returns success only if the acknowledgement of the shutdown was
\* written and exit was handled behind it, whatever failed meanwhile.
THEOREM SuccessIsAcknowledged == Spec => []SuccessMeansAcknowledged
<1>1. RuntimeInv => SuccessMeansAcknowledged
  BY DEF RuntimeInv, Course, Acknowledged, Null, Responses, SuccessMeansAcknowledged
<1> QED BY <1>1, RuntimeKeepsInvariant, PTL

\* A session that returned left no context, no request owed or queued, no
\* notification and no wakeup, and its worker is not executing (run_session's
\* terminal paths and its finally).
THEOREM ReturnIsQuiet == Spec => []QuietAtReturn
<1>1. ASSUME RuntimeInv, main.pc = "returned"
      PROVE  worker.pc = "off" /\ \A id \in Ids : active[id] = 0
  <2>1. running = None
    BY <1>1 DEF RuntimeInv, Course, Shape, Ended
  <2> QED BY <1>1, <2>1 DEF RuntimeInv, Lane
<1>2. RuntimeInv => QuietAtReturn
  BY <1>1 DEF RuntimeInv, Course, Ending, QuietAtReturn
<1> QED BY <1>2, RuntimeKeepsInvariant, PTL

\* Main never waits for events while a request to the client sits in the outbox,
\* unless a thread is about to put the wakeup in its queue: the wakeup posted
\* outside the lock of the outbox is enough.
THEOREM WakeupsAreKept == Spec => []NoLostWakeup
<1>1. ASSUME RuntimeInv, main.pc = "take", events = <<>>, outbox # <<>>, state = "RUNNING", ~failed
      PROVE  \E t \in {"main", "worker"} : refresh[t] = "waking"
  <2>1. ~ReadyWaits
    BY <1>1, EmptySeq, LenProperties DEF ReadyWaits
  <2> QED BY <1>1, <2>1 DEF RuntimeInv, Course, Waking, Ended
<1>2. RuntimeInv => NoLostWakeup
  BY <1>1 DEF NoLostWakeup
<1> QED BY <1>2, RuntimeKeepsInvariant, PTL

\* A shutdown is acknowledged only when the worker has completed and no context is
\* registered: a live shutdown is held until then.
THEOREM ShutdownWaits == Spec => []ShutdownWaitsForWorker
<1>1. ASSUME RuntimeInv, \E i \in Responses : written[i].outcome = "null"
      PROVE  worker.pc = "off" /\ \A id \in Ids : active[id] = 0
  <2>1. Null(written)
    BY <1>1 DEF Responses, Null
  <2>2. running = None
    BY <1>1, <2>1 DEF RuntimeInv, Course, Boundary
  <2> QED BY <1>1, <2>2 DEF RuntimeInv, Lane
<1>2. RuntimeInv => ShutdownWaitsForWorker
  BY <1>1 DEF ShutdownWaitsForWorker
<1> QED BY <1>2, RuntimeKeepsInvariant, PTL

\* Only a write of a batch changes what was written.
LEMMA WritesOrNot ==
    ASSUME MainTypeOK, [Next]_vars
    PROVE  \/ UNCHANGED written
           \/ \E k \in 0..Len(main.batch) : Deliver(k)
<1>1. CASE ClientSends \/ ReaderStep \/ WorkerStep \/ \E t \in {"main", "worker"} : RefreshStep(t)
  BY <1>1 DEF ClientSends, ReaderStep, WorkerStep, RefreshStep
<1>2. CASE MainTakes \/ MainReplays \/ MainDispatches \/ MainCrosses
  BY <1>2 DEF MainTakes, MainReplays, MainDispatches, MainCrosses
<1>3. CASE MainAnswers
  <2>1. CASE Writes
    <3>1. main.batch \in Seq(Messages)
      BY DEF MainTypeOK
    <3>2. Len(main.batch) \in Nat
      BY <3>1, LenProperties
    <3>3. Deliver(Len(main.batch))
      BY <2>1 DEF Writes
    <3> QED BY <3>2, <3>3
  <2>2. CASE WriteFails
    BY <2>2 DEF WriteFails
  <2>3. CASE MainClears \/ MainDiscards \/ CancelsRunning \/ TakesNotices \/ TakesRequests \/ Returns
    BY <2>3 DEF MainClears, MainDiscards, CancelsRunning, TakesNotices, TakesRequests, Returns
  <2> QED BY <1>3, <2>1, <2>2, <2>3 DEF MainAnswers
<1>4. CASE UNCHANGED vars
  BY <1>4 DEF vars
<1> QED BY <1>1, <1>2, <1>3, <1>4 DEF Next, MainStep

\* What is written behind an acknowledgement, and the batch that holds it, was
\* taken from the closed outbox.
LEMMA SilenceStep ==
    ASSUME RuntimeInv, NoNoticeAfterShutdown, [Next]_vars
    PROVE  NoNoticeAfterShutdown'
<1>1. CASE UNCHANGED written
  BY <1>1 DEF NoNoticeAfterShutdown
<1>2. ASSUME NEW k \in 0..Len(main.batch), Deliver(k)
      PROVE  NoNoticeAfterShutdown'
  <2>1. /\ written \in Seq(Messages) /\ answered \in SUBSET Generations
        /\ main.batch \in Seq(Messages) /\ \A i \in DOMAIN main.batch : SoundMessage(main.batch[i])
    BY DEF RuntimeInv, Typed, WorkTyped, WorkTypeOK, ClientTypeOK, MainTyped, MainTypeOK
  <2>2. /\ DOMAIN written = 1..Len(written) /\ Len(written) \in Nat
        /\ DOMAIN written' = 1..(Len(written) + k)
        /\ \A i \in DOMAIN written : written'[i] = written[i]
        /\ \A i \in DOMAIN written' : i \notin DOMAIN written =>
              i - Len(written) \in DOMAIN main.batch /\ written'[i] = main.batch[i - Len(written)]
    BY <1>2, <2>1, DeliverFacts
  <2>3. Null(written) \/ Null(main.batch) => ~Noisy(main.batch)
    BY DEF RuntimeInv, Course, Boundary
  <2>4. ASSUME NEW i \in DOMAIN written', NEW j \in DOMAIN written',
               written'[i].kind = "response", written'[i].outcome = "null",
               written'[j].kind = "notice"
        PROVE  j < i
    <3>1. Null(written) \/ Null(main.batch)
      BY <2>2, <2>4 DEF Null
    <3>2. j \in DOMAIN written
      BY <2>2, <2>3, <2>4, <3>1 DEF Noisy
    <3>3. CASE i \in DOMAIN written
      BY <2>2, <2>4, <3>2, <3>3 DEF NoNoticeAfterShutdown
    <3>4. CASE i \notin DOMAIN written
      BY <2>2, <3>2, <3>4
    <3> QED BY <3>3, <3>4
  <2> QED BY <2>4 DEF NoNoticeAfterShutdown
<1>3. MainTypeOK
  BY DEF RuntimeInv, Typed, MainTyped
<1> QED BY <1>1, <1>2, <1>3, WritesOrNot

\* Behind the acknowledgement of the shutdown the client sees no ordinary
\* notification, even of a worker that races with the boundary (close_notifications
\* and the order in which a batch is taken).
THEOREM SilentAfterShutdown == Spec => []NoNoticeAfterShutdown
<1>1. Init => NoNoticeAfterShutdown
  BY EmptySeq, LenProperties DEF Init, NoNoticeAfterShutdown
<1>2. RuntimeInv /\ NoNoticeAfterShutdown /\ [Next]_vars => NoNoticeAfterShutdown'
  BY SilenceStep
<1> QED BY <1>1, <1>2, RuntimeKeepsInvariant, PTL DEF Spec

-----------------------------------------------------------------------------
(***************************************************************************)
(* Requests and the edits sent before them.                                *)
(***************************************************************************)

\* Main is to dispatch its item, and the item is an edit.
Carries == main.pc = "dispatch" \/ main.next = "dispatch"
Pending == Carries /\ main.item.kind = "edit"

\* An edit numbered a or later has been applied, or main has it, or it is in
\* front of the i-th event.
Before(i, a) ==
    \/ a <= edition
    \/ Pending /\ a <= main.item.n
    \/ \E j \in DOMAIN events : j < i /\ events[j].kind = "edit" /\ a <= events[j].n

\* The edits wait in their order, and whatever was sent behind an edit waits
\* behind it.
Line ==
    /\ \A i \in DOMAIN events : Before(i, events[i].after)
    /\ Before(Len(events) + 1, lastEdit)
    /\ \A i \in DOMAIN deferred : deferred[i].after <= edition
    /\ Carries => main.item.after <= edition
    /\ Pending => edition <= main.item.n
    /\ \A i \in DOMAIN events : events[i].kind = "edit" =>
          edition <= events[i].n /\ (Pending => main.item.n <= events[i].n)
    /\ \A i, j \in DOMAIN events :
          i < j /\ events[i].kind = "edit" /\ events[j].kind = "edit" => events[i].n <= events[j].n

\* No edit has a number that was not given.
Numbered ==
    /\ edition <= frames
    /\ Pending => main.item.n <= frames
    /\ \A i \in DOMAIN events : events[i].kind = "edit" => events[i].n <= frames
    /\ \A i \in DOMAIN deferred : deferred[i].kind # "edit"

\* The request being executed was sent behind no edit that is not applied.
Behind ==
    /\ worker.pc # "off" => worker.item.after <= edition
    /\ worker.pc \notin {"off", "route", "capture"} /\ worker.outcome # "refused" =>
          worker.item.after <= worker.edition
    /\ worker.pc \in {"route", "capture", "start", "work", "commit"} => worker.outcome = "none"

InLine == (state = "RUNNING" /\ ~failed => Line) /\ Numbered

Ordered == InLine /\ Behind

\* Numbers are numbers.
LEMMA NumberFacts ==
    ASSUME Typed
    PROVE  /\ edition \in Nat /\ frames \in Nat /\ lastEdit \in Nat
           /\ events \in Seq(Items) /\ deferred \in Seq(Items) /\ main.item \in Items
           /\ DOMAIN events = 1..Len(events) /\ Len(events) \in Nat
           /\ DOMAIN deferred = 1..Len(deferred) /\ Len(deferred) \in Nat
           /\ \A i \in DOMAIN events : events[i] \in Items /\ events[i].n \in Nat /\ events[i].after \in Nat
           /\ main.item.n \in Nat /\ main.item.after \in Nat
<1>1. events \in Seq(Items) /\ deferred \in Seq(Items) /\ main.item \in Items
  BY DEF Typed, QueueTyped, QueueTypeOK, MainTyped, MainTypeOK
<1>2. edition \in Nat /\ frames \in Nat /\ lastEdit \in Nat
  BY RuntimeAssumption DEF Typed, WorkTyped, WorkTypeOK, ClientTypeOK
<1>3. /\ DOMAIN events = 1..Len(events) /\ Len(events) \in Nat
      /\ DOMAIN deferred = 1..Len(deferred) /\ Len(deferred) \in Nat
      /\ \A i \in DOMAIN events : events[i] \in Items
  BY <1>1, LenProperties, ElementOfSeq
<1>4. \A f \in Items : f.n \in Nat /\ f.after \in Nat
  BY RuntimeAssumption DEF Items
<1> QED BY <1>1, <1>2, <1>3, <1>4

\* Main turns to something else; the queues stay.
LEMMA LineStays ==
    ASSUME Typed, InLine, UNCHANGED <<events, deferred, edition, frames, lastEdit>>,
           state' = "RUNNING" /\ ~failed' => state = "RUNNING" /\ ~failed,
           Pending' <=> Pending, Carries' => Carries /\ main'.item = main.item
    PROVE  InLine'
<1>1. Pending' => main'.item = main.item
  BY DEF Pending
<1>2. ASSUME Line PROVE Line'
  <2>1. \A i \in Nat, a \in Nat : Before(i, a) => Before(i, a)'
    BY <1>1 DEF Before
  <2>2. \A i \in DOMAIN events : Before(i, events[i].after)'
    BY <1>2, <2>1, NumberFacts DEF Line
  <2>3. Before(Len(events) + 1, lastEdit)'
    BY <1>2, <2>1, NumberFacts DEF Line
  <2> QED BY <1>1, <1>2, <2>2, <2>3 DEF Line
<1>3. Numbered'
  BY <1>1 DEF InLine, Numbered
<1> QED BY <1>2, <1>3 DEF InLine

\* What is sent comes behind every edit sent before it.
LEMMA LineAppends ==
    ASSUME Typed, InLine, NEW f \in Items, events' = Append(events, f),
           UNCHANGED <<main, deferred, edition, state, failed>>,
           frames' \in Nat, frames <= frames',
           state = "RUNNING" /\ ~failed /\ Line => Before(Len(events) + 1, f.after),
           \/ f.kind # "edit" /\ lastEdit' = lastEdit
           \/ f.kind = "edit" /\ f.n = frames' /\ lastEdit' = f.n
    PROVE  InLine'
<1>0. PICK n : n = Len(events)
  OBVIOUS
<1>1. /\ DOMAIN events' = 1..(n + 1) /\ DOMAIN events = 1..n /\ n \in Nat /\ Len(events') = n + 1
      /\ \A i \in 1..n : events'[i] = events[i]
      /\ events'[n + 1] = f
      /\ f.n \in Nat /\ f.after \in Nat
  <2>1. f.n \in Nat /\ f.after \in Nat
    BY RuntimeAssumption DEF Items
  <2> QED BY <1>0, <2>1, NumberFacts, AppendFacts, AppendProperties
<1>2. Pending' = Pending /\ Carries' = Carries
  BY DEF Pending, Carries
<1>3. Numbered /\ (Pending => main.item.n \in Nat)
      /\ \A i \in DOMAIN events : events[i].n \in Nat /\ events[i].after \in Nat
  BY NumberFacts DEF InLine
<1>4. Numbered'
  BY <1>1, <1>2, <1>3, NumberFacts DEF Numbered
<1>5. ASSUME Line, state = "RUNNING", ~failed PROVE Line'
  <2>1. \A i \in 1..(n + 1), a \in Nat : Before(i, a) => Before(i, a)'
    BY <1>1, <1>2 DEF Before
  <2>2. \A i \in DOMAIN events' : Before(i, events[i].after)'
    <3>1. \A i \in 1..n : Before(i, events[i].after)'
      BY <1>1, <1>3, <1>5, <2>1 DEF Line
    <3>2. Before(n + 1, f.after)'
      BY <1>0, <1>1, <1>5, <2>1
    <3> QED BY <1>1, <3>1, <3>2
  <2>3. Before(Len(events) + 1, lastEdit)'
    <3>1. CASE f.kind # "edit"
      <4>1. Before(n + 1, lastEdit)'
        BY <1>0, <1>1, <1>5, <2>1, <3>1, NumberFacts DEF Line
      <4> QED BY <1>1, <4>1, NumberFacts DEF Before
    <3>2. CASE f.kind = "edit"
      BY <1>1, <3>2 DEF Before
    <3> QED BY <3>1, <3>2
  <2>4. \A i \in DOMAIN events' : events'[i].kind = "edit" =>
           edition' <= events'[i].n /\ (Pending' => main'.item.n <= events'[i].n)
    BY <1>1, <1>2, <1>3, <1>5, NumberFacts DEF Line, Numbered
  <2>5. \A i, j \in DOMAIN events' :
           i < j /\ events'[i].kind = "edit" /\ events'[j].kind = "edit" => events'[i].n <= events'[j].n
    BY <1>1, <1>3, <1>5, NumberFacts DEF Line, Numbered
  <2> QED BY <1>2, <1>5, <2>2, <2>3, <2>4, <2>5 DEF Line
<1> QED BY <1>4, <1>5 DEF InLine

\* Main takes the first event.
LEMMA LineTaken ==
    ASSUME Typed, InLine, events # <<>>, events' = Tail(events), ~Carries,
           UNCHANGED <<deferred, edition, frames, lastEdit>>,
           state' = "RUNNING" /\ ~failed' => state = "RUNNING" /\ ~failed,
           \/ Carries' /\ main'.item = Head(events)
           \/ ~Carries' /\ (Head(events).kind # "edit" \/ failed')
    PROVE  InLine'
<1>0. PICK n : n = Len(events)
  OBVIOUS
<1>1. /\ DOMAIN events' = 1..(n - 1) /\ DOMAIN events = 1..n /\ n \in Nat /\ n >= 1 /\ Len(events') = n - 1
      /\ \A i \in 1..(n - 1) : events'[i] = events[i + 1] /\ i + 1 \in DOMAIN events
      /\ Head(events) = events[1] /\ 1 \in DOMAIN events
  BY <1>0, NumberFacts, TailFacts, HeadTailProperties
<1>2. ~Pending /\ (Pending' => Carries' /\ main'.item = events[1] /\ events[1].kind = "edit")
  BY <1>1 DEF Pending
<1>3. Numbered /\ \A i \in DOMAIN events : events[i].n \in Nat /\ events[i].after \in Nat
  BY NumberFacts DEF InLine
<1>4. Numbered'
  BY <1>1, <1>2, <1>3 DEF Numbered
<1>5. ASSUME Line, ~failed' PROVE Line'
  <2>1. \A i \in 1..n, a \in Nat : Before(i + 1, a) => Before(i, a)'
    <3> SUFFICES ASSUME NEW i \in 1..n, NEW a \in Nat, Before(i + 1, a) PROVE Before(i, a)'
      OBVIOUS
    <3>1. CASE a <= edition
      BY <3>1 DEF Before
    <3>2. ASSUME NEW j \in DOMAIN events, j < i + 1, events[j].kind = "edit", a <= events[j].n
          PROVE  Before(i, a)'
      <4>1. CASE j = 1
        <5>1. Pending' /\ main'.item = events[1]
          BY <1>1, <1>5, <3>2, <4>1 DEF Pending
        <5> QED BY <3>2, <4>1, <5>1 DEF Before
      <4>2. CASE j # 1
        <5>1. /\ j - 1 \in DOMAIN events' /\ j - 1 < i
              /\ events'[j - 1].kind = "edit" /\ a <= events'[j - 1].n
          BY <1>1, <3>2, <4>2
        <5> QED BY <5>1 DEF Before
      <4> QED BY <4>1, <4>2
    <3> QED BY <1>2, <3>1, <3>2 DEF Before
  <2>2. \A i \in DOMAIN events' : Before(i, events[i].after)'
    BY <1>1, <1>3, <1>5, <2>1 DEF Line
  <2>3. Before(Len(events) + 1, lastEdit)'
    <3>1. Before(n, lastEdit)'
      BY <1>0, <1>1, <1>5, <2>1, NumberFacts DEF Line
    <3> QED BY <1>1, <3>1
  <2>4. Carries' => main'.item.after <= edition
    <3>1. Before(1, events[1].after)
      BY <1>1, <1>5 DEF Line
    <3>2. \A j \in DOMAIN events : ~(j < 1)
      BY <1>1
    <3>3. events[1].after <= edition
      BY <1>2, <3>1, <3>2 DEF Before
    <3> QED BY <1>1, <3>3
  <2>5. (Pending' => edition <= main'.item.n) /\ \A i \in DOMAIN events' : events'[i].kind = "edit" =>
           edition' <= events'[i].n /\ (Pending' => main'.item.n <= events'[i].n)
    BY <1>1, <1>2, <1>3, <1>5 DEF Line
  <2>6. \A i, j \in DOMAIN events' :
           i < j /\ events'[i].kind = "edit" /\ events'[j].kind = "edit" => events'[i].n <= events'[j].n
    BY <1>1, <1>5 DEF Line
  <2> QED BY <1>5, <2>2, <2>3, <2>4, <2>5, <2>6 DEF Line
<1> QED BY <1>4, <1>5 DEF InLine

\* Whatever the client sends joins the line.
LEMMA LineClient ==
    ASSUME Typed, InLine, ClientSends
    PROVE  InLine'
<1>1. /\ UNCHANGED <<main, deferred, edition, state, failed>>
      /\ frames \in Nat /\ lastEdit \in 0..MaxFrames /\ frames <= MaxFrames
  BY RuntimeAssumption DEF ClientSends, sessionVars, ReadRequest, ReadNotification, ReadReply,
     ReadCancel, ReadFailure, queueVars, Typed, ClientTypeOK
<1>2. state = "RUNNING" /\ ~failed /\ Line => Before(Len(events) + 1, lastEdit)
  BY DEF Line
<1>3. Pending' = Pending /\ Carries' = Carries
  BY <1>1 DEF Pending, Carries
<1>4. ASSUME NEW kind \in AllFrameKinds, NEW id \in Ids \cup {None}, NEW n \in 0..(MaxFrames + MaxRequests)
      PROVE  LET f == Item(kind, id, n, lastEdit, "none")
             IN  f \in Items /\ f.kind = kind /\ f.n = n /\ f.after = lastEdit
  BY <1>1, <1>4 DEF Item, Items, Outcomes
<1>5. ASSUME NEW kind \in {"request", "shutdown"}, NEW id \in Ids, ReadRequest(kind, id)
      PROVE InLine'
  <2>1. PICK f : f = Item(kind, id, frames', lastEdit, "none")
    OBVIOUS
  <2>2. frames' = frames + 1 /\ frames' \in 0..(MaxFrames + MaxRequests) /\ lastEdit' = lastEdit
    BY <1>1, <1>5, RuntimeAssumption DEF ReadRequest, CanRead
  <2>3. f \in Items /\ f.kind # "edit" /\ f.after = lastEdit
    BY <1>4, <2>1, <2>2 DEF AllFrameKinds
  <2>4. events' = Append(events, f)
    BY <1>5, <2>1 DEF ReadRequest
  <2> QED BY <1>1, <1>2, <2>2, <2>3, <2>4, LineAppends
<1>6. ASSUME NEW kind \in {"edit", "other", "exit"}, ReadNotification(kind)
      PROVE InLine'
  <2>1. PICK f : f = Item(kind, None, frames', lastEdit, "none")
    OBVIOUS
  <2>2. frames' = frames + 1 /\ frames' \in 0..(MaxFrames + MaxRequests)
    BY <1>1, <1>6, RuntimeAssumption DEF ReadNotification, CanRead
  <2>3. f \in Items /\ f.kind = kind /\ f.n = frames' /\ f.after = lastEdit
    BY <1>4, <2>1, <2>2 DEF AllFrameKinds
  <2>4. events' = Append(events, f) /\ lastEdit' = IF kind = "edit" THEN frames' ELSE lastEdit
    BY <1>6, <2>1 DEF ReadNotification
  <2> QED BY <1>1, <1>2, <2>2, <2>3, <2>4, LineAppends
<1>7. ASSUME NEW r \in Requests, ReadReply(r)
      PROVE InLine'
  <2>1. PICK f : f = Item("reply", None, r, lastEdit, "none")
    OBVIOUS
  <2>2. frames' = frames + 1 /\ r \in 0..(MaxFrames + MaxRequests) /\ lastEdit' = lastEdit
    BY <1>1, <1>7, RuntimeAssumption DEF ReadReply, CanRead, Requests
  <2>3. f \in Items /\ f.kind # "edit" /\ f.after = lastEdit
    BY <1>4, <2>1, <2>2 DEF AllFrameKinds
  <2>4. events' = Append(events, f)
    BY <1>7, <2>1 DEF ReadReply
  <2> QED BY <1>1, <1>2, <2>2, <2>3, <2>4, LineAppends
<1>8. ASSUME NEW id \in Ids, ReadCancel(id) PROVE InLine'
  <2>1. /\ UNCHANGED <<events, lastEdit>> /\ frames' = frames + 1
    BY <1>8 DEF ReadCancel, CanRead, queueVars
  <2>2. Line => Line'
    BY <1>1, <1>3, <2>1 DEF Line, Before
  <2>3. Numbered'
    BY <1>1, <1>3, <2>1, NumberFacts DEF InLine, Numbered
  <2> QED BY <1>1, <2>2, <2>3 DEF InLine
<1>9. CASE ReadFailure
  <2>1. Failure \in Items /\ Failure.kind # "edit" /\ Failure.after = 0
    BY RuntimeAssumption DEF Failure, Item, Items, Outcomes
  <2>2. UNCHANGED <<frames, lastEdit>> /\ events' = Append(events, Failure)
    BY <1>9 DEF ReadFailure, clientVars
  <2>3. Before(Len(events) + 1, Failure.after)
    BY <2>1, NumberFacts DEF Before
  <2> QED BY <1>1, <2>1, <2>2, <2>3, LineAppends
<1> QED BY <1>5, <1>6, <1>7, <1>8, <1>9 DEF ClientSends

\* The reader, a wakeup and a completion: they carry no edit.
LEMMA LineOthers ==
    ASSUME Typed, InLine, Behind,
           ReaderStep \/ WorkerStep \/ \E t \in {"main", "worker"} : RefreshStep(t)
    PROVE  InLine'
<1>1. UNCHANGED <<main, deferred, edition, state, failed, frames, lastEdit>>
  BY DEF ReaderStep, ReaderStages, ReaderPosts, WorkerStep, RefreshStep, sessionVars, clientVars,
         queueVars
<1>2. frames \in Nat /\ worker.item \in Items
  BY NumberFacts DEF Typed, WorkTyped, WorkTypeOK
<1>3. ASSUME events' = events PROVE InLine'
  <2>1. Pending' = Pending /\ Carries' = Carries
    BY <1>1 DEF Pending, Carries
  <2> QED BY <1>1, <1>3, <2>1, LineStays
<1>4. ASSUME NEW f \in Items, f.kind # "edit", f.after <= edition, events' = Append(events, f)
      PROVE  InLine'
  <2>1. Before(Len(events) + 1, f.after)
    BY <1>4 DEF Before
  <2> QED BY <1>1, <1>2, <1>4, <2>1, LineAppends
<1>5. CASE ReaderStep
  BY <1>3, <1>5 DEF ReaderStep, ReaderStages, ReaderPosts, queueVars
<1>6. CASE WorkerStep
  <2>1. CASE WorkerCompletes
    <3>1. PICK f : f = [worker.item EXCEPT !.kind = "completed", !.outcome = worker.outcome]
      OBVIOUS
    <3>2. f \in Items /\ f.kind = "completed" /\ f.after = worker.item.after
      BY <1>2, <3>1 DEF Items, Typed, WorkTyped, WorkTypeOK
    <3>3. events' = Append(events, f) /\ worker.pc = "complete"
      BY <2>1, <3>1 DEF WorkerCompletes, WorkerAt
    <3> QED BY <1>4, <3>2, <3>3 DEF Behind
  <2>2. CASE ~WorkerCompletes
    <3>1. events' = events
      BY <1>6, <2>2 DEF WorkerStep, WorkerRoutes, WorkerCaptures, WorkerStarts, WorkerNotifies,
         WorkerChecks, WorkerCommits, WorkerRaises, WorkerFinishes, WorkerClears, WorkerDiscards
    <3> QED BY <1>3, <3>1
  <2> QED BY <2>1, <2>2
<1>7. ASSUME NEW t \in {"main", "worker"}, RefreshStep(t) PROVE InLine'
  <2>1. CASE WakeTransport(t)
    <3>1. Ready \in Items /\ Ready.kind # "edit" /\ Ready.after = 0
      BY RuntimeAssumption DEF Ready, Item, Items, Outcomes
    <3>2. events' = Append(events, Ready)
      BY <2>1 DEF WakeTransport
    <3> QED BY <1>4, <3>1, <3>2, NumberFacts
  <2>2. CASE CheckRefresh(t) \/ PostRefresh(t)
    BY <1>3, <2>2 DEF CheckRefresh, PostRefresh
  <2> QED BY <1>7, <2>1, <2>2 DEF RefreshStep
<1> QED BY <1>5, <1>6, <1>7

\* Main takes an item: an event leaves the line for main, or is dropped once the
\* output failed; a deferred frame is no edit.
LEMMA LineMainTakes ==
    ASSUME RuntimeInv, InLine, MainTakes
    PROVE  InLine'
<1>1. /\ Typed /\ main.pc = "take" /\ main = Idle /\ Is(main, "take", "take", "none") /\ ~Carries
      /\ main.item \in Items /\ deferred \in Seq(Items)
  <2>1. main.pc = "take"
    BY DEF MainTakes, TakesDeferred, TakesDropped, TakesFrame, TakesReady, TakesFailure,
           TakesCompletion, TakesEvent, Taking, MainAt
  <2>2. main = Idle /\ Is(main, "take", "take", "none")
    BY <2>1, IdleIs DEF RuntimeInv, Course, Shape
  <2> QED BY <2>1, <2>2, NumberFacts DEF RuntimeInv, Carries, Is
<1>2. /\ UNCHANGED <<edition, frames, lastEdit, state, failed>>
  BY DEF MainTakes, clientVars, TakesDeferred, TakesDropped, TakesFrame, TakesReady, TakesFailure,
         TakesCompletion, sessionVars
<1>3. "dispatch" \in MainPcs /\ "drainNotices" \in MainPcs /\ "raised" \in MainPcs
      /\ Idle.pc = "take" /\ Idle.next = "take"
  BY IdleForms DEF MainPcs
<1>4. CASE TakesDeferred
  <2>1. PICK f \in Items : f = Head(deferred) /\ f = deferred[1] /\ 1 \in DOMAIN deferred
    BY <1>1, <1>4, TailFacts DEF TakesDeferred
  <2>2. /\ deferred' = Tail(deferred) /\ events' = events
        /\ main' = Replaying(f, "dispatch", <<>>)
    BY <1>4, <2>1 DEF TakesDeferred
  <2>3. main'.pc = "replay" /\ main'.next = "dispatch" /\ main'.item = f
    BY <2>2 DEF Replaying, Idle
  <2>4. f.kind # "edit" /\ ~Pending /\ ~Pending'
    BY <1>1, <2>1, <2>3 DEF InLine, Numbered, Pending
  <2>5. \A i \in DOMAIN deferred' : \E j \in DOMAIN deferred : deferred'[i] = deferred[j]
    BY <1>1, <1>4, <2>2, TailFacts DEF TakesDeferred
  <2>6. ASSUME Line PROVE Line'
    <3>1. Carries' => main'.item.after <= edition
      BY <2>1, <2>3, <2>6 DEF Line
    <3> QED BY <1>2, <2>2, <2>4, <2>5, <2>6, <3>1 DEF Line, Before
  <2>7. Numbered'
    BY <1>2, <2>2, <2>4, <2>5 DEF InLine, Numbered
  <2> QED BY <1>2, <2>6, <2>7 DEF InLine
<1>5. ASSUME NEW kinds, TakesEvent(kinds), ~TakesDeferred
      PROVE  events # <<>> /\ events' = Tail(events) /\ UNCHANGED deferred /\ Head(events).kind \in kinds
  BY <1>5 DEF TakesEvent
<1>6. CASE TakesDropped
  <2>1. /\ TakesEvent(AllFrameKinds \cup {"ready", "failure"}) /\ failed /\ main' = main
    BY <1>6 DEF TakesDropped, Dropping
  <2>2. ~Carries' /\ failed'
    BY <1>1, <1>2, <2>1 DEF Carries
  <2> QED BY <1>1, <1>2, <2>1, <2>2, LineTaken DEF TakesEvent
<1>7. CASE TakesFrame
  <2>1. /\ TakesEvent(AllFrameKinds) /\ main' = Replaying(Head(events), "dispatch", <<>>)
    BY <1>7 DEF TakesFrame
  <2>2. Carries' /\ main'.item = Head(events)
    BY <2>1 DEF Replaying, Idle, Carries
  <2> QED BY <1>1, <1>2, <2>1, <2>2, LineTaken DEF TakesEvent
<1>8. CASE TakesReady
  <2>1. TakesEvent({"ready"}) /\ (main' = Idle \/ main' = [Idle EXCEPT !.pc = "drainNotices"])
    BY <1>8 DEF TakesReady
  <2>2. ~Carries'
    BY <2>1 DEF Idle, Carries
  <2> QED BY <1>1, <1>2, <2>1, <2>2, LineTaken DEF TakesEvent
<1>9. CASE TakesFailure
  <2>1. TakesEvent({"failure"}) /\ main' = Crossing(Failure, "abort")
    BY <1>9 DEF TakesFailure
  <2>2. ~Carries'
    BY <2>1 DEF Crossing, Idle, Carries
  <2> QED BY <1>1, <1>2, <2>1, <2>2, LineTaken DEF TakesEvent
<1>10. CASE TakesCompletion
  <2>1. TakesEvent({"completed"})
    BY <1>10 DEF TakesCompletion
  <2>2. ~Carries'
    <3>1. PICK done : done = Head(events)
      OBVIOUS
    <3>2. PICK answer, batch : answer = <<Response(done.n, done.outcome)>>
             /\ batch = Front(held) \o <<Response(done.n, "cancelled"), Last(held)>>
      OBVIOUS
    <3>3. \/ main' = [Idle EXCEPT !.pc = "raised"]
          \/ main' = [Idle EXCEPT !.pc = "returned"]
          \/ main' = [Idle EXCEPT !.pc = "write", !.item = done, !.batch = batch]
          \/ main' = Replaying(done, "raised", answer)
          \/ main' = Replaying(done, "drainNotices", answer)
      BY <1>10, <3>1, <3>2 DEF TakesCompletion
    <3> QED BY <3>3 DEF Replaying, Idle, Carries
  <2> QED BY <1>1, <1>2, <2>1, <2>2, LineTaken DEF TakesEvent
<1> QED BY <1>4, <1>6, <1>7, <1>8, <1>9, <1>10 DEF MainTakes

\* Main dispatches: it has the frame no longer.
LEMMA DispatchCarries ==
    ASSUME RuntimeInv, MainDispatches
    PROVE  /\ (Carries <=> main.pc = "dispatch") /\ ~Carries' /\ ~Pending'
           /\ main.next = "drainNotices" /\ main.pc \in {"dispatch", "edited"} /\ ~failed
<1>1. main.pc \in {"dispatch", "edited"}
  BY DEF MainDispatches, Defers, StartsWorker, RefusesRequest, AcceptsShutdown, AcceptsExit,
         AppliesEdit, ConsumesReply, HandlesOther, EditHandled, Dispatching, MainAt
<1>2. Shape /\ Ending /\ main \in MainStates
  BY DEF RuntimeInv, Course, Typed, MainTyped, MainTypeOK, MainStates
<1>3. main.next = "drainNotices" /\ (Carries <=> main.pc = "dispatch") /\ ~failed
  BY <1>1, <1>2 DEF Shape, Ending, Ended, Carries
<1>4. Idle.pc = "take" /\ Idle.next = "take"
  BY IdleForms
<1>5. ASSUME Defers \/ StartsWorker PROVE ~Carries'
  BY <1>4, <1>5 DEF Defers, StartsWorker, Carries
<1>6. ASSUME RefusesRequest PROVE ~Carries'
  <2>1. PICK a : a = <<Response(main.item.n, "refused")>>
    OBVIOUS
  <2>2. main' = [main EXCEPT !.pc = "clear", !.answer = a]
    BY <1>6, <2>1 DEF RefusesRequest
  <2> QED BY <1>2, <1>3, <2>2 DEF MainStates, Carries
<1>7. ASSUME AcceptsShutdown \/ AcceptsExit PROVE ~Carries'
  BY <1>7 DEF AcceptsShutdown, AcceptsExit, Crossing, Idle, Carries
<1>8. ASSUME AppliesEdit \/ ConsumesReply \/ HandlesOther \/ EditHandled PROVE ~Carries'
  <2>1. PICK pc \in {"edited", "replay"} : main' = [main EXCEPT !.pc = pc]
    BY <1>8 DEF AppliesEdit, ConsumesReply, HandlesOther, EditHandled, Go
  <2> QED BY <1>2, <1>3, <2>1 DEF MainStates, Carries
<1>9. ~Carries'
  BY <1>5, <1>6, <1>7, <1>8 DEF MainDispatches
<1> QED BY <1>1, <1>3, <1>9 DEF Pending

\* Main dispatches: an edit is applied, and a frame that is deferred is no edit.
LEMMA LineDispatches ==
    ASSUME RuntimeInv, InLine, MainDispatches
    PROVE  InLine'
<1>1. /\ Typed /\ main \in MainStates /\ ~failed /\ main.next = "drainNotices"
      /\ (Carries <=> main.pc = "dispatch") /\ main.pc \in {"dispatch", "edited"}
      /\ main.item \in Items
  BY NumberFacts, DispatchCarries
     DEF RuntimeInv, Typed, MainTyped, MainTypeOK, MainStates
<1>2. UNCHANGED <<events, frames, lastEdit, state, failed>>
  BY DEF MainDispatches, clientVars, Defers, StartsWorker, RefusesRequest, AcceptsShutdown, AcceptsExit,
         AppliesEdit, ConsumesReply, HandlesOther, EditHandled, sessionVars
<1>3. Idle.pc = "take" /\ Idle.next = "take"
  BY IdleForms
<1>4. CASE Defers
  <2>1. main.pc = "dispatch" /\ main.item.kind # "edit" /\ deferred' = Append(deferred, main.item)
        /\ main' = Idle /\ edition' = edition
    BY <1>4 DEF Defers, MainAt, Foreground, LiveEdit
  <2>2. ~Pending /\ ~Pending' /\ Carries /\ ~Carries'
    BY <1>1, <1>3, <2>1 DEF Pending, Carries
  <2>3. \A i \in DOMAIN deferred' : deferred'[i] = main.item
                                    \/ \E j \in DOMAIN deferred : deferred'[i] = deferred[j]
    BY <1>1, <2>1, NumberFacts, AppendFacts
  <2>4. Line => Line'
    BY <1>2, <2>1, <2>2, <2>3 DEF Line, Before
  <2>5. Numbered'
    BY <1>2, <2>1, <2>2, <2>3 DEF InLine, Numbered
  <2> QED BY <1>2, <2>4, <2>5 DEF InLine
<1>5. CASE AppliesEdit
  <2>1. /\ main.pc = "dispatch" /\ main.item.kind = "edit" /\ deferred' = deferred
        /\ edition' = IF state = "RUNNING" THEN main.item.n ELSE edition
        /\ main' = [main EXCEPT !.pc = IF state = "RUNNING" THEN "edited" ELSE "replay"]
    BY <1>5 DEF AppliesEdit, Dispatching, MainAt, Go
  <2>2. main'.next = "drainNotices" /\ main'.pc \in {"edited", "replay"}
    BY <1>1, <2>1 DEF MainStates
  <2>3. Pending /\ ~Pending' /\ ~Carries'
    BY <1>1, <2>1, <2>2 DEF Pending, Carries
  <2>4. ASSUME Line, state = "RUNNING" PROVE Line'
    <3>1. edition' = main.item.n /\ edition <= edition' /\ edition' \in Nat /\ edition \in Nat
      BY <1>1, <2>1, <2>3, <2>4, NumberFacts DEF Line
    <3>2. \A i, a \in Nat : Before(i, a) => Before(i, a)'
      BY <1>2, <2>3, <3>1 DEF Before
    <3>3. \A i \in DOMAIN events' : Before(i, events[i].after)'
      BY <1>1, <1>2, <2>4, <3>2, NumberFacts DEF Line
    <3>4. Before(Len(events) + 1, lastEdit)'
      BY <1>1, <1>2, <2>4, <3>2, NumberFacts DEF Line
    <3>5. \A i \in DOMAIN deferred' : deferred'[i].after <= edition'
      <4>1. \A i \in DOMAIN deferred : deferred[i].after \in Nat
        <5>1. \A f \in Items : f.after \in Nat
          BY RuntimeAssumption DEF Items
        <5>2. \A i \in DOMAIN deferred : deferred[i] \in Items
          BY <1>1, NumberFacts, ElementOfSeq
        <5> QED BY <5>1, <5>2
      <4> QED BY <2>1, <2>4, <3>1, <4>1 DEF Line
    <3> QED BY <1>2, <2>3, <2>4, <3>1, <3>3, <3>4, <3>5 DEF Line
  <2>5. Numbered'
    BY <1>2, <2>1, <2>3 DEF InLine, Numbered
  <2> QED BY <1>2, <2>4, <2>5 DEF InLine
<1>6. ASSUME ~Defers, ~AppliesEdit PROVE UNCHANGED <<deferred, edition>> /\ ~Pending
  BY <1>1, <1>6 DEF MainDispatches, StartsWorker, RefusesRequest, AcceptsShutdown, AcceptsExit,
         ConsumesReply, HandlesOther, EditHandled, Dispatching, MainAt, Pending
<1>7. ~Carries'
  BY DispatchCarries
<1>8. ASSUME ~Defers, ~AppliesEdit PROVE InLine'
  BY <1>1, <1>2, <1>6, <1>7, <1>8, LineStays DEF Pending
<1> QED BY <1>4, <1>5, <1>8

\* Main replays, crosses a boundary or writes: it carries what it carried.
LEMMA RestCarries ==
    ASSUME RuntimeInv, MainReplays \/ MainCrosses \/ MainAnswers
    PROVE  /\ (Carries' <=> Carries) /\ (Pending' <=> Pending)
           /\ Carries => main'.item = main.item
<1>1. /\ Typed /\ Shape /\ main \in MainStates
  BY DEF RuntimeInv, Course, Typed, MainTyped, MainTypeOK, MainStates
<1>2. Idle.pc = "take" /\ Idle.next = "take"
  BY IdleForms
<1>3. CASE MainReplays
  <2>1. CASE ReplaysControl
    BY <2>1 DEF ReplaysControl, Pending, Carries
  <2>2. CASE ControlsReplayed
    <3>1. main.pc = "replay" /\ main' = [main EXCEPT !.pc = main.next, !.next = "drainNotices"]
      BY <2>2 DEF ControlsReplayed, MainAt
    <3>2. main'.pc = main.next /\ main'.next = "drainNotices" /\ main'.item = main.item
      BY <1>1, <3>1 DEF MainStates
    <3> QED BY <3>1, <3>2 DEF Carries, Pending
  <2> QED BY <1>3, <2>1, <2>2 DEF MainReplays
<1>4. CASE MainCrosses
  <2>1. ~Carries
    BY <1>1, <1>4 DEF MainCrosses, RetiresContexts, StagesRunning, RetiresOutbox, Closes, MainAt,
       Shape, Carries
  <2>2. CASE Closes
    <3>1. PICK a : a = <<Response(main.item.n, "null")>>
      OBVIOUS
    <3>2. \/ main' = [main EXCEPT !.pc = "clear", !.answer = a]
          \/ main' = Replaying(main.item, "drainNotices", <<>>)
          \/ main' = Idle
          \/ main' = [Idle EXCEPT !.pc = "returned"]
      <4>1. main.cause \in {"shutdown", "exit", "abort"}
        BY <1>1, <2>2 DEF Closes, MainAt, Shape, CrossingPcs, MainStates
      <4> QED BY <2>2, <3>1, <4>1 DEF Closes
    <3>3. ~Carries'
      <4>1. CASE main' = [main EXCEPT !.pc = "clear", !.answer = a]
        BY <1>1, <2>1, <4>1 DEF Carries, MainStates
      <4>2. CASE main' = Replaying(main.item, "drainNotices", <<>>)
        BY <4>2 DEF Carries, Replaying, Idle
      <4>3. CASE main' = Idle \/ main' = [Idle EXCEPT !.pc = "returned"]
        BY <4>3 DEF Carries, Idle
      <4> QED BY <3>2, <4>1, <4>2, <4>3
    <3> QED BY <2>1, <3>3 DEF Pending
  <2>3. CASE RetiresContexts \/ StagesRunning \/ RetiresOutbox
    <3>1. PICK pc \in {"stage", "retireOutbox", "close"} : main' = [main EXCEPT !.pc = pc]
      BY <2>3 DEF RetiresContexts, StagesRunning, RetiresOutbox, Go
    <3>2. ~Carries'
      BY <1>1, <2>1, <3>1 DEF Carries, MainStates
    <3> QED BY <2>1, <3>2 DEF Pending
  <2> QED BY <1>4, <2>2, <2>3 DEF MainCrosses
<1>5. CASE MainAnswers
  <2>1. ~Carries
    BY <1>1, <1>5 DEF MainAnswers, MainClears, MainDiscards, CancelsRunning, TakesNotices,
       TakesRequests, Writes, WriteFails, Returns, MainAt, Shape, Carries
  <2>2. CASE MainClears \/ CancelsRunning \/ Returns
    <3>1. PICK pc \in {"discard", "drainNotices", "returned"} : main' = [main EXCEPT !.pc = pc]
      BY <2>2 DEF MainClears, CancelsRunning, Returns, Go
    <3>2. ~Carries'
      BY <1>1, <2>1, <3>1 DEF Carries, MainStates
    <3> QED BY <2>1, <3>2 DEF Pending
  <2>3. CASE MainDiscards
    <3>1. \/ main' = [main EXCEPT !.pc = "stageRunning"]
          \/ main' = Replaying(main.item, "drainNotices", main.answer)
      BY <2>3 DEF MainDiscards
    <3>2. ~Carries'
      BY <1>1, <2>1, <3>1 DEF Carries, MainStates, Replaying, Idle
    <3> QED BY <2>1, <3>2 DEF Pending
  <2>4. CASE TakesNotices
    <3>1. main' = [main EXCEPT !.pc = "drainRequests", !.batch = notices]
      BY <2>4 DEF TakesNotices
    <3>2. ~Carries'
      BY <1>1, <2>1, <3>1 DEF Carries, MainStates
    <3> QED BY <2>1, <3>2 DEF Pending
  <2>5. CASE TakesRequests
    <3>1. PICK batch : batch = main.batch \o [i \in DOMAIN outbox |-> RefreshRequest(outbox[i])]
                                          \o main.answer
      OBVIOUS
    <3>2. main' = Idle \/ main' = [main EXCEPT !.pc = "write", !.batch = batch]
      BY <2>5, <3>1 DEF TakesRequests
    <3>3. ~Carries'
      BY <1>1, <1>2, <2>1, <3>2 DEF Carries, MainStates
    <3> QED BY <2>1, <3>3 DEF Pending
  <2>6. CASE Writes \/ WriteFails
    <3>1. main' = Idle \/ main' = Crossing(main.item, "abort")
      BY <2>6 DEF Writes, WriteFails
    <3>2. ~Carries'
      BY <1>2, <3>1 DEF Carries, Crossing, Idle
    <3> QED BY <2>1, <3>2 DEF Pending
  <2> QED BY <1>5, <2>2, <2>3, <2>4, <2>5, <2>6 DEF MainAnswers
<1> QED BY <1>3, <1>4, <1>5

\* The queues stay, and the edition does.
LEMMA LineRest ==
    ASSUME RuntimeInv, InLine, MainReplays \/ MainCrosses \/ MainAnswers
    PROVE  InLine'
<1>1. /\ Typed /\ Shape /\ main \in MainStates
  BY DEF RuntimeInv, Course, Typed, MainTyped, MainTypeOK, MainStates
<1>2. UNCHANGED <<events, deferred, edition, frames, lastEdit>>
  BY DEF MainReplays, MainCrosses, MainAnswers, clientVars, queueVars
<1>3. state' = "RUNNING" /\ ~failed' => state = "RUNNING" /\ ~failed
  <2>1. CASE Closes
    <3>1. main.cause \in {"shutdown", "exit", "abort"}
      BY <1>1, <2>1 DEF Closes, MainAt, Shape, CrossingPcs, MainStates
    <3>2. state' = "RUNNING" => state = "RUNNING"
      BY <2>1, <3>1 DEF Closes
    <3>3. failed => failed'
      BY <2>1 DEF Closes
    <3> QED BY <3>2, <3>3
  <2>2. CASE ~Closes
    BY <2>2 DEF MainReplays, MainCrosses, MainAnswers, sessionVars, RetiresContexts, StagesRunning,
       RetiresOutbox
  <2> QED BY <2>1, <2>2
<1> QED BY <1>1, <1>2, <1>3, RestCarries, LineStays

\* The editions only grow, the worker is started on a frame that waited for the
\* edits before it, and it captures the edition of that moment or a later one.
LEMMA BehindStep ==
    ASSUME RuntimeInv, Ordered, [Next]_vars
    PROVE  Behind'
<1>1. /\ Typed /\ Shape /\ Ending /\ InLine /\ Behind
      /\ edition \in Nat /\ main.item.n \in Nat
      /\ worker.item.after \in Nat /\ worker.edition \in Nat
      /\ worker \in [pc : WorkPcs, item : Items, edition : 0..MaxFrames,
                     outcome : Outcomes, noted : BOOLEAN]
  BY NumberFacts, RuntimeAssumption
     DEF RuntimeInv, Course, Ordered, Typed, WorkTyped, WorkTypeOK, Items
<1>2. ASSUME UNCHANGED worker, edition <= edition', edition' \in Nat PROVE Behind'
  BY <1>1, <1>2 DEF Behind
<1>3. CASE WorkerStep
  <2>1. edition' = edition
    BY <1>3 DEF WorkerStep
  <2>2. CASE WorkerRoutes
    BY <1>1, <2>1, <2>2 DEF WorkerRoutes, WorkerAt, Behind
  <2>3. CASE WorkerCaptures
    BY <1>1, <2>1, <2>3 DEF WorkerCaptures, WorkerAt, Behind
  <2>4. CASE WorkerStarts \/ WorkerNotifies \/ WorkerFinishes \/ WorkerClears \/ WorkerDiscards
    <3>1. /\ worker.pc \notin {"off", "route", "capture"}
          /\ worker.pc \in {"start", "work"} \/ worker'.pc \in {"clear", "discard", "complete"}
          /\ worker'.item = worker.item /\ worker'.edition = worker.edition
          /\ worker'.outcome = worker.outcome
      BY <1>1, <2>4 DEF WorkerStarts, WorkerNotifies, WorkerFinishes, WorkerClears, WorkerDiscards,
         WorkerAt
    <3>2. worker.pc # "off"
      BY <2>4 DEF WorkerStarts, WorkerNotifies, WorkerFinishes, WorkerClears, WorkerDiscards,
         WorkerAt
    <3> QED BY <1>1, <2>1, <3>1, <3>2 DEF Behind
  <2>5. CASE WorkerChecks \/ WorkerCommits \/ WorkerRaises
    <3>1. /\ worker.pc \in {"work", "commit"}
          /\ worker'.item = worker.item /\ worker'.edition = worker.edition
      BY <1>1, <2>5 DEF WorkerChecks, WorkerCommits, WorkerRaises, WorkerAt
    <3>2. worker'.pc \in {"finish", "commit"} /\ (worker'.pc = "commit" => worker'.outcome = worker.outcome)
      BY <1>1, <2>5 DEF WorkerChecks, WorkerCommits, WorkerRaises, WorkerAt
    <3> QED BY <1>1, <2>1, <3>1, <3>2 DEF Behind
  <2>6. CASE WorkerCompletes
    BY <2>6 DEF WorkerCompletes, NoWork, Behind
  <2> QED BY <1>3, <2>2, <2>3, <2>4, <2>5, <2>6 DEF WorkerStep
<1>4. CASE ReaderStep \/ ClientSends \/ (\E t \in {"main", "worker"} : RefreshStep(t))
           \/ MainTakes \/ MainReplays \/ MainCrosses \/ MainAnswers \/ UNCHANGED vars
  <2>1. UNCHANGED <<worker, edition>>
    BY <1>4 DEF ReaderStep, ClientSends, RefreshStep, MainTakes, MainReplays, MainCrosses, MainAnswers,
       vars
  <2> QED BY <1>1, <1>2, <2>1
<1>5. CASE MainDispatches
  <2>1. ~failed /\ (main.pc = "dispatch" => Carries)
    BY <1>1, <1>5 DEF MainDispatches, Defers, StartsWorker, RefusesRequest, AcceptsShutdown,
       AcceptsExit, AppliesEdit, ConsumesReply, HandlesOther, EditHandled, Dispatching, MainAt,
       Ending, Ended, Carries
  <2>2. CASE StartsWorker
    <3>1. /\ main.pc = "dispatch" /\ state = "RUNNING" /\ edition' = edition
          /\ worker' = [NoWork EXCEPT !.pc = "route", !.item = main.item]
      BY <2>2 DEF StartsWorker, Dispatching, MainAt
    <3>2. main.item.after <= edition
      BY <1>1, <2>1, <3>1 DEF InLine, Line
    <3>3. worker'.pc = "route" /\ worker'.item = main.item /\ worker'.outcome = "none"
      BY <3>1 DEF NoWork
    <3> QED BY <3>1, <3>2, <3>3 DEF Behind
  <2>3. CASE AppliesEdit
    <3>1. /\ main.pc = "dispatch" /\ main.item.kind = "edit" /\ worker' = worker
          /\ edition' = IF state = "RUNNING" THEN main.item.n ELSE edition
      BY <2>3 DEF AppliesEdit, Dispatching, MainAt
    <3>2. state = "RUNNING" => edition <= main.item.n
      BY <1>1, <2>1, <3>1 DEF InLine, Line, Pending
    <3> QED BY <1>1, <1>2, <3>1, <3>2
  <2>4. CASE ~StartsWorker /\ ~AppliesEdit
    <3>1. UNCHANGED <<worker, edition>>
      BY <1>5, <2>4 DEF MainDispatches, Defers, RefusesRequest, AcceptsShutdown, AcceptsExit,
         ConsumesReply, HandlesOther, EditHandled
    <3> QED BY <1>1, <1>2, <3>1
  <2> QED BY <2>2, <2>3, <2>4
<1> QED BY <1>3, <1>4, <1>5 DEF Next, MainStep

\* A request is computed on a document no older than the edits the client sent
\* before it: edits overtake what is deferred, and nothing overtakes an edit
\* (run_session's queue and its deferral, and the capture of the snapshot).
THEOREM EditsAreSeen == Spec => []RequestSeesEarlierEdits
<1>1. Init => Ordered
  <2> SUFFICES ASSUME Init PROVE Ordered
    OBVIOUS
  <2>1. /\ DOMAIN <<>> = {} /\ Len(<<>>) = 0
    BY EmptySeq, LenProperties
  <2>2. ~Carries
    <3>1. Idle.pc = "take" /\ Idle.next = "take"
      BY IdleForms
    <3> QED BY <3>1 DEF Init, Carries
  <2>3. edition = 0 /\ frames = 0 /\ lastEdit = 0 /\ events = <<>> /\ deferred = <<>> /\ worker = NoWork
    BY DEF Init
  <2>4. Line
    BY <2>1, <2>2, <2>3 DEF Line, Before, Pending
  <2>5. Numbered
    BY <2>1, <2>2, <2>3 DEF Numbered, Pending
  <2>6. Behind
    BY <2>3 DEF Behind, NoWork
  <2> QED BY <2>4, <2>5, <2>6 DEF Ordered, InLine
<1>2. RuntimeInv /\ Ordered /\ [Next]_vars => Ordered'
  <2> SUFFICES ASSUME RuntimeInv, Ordered, [Next]_vars PROVE Ordered'
    OBVIOUS
  <2>1. Typed /\ InLine /\ Behind
    BY DEF RuntimeInv, Ordered
  <2>2. Behind'
    BY BehindStep
  <2>3. CASE UNCHANGED vars
    <3>1. UNCHANGED <<events, deferred, edition, frames, lastEdit, state, failed, main>>
      BY <2>3 DEF vars, queueVars, clientVars, sessionVars
    <3> QED BY <2>1, <2>2, <3>1, LineStays DEF Ordered, Pending, Carries
  <2>4. InLine' \/ UNCHANGED vars
    BY <2>1, LineClient, LineOthers, LineMainTakes, LineDispatches, LineRest DEF Next, MainStep
  <2> QED BY <2>2, <2>3, <2>4 DEF Ordered
<1>3. Ordered => RequestSeesEarlierEdits
  <2> SUFFICES ASSUME Ordered, worker.pc \in WorkPcs \ {"off", "route", "capture"},
                      worker.outcome # "refused"
               PROVE  worker.edition >= worker.item.after
    BY DEF RequestSeesEarlierEdits
  <2> QED BY DEF Ordered, Behind
<1> QED BY <1>1, <1>2, <1>3, RuntimeKeepsInvariant, PTL DEF Spec

-----------------------------------------------------------------------------
(***************************************************************************)
(* Requests and their responses.                                           *)
(***************************************************************************)

\* A frame that is answered, and the numbers of those in a queue.
Asks(f) == f.kind \in {"request", "shutdown"}
Numbers(s) == {s[i].n : i \in {j \in DOMAIN s : Asks(s[j])}}
Increasing(s) == \A i, j \in DOMAIN s : i < j /\ Asks(s[i]) /\ Asks(s[j]) => s[i].n < s[j].n

\* The frame main is about to defer, refuse, accept or have executed.
Decides == Carries /\ Asks(main.item)

\* Requests that were read and that no response has been made of.
Coming == Numbers(deferred) \cup Numbers(events) \cup (IF Decides THEN {main.item.n} ELSE {})
Waiting == Coming \cup (IF running # None THEN {running.n} ELSE {})

\* They wait in the order they were read.  What main took from the events while a request
\* is being executed comes behind what is deferred, and in front of it otherwise.
Queued ==
    /\ Waiting \subseteq 1..frames
    /\ Increasing(events) /\ Increasing(deferred)
    /\ \A m \in Numbers(deferred), n \in Numbers(events) : m < n
    /\ Decides => /\ \A n \in Numbers(events) : main.item.n < n
                  /\ \A n \in Numbers(deferred) :
                        IF running = None THEN main.item.n < n ELSE n < main.item.n
    /\ running # None => \A n \in Coming : running.n < n
    /\ \A i \in Completions : events[i].n = running.n

IsResponse(m) == m.kind = "response"
Nulls(s) == {s[i].n : i \in {j \in DOMAIN s : IsResponse(s[j]) /\ s[j].outcome = "null"}}
Unanswering(s) == \A i \in DOMAIN s : ~IsResponse(s[i])

\* What AnsweredOnce and AnsweredInOrder say of an earlier and a later response.
InOrder(a, b) ==
    IsResponse(a) /\ IsResponse(b) =>
        a.n # b.n /\ (a.n > b.n => a.outcome = "null" /\ b.outcome = "refused")

Orderly(s) == \A i, j \in DOMAIN s : i < j => InOrder(s[i], s[j])
Follows(s, t) == \A i \in DOMAIN s, j \in DOMAIN t : InOrder(s[i], t[j])

\* A response answers what waits no longer; all but a shutdown waited in front.
Passed(m) ==
    IsResponse(m) =>
        /\ m.n \in 1..frames /\ m.n \notin Waiting
        /\ m.outcome # "null" => \A n \in Waiting : m.n < n

\* The responses main has at hand.
Outgoing == IF main.pc = "write" THEN main.batch ELSE main.answer

Settled ==
    /\ Orderly(written) /\ Orderly(Outgoing) /\ Follows(written, Outgoing)
    /\ \A i \in DOMAIN written : Passed(written[i])
    /\ \A i \in DOMAIN Outgoing : Passed(Outgoing[i])

\* The shutdown that was accepted and whose acknowledgement is not written.
Acks == (IF main.pc \in CrossingPcs /\ main.cause = "shutdown" THEN {main.item.n} ELSE {})
        \cup (IF main.pc # "write" THEN Nulls(main.answer) ELSE {})
        \cup (IF held # None /\ running # None THEN Nulls(held) ELSE {})

\* It passed what is deferred, and nothing else.
Acknowledging ==
    \A n \in Acks :
        /\ n \in 1..frames /\ n \notin Waiting
        /\ running # None => running.n < n
        /\ \A i \in DOMAIN written : IsResponse(written[i]) => written[i].n < n

\* Where responses are: a held batch ends with the acknowledgement, and while a request
\* is being executed main has no other.
Forms ==
    /\ Len(main.answer) <= 1
    /\ main.pc = "drainRequests" => Unanswering(main.batch)
    /\ held # None /\ running # None =>
          /\ held # <<>> /\ IsResponse(Last(held)) /\ Last(held).outcome = "null"
          /\ \A i \in DOMAIN held : i < Len(held) => ~IsResponse(held[i])
    /\ running # None =>
          /\ main.answer # <<>> => main.item.kind = "shutdown" /\ main.pc \in CarryingPcs
          /\ main.pc = "write" => Unanswering(main.batch)

Answering == Settled /\ Acknowledging /\ Forms

Turns == Queued /\ Answering

\* The numbers of a queue, as a frame is appended to it and taken from it.
LEMMA NumbersAppended ==
    ASSUME NEW S, NEW s \in Seq(S), NEW f \in S
    PROVE  /\ Numbers(Append(s, f)) = Numbers(s) \cup (IF Asks(f) THEN {f.n} ELSE {})
           /\ Increasing(s) /\ (Asks(f) => \A n \in Numbers(s) : n < f.n) => Increasing(Append(s, f))
<1>1. PICK t, k : t = Append(s, f) /\ k = Len(s)
  OBVIOUS
<1>2. /\ DOMAIN t = 1..(k + 1) /\ DOMAIN s = 1..k /\ k \in Nat /\ t[k + 1] = f
      /\ \A i \in 1..k : t[i] = s[i]
  BY <1>1, AppendFacts
<1>3. Numbers(t) = Numbers(s) \cup (IF Asks(f) THEN {f.n} ELSE {})
  BY <1>2 DEF Numbers
<1>4. ASSUME Increasing(s), Asks(f) => \A n \in Numbers(s) : n < f.n PROVE Increasing(t)
  BY <1>2, <1>4 DEF Increasing, Numbers
<1> QED BY <1>1, <1>3, <1>4

LEMMA NumbersTaken ==
    ASSUME NEW S, NEW s \in Seq(S), s # <<>>
    PROVE  /\ Numbers(Tail(s)) \subseteq Numbers(s)
           /\ Asks(Head(s)) => Head(s).n \in Numbers(s)
           /\ Increasing(s) =>
                /\ Increasing(Tail(s))
                /\ Asks(Head(s)) => \A n \in Numbers(Tail(s)) : Head(s).n < n
<1>1. PICK t, k, h : t = Tail(s) /\ k = Len(s) /\ h = Head(s)
  OBVIOUS
<1>2. /\ DOMAIN t = 1..(k - 1) /\ DOMAIN s = 1..k /\ k \in Nat /\ k >= 1 /\ h = s[1]
      /\ \A i \in DOMAIN t : i + 1 \in DOMAIN s /\ t[i] = s[i + 1]
  BY <1>1, TailFacts
<1>3. Numbers(t) \subseteq Numbers(s)
  BY <1>2 DEF Numbers
<1>4. Asks(h) => h.n \in Numbers(s)
  BY <1>2 DEF Numbers
<1>5. ASSUME Increasing(s) PROVE Increasing(t) /\ (Asks(h) => \A n \in Numbers(t) : h.n < n)
  BY <1>2, <1>5 DEF Increasing, Numbers
<1> QED BY <1>1, <1>3, <1>4, <1>5

\* Nothing is read; main goes on with what it has, or with nothing.
LEMMA QueuedStays ==
    ASSUME Queued, UNCHANGED <<events, deferred, running>>,
           frames \in Nat, frames' \in Nat, frames <= frames',
           Decides' => Decides /\ main'.item = main.item
    PROVE  Queued' /\ Waiting' \subseteq Waiting
<1>1. Coming' \subseteq Coming /\ Waiting' \subseteq Waiting
  BY DEF Waiting, Coming
<1>2. Completions' = Completions
  BY DEF Completions
<1>3. Waiting' \subseteq 1..frames'
  BY <1>1 DEF Queued
<1>4. Decides' => /\ \A n \in Numbers(events') : main'.item.n < n
                  /\ \A n \in Numbers(deferred') :
                        IF running' = None THEN main'.item.n < n ELSE n < main'.item.n
  BY DEF Queued
<1>5. running' # None => \A n \in Coming' : running'.n < n
  BY <1>1 DEF Queued
<1>6. /\ Increasing(events') /\ Increasing(deferred')
      /\ \A m \in Numbers(deferred'), n \in Numbers(events') : m < n
      /\ \A i \in Completions' : events'[i].n = running'.n
  BY <1>2 DEF Queued
<1> QED BY <1>1, <1>3, <1>4, <1>5, <1>6 DEF Queued

\* What is read comes behind what was read.
LEMMA QueuedAppends ==
    ASSUME Typed, Queued, NEW f \in Items, events' = Append(events, f),
           UNCHANGED <<main, deferred, running>>, frames' \in Nat, frames <= frames',
           Asks(f) => f.n = frames' /\ frames < frames',
           f.kind = "completed" => f.n = running.n
    PROVE  Queued' /\ \A n \in Waiting' : n \in Waiting \/ frames < n
<1>1. /\ frames \in Nat /\ events \in Seq(Items) /\ (Decides' <=> Decides)
      /\ Waiting \subseteq 1..frames /\ Coming \subseteq Waiting
      /\ Numbers(events) \subseteq Coming /\ Numbers(deferred) \subseteq Coming
  BY NumberFacts DEF Decides, Carries, Queued, Waiting, Coming
<1>2. \A n \in Waiting : n \in Nat /\ n <= frames
  BY <1>1
<1>3. \A n \in Coming : n \in Waiting
  BY <1>1
<1>4. \A n \in Numbers(events) \cup Numbers(deferred) : n \in Waiting
  BY <1>1
<1>5. frames < frames' => \A n \in Waiting : n < frames'
  BY <1>1, <1>2
<1>6. Numbers(events') = Numbers(events) \cup (IF Asks(f) THEN {f.n} ELSE {})
  BY <1>1, NumbersAppended
<1>7. Increasing(events')
  <2>1. ASSUME Asks(f) PROVE \A n \in Numbers(events) : n < f.n
    BY <1>4, <1>5, <2>1
  <2>2. Increasing(events)
    BY DEF Queued
  <2> QED BY <1>1, <2>1, <2>2, NumbersAppended
<1>8. \A n \in Numbers(events') : n \in Numbers(events) \/ (n = frames' /\ frames < n)
  BY <1>6
<1>9. Coming' \subseteq Coming \cup Numbers(events') /\ Waiting' \subseteq Waiting \cup Numbers(events')
  BY <1>1 DEF Coming, Waiting
<1>10. \A n \in Waiting' : n \in Waiting \/ (n = frames' /\ frames < n)
  BY <1>8, <1>9, <1>4
<1>11. Waiting' \subseteq 1..frames'
  <2>1. \A n \in Waiting : n \in 1..frames'
    <3>1. 1..frames \subseteq 1..frames'
      BY <1>1
    <3> QED BY <1>1, <3>1
  <2>2. frames < frames' => frames' \in 1..frames'
    BY <1>1
  <2> QED BY <1>10, <2>1, <2>2
<1>12. \A m \in Numbers(deferred'), n \in Numbers(events') : m < n
  <2>1. \A m \in Numbers(deferred), n \in Numbers(events) : m < n
    BY DEF Queued
  <2> QED BY <1>1, <1>4, <1>5, <1>8, <2>1
<1>13. Decides' => /\ \A n \in Numbers(events') : main'.item.n < n
                  /\ \A n \in Numbers(deferred') :
                        IF running' = None THEN main'.item.n < n ELSE n < main'.item.n
  <2>1. Decides => main.item.n \in Coming
    BY DEF Coming
  <2>2. Decides => /\ \A n \in Numbers(events) : main.item.n < n
                   /\ \A n \in Numbers(deferred) :
                         IF running = None THEN main.item.n < n ELSE n < main.item.n
    BY DEF Queued
  <2>3. Decides /\ frames < frames' => main.item.n < frames'
    BY <1>3, <1>5, <2>1
  <2> QED BY <1>1, <1>8, <2>2, <2>3
<1>14. running' # None => \A n \in Coming' : running'.n < n
  <2>1. running # None => running.n \in Waiting
    BY DEF Waiting
  <2>2. running # None => \A n \in Coming : running.n < n
    BY DEF Queued
  <2>3. running # None /\ frames < frames' => running.n < frames'
    BY <1>5, <2>1
  <2>4. \A n \in Coming' : n \in Coming \/ (n = frames' /\ frames < n)
    BY <1>1, <1>8, <1>9
  <2> QED BY <1>1, <2>2, <2>3, <2>4
<1>15. \A i \in Completions' : events'[i].n = running'.n
  <2>1. \A i \in Completions' : (i \in Completions /\ events'[i] = events[i]) \/ events'[i] = f
    BY <1>1, AppendFacts DEF Completions
  <2>2. \A i \in Completions' : events'[i].kind = "completed"
    BY DEF Completions
  <2> QED BY <2>1, <2>2 DEF Queued
<1> QED BY <1>7, <1>10, <1>11, <1>12, <1>13, <1>14, <1>15 DEF Queued

\* Main takes the first event; nothing is deferred unless a request is being executed.
LEMMA QueuedTaken ==
    ASSUME Typed, Queued, events # <<>>, events' = Tail(events), ~Decides,
           UNCHANGED <<deferred, frames>>, running = None => deferred = <<>>,
           running' = running \/ (running' = None /\ Completions' = {} /\ ~Decides'),
           Decides' => main'.item = Head(events)
    PROVE  Queued' /\ Waiting' \subseteq Waiting
<1>1. /\ frames \in Nat /\ events \in Seq(Items)
      /\ Waiting \subseteq 1..frames /\ Coming \subseteq Waiting
      /\ Numbers(events) \subseteq Coming /\ Numbers(deferred) \subseteq Coming
  BY NumberFacts DEF Queued, Waiting, Coming
<1>2. /\ Numbers(events') \subseteq Numbers(events)
      /\ Asks(Head(events)) => Head(events).n \in Numbers(events)
      /\ Increasing(events')
      /\ Asks(Head(events)) => \A n \in Numbers(events') : Head(events).n < n
  BY <1>1, NumbersTaken DEF Queued
<1>3. Decides' => main'.item.n \in Numbers(events) /\ \A n \in Numbers(events') : main'.item.n < n
  BY <1>2 DEF Decides
<1>4. Coming' \subseteq Coming /\ Waiting' \subseteq Waiting
  BY <1>1, <1>2, <1>3 DEF Coming, Waiting
<1>5. Waiting' \subseteq 1..frames'
  BY <1>1, <1>4
<1>6. \A m \in Numbers(deferred'), n \in Numbers(events') : m < n
  BY <1>2 DEF Queued
<1>7. Decides' => \A n \in Numbers(deferred') :
                     IF running' = None THEN main'.item.n < n ELSE n < main'.item.n
  <2>1. Numbers(<<>>) = {}
    <3>1. DOMAIN <<>> = {}
      BY EmptySeq, LenProperties
    <3> QED BY <3>1 DEF Numbers
  <2> QED BY <1>3, <2>1 DEF Queued
<1>8. running' # None => \A n \in Coming' : running'.n < n
  BY <1>4 DEF Queued
<1>9. \A i \in Completions' : events'[i].n = running'.n
  <2>1. \A i \in Completions' : i + 1 \in Completions /\ events'[i] = events[i + 1]
    BY <1>1, TailFacts DEF Completions
  <2> QED BY <2>1 DEF Queued
<1> QED BY <1>2, <1>3, <1>4, <1>5, <1>6, <1>7, <1>8, <1>9 DEF Queued

\* Main takes the first frame that is deferred.
LEMMA QueuedResumed ==
    ASSUME Typed, Queued, running = None, deferred # <<>>, deferred' = Tail(deferred), ~Decides,
           UNCHANGED <<events, running, frames>>, Decides' => main'.item = Head(deferred)
    PROVE  Queued' /\ Waiting' \subseteq Waiting
<1>1. /\ frames \in Nat /\ deferred \in Seq(Items)
      /\ Waiting \subseteq 1..frames /\ Coming \subseteq Waiting
      /\ Numbers(events) \subseteq Coming /\ Numbers(deferred) \subseteq Coming
  BY NumberFacts DEF Queued, Waiting, Coming
<1>2. /\ Numbers(deferred') \subseteq Numbers(deferred)
      /\ Asks(Head(deferred)) => Head(deferred).n \in Numbers(deferred)
      /\ Increasing(deferred')
      /\ Asks(Head(deferred)) => \A n \in Numbers(deferred') : Head(deferred).n < n
  BY <1>1, NumbersTaken DEF Queued
<1>3. Decides' => main'.item.n \in Numbers(deferred) /\ \A n \in Numbers(deferred') : main'.item.n < n
  BY <1>2 DEF Decides
<1>4. Coming' \subseteq Coming /\ Waiting' \subseteq Waiting
  BY <1>1, <1>2, <1>3 DEF Coming, Waiting
<1>5. Waiting' \subseteq 1..frames'
  BY <1>1, <1>4
<1>6. \A m \in Numbers(deferred'), n \in Numbers(events') : m < n
  BY <1>2 DEF Queued
<1>7. Decides' => \A n \in Numbers(events') : main'.item.n < n
  BY <1>3 DEF Queued
<1>8. Completions' = Completions
  BY DEF Completions
<1> QED BY <1>2, <1>3, <1>4, <1>5, <1>6, <1>7, <1>8 DEF Queued

\* Main defers the frame it has, behind what is deferred.
LEMMA QueuedDefers ==
    ASSUME Typed, Queued, running # None, Carries, deferred' = Append(deferred, main.item), ~Decides',
           UNCHANGED <<events, running, frames>>
    PROVE  Queued' /\ Waiting' \subseteq Waiting
<1>1. /\ frames \in Nat /\ deferred \in Seq(Items) /\ main.item \in Items
      /\ Waiting \subseteq 1..frames /\ Coming \subseteq Waiting
      /\ Numbers(events) \subseteq Coming /\ Numbers(deferred) \subseteq Coming
      /\ Decides <=> Asks(main.item)
  BY NumberFacts DEF Queued, Waiting, Coming, Decides
<1>2. /\ Numbers(deferred') = Numbers(deferred) \cup (IF Asks(main.item) THEN {main.item.n} ELSE {})
      /\ Increasing(deferred')
  <2>1. Increasing(deferred) /\ (Asks(main.item) => \A n \in Numbers(deferred) : n < main.item.n)
    BY <1>1 DEF Queued
  <2> QED BY <1>1, <2>1, NumbersAppended
<1>3. Coming' \subseteq Coming /\ Waiting' \subseteq Waiting
  <2>1. Asks(main.item) => main.item.n \in Coming
    BY <1>1 DEF Coming
  <2> QED BY <1>2, <2>1 DEF Coming, Waiting
<1>4. Waiting' \subseteq 1..frames'
  BY <1>1, <1>3
<1>5. \A m \in Numbers(deferred'), n \in Numbers(events') : m < n
  BY <1>1, <1>2 DEF Queued
<1>6. running' # None => \A n \in Coming' : running'.n < n
  BY <1>3 DEF Queued
<1>7. Completions' = Completions
  BY DEF Completions
<1> QED BY <1>2, <1>3, <1>4, <1>5, <1>6, <1>7 DEF Queued

\* Main has the request it has executed.
LEMMA QueuedStarts ==
    ASSUME Typed, Queued, running = None, Decides, running' = main.item, Completions = {}, ~Decides',
           UNCHANGED <<events, deferred, frames>>
    PROVE  Queued' /\ Waiting' \subseteq Waiting
<1>1. /\ Numbers(events) \subseteq Coming /\ Numbers(deferred) \subseteq Coming
      /\ main.item.n \in Coming /\ Waiting = Coming
  BY DEF Waiting, Coming
<1>2. Coming' = Numbers(deferred) \cup Numbers(events)
  BY DEF Coming
<1>3. Waiting' \subseteq Waiting
  BY <1>1, <1>2 DEF Waiting
<1>4. Waiting' \subseteq 1..frames'
  BY <1>3 DEF Queued
<1>5. \A n \in Coming' : running'.n < n
  BY <1>2 DEF Queued
<1>6. Completions' = {}
  BY DEF Completions
<1> QED BY <1>3, <1>4, <1>5, <1>6 DEF Queued

\* Main takes an item.
LEMMA QueueTakes ==
    ASSUME RuntimeInv, Queued, MainTakes
    PROVE  Queued' /\ Waiting' \subseteq Waiting
<1>1. /\ Typed /\ Lane /\ main.pc = "take" /\ main = Idle /\ ~Carries /\ ~Decides
  <2>1. main.pc = "take"
    BY DEF MainTakes, TakesDeferred, TakesDropped, TakesFrame, TakesReady, TakesFailure,
           TakesCompletion, TakesEvent, Taking, MainAt
  <2>2. main = Idle /\ Is(main, "take", "take", "none")
    BY <2>1, IdleIs DEF RuntimeInv, Course, Shape
  <2> QED BY <2>1, <2>2 DEF RuntimeInv, Carries, Decides, Is
<1>2. frames' = frames
  BY DEF MainTakes, clientVars
<1>3. ASSUME NEW kinds, TakesEvent(kinds), running' = running, Decides' => main'.item = Head(events)
      PROVE  Queued' /\ Waiting' \subseteq Waiting
  BY <1>1, <1>2, <1>3, QueuedTaken DEF TakesEvent
<1>4. CASE TakesDeferred
  <2>1. /\ running = None /\ running' = running /\ events' = events /\ deferred # <<>>
        /\ deferred' = Tail(deferred) /\ main' = Replaying(Head(deferred), "dispatch", <<>>)
    BY <1>4 DEF TakesDeferred, sessionVars
  <2>2. main'.item = Head(deferred)
    BY <2>1 DEF Replaying, Idle
  <2> QED BY <1>1, <1>2, <2>1, <2>2, QueuedResumed
<1>5. CASE TakesDropped
  <2>1. /\ TakesEvent(AllFrameKinds \cup {"ready", "failure"}) /\ main' = main /\ running' = running
    BY <1>5 DEF TakesDropped, sessionVars
  <2>2. ~Decides'
    BY <1>1, <2>1 DEF Decides, Carries
  <2> QED BY <1>3, <2>1, <2>2
<1>6. CASE TakesFrame
  <2>1. /\ TakesEvent(AllFrameKinds) /\ main' = Replaying(Head(events), "dispatch", <<>>)
        /\ running' = running
    BY <1>6 DEF TakesFrame, sessionVars
  <2>2. main'.item = Head(events)
    BY <2>1 DEF Replaying, Idle
  <2> QED BY <1>3, <2>1, <2>2
<1>7. CASE TakesReady
  <2>1. /\ TakesEvent({"ready"}) /\ (main' = Idle \/ main' = [Idle EXCEPT !.pc = "drainNotices"])
        /\ running' = running
    BY <1>7 DEF TakesReady, sessionVars
  <2>2. ~Decides'
    BY <2>1 DEF Idle, Carries, Decides
  <2> QED BY <1>3, <2>1, <2>2
<1>8. CASE TakesFailure
  <2>1. TakesEvent({"failure"}) /\ main' = Crossing(Failure, "abort") /\ running' = running
    BY <1>8 DEF TakesFailure, sessionVars
  <2>2. ~Decides'
    BY <2>1 DEF Crossing, Idle, Carries, Decides
  <2> QED BY <1>3, <2>1, <2>2
<1>9. CASE TakesCompletion
  <2>1. TakesEvent({"completed"}) /\ running' = None
    BY <1>9 DEF TakesCompletion
  <2>2. ~Decides'
    <3>1. PICK done : done = Head(events)
      OBVIOUS
    <3>2. PICK answer, batch : answer = <<Response(done.n, done.outcome)>>
             /\ batch = Front(held) \o <<Response(done.n, "cancelled"), Last(held)>>
      OBVIOUS
    <3>3. \/ main' = [Idle EXCEPT !.pc = "raised"]
          \/ main' = [Idle EXCEPT !.pc = "returned"]
          \/ main' = [Idle EXCEPT !.pc = "write", !.item = done, !.batch = batch]
          \/ main' = Replaying(done, "raised", answer)
          \/ main' = Replaying(done, "drainNotices", answer)
      BY <1>9, <3>1, <3>2 DEF TakesCompletion
    <3> QED BY <3>3 DEF Replaying, Idle, Carries, Decides
  <2>3. Completions' = {}
    BY <1>1, <2>1, LaneMain DEF MainStep, Lane
  <2> QED BY <1>1, <1>2, <2>1, <2>2, <2>3, QueuedTaken DEF TakesEvent
<1> QED BY <1>4, <1>5, <1>6, <1>7, <1>8, <1>9 DEF MainTakes

\* Main dispatches a frame: it is deferred, or has its turn.
LEMMA QueueDispatches ==
    ASSUME RuntimeInv, Queued, MainDispatches
    PROVE  Queued' /\ Waiting' \subseteq Waiting
<1>1. /\ Typed /\ Lane /\ UNCHANGED <<events, frames>> /\ ~Decides' /\ frames \in Nat
  BY NumberFacts, DispatchCarries DEF RuntimeInv, Decides, MainDispatches, clientVars
<1>2. CASE Defers
  <2>1. /\ running # None /\ running' = running /\ deferred' = Append(deferred, main.item) /\ Carries
    BY <1>2, DispatchCarries DEF Defers, MainAt, Foreground, sessionVars
  <2> QED BY <1>1, <2>1, QueuedDefers
<1>3. CASE StartsWorker
  <2>1. /\ main.pc = "dispatch" /\ main.item.kind = "request" /\ running = None
        /\ running' = main.item /\ deferred' = deferred
    BY <1>3 DEF StartsWorker, Dispatching, MainAt
  <2>2. Decides /\ Completions = {}
    BY <1>1, <2>1, DispatchCarries DEF Decides, Asks, Lane
  <2> QED BY <1>1, <2>1, <2>2, QueuedStarts
<1>4. CASE ~Defers /\ ~StartsWorker
  <2>1. UNCHANGED <<deferred, running>>
    BY <1>4 DEF MainDispatches, RefusesRequest, AcceptsShutdown, AcceptsExit, AppliesEdit,
       ConsumesReply, HandlesOther, EditHandled, sessionVars
  <2> QED BY <1>1, <2>1, QueuedStays
<1> QED BY <1>2, <1>3, <1>4

\* What is sent waits behind what was sent.
LEMMA QueueClient ==
    ASSUME Typed, Queued, ClientSends
    PROVE  /\ Queued' /\ frames <= frames' /\ frames' \in Nat
           /\ \A n \in Waiting' : n \in Waiting \/ frames < n
<1>1. /\ UNCHANGED <<main, deferred, running>> /\ frames \in Nat /\ lastEdit \in 0..MaxFrames
      /\ frames <= MaxFrames
  BY RuntimeAssumption DEF ClientSends, sessionVars, ReadRequest, ReadNotification, ReadReply,
     ReadCancel, ReadFailure, queueVars, Typed, ClientTypeOK
<1>2. ASSUME NEW kind \in AllFrameKinds, NEW id \in Ids \cup {None}, NEW n \in 0..(MaxFrames + MaxRequests)
      PROVE  LET f == Item(kind, id, n, lastEdit, "none") IN f \in Items /\ f.kind = kind /\ f.n = n
  BY <1>1, <1>2 DEF Item, Items, Outcomes
<1>3. ASSUME NEW f \in Items, events' = Append(events, f), frames' \in Nat, frames <= frames',
             f.kind # "completed", Asks(f) => f.n = frames' /\ frames < frames'
      PROVE  Queued' /\ \A n \in Waiting' : n \in Waiting \/ frames < n
  BY <1>1, <1>3, QueuedAppends
<1>4. ASSUME NEW kind \in {"request", "shutdown"}, NEW id \in Ids, ReadRequest(kind, id)
      PROVE  Queued' /\ frames' = frames + 1 /\ \A n \in Waiting' : n \in Waiting \/ frames < n
  <2>1. PICK f : f = Item(kind, id, frames', lastEdit, "none")
    OBVIOUS
  <2>2. frames' = frames + 1 /\ frames' \in 0..(MaxFrames + MaxRequests)
    BY <1>1, <1>4, RuntimeAssumption DEF ReadRequest, CanRead
  <2>3. f \in Items /\ f.kind # "completed" /\ f.n = frames'
    BY <1>2, <2>1, <2>2 DEF AllFrameKinds
  <2>4. events' = Append(events, f)
    BY <1>4, <2>1 DEF ReadRequest
  <2> QED BY <1>1, <1>3, <2>2, <2>3, <2>4
<1>5. ASSUME NEW kind \in {"edit", "other", "exit"}, ReadNotification(kind)
      PROVE  Queued' /\ frames' = frames + 1 /\ \A n \in Waiting' : n \in Waiting \/ frames < n
  <2>1. PICK f : f = Item(kind, None, frames', lastEdit, "none")
    OBVIOUS
  <2>2. frames' = frames + 1 /\ frames' \in 0..(MaxFrames + MaxRequests)
    BY <1>1, <1>5, RuntimeAssumption DEF ReadNotification, CanRead
  <2>3. f \in Items /\ f.kind # "completed" /\ ~Asks(f)
    BY <1>2, <2>1, <2>2 DEF AllFrameKinds, Asks
  <2>4. events' = Append(events, f)
    BY <1>5, <2>1 DEF ReadNotification
  <2> QED BY <1>1, <1>3, <2>2, <2>3, <2>4
<1>6. ASSUME NEW r \in Requests, ReadReply(r)
      PROVE  Queued' /\ frames' = frames + 1 /\ \A n \in Waiting' : n \in Waiting \/ frames < n
  <2>1. PICK f : f = Item("reply", None, r, lastEdit, "none")
    OBVIOUS
  <2>2. frames' = frames + 1 /\ r \in 0..(MaxFrames + MaxRequests)
    BY <1>1, <1>6, RuntimeAssumption DEF ReadReply, CanRead, Requests
  <2>3. f \in Items /\ f.kind # "completed" /\ ~Asks(f)
    BY <1>2, <2>1, <2>2 DEF AllFrameKinds, Asks
  <2>4. events' = Append(events, f)
    BY <1>6, <2>1 DEF ReadReply
  <2> QED BY <1>1, <1>3, <2>2, <2>3, <2>4
<1>7. ASSUME NEW id \in Ids, ReadCancel(id)
      PROVE  Queued' /\ frames' = frames + 1 /\ \A n \in Waiting' : n \in Waiting \/ frames < n
  <2>1. events' = events /\ frames' = frames + 1
    BY <1>7 DEF ReadCancel, CanRead, queueVars
  <2>2. Decides' => Decides
    BY <1>1 DEF Decides, Carries
  <2>3. frames' \in Nat /\ frames <= frames'
    BY <1>1, <2>1
  <2>4. Queued' /\ Waiting' \subseteq Waiting
    BY <1>1, <2>1, <2>2, <2>3, QueuedStays
  <2> QED BY <2>1, <2>4
<1>8. ASSUME ReadFailure
      PROVE  Queued' /\ frames' = frames /\ \A n \in Waiting' : n \in Waiting \/ frames < n
  <2>1. Failure \in Items /\ Failure.kind # "completed" /\ ~Asks(Failure)
    BY RuntimeAssumption DEF Failure, Item, Items, Outcomes, Asks
  <2>2. frames' = frames /\ events' = Append(events, Failure)
    BY <1>8 DEF ReadFailure, clientVars
  <2> QED BY <1>1, <1>3, <2>1, <2>2
<1>9. Queued' /\ (frames' = frames + 1 \/ frames' = frames)
      /\ \A n \in Waiting' : n \in Waiting \/ frames < n
  BY <1>4, <1>5, <1>6, <1>7, <1>8 DEF ClientSends
<1> QED BY <1>1, <1>9

\* The reader, a wakeup and a completion.
LEMMA QueueOthers ==
    ASSUME Typed, Lane, Queued,
           ReaderStep \/ WorkerStep \/ \E t \in {"main", "worker"} : RefreshStep(t)
    PROVE  Queued' /\ frames' = frames /\ Waiting' \subseteq Waiting
<1>1. UNCHANGED <<main, deferred, running, frames>> /\ frames \in Nat
  BY NumberFacts DEF ReaderStep, ReaderStages, ReaderPosts, WorkerStep, RefreshStep, sessionVars,
     clientVars, queueVars
<1>2. ASSUME events' = events PROVE Queued' /\ Waiting' \subseteq Waiting
  <2>1. Decides' => Decides
    BY <1>1 DEF Decides, Carries
  <2> QED BY <1>1, <1>2, <2>1, QueuedStays
<1>3. ASSUME NEW f \in Items, ~Asks(f), f.kind = "completed" => f.n = running.n,
             events' = Append(events, f)
      PROVE  Queued' /\ Waiting' \subseteq Waiting
  <2>1. Queued'
    BY <1>1, <1>3, QueuedAppends
  <2>2. Numbers(events') = Numbers(events)
    <3>1. events \in Seq(Items)
      BY NumberFacts
    <3>2. Numbers(Append(events, f)) = Numbers(events) \cup (IF Asks(f) THEN {f.n} ELSE {})
      BY <3>1, NumbersAppended
    <3> QED BY <1>3, <3>2
  <2>3. Decides' = Decides
    BY <1>1 DEF Decides, Carries
  <2>4. Waiting' = Waiting
    BY <1>1, <2>2, <2>3 DEF Waiting, Coming
  <2> QED BY <2>1, <2>4
<1>4. CASE ReaderStep
  BY <1>1, <1>2, <1>4 DEF ReaderStep, ReaderStages, ReaderPosts, queueVars
<1>5. CASE WorkerStep
  <2>1. CASE WorkerCompletes
    <3>1. PICK f : f = [worker.item EXCEPT !.kind = "completed", !.outcome = worker.outcome]
      OBVIOUS
    <3>2. worker.pc # "off" /\ worker.item \in Items /\ worker.outcome \in Outcomes
      BY <2>1 DEF WorkerCompletes, WorkerAt, Typed, WorkTyped, WorkTypeOK
    <3>3. f \in Items /\ f.kind = "completed" /\ f.n = running.n
      BY <3>1, <3>2 DEF Items, Lane
    <3>4. events' = Append(events, f)
      BY <2>1, <3>1 DEF WorkerCompletes
    <3> QED BY <1>1, <1>3, <3>3, <3>4 DEF Asks
  <2>2. CASE ~WorkerCompletes
    <3>1. events' = events
      BY <1>5, <2>2 DEF WorkerStep, WorkerRoutes, WorkerCaptures, WorkerStarts, WorkerNotifies,
         WorkerChecks, WorkerCommits, WorkerRaises, WorkerFinishes, WorkerClears, WorkerDiscards
    <3> QED BY <1>1, <1>2, <3>1
  <2> QED BY <2>1, <2>2
<1>6. ASSUME NEW t \in {"main", "worker"}, RefreshStep(t)
      PROVE  Queued' /\ frames' = frames /\ Waiting' \subseteq Waiting
  <2>1. CASE WakeTransport(t)
    <3>1. Ready \in Items /\ ~Asks(Ready) /\ Ready.kind # "completed"
      BY RuntimeAssumption DEF Ready, Item, Items, Outcomes, Asks
    <3>2. events' = Append(events, Ready)
      BY <2>1 DEF WakeTransport
    <3> QED BY <1>1, <1>3, <3>1, <3>2
  <2>2. CASE CheckRefresh(t) \/ PostRefresh(t)
    BY <1>1, <1>2, <2>2 DEF CheckRefresh, PostRefresh
  <2> QED BY <1>6, <2>1, <2>2 DEF RefreshStep
<1> QED BY <1>4, <1>5, <1>6

\* Frames are read, and only those come to wait.
Onward ==
    /\ frames \in Nat /\ frames' \in Nat /\ frames <= frames'
    /\ \A n \in Waiting' : n \in Nat /\ (n \in Waiting \/ frames < n)

\* The requests keep their order, and none comes to wait but one that is read.
LEMMA QueueStep ==
    ASSUME RuntimeInv, Queued, [Next]_vars
    PROVE  Queued' /\ Onward
<1>1. Typed /\ Lane /\ frames \in Nat
  BY NumberFacts DEF RuntimeInv
<1> DEFINE Comes == /\ Queued' /\ frames' \in Nat /\ frames <= frames'
                    /\ \A n \in Waiting' : n \in Waiting \/ frames < n
<1>2. ASSUME frames' = frames, Queued', Waiting' \subseteq Waiting PROVE Comes
  BY <1>1, <1>2
<1>3. ASSUME ClientSends PROVE Comes
  BY <1>1, <1>3, QueueClient
<1>4. ASSUME ReaderStep \/ WorkerStep \/ \E t \in {"main", "worker"} : RefreshStep(t) PROVE Comes
  BY <1>1, <1>2, <1>4, QueueOthers
<1>5. ASSUME MainTakes PROVE Comes
  BY <1>1, <1>2, <1>5, QueueTakes DEF MainTakes, clientVars
<1>6. ASSUME MainDispatches PROVE Comes
  BY <1>1, <1>2, <1>6, QueueDispatches DEF MainDispatches, clientVars
<1>7. ASSUME MainReplays \/ MainCrosses \/ MainAnswers PROVE Comes
  <2>1. UNCHANGED <<events, deferred, running, frames>>
    BY <1>7 DEF MainReplays, MainCrosses, MainAnswers, clientVars, queueVars, sessionVars
  <2>2. Decides' => Decides /\ main'.item = main.item
    BY <1>7, RestCarries DEF Decides
  <2>3. Queued' /\ Waiting' \subseteq Waiting
    BY <1>1, <2>1, <2>2, QueuedStays
  <2> QED BY <1>1, <1>2, <2>1, <2>3
<1>8. ASSUME UNCHANGED vars PROVE Comes
  <2>1. UNCHANGED <<events, deferred, running, frames, main>>
    BY <1>8 DEF vars, queueVars, clientVars, sessionVars
  <2>2. Decides' => Decides /\ main'.item = main.item
    BY <2>1 DEF Decides, Carries
  <2>3. Queued' /\ Waiting' \subseteq Waiting
    BY <1>1, <2>1, <2>2, QueuedStays
  <2> QED BY <1>1, <1>2, <2>1, <2>3
<1>9. Comes
  BY <1>3, <1>4, <1>5, <1>6, <1>7, <1>8 DEF Next, MainStep
<1>10. \A n \in Waiting' : n \in Nat
  BY <1>9 DEF Queued
<1> QED BY <1>1, <1>9, <1>10 DEF Onward

\* What a response says stays true.
LEMMA PassedStays ==
    ASSUME Onward, NEW m, Passed(m)
    PROVE  Passed(m)'
<1>1. ASSUME IsResponse(m) PROVE m.n \in 1..frames' /\ m.n \in Nat /\ m.n <= frames
  BY <1>1 DEF Passed, Onward
<1>2. ASSUME IsResponse(m) PROVE m.n \notin Waiting'
  BY <1>1, <1>2 DEF Passed, Onward
<1>3. ASSUME IsResponse(m), m.outcome # "null", NEW n \in Waiting' PROVE m.n < n
  <2>1. CASE n \in Waiting
    BY <1>3, <2>1 DEF Passed
  <2>2. CASE frames < n /\ n \notin Waiting
    <3>1. m.n \in Nat /\ m.n <= frames
      BY <1>1, <1>3
    <3>2. n \in Nat /\ frames \in Nat
      BY <1>3 DEF Onward
    <3> QED BY <2>2, <3>1, <3>2
  <2> QED BY <1>3, <2>1, <2>2 DEF Onward
<1> QED BY <1>1, <1>2, <1>3 DEF Passed

\* What is written stays, and main has other messages at hand.
LEMMA SettledBy ==
    ASSUME Settled, Onward, UNCHANGED written, NEW c, Outgoing' = c,
           Orderly(c), Follows(written, c), \A i \in DOMAIN c : Passed(c[i])'
    PROVE  Settled'
<1>1. \A i \in DOMAIN written : Passed(written[i])'
  <2>1. ASSUME NEW i \in DOMAIN written PROVE Passed(written[i])'
    <3>1. PICK m : m = written[i]
      OBVIOUS
    <3>2. Passed(m)
      BY <3>1 DEF Settled
    <3>3. Passed(m)'
      BY <3>2, PassedStays
    <3> QED BY <3>1, <3>3
  <2> QED BY <2>1
<1> QED BY <1>1 DEF Settled

LEMMA SettledSilently ==
    ASSUME Settled, Onward, UNCHANGED written, Outgoing' = <<>>
    PROVE  Settled'
<1>1. PICK c : c = <<>>
  OBVIOUS
<1>2. DOMAIN c = {}
  BY <1>1, EmptySeq, LenProperties
<1>3. Orderly(c) /\ Follows(written, c) /\ \A i \in DOMAIN c : Passed(c[i])'
  BY <1>2 DEF Orderly, Follows
<1> QED BY <1>1, <1>3, SettledBy

LEMMA SettledAsBefore ==
    ASSUME Settled, Onward, UNCHANGED written, Outgoing' = Outgoing
    PROVE  Settled'
<1>1. PICK c : c = Outgoing
  OBVIOUS
<1>2. Orderly(c) /\ Follows(written, c)
  BY <1>1 DEF Settled
<1>3. \A i \in DOMAIN c : Passed(c[i])'
  <2>1. ASSUME NEW i \in DOMAIN c PROVE Passed(c[i])'
    <3>1. Passed(c[i])
      BY <1>1, <2>1 DEF Settled
    <3> QED BY <3>1, PassedStays
  <2> QED BY <2>1
<1> QED BY <1>1, <1>2, <1>3, SettledBy

LEMMA SettledByOne ==
    ASSUME Settled, Onward, UNCHANGED written, NEW m \in Messages, SoundMessage(m),
           NEW c, c = <<m>>, Outgoing' = c,
           Passed(m)', \A i \in DOMAIN written : InOrder(written[i], m)
    PROVE  Settled'
<1>1. DOMAIN c = {1} /\ c[1] = m
  BY AnswerFacts
<1>2. Orderly(c)
  <2>1. \A i, j \in DOMAIN c : ~(i < j)
    BY <1>1
  <2> QED BY <2>1 DEF Orderly
<1>3. Follows(written, c)
  BY <1>1 DEF Follows
<1>4. \A i \in DOMAIN c : Passed(c[i])'
  BY <1>1
<1> QED BY <1>2, <1>3, <1>4, SettledBy

\* An accepted shutdown stays where it was.
LEMMA AcksBy ==
    ASSUME Acknowledging, Onward, UNCHANGED written, Acks' \subseteq Acks,
           running' # None => running' = running \/ Acks' = {}
    PROVE  Acknowledging'
<1>1. ASSUME NEW n \in Acks'
      PROVE  /\ n \in 1..frames' /\ n \notin Waiting'
             /\ running' # None => running'.n < n
             /\ \A i \in DOMAIN written' : IsResponse(written'[i]) => written'[i].n < n
  <2>1. /\ n \in 1..frames /\ n \notin Waiting /\ (running # None => running.n < n)
        /\ \A i \in DOMAIN written : IsResponse(written[i]) => written[i].n < n
    BY <1>1 DEF Acknowledging
  <2>2. n \in 1..frames' /\ n \notin Waiting'
    BY <2>1 DEF Onward
  <2> QED BY <1>1, <2>1, <2>2
<1> QED BY <1>1 DEF Acknowledging

\* Main keeps the answer it has or drops it, and takes no shutdown to the boundary.
LEMMA AnsweringKept ==
    ASSUME Answering, Onward, UNCHANGED <<written, running, held>>,
           main.pc # "write", main'.pc # "write", main'.answer = main.answer \/ main'.answer = <<>>,
           main'.pc \in CrossingPcs /\ main'.cause = "shutdown" =>
              main.pc \in CrossingPcs /\ main.cause = "shutdown" /\ main'.item = main.item,
           main'.pc = "drainRequests" => Unanswering(main'.batch),
           running # None /\ main'.answer # <<>> =>
              main'.item.kind = "shutdown" /\ main'.pc \in CarryingPcs
    PROVE  Answering'
<1>1. Outgoing' = Outgoing \/ Outgoing' = <<>>
  BY DEF Outgoing
<1>2. Nulls(<<>>) = {} /\ Len(<<>>) = 0
  <2>1. DOMAIN <<>> = {}
    BY EmptySeq, LenProperties
  <2> QED BY <2>1 DEF Nulls
<1>3. Acks' \subseteq Acks
  BY <1>2 DEF Acks
<1>4. Settled' /\ Acknowledging'
  BY <1>1, <1>3, SettledSilently, SettledAsBefore, AcksBy DEF Answering
<1>5. Forms'
  BY <1>2 DEF Answering, Forms
<1> QED BY <1>4, <1>5 DEF Answering

\* Main drops what it has.
LEMMA AnsweringDropped ==
    ASSUME Answering, Onward, UNCHANGED <<written, running, held>>,
           Bare(main'), main'.cause # "shutdown", main'.pc \notin {"write", "drainRequests"}
    PROVE  Answering'
<1>1. Outgoing' = <<>>
  BY DEF Outgoing, Bare
<1>2. Nulls(<<>>) = {} /\ Len(<<>>) = 0
  <2>1. DOMAIN <<>> = {}
    BY EmptySeq, LenProperties
  <2> QED BY <2>1 DEF Nulls
<1>3. Acks' \subseteq Acks
  BY <1>2 DEF Acks, Bare
<1>4. Settled' /\ Acknowledging'
  BY <1>1, <1>3, SettledSilently, AcksBy DEF Answering
<1>5. Forms'
  BY <1>2 DEF Answering, Forms, Bare
<1> QED BY <1>4, <1>5 DEF Answering

\* The responses of a batch are those of the answer.
LEMMA BatchAnswers ==
    ASSUME MainTyped, outbox \in Seq(Requests), Unanswering(main.batch),
           NEW c, c = main.batch \o [i \in DOMAIN outbox |-> RefreshRequest(outbox[i])]
                                \o main.answer
    PROVE  \E k \in Nat :
              /\ DOMAIN c = 1..(k + Len(main.answer)) /\ Len(c) = k + Len(main.answer)
              /\ \A i \in 1..k : ~IsResponse(c[i])
              /\ \A i \in DOMAIN main.answer : c[k + i] = main.answer[i]
<1>1. PICK b, o, a : b = main.batch /\ o = outbox /\ a = main.answer
  OBVIOUS
<1>2. b \in Seq(Messages) /\ o \in Seq(Requests) /\ a \in Seq(Messages) /\ Unanswering(b)
  BY <1>1 DEF MainTyped, MainTypeOK
<1>3. PICK r : r = [i \in DOMAIN o |-> RefreshRequest(o[i])]
  OBVIOUS
<1>4. DOMAIN o = 1..Len(o) /\ Len(o) \in Nat /\ \A i \in DOMAIN o : o[i] \in Requests
  BY <1>2, LenProperties, ElementOfSeq
<1>5. r \in Seq(Messages) /\ Unanswering(r)
  <2>1. \A i \in DOMAIN o : r[i] \in Messages
    BY <1>3, <1>4, MessageFacts
  <2>2. r \in [1..Len(o) -> Messages]
    BY <1>3, <1>4, <2>1
  <2>3. \A i \in DOMAIN r : r[i].kind = "request"
    BY <1>3 DEF RefreshRequest, Message
  <2>4. r \in Seq(Messages)
    BY <1>4, <2>2, SeqDef
  <2> QED BY <2>3, <2>4 DEF Unanswering, IsResponse
<1>6. PICK d : d = b \o r
  OBVIOUS
<1>7. d \in Seq(Messages) /\ DOMAIN d = 1..Len(d) /\ Len(d) \in Nat /\ Unanswering(d)
  <2>1. /\ d \in Seq(Messages) /\ Len(b) \in Nat /\ DOMAIN b = 1..Len(b)
        /\ \A i \in 1..Len(b) : d[i] = b[i]
        /\ \A i \in DOMAIN d : i \notin DOMAIN b => i - Len(b) \in DOMAIN r /\ d[i] = r[i - Len(b)]
    BY <1>2, <1>5, <1>6, ConcatFacts
  <2>2. Unanswering(d)
    BY <1>2, <1>5, <2>1 DEF Unanswering
  <2> QED BY <2>1, <2>2, LenProperties
<1>8. PICK e : e = d \o a
  OBVIOUS
<1>9. /\ e \in Seq(Messages) /\ DOMAIN e = 1..(Len(d) + Len(a)) /\ DOMAIN a = 1..Len(a)
      /\ \A i \in 1..Len(d) : e[i] = d[i]
      /\ \A i \in 1..Len(a) : e[Len(d) + i] = a[i]
  <2>1. e \in Seq(Messages) /\ DOMAIN e = 1..(Len(d) + Len(a)) /\ DOMAIN a = 1..Len(a)
    BY <1>2, <1>7, <1>8, ConcatFacts
  <2>2. \A i \in 1..Len(d) : e[i] = d[i]
    BY <1>2, <1>7, <1>8, ConcatFacts
  <2>3. \A i \in 1..Len(a) : e[Len(d) + i] = a[i]
    BY <1>2, <1>7, <1>8, ConcatFacts
  <2> QED BY <2>1, <2>2, <2>3
<1>10. PICK k \in Nat : k = Len(d)
  BY <1>7
<1>11. \A i \in 1..k : ~IsResponse(e[i])
  BY <1>7, <1>9, <1>10 DEF Unanswering
<1>12. Len(e) = k + Len(a)
  <2>1. Len(e) = Len(d) + Len(a)
    BY <1>2, <1>7, <1>8, ConcatProperties
  <2> QED BY <1>10, <2>1
<1>13. c = e
  <2>1. c = b \o r \o a
    BY <1>1, <1>3
  <2> QED BY <1>6, <1>8, <2>1
<1>14. /\ DOMAIN c = 1..(k + Len(main.answer)) /\ Len(c) = k + Len(main.answer)
       /\ \A i \in 1..k : ~IsResponse(c[i])
       /\ \A i \in DOMAIN main.answer : c[k + i] = main.answer[i]
  BY <1>1, <1>9, <1>10, <1>11, <1>12, <1>13
<1> QED BY <1>14

\* The cancelled request is answered in front of the acknowledgement.
LEMMA HeldAnswers ==
    ASSUME NEW h \in Seq(Messages), h # <<>>,
           \A i \in DOMAIN h : i < Len(h) => ~IsResponse(h[i]),
           NEW m \in Messages
    PROVE  LET c == Front(h) \o <<m, Last(h)>>
           IN  \E k \in Nat : /\ DOMAIN c = 1..(k + 2)
                              /\ \A i \in 1..k : ~IsResponse(c[i])
                              /\ c[k + 1] = m /\ c[k + 2] = Last(h)
<1> DEFINE k == Len(h) - 1
           f == SubSeq(h, 1, k)
           l == <<m, h[Len(h)]>>
           b == f \o l
<1>1. DOMAIN h = 1..Len(h) /\ Len(h) \in Nat /\ Len(h) >= 1
  <2>1. DOMAIN h = 1..Len(h) /\ Len(h) \in Nat
    BY LenProperties
  <2>2. Len(h) # 0
    BY EmptySeq
  <2> QED BY <2>1, <2>2
<1>2. /\ f \in Seq(Messages) /\ Len(f) = k /\ DOMAIN f = 1..k
      /\ \A i \in 1..k : f[i] = h[i] /\ i \in DOMAIN h
  BY <1>1, BeginningFacts
<1>3. h[Len(h)] \in Messages /\ Len(h) \in DOMAIN h
  BY <1>1, ElementOfSeq
<1>4. l \in Seq(Messages) /\ Len(l) = 2 /\ l[1] = m /\ l[2] = h[Len(h)]
  BY <1>3
<1>5. /\ DOMAIN b = 1..(k + 2)
      /\ \A i \in 1..k : b[i] = f[i]
      /\ b[k + 1] = m /\ b[k + 2] = h[Len(h)]
  <2> HIDE DEF f, l
  <2>1. f \in Seq(Messages) /\ l \in Seq(Messages)
    BY <1>2, <1>4
  <2>2. DOMAIN b = 1..(Len(f) + Len(l))
    BY <2>1, ConcatFacts
  <2>3. \A i \in 1..Len(f) : b[i] = f[i]
    BY <2>1, ConcatFacts
  <2>4. \A i \in 1..Len(l) : b[Len(f) + i] = l[i]
    BY <2>1, ConcatFacts
  <2>5. b[Len(f) + 1] = l[1] /\ b[Len(f) + 2] = l[2]
    <3>1. 1 \in 1..Len(l) /\ 2 \in 1..Len(l)
      BY <1>4
    <3> HIDE DEF b
    <3> QED BY <2>4, <3>1
  <2> QED BY <1>1, <1>2, <1>4, <2>2, <2>3, <2>5
<1>6. \A i \in 1..k : ~IsResponse(b[i])
  <2>1. \A i \in 1..k : i \in DOMAIN h /\ i < Len(h)
    BY <1>1
  <2> HIDE DEF b, f, k
  <2> QED BY <1>2, <1>5, <2>1
<1>7. Front(h) \o <<m, Last(h)>> = b /\ Last(h) = h[Len(h)]
  BY DEF Front, Last
<1>8. k \in Nat
  BY <1>1
<1> HIDE DEF b, k
<1> QED BY <1>5, <1>6, <1>7, <1>8

\* Main takes an item that is no completion: it has no response yet.
LEMMA AnsweringTakes ==
    ASSUME RuntimeInv, Answering, Onward, MainTakes, ~TakesCompletion
    PROVE  Answering'
<1>1. UNCHANGED <<written, running, held>>
  BY DEF MainTakes, TakesDeferred, TakesDropped, TakesFrame, TakesReady, TakesFailure, sessionVars
<1>2. main.pc = "take" /\ Bare(main) /\ main.cause = "none" /\ QueueTyped /\ deferred \in Seq(Items)
      /\ {"dispatch", "drainNotices"} \subseteq MainPcs
  <2>1. main.pc = "take"
    BY DEF MainTakes, TakesDeferred, TakesDropped, TakesFrame, TakesReady, TakesFailure,
           TakesEvent, Taking, MainAt
  <2> QED BY <2>1, WaitingFacts DEF RuntimeInv, Typed, QueueTyped, QueueTypeOK, MainPcs
<1>3. ASSUME Bare(main'), main'.cause # "shutdown", main'.pc \notin {"write", "drainRequests"}
      PROVE  Answering'
  BY <1>1, <1>3, AnsweringDropped
<1>4. CASE TakesDeferred
  <2>1. PICK f \in Items : f = Head(deferred)
    BY <1>2, <1>4, TailFacts DEF TakesDeferred
  <2>2. main' = Replaying(f, "dispatch", <<>>)
    BY <1>4, <2>1 DEF TakesDeferred
  <2> QED BY <1>2, <1>3, <2>2, TurnsToItem DEF Is
<1>5. CASE TakesDropped
  <2>1. main' = main
    BY <1>5 DEF TakesDropped
  <2> QED BY <1>2, <1>3, <2>1
<1>6. CASE TakesFrame
  <2>1. TakesEvent(AllFrameKinds) /\ main' = Replaying(Head(events), "dispatch", <<>>)
    BY <1>6 DEF TakesFrame
  <2>2. PICK f \in Items : f = Head(events)
    BY <1>2, <2>1, EventTaken
  <2>3. main' = Replaying(f, "dispatch", <<>>)
    BY <2>1, <2>2
  <2> QED BY <1>2, <1>3, <2>3, TurnsToItem DEF Is
<1>7. CASE TakesReady
  <2>1. main' = Idle \/ main' = [Idle EXCEPT !.pc = "drainNotices"]
    BY <1>7 DEF TakesReady
  <2> QED BY <1>2, <1>3, <2>1, TurnsToNothing, IdleIs DEF Is
<1>8. CASE TakesFailure
  <2>1. main' = Crossing(Failure, "abort") /\ Failure \in Items
    BY <1>8, RuntimeAssumption DEF TakesFailure, Failure, Item, Items, Outcomes
  <2> QED BY <1>3, <2>1, TurnsToBoundary DEF Is
<1> QED BY <1>4, <1>5, <1>6, <1>7, <1>8 DEF MainTakes

\* Main replays the cancellations: the answer waits.
LEMMA AnsweringReplays ==
    ASSUME RuntimeInv, Answering, Onward, MainReplays
    PROVE  Answering'
<1>1. UNCHANGED <<written, running, held>> /\ main.pc = "replay" /\ Shape /\ main \in MainStates
  BY DEF MainReplays, sessionVars, ReplaysControl, ControlsReplayed, MainAt, RuntimeInv, Course,
         Typed, MainTyped, MainTypeOK, MainStates
<1>2. CASE ReplaysControl
  <2>1. main' = main
    BY <1>2 DEF ReplaysControl
  <2> QED BY <1>1, <2>1, AnsweringKept DEF Answering, Forms, CrossingPcs
<1>3. CASE ControlsReplayed
  <2>1. main' = [main EXCEPT !.pc = main.next, !.next = "drainNotices"]
    BY <1>3 DEF ControlsReplayed
  <2>2. main'.pc = main.next /\ main'.item = main.item /\ main'.answer = main.answer
        /\ main'.pc \in {"dispatch", "drainNotices", "raised"}
    BY <1>1, <2>1 DEF MainStates, Shape
  <2>3. running # None => main.answer = <<>>
    BY <1>1 DEF Shape, Answering, Forms
  <2> QED BY <1>1, <2>2, <2>3, AnsweringKept DEF CrossingPcs
<1> QED BY <1>2, <1>3 DEF MainReplays

\* Main dispatches a frame.  A request that is refused had its turn; a shutdown that is
\* accepted passes only what is deferred and what is being executed.
LEMMA AnsweringDispatches ==
    ASSUME RuntimeInv, Queued, Answering, Onward, MainDispatches
    PROVE  Answering'
<1>1. /\ Typed /\ Lane /\ Shape /\ Boundary /\ MainTyped /\ main \in MainStates /\ main.item \in Items
      /\ UNCHANGED <<written, held, events>> /\ ~Decides' /\ main.answer = <<>>
      /\ main.pc \in {"dispatch", "edited"} /\ (Carries <=> main.pc = "dispatch")
      /\ main.cause \notin {"exit", "abort"}
  <2>1. main.pc \in {"dispatch", "edited"} /\ (Carries <=> main.pc = "dispatch") /\ ~Decides'
    BY DispatchCarries DEF Decides
  <2>2. Shape /\ Boundary /\ Typed /\ Lane
    BY DEF RuntimeInv, Course
  <2>3. UNCHANGED <<written, held, events>>
    BY DEF MainDispatches, Defers, StartsWorker, RefusesRequest, AcceptsShutdown, AcceptsExit,
           AppliesEdit, ConsumesReply, HandlesOther, EditHandled, sessionVars
  <2> QED BY <2>1, <2>2, <2>3, NumberFacts
          DEF Shape, CrossingPcs, CarryingPcs, Typed, MainTyped, MainTypeOK, MainStates
<1>2. IsResponse(Response(main.item.n, "refused")) /\ Nulls(<<>>) = {} /\ Len(<<>>) = 0
  <2>1. DOMAIN <<>> = {}
    BY EmptySeq, LenProperties
  <2> QED BY <2>1 DEF IsResponse, Response, Message, Nulls
<1>3. CASE Defers
  <2>1. main' = Idle /\ running' = running
    BY <1>3 DEF Defers, sessionVars
  <2> QED BY <1>1, <2>1, IdleIs, AnsweringDropped DEF Is
<1>4. CASE StartsWorker
  <2>1. main' = Idle /\ running' # None /\ state = "RUNNING"
    <3>1. main' = Idle /\ running' = main.item /\ state = "RUNNING"
      BY <1>4 DEF StartsWorker
    <3> QED BY <1>1, <3>1, NoneAssumption
  <2>2. held = None /\ Is(main', "take", "take", "none") /\ main'.answer = <<>>
    BY <1>1, <2>1, IdleIs DEF Boundary, Bare
  <2>3. Outgoing' = <<>> /\ Acks' = {}
    BY <1>1, <1>2, <2>2 DEF Is, Outgoing, Acks, CrossingPcs
  <2>4. Settled' /\ Acknowledging'
    BY <1>1, <2>3, SettledSilently, AcksBy DEF Answering
  <2>5. Forms'
    BY <1>1, <1>2, <2>2 DEF Forms, Is
  <2> QED BY <2>4, <2>5 DEF Answering
<1>5. ASSUME Decides, ~StartsWorker, ~Defers
      PROVE  /\ main.item.n \in Waiting /\ main.item.n \notin Waiting' /\ running' = running
             /\ main.item.n \in 1..frames /\ main.item.n \in 1..frames'
             /\ running # None => running.n < main.item.n
             /\ running = None => \A n \in Waiting' : main.item.n < n
             /\ \A i \in DOMAIN written : IsResponse(written[i]) =>
                   written[i].n # main.item.n
                      /\ (written[i].outcome # "null" => written[i].n < main.item.n)
  <2>1. main.item.n \in Coming /\ main.item.n \in Waiting /\ main.item.n \in 1..frames
    BY <1>5 DEF Coming, Waiting, Queued
  <2>2. UNCHANGED <<running, deferred>>
    BY <1>5 DEF MainDispatches, RefusesRequest, AcceptsShutdown, AcceptsExit, AppliesEdit,
       ConsumesReply, HandlesOther, EditHandled, sessionVars
  <2>3. Waiting' = Numbers(deferred) \cup Numbers(events) \cup (IF running # None THEN {running.n} ELSE {})
    BY <1>1, <2>2 DEF Waiting, Coming
  <2>4. /\ running # None => running.n < main.item.n
        /\ \A n \in Numbers(events) : main.item.n < n
        /\ \A n \in Numbers(deferred) : IF running = None THEN main.item.n < n ELSE n < main.item.n
    BY <1>5, <2>1 DEF Queued
  <2>5. Numbers(deferred) \cup Numbers(events) \subseteq 1..frames
        /\ (running # None => running.n \in 1..frames)
    BY DEF Queued, Waiting, Coming
  <2>6. main.item.n \notin Waiting'
    <3>1. \A n \in Waiting' : n # main.item.n
      BY <2>1, <2>3, <2>4, <2>5
    <3> QED BY <3>1
  <2>7. running = None => \A n \in Waiting' : main.item.n < n
    BY <2>3, <2>4
  <2>8. main.item.n \in 1..frames'
    BY <2>1 DEF Onward
  <2>9. \A i \in DOMAIN written : IsResponse(written[i]) =>
           written[i].n # main.item.n
              /\ (written[i].outcome # "null" => written[i].n < main.item.n)
    BY <2>1 DEF Answering, Settled, Passed
  <2> QED BY <2>1, <2>2, <2>4, <2>6, <2>7, <2>8, <2>9
<1>6. CASE RefusesRequest
  <2>1. /\ main.pc = "dispatch" /\ main.item.kind \in {"request", "shutdown"} /\ running = None
        /\ running' = running
        /\ main' = [main EXCEPT !.pc = "clear", !.answer = <<Response(main.item.n, "refused")>>]
    BY <1>6 DEF RefusesRequest, Dispatching, MainAt, Foreground, LiveReply, LiveShutdown, LiveEdit,
       OnlyRequestsDeferred, sessionVars
  <2>2. Decides /\ ~StartsWorker /\ ~Defers /\ main.item.n \in Generations
    BY <1>1, <1>6, <2>1
       DEF Decides, Asks, RefusesRequest, StartsWorker, Defers, Foreground, MainTyped, Sound
  <2>3. PICK m : m = Response(main.item.n, "refused")
    OBVIOUS
  <2>4. m \in Messages /\ SoundMessage(m) /\ IsResponse(m) /\ m.n = main.item.n /\ m.outcome = "refused"
    BY <2>2, <2>3, MessageFacts DEF Outcomes, Response, Message, IsResponse
  <2>5. PICK a : a = <<m>>
    OBVIOUS
  <2>6. main' = [main EXCEPT !.pc = "clear", !.answer = a]
    BY <2>1, <2>3, <2>5
  <2>7. main'.pc = "clear" /\ main'.answer = a
    BY <1>1, <2>6 DEF MainStates
  <2>8. DOMAIN a = {1} /\ a[1] = m /\ Len(a) = 1
    BY <2>4, <2>5, AnswerFacts
  <2>9. Nulls(a) = {}
    BY <2>4, <2>8 DEF Nulls
  <2>10. Outgoing' = a /\ Acks' = {}
    BY <2>1, <2>7, <2>9 DEF Outgoing, Acks, CrossingPcs
  <2>11. Passed(m)'
    BY <1>5, <2>1, <2>2, <2>4 DEF Passed
  <2>12. \A i \in DOMAIN written : InOrder(written[i], m)
    <3>1. ASSUME NEW i \in DOMAIN written, IsResponse(written[i]), written[i].n > m.n
          PROVE  written[i].outcome = "null"
      <4>1. written[i].outcome # "null" => written[i].n < m.n
        BY <1>5, <2>2, <2>4, <3>1
      <4>2. m.n \in Nat /\ written[i].n \in Nat
        <5>1. written[i].n \in 1..frames
          BY <3>1 DEF Answering, Settled, Passed
        <5> QED BY <1>5, <2>2, <2>4, <5>1 DEF Onward
      <4> QED BY <3>1, <4>1, <4>2
    <3>2. ASSUME NEW i \in DOMAIN written, IsResponse(written[i]) PROVE written[i].n # m.n
      BY <1>5, <2>2, <2>4, <3>2
    <3> QED BY <2>4, <3>1, <3>2 DEF InOrder
  <2>13. Settled' /\ Acknowledging'
    BY <1>1, <2>1, <2>4, <2>5, <2>10, <2>11, <2>12, SettledByOne, AcksBy DEF Answering
  <2>14. Forms'
    BY <2>1, <2>7, <2>8 DEF Forms
  <2> QED BY <2>13, <2>14 DEF Answering
<1>7. CASE AcceptsShutdown
  <2>1. /\ main.pc = "dispatch" /\ main.item.kind = "shutdown" /\ state = "RUNNING"
        /\ main' = Crossing(main.item, "shutdown")
    BY <1>7 DEF AcceptsShutdown, Dispatching, MainAt
  <2>2. Decides /\ ~StartsWorker /\ ~Defers
    BY <1>1, <1>7, <2>1 DEF Decides, Asks, StartsWorker, Dispatching, AcceptsShutdown, Defers
  <2>3. /\ Is(main', "retire", "take", "shutdown") /\ main'.item = main.item /\ main'.answer = <<>>
        /\ held = None /\ ~Null(written)
    BY <1>1, <2>1, TurnsToBoundary DEF Bare, Boundary
  <2>4. Outgoing' = <<>> /\ Acks' = {main.item.n}
    BY <1>1, <1>2, <2>3 DEF Is, Outgoing, Acks, CrossingPcs
  <2>5. Acknowledging'
    <3>1. \A i \in DOMAIN written : IsResponse(written[i]) => written[i].outcome # "null"
      BY <2>3 DEF Null, IsResponse
    <3>2. \A i \in DOMAIN written' : IsResponse(written'[i]) => written'[i].n < main.item.n
      BY <1>1, <1>5, <2>2, <3>1
    <3> QED BY <1>5, <2>2, <2>4, <3>2 DEF Acknowledging
  <2>6. Settled'
    BY <1>1, <2>4, SettledSilently DEF Answering
  <2>7. Forms'
    BY <1>1, <1>2, <2>3 DEF Forms, Is
  <2> QED BY <2>5, <2>6, <2>7 DEF Answering
<1>8. CASE AcceptsExit
  <2>1. main' = Crossing(main.item, "exit") /\ running' = running
    BY <1>8 DEF AcceptsExit, sessionVars
  <2> QED BY <1>1, <2>1, TurnsToBoundary, AnsweringDropped DEF Is
<1>9. CASE AppliesEdit \/ ConsumesReply \/ HandlesOther \/ EditHandled
  <2>1. PICK pc \in {"edited", "replay"} : main' = [main EXCEPT !.pc = pc]
    BY <1>9 DEF AppliesEdit, ConsumesReply, HandlesOther, EditHandled, Go
  <2>2. main'.pc = pc /\ main'.answer = <<>> /\ running' = running
    BY <1>1, <1>9, <2>1 DEF MainStates, AppliesEdit, ConsumesReply, HandlesOther, EditHandled, sessionVars
  <2> QED BY <1>1, <2>2, AnsweringKept DEF CrossingPcs
<1> QED BY <1>3, <1>4, <1>6, <1>7, <1>8, <1>9 DEF MainDispatches

\* The request that was executed is answered first of those that waited, and in front of
\* the acknowledgement that was held for it.
LEMMA AnsweringCompletes ==
    ASSUME RuntimeInv, Queued, Answering, Onward, TakesCompletion, UNCHANGED written
    PROVE  Answering'
<1>1. /\ Typed /\ Lane /\ Course /\ Boundary /\ QueueTyped /\ SessionTyped
      /\ main.pc = "take" /\ TakesEvent({"completed"}) /\ running' = None /\ held' = held
      /\ {"drainNotices", "raised", "returned"} \subseteq MainPcs
  BY DEF RuntimeInv, Typed, Course, TakesCompletion, TakesEvent, Taking, MainAt, MainPcs
<1>2. PICK done \in Items : /\ done = Head(events) /\ done.kind = "completed"
                            /\ done.n \in Generations /\ done.outcome \in Outcomes
                            /\ done.outcome # "null"
  <2>1. Head(events) \in Items /\ Sound(Head(events)) /\ Head(events).kind = "completed"
    BY <1>1, EventTaken
  <2> QED BY <2>1 DEF Sound, Items
<1>3. events \in Seq(Items) /\ events # <<>> /\ events' = Tail(events) /\ deferred' = deferred
  BY <1>1 DEF TakesEvent, QueueTyped, QueueTypeOK
<1>4. 1 \in Completions /\ running # None /\ done.n = running.n
  <2>1. 1 \in DOMAIN events /\ events[1] = done
    BY <1>2, <1>3, TailFacts
  <2>2. 1 \in Completions
    BY <1>2, <2>1 DEF Completions
  <2> QED BY <1>1, <2>1, <2>2 DEF Lane, Queued
<1> DEFINE stop == done.outcome = "raised" /\ (failed \/ held # None)
<1>5. Is(Idle, "take", "take", "none") /\ Bare(Idle)
  BY IdleIs
<1>6. /\ Nulls(<<>>) = {} /\ Len(<<>>) = 0
  <2>1. DOMAIN <<>> = {}
    BY EmptySeq, LenProperties
  <2> QED BY <2>1 DEF Nulls
<1>7. ASSUME ~Decides' PROVE \A n \in Waiting' : running.n < n
  <2>1. Numbers(events') \subseteq Numbers(events)
    BY <1>3, NumbersTaken
  <2>2. Waiting' \subseteq Coming
    BY <1>1, <1>3, <1>7, <2>1 DEF Waiting, Coming
  <2> QED BY <1>4, <2>2 DEF Queued
<1>8. ASSUME ~Decides', NEW m, IsResponse(m), m.n = done.n
      PROVE  Passed(m)' /\ \A i \in DOMAIN written : InOrder(written[i], m)
  <2>1. running.n \in Waiting /\ running.n \in 1..frames /\ frames \in Nat
    BY <1>4 DEF Waiting, Queued, Onward
  <2>2. m.n \in 1..frames'
    BY <1>4, <1>8, <2>1 DEF Onward
  <2>3. /\ m.n \notin Waiting'
        /\ \A n \in Waiting' : m.n < n
    <3>1. \A n \in Waiting' : m.n < n
      BY <1>4, <1>7, <1>8
    <3>2. ~(m.n < m.n)
      BY <1>4, <1>8, <2>1
    <3> QED BY <3>1, <3>2
  <2>4. ASSUME NEW i \in DOMAIN written, IsResponse(written[i])
        PROVE  written[i].n < m.n /\ written[i].n \in Nat
    <3>1. written[i].outcome # "null"
      BY <1>1, <1>4, <2>4 DEF Boundary, Null, IsResponse
    <3> QED BY <1>4, <1>8, <2>1, <2>4, <3>1 DEF Answering, Settled, Passed
  <2>5. \A i \in DOMAIN written : InOrder(written[i], m)
    <3>1. m.n \in Nat
      BY <2>2 DEF Onward
    <3> QED BY <2>4, <3>1 DEF InOrder
  <2> QED BY <1>8, <2>2, <2>3, <2>5 DEF Passed
<1>9. CASE stop \/ failed
  <2>1. PICK pc \in {"raised", "returned"} : main' = [Idle EXCEPT !.pc = pc]
    BY <1>2, <1>9 DEF TakesCompletion
  <2>2. Is(main', pc, "take", "none") /\ Bare(main')
    BY <1>1, <2>1, TurnsToNothing
  <2>3. Outgoing' = <<>> /\ Acks' = {} /\ main'.answer = <<>>
    BY <1>1, <1>6, <2>2 DEF Is, Bare, Outgoing, Acks, CrossingPcs
  <2>4. Settled' /\ Acknowledging'
    BY <2>3, SettledSilently, AcksBy DEF Answering
  <2>5. Forms'
    BY <1>1, <1>6, <2>2, <2>3 DEF Forms, Is
  <2> QED BY <2>4, <2>5 DEF Answering
<1>10. CASE ~failed /\ held # None /\ done.outcome # "raised"
  <2>1. PICK m : m = Response(done.n, "cancelled")
    OBVIOUS
  <2>2. m \in Messages /\ IsResponse(m) /\ m.n = done.n /\ m.outcome = "cancelled"
    BY <1>2, <2>1, MessageFacts DEF Outcomes, Response, Message, IsResponse
  <2>3. /\ held \in Seq(Messages) /\ held # <<>> /\ IsResponse(Last(held)) /\ Last(held).outcome = "null"
        /\ \A i \in DOMAIN held : i < Len(held) => ~IsResponse(held[i])
    BY <1>1, <1>4, <1>10 DEF Answering, Forms, SessionTyped, SessionTypeOK
  <2>4. PICK c, l : c = Front(held) \o <<m, Last(held)>> /\ l = Last(held)
    OBVIOUS
  <2>5. PICK k \in Nat : /\ DOMAIN c = 1..(k + 2)
                         /\ \A i \in 1..k : ~IsResponse(c[i])
                         /\ c[k + 1] = m /\ c[k + 2] = l
    <3>1. \A i \in DOMAIN held : i < Len(held) => ~IsResponse(held[i])
      BY <2>3
    <3>2. c = Front(held) \o <<m, Last(held)>>
      BY <2>4
    <3>3. \E k \in Nat : /\ DOMAIN c = 1..(k + 2)
                       /\ \A i \in 1..k : ~IsResponse(c[i])
                       /\ c[k + 1] = m /\ c[k + 2] = Last(held)
      BY <2>2, <2>3, <3>1, <3>2, HeldAnswers
    <3> QED BY <2>4, <3>3
  <2>6. main' = [Idle EXCEPT !.pc = "write", !.item = done, !.batch = c]
    BY <1>2, <1>10, <2>1, <2>4 DEF TakesCompletion
  <2>7. /\ main'.pc = "write" /\ main'.next = "take" /\ main'.cause = "none"
        /\ main'.answer = <<>> /\ main'.batch = c
    <3>1. main'.pc = "write" /\ main'.next = "take" /\ main'.cause = "none" /\ main'.batch = c
      BY <2>6 DEF Idle
    <3>2. main'.answer = Idle.answer
      BY <2>6 DEF Idle
    <3> QED BY <1>5, <3>1, <3>2 DEF Bare
  <2>8. ~Decides' /\ Outgoing' = c /\ Acks' = {}
    BY <1>1, <2>7 DEF Decides, Carries, Outgoing, Acks, CrossingPcs
  <2>9. l.n \in Acks
    <3>1. Len(held) \in DOMAIN held /\ l = held[Len(held)]
      <4>1. DOMAIN held = 1..Len(held) /\ Len(held) \in Nat /\ Len(held) # 0
        BY <2>3, LenProperties, EmptySeq
      <4> QED BY <2>4, <4>1 DEF Last
    <3>2. l.n \in Nulls(held)
      BY <2>3, <2>4, <3>1 DEF Nulls
    <3> QED BY <1>4, <1>10, <3>2 DEF Acks
  <2>10. /\ l.n \in 1..frames /\ l.n \notin Waiting /\ running.n < l.n
         /\ \A i \in DOMAIN written : IsResponse(written[i]) => written[i].n < l.n
    BY <1>4, <2>9 DEF Answering, Acknowledging
  <2>11. l.n \in 1..frames' /\ l.n \notin Waiting' /\ l.n \in Nat
    BY <2>10 DEF Onward
  <2>12. Passed(m)' /\ \A i \in DOMAIN written : InOrder(written[i], m)
    BY <1>8, <2>2, <2>8
  <2>13. Passed(l)'
    BY <2>3, <2>4, <2>11 DEF Passed
  <2>14. \A i \in DOMAIN c : IsResponse(c[i]) => i = k + 1 \/ i = k + 2
    BY <2>5
  <2>15. \A i \in DOMAIN c : Passed(c[i])'
    <3>1. ASSUME NEW i \in DOMAIN c PROVE Passed(c[i])'
      <4>1. CASE i = k + 1 \/ i = k + 2
        BY <2>5, <2>12, <2>13, <4>1
      <4>2. CASE ~IsResponse(c[i])
        BY <4>2 DEF Passed
      <4> QED BY <2>14, <3>1, <4>1, <4>2
    <3> QED BY <3>1
  <2>16. InOrder(m, l)
    <3>1. m.n \in Nat
      <4>1. running.n \in 1..frames
        BY <1>4 DEF Queued, Waiting
      <4> QED BY <1>4, <2>2, <4>1 DEF Onward
    <3> QED BY <1>4, <2>2, <2>10, <2>11, <3>1 DEF InOrder
  <2>17. Orderly(c)
    <3>1. ASSUME NEW i \in DOMAIN c, NEW j \in DOMAIN c, i < j PROVE InOrder(c[i], c[j])
      <4>1. CASE i = k + 1 /\ j = k + 2
        BY <2>5, <2>16, <4>1
      <4>2. CASE ~IsResponse(c[i]) \/ ~IsResponse(c[j])
        BY <4>2 DEF InOrder
      <4>3. IsResponse(c[i]) /\ IsResponse(c[j]) => i = k + 1 /\ j = k + 2
        BY <2>5, <2>14, <3>1
      <4> QED BY <4>1, <4>2, <4>3
    <3> QED BY <3>1 DEF Orderly
  <2>18. \A i \in DOMAIN written : InOrder(written[i], l)
    <3>1. ASSUME NEW i \in DOMAIN written, IsResponse(written[i])
          PROVE  written[i].n < l.n /\ written[i].n \in Nat
      BY <2>10, <3>1 DEF Answering, Settled, Passed
    <3> QED BY <2>11, <3>1 DEF InOrder
  <2>19. Follows(written, c)
    <3>1. ASSUME NEW i \in DOMAIN written, NEW j \in DOMAIN c PROVE InOrder(written[i], c[j])
      <4>1. CASE j = k + 1 \/ j = k + 2
        BY <2>5, <2>12, <2>18, <4>1
      <4>2. CASE ~IsResponse(c[j])
        BY <4>2 DEF InOrder
      <4> QED BY <2>14, <4>1, <4>2
    <3> QED BY <3>1 DEF Follows
  <2>20. Settled' /\ Acknowledging'
    BY <2>8, <2>15, <2>17, <2>19, SettledBy, AcksBy DEF Answering
  <2>21. Forms'
    BY <1>1, <1>6, <2>7 DEF Forms
  <2> QED BY <2>20, <2>21 DEF Answering
<1>11. CASE ~failed /\ held = None
  <2>1. PICK m, a : m = Response(done.n, done.outcome) /\ a = <<m>>
    OBVIOUS
  <2>2. m \in Messages /\ SoundMessage(m) /\ IsResponse(m) /\ m.n = done.n /\ m.outcome # "null"
    BY <1>2, <2>1, MessageFacts DEF Response, Message, IsResponse
  <2>3. a \in Seq(Messages) /\ DOMAIN a = {1} /\ a[1] = m /\ Len(a) = 1
    BY <2>1, <2>2, AnswerFacts
  <2>4. PICK next \in {"raised", "drainNotices"} : main' = Replaying(done, next, a)
    BY <1>2, <1>11, <2>1 DEF TakesCompletion
  <2>5. Is(main', "replay", next, "none") /\ main'.answer = a
    <3> HIDE DEF stop
    <3>1. next \in MainPcs
      BY <1>1
    <3> QED BY <2>3, <2>4, <3>1, TurnsWithAnswer
  <2>6. Nulls(a) = {}
    BY <2>2, <2>3 DEF Nulls
  <2>7. ~Decides' /\ Outgoing' = a /\ Acks' = {}
    BY <1>1, <2>5, <2>6 DEF Is, Decides, Carries, Outgoing, Acks, CrossingPcs
  <2>8. Passed(m)' /\ \A i \in DOMAIN written : InOrder(written[i], m)
    BY <1>8, <2>2, <2>7
  <2>9. Settled' /\ Acknowledging'
    BY <2>1, <2>2, <2>7, <2>8, SettledByOne, AcksBy DEF Answering
  <2>10. Forms'
    <3>1. main'.pc = "replay"
      BY <2>5 DEF Is
    <3>2. main'.answer = a
      BY <2>5
    <3>3. Len(main'.answer) = 1
      BY <2>3, <3>2
    <3> QED BY <1>1, <3>1, <3>3 DEF Forms
  <2> QED BY <2>9, <2>10 DEF Answering
<1> QED BY <1>9, <1>10, <1>11

\* Main crosses a boundary: the shutdown it accepted is answered at the end.
LEMMA AnsweringCrosses ==
    ASSUME RuntimeInv, Answering, Onward, MainCrosses
    PROVE  Answering'
<1>1. /\ Typed /\ Shape /\ MainTyped /\ main \in MainStates /\ main.item \in Items /\ Sound(main.item)
      /\ UNCHANGED <<written, running, held>> /\ main.pc \in CrossingPcs
      /\ {"drainNotices", "returned"} \subseteq MainPcs
  BY DEF RuntimeInv, Typed, Course, MainTyped, MainTypeOK, MainStates, MainPcs, MainCrosses,
         RetiresContexts, StagesRunning, RetiresOutbox, Closes, MainAt, CrossingPcs
<1>2. main.answer = <<>> /\ main.cause \in {"shutdown", "exit", "abort"}
  BY <1>1 DEF Shape, CrossingPcs, CarryingPcs, MainStates
<1>3. CASE RetiresContexts \/ StagesRunning \/ RetiresOutbox
  <2>1. PICK pc \in {"stage", "retireOutbox", "close"} : main' = [main EXCEPT !.pc = pc]
    BY <1>3 DEF RetiresContexts, StagesRunning, RetiresOutbox, Go
  <2>2. main'.pc = pc /\ main'.answer = main.answer /\ main'.item = main.item /\ main'.cause = main.cause
    BY <1>1, <2>1 DEF MainStates
  <2>3. main.pc # "write" /\ main'.pc \notin {"write", "drainRequests"}
    BY <1>1, <2>2 DEF CrossingPcs
  <2> QED BY <1>1, <1>2, <2>2, <2>3, AnsweringKept
<1>4. CASE Closes /\ main.cause = "shutdown"
  <2>1. main.item.kind = "shutdown" /\ main.item.n \in Generations
    BY <1>1, <1>4 DEF MainTyped, Sound
  <2>2. PICK m, a : m = Response(main.item.n, "null") /\ a = <<m>>
    OBVIOUS
  <2>3. m \in Messages /\ SoundMessage(m) /\ IsResponse(m) /\ m.n = main.item.n /\ m.outcome = "null"
    BY <2>1, <2>2, MessageFacts DEF Outcomes, Response, Message, IsResponse
  <2>4. DOMAIN a = {1} /\ a[1] = m /\ Len(a) = 1
    BY <2>2, <2>3, AnswerFacts
  <2>5. main' = [main EXCEPT !.pc = "clear", !.answer = a]
    BY <1>4, <2>2 DEF Closes
  <2>6. main'.pc = "clear" /\ main'.answer = a /\ main'.item = main.item
    BY <1>1, <2>5 DEF MainStates
  <2>7. Nulls(a) = {main.item.n}
    BY <2>3, <2>4 DEF Nulls
  <2>8. Outgoing' = a /\ Acks' \subseteq Acks /\ main.item.n \in Acks
    BY <1>1, <1>4, <2>6, <2>7 DEF Outgoing, Acks, CrossingPcs
  <2>9. /\ m.n \in 1..frames' /\ m.n \notin Waiting' /\ m.n \in Nat
        /\ \A i \in DOMAIN written : IsResponse(written[i]) => written[i].n < m.n
    BY <2>3, <2>8 DEF Answering, Acknowledging, Onward
  <2>10. Passed(m)'
    BY <2>3, <2>9 DEF Passed
  <2>11. \A i \in DOMAIN written : InOrder(written[i], m)
    <3>1. ASSUME NEW i \in DOMAIN written, IsResponse(written[i])
          PROVE  written[i].n < m.n /\ written[i].n \in Nat
      BY <2>9, <3>1 DEF Answering, Settled, Passed
    <3> QED BY <2>9, <3>1 DEF InOrder
  <2>12. Settled' /\ Acknowledging'
    BY <1>1, <2>2, <2>3, <2>8, <2>10, <2>11, SettledByOne, AcksBy DEF Answering
  <2>13. Forms'
    <3>1. Len(main'.answer) = 1
      BY <2>4, <2>6
    <3> QED BY <1>1, <2>1, <2>6, <3>1 DEF Answering, Forms, CarryingPcs
  <2> QED BY <2>12, <2>13 DEF Answering
<1>5. CASE Closes /\ main.cause # "shutdown"
  <2>1. \/ main' = Replaying(main.item, "drainNotices", <<>>)
        \/ main' = Idle
        \/ main' = [Idle EXCEPT !.pc = "returned"]
    BY <1>2, <1>5 DEF Closes
  <2> QED BY <1>1, <2>1, TurnsToItem, IdleIs, TurnsToNothing, AnsweringDropped DEF Is
<1> QED BY <1>3, <1>4, <1>5 DEF MainCrosses

\* Main gathers a batch: the answer it has goes to the end of it.
LEMMA AnsweringGathers ==
    ASSUME RuntimeInv, Answering, Onward, TakesRequests, UNCHANGED running
    PROVE  Answering'
<1>0. PICK c : c = main.batch \o [i \in DOMAIN outbox |-> RefreshRequest(outbox[i])]
                              \o main.answer
  OBVIOUS
<1>1. PICK k \in Nat : /\ DOMAIN c = 1..(k + Len(main.answer)) /\ Len(c) = k + Len(main.answer)
                       /\ \A i \in 1..k : ~IsResponse(c[i])
                       /\ \A i \in DOMAIN main.answer : c[k + i] = main.answer[i]
  <2>1. MainTyped /\ outbox \in Seq(Requests) /\ Unanswering(main.batch)
    BY DEF RuntimeInv, Typed, OutboxTyped, OutboxTypeOK, Answering, Forms, TakesRequests, MainAt
  <2> QED BY <1>0, <2>1, BatchAnswers
<1>2. PICK a : a = main.answer
  OBVIOUS
<1>3. /\ a \in Seq(Messages) /\ DOMAIN a = 1..Len(a) /\ Len(a) \in {0, 1}
      /\ (a = <<>> <=> Len(a) = 0) /\ Outgoing = a
      /\ main \in MainStates /\ main.pc = "drainRequests" /\ Shape /\ Boundary
      /\ UNCHANGED <<running, written>>
  <2>1. a \in Seq(Messages) /\ main \in MainStates /\ main.pc = "drainRequests"
        /\ Shape /\ Boundary /\ UNCHANGED <<running, written>>
    BY <1>2 DEF RuntimeInv, Typed, Course, MainTyped, MainTypeOK, MainStates, TakesRequests, MainAt
  <2>2. DOMAIN a = 1..Len(a) /\ Len(a) \in Nat /\ (a = <<>> <=> Len(a) = 0)
    BY <2>1, LenProperties, EmptySeq
  <2>3. Len(a) <= 1 /\ Outgoing = a
    BY <1>2, <2>1 DEF Answering, Forms, Outgoing
  <2>4. Len(a) \in {0, 1}
    BY <2>2, <2>3
  <2> QED BY <2>1, <2>2, <2>3, <2>4
<1>4. \A i \in DOMAIN c : IsResponse(c[i]) => i = k + 1 /\ 1 \in DOMAIN a /\ c[i] = a[1]
  <2>1. ASSUME NEW i \in DOMAIN c, IsResponse(c[i]) PROVE i = k + 1 /\ 1 \in DOMAIN a /\ c[i] = a[1]
    <3>1. i \in 1..(k + Len(a)) /\ i \notin 1..k
      BY <1>1, <1>2, <2>1
    <3>2. i = k + 1 /\ 1 \in DOMAIN a
      <4>1. CASE Len(a) = 0
        BY <3>1, <4>1
      <4>2. CASE Len(a) = 1
        BY <1>3, <3>1, <4>2
      <4> QED BY <1>3, <4>1, <4>2
    <3> QED BY <1>1, <1>2, <3>2
  <2> QED BY <2>1
<1>5. Orderly(c) /\ Follows(written, c) /\ (\A i \in DOMAIN c : Passed(c[i])') /\ Nulls(c) \subseteq Nulls(a)
  <2>1. Orderly(c)
    <3>1. ASSUME NEW i \in DOMAIN c, NEW j \in DOMAIN c, i < j PROVE InOrder(c[i], c[j])
      <4>1. ~(IsResponse(c[i]) /\ IsResponse(c[j]))
        BY <1>1, <1>4, <3>1
      <4> QED BY <4>1 DEF InOrder
    <3> QED BY <3>1 DEF Orderly
  <2>2. Follows(written, c)
    BY <1>3, <1>4 DEF Answering, Settled, Follows, InOrder
  <2>3. ASSUME NEW i \in DOMAIN c PROVE Passed(c[i])'
    <3>1. Passed(c[i])
      BY <1>3, <1>4 DEF Answering, Settled, Passed
    <3> QED BY <3>1, PassedStays
  <2>4. Nulls(c) \subseteq Nulls(a)
    BY <1>4 DEF Nulls
  <2> QED BY <2>1, <2>2, <2>3, <2>4
<1>6. Nulls(<<>>) = {} /\ Len(<<>>) = 0 /\ DOMAIN <<>> = {}
  <2>1. DOMAIN <<>> = {}
    BY EmptySeq, LenProperties
  <2> QED BY <2>1 DEF Nulls
<1>7. CASE main.item.kind = "shutdown" /\ running # None
  <2>1. held' = c /\ main' = Idle
    BY <1>0, <1>7 DEF TakesRequests
  <2>2. Is(main', "take", "take", "none") /\ main'.answer = <<>>
    BY <2>1, IdleIs DEF Bare
  <2>3. Outgoing' = <<>> /\ Acks' \subseteq Acks
    <3>1. Outgoing' = <<>>
      BY <2>2 DEF Is, Outgoing
    <3>2. Acks' \subseteq Nulls(c)
      BY <1>6, <2>1, <2>2 DEF Is, Acks, CrossingPcs
    <3>3. Nulls(a) \subseteq Acks
      BY <1>2, <1>3 DEF Acks
    <3> QED BY <1>5, <3>1, <3>2, <3>3
  <2>4. Settled' /\ Acknowledging'
    BY <1>3, <2>3, SettledSilently, AcksBy DEF Answering
  <2>5. 1 \in DOMAIN a /\ Len(a) = 1 /\ IsResponse(a[1]) /\ a[1].outcome = "null"
    <3>1. PICK i \in DOMAIN a : IsResponse(a[i]) /\ a[i].outcome = "null"
      BY <1>2, <1>3, <1>7 DEF Boundary, Null, IsResponse
    <3>2. i = 1 /\ Len(a) = 1
      BY <1>3, <3>1
    <3> QED BY <3>1, <3>2
  <2>6. /\ Len(c) = k + 1 /\ DOMAIN c = 1..(k + 1) /\ c[k + 1] = a[1] /\ Last(c) = c[Len(c)]
        /\ c # <<>>
    <3>1. Len(c) = k + 1 /\ DOMAIN c = 1..(k + 1) /\ c[k + 1] = a[1]
      BY <1>1, <1>2, <2>5
    <3>2. c # <<>>
      BY <1>1, <1>6, <3>1
    <3> QED BY <3>1, <3>2 DEF Last
  <2>7. \A i \in DOMAIN c : i < Len(c) => ~IsResponse(c[i])
    BY <1>1, <1>4, <2>6
  <2>8. IsResponse(Last(c)) /\ Last(c).outcome = "null"
    BY <2>5, <2>6
  <2>9. Forms'
    <3>1. Len(main'.answer) = 0
      BY <1>6, <2>2
    <3> QED BY <2>1, <2>2, <2>6, <2>7, <2>8, <3>1 DEF Forms, Is
  <2> QED BY <2>4, <2>9 DEF Answering
<1>8. CASE ~(main.item.kind = "shutdown" /\ running # None)
  <2>1. held' = held /\ main' = [main EXCEPT !.pc = "write", !.batch = c]
    BY <1>0, <1>8 DEF TakesRequests
  <2>2. main'.pc = "write" /\ main'.answer = main.answer /\ main'.batch = c /\ main'.item = main.item
    <3>1. c \in Seq(Messages)
      <4>1. MainTyped /\ outbox \in Seq(Requests)
        BY DEF RuntimeInv, Typed, OutboxTyped, OutboxTypeOK
      <4> QED BY <1>0, <4>1, BatchFacts
    <3> QED BY <1>3, <2>1, <3>1 DEF MainStates
  <2>3. Outgoing' = c /\ Acks' \subseteq Acks
    BY <1>3, <2>1, <2>2 DEF Outgoing, Acks, CrossingPcs
  <2>4. Settled' /\ Acknowledging'
    BY <1>3, <1>5, <2>3, SettledBy, AcksBy DEF Answering
  <2>5. running # None => main.answer = <<>> /\ Unanswering(c)
    <3>1. ASSUME running # None PROVE a = <<>>
      BY <1>2, <1>8, <3>1 DEF Answering, Forms
    <3>2. ASSUME a = <<>> PROVE Unanswering(c)
      BY <1>3, <1>4, <3>2 DEF Unanswering
    <3> QED BY <1>2, <3>1, <3>2
  <2>6. Forms'
    <3>1. Len(main'.answer) <= 1
      BY <2>2 DEF Answering, Forms
    <3> QED BY <1>3, <2>1, <2>2, <2>5, <3>1 DEF Answering, Forms
  <2> QED BY <2>4, <2>6 DEF Answering
<1> QED BY <1>7, <1>8

\* What main has at hand is written, or the first messages of it.
LEMMA AnsweringWrites ==
    ASSUME RuntimeInv, Answering, Onward, UNCHANGED running, main.pc = "write",
           NEW k \in 0..Len(main.batch), Deliver(k), Bare(main'),
           main'.cause # "shutdown", main'.pc \notin {"write", "drainRequests"},
           held' \in {None, held}
    PROVE  Answering'
<1>1. PICK b : b = main.batch
  OBVIOUS
<1>2. /\ written \in Seq(Messages) /\ answered \in SUBSET Generations
      /\ b \in Seq(Messages) /\ \A i \in DOMAIN b : SoundMessage(b[i])
  BY <1>1 DEF RuntimeInv, Typed, WorkTyped, WorkTypeOK, ClientTypeOK, MainTyped, MainTypeOK
<1>3. /\ DOMAIN written = 1..Len(written) /\ Len(written) \in Nat
      /\ DOMAIN written' = 1..(Len(written) + k)
      /\ \A i \in DOMAIN written : written'[i] = written[i]
      /\ \A i \in DOMAIN written' : i \notin DOMAIN written =>
            i - Len(written) \in DOMAIN b /\ written'[i] = b[i - Len(written)]
  BY <1>1, <1>2, DeliverFacts
<1>4. /\ Orderly(written) /\ Orderly(b) /\ Follows(written, b)
      /\ \A i \in DOMAIN written : Passed(written[i])
      /\ \A i \in DOMAIN b : Passed(b[i])
  BY <1>1 DEF Answering, Settled, Outgoing
<1>5. Nulls(<<>>) = {} /\ Len(<<>>) = 0 /\ DOMAIN <<>> = {}
  <2>1. DOMAIN <<>> = {}
    BY EmptySeq, LenProperties
  <2> QED BY <2>1 DEF Nulls
<1>6. main'.answer = <<>> /\ Outgoing' = <<>>
  BY DEF Bare, Outgoing
<1>7. Orderly(written')
  <2>1. ASSUME NEW i \in DOMAIN written', NEW j \in DOMAIN written', i < j
        PROVE  InOrder(written'[i], written'[j])
    <3>1. CASE j \in DOMAIN written
      <4>1. i \in DOMAIN written
        BY <1>3, <2>1, <3>1
      <4> QED BY <1>3, <1>4, <2>1, <3>1, <4>1 DEF Orderly
    <3>2. CASE i \in DOMAIN written /\ j \notin DOMAIN written
      BY <1>3, <1>4, <2>1, <3>2 DEF Follows
    <3>3. CASE i \notin DOMAIN written /\ j \notin DOMAIN written
      <4>1. i - Len(written) < j - Len(written)
        BY <1>3, <2>1
      <4> QED BY <1>3, <1>4, <2>1, <3>3, <4>1 DEF Orderly
    <3> QED BY <3>1, <3>2, <3>3
  <2> QED BY <2>1 DEF Orderly
<1>8. ASSUME NEW i \in DOMAIN written', IsResponse(written'[i])
      PROVE  /\ written'[i].n \in 1..frames' /\ written'[i].n \notin Waiting'
             /\ written'[i].outcome # "null" => \A n \in Waiting' : written'[i].n < n
  <2>1. PICK m : m = written'[i]
    OBVIOUS
  <2>2. Passed(m)
    BY <1>3, <1>4, <1>8, <2>1
  <2>3. Passed(m)'
    BY <2>2, PassedStays
  <2>4. /\ m.n \in 1..frames' /\ m.n \notin Waiting'
        /\ m.outcome # "null" => \A n \in Waiting' : m.n < n
    BY <1>8, <2>1, <2>3 DEF Passed
  <2> QED BY <2>1, <2>4
<1>9. Settled'
  <2>1. DOMAIN Outgoing' = {}
    BY <1>5, <1>6
  <2>2. Orderly(Outgoing') /\ Follows(written', Outgoing')
    BY <2>1 DEF Orderly, Follows
  <2>3. \A i \in DOMAIN written' : IsResponse(written'[i]) =>
           /\ written'[i].n \in 1..frames' /\ written'[i].n \notin Waiting'
           /\ written'[i].outcome # "null" => \A n \in Waiting' : written'[i].n < n
    BY <1>8
  <2>4. (\A i \in DOMAIN written : Passed(written[i]))'
    BY <2>3 DEF Passed
  <2>5. (\A i \in DOMAIN Outgoing : Passed(Outgoing[i]))'
    BY <2>1
  <2> QED BY <1>7, <2>2, <2>4, <2>5 DEF Settled
<1>10. Acks' \subseteq Acks /\ (running = None => Acks' = {})
  BY <1>5, <1>6 DEF Acks
<1>11. ASSUME NEW n \in Acks'
       PROVE  /\ n \in 1..frames' /\ n \notin Waiting' /\ (running' # None => running'.n < n)
              /\ \A i \in DOMAIN written' : IsResponse(written'[i]) => written'[i].n < n
  <2>1. running # None /\ n \in Acks
    BY <1>10, <1>11
  <2>2. /\ n \in 1..frames /\ n \notin Waiting /\ running.n < n
        /\ \A i \in DOMAIN written : IsResponse(written[i]) => written[i].n < n
    BY <2>1 DEF Answering, Acknowledging
  <2>3. Unanswering(b)
    BY <1>1, <2>1 DEF Answering, Forms
  <2>4. \A i \in DOMAIN written' : IsResponse(written'[i]) => i \in DOMAIN written
    BY <1>3, <2>3 DEF Unanswering
  <2>5. n \in 1..frames' /\ n \notin Waiting'
    BY <2>2 DEF Onward
  <2> QED BY <1>3, <2>2, <2>4, <2>5
<1>12. Acknowledging'
  BY <1>11 DEF Acknowledging
<1>13. Forms'
  <2>1. Len(main'.answer) = 0
    BY <1>5, <1>6
  <2> QED BY <1>6, <2>1 DEF Answering, Forms
<1> QED BY <1>9, <1>12, <1>13 DEF Answering

\* Main finishes, gathers a batch, writes it or returns.
LEMMA AnsweringAnswers ==
    ASSUME RuntimeInv, Answering, Onward, MainAnswers
    PROVE  Answering'
<1>1. /\ Typed /\ Course /\ Shape /\ MainTyped /\ main \in MainStates /\ main.item \in Items
      /\ main.answer \in Seq(Messages) /\ main.batch \in Seq(Messages)
      /\ notices \in Seq(Sendings) /\ UNCHANGED running /\ "drainNotices" \in MainPcs
  BY DEF RuntimeInv, Typed, Course, MainTyped, MainTypeOK, MainStates, OutboxTyped, OutboxTypeOK,
         Sendings, MainPcs, MainAnswers
<1>2. running # None /\ main.answer # <<>> => main.item.kind = "shutdown"
  BY DEF Answering, Forms
<1>3. ASSUME NEW pc \in {"discard", "stageRunning", "drainNotices"}, main' = [main EXCEPT !.pc = pc],
             main.pc # "write", UNCHANGED <<held, written>>
      PROVE  Answering'
  <2>1. main'.pc = pc /\ main'.answer = main.answer /\ main'.item = main.item
    BY <1>1, <1>3 DEF MainStates
  <2> QED BY <1>1, <1>2, <1>3, <2>1, AnsweringKept DEF CrossingPcs, CarryingPcs
<1>4. CASE MainClears \/ CancelsRunning
  BY <1>3, <1>4 DEF MainClears, CancelsRunning, MainAt, Go
<1>5. CASE MainDiscards
  <2>1. CASE running # None
    BY <1>3, <1>5, <2>1 DEF MainDiscards, MainAt
  <2>2. CASE running = None
    <3>1. /\ main.pc = "discard" /\ UNCHANGED <<held, written>>
          /\ main' = Replaying(main.item, "drainNotices", main.answer)
      BY <1>5, <2>2 DEF MainDiscards, MainAt
    <3>2. Is(main', "replay", "drainNotices", "none") /\ main'.answer = main.answer
      BY <1>1, <3>1, TurnsWithAnswer
    <3> QED BY <1>1, <2>2, <3>1, <3>2, AnsweringKept DEF Is, CrossingPcs
  <2> QED BY <2>1, <2>2
<1>6. CASE TakesNotices
  <2>1. /\ main.pc = "drainNotices" /\ UNCHANGED <<held, written>>
        /\ main' = [main EXCEPT !.pc = "drainRequests", !.batch = notices]
    BY <1>6 DEF TakesNotices, MainAt
  <2>2. notices \in Seq(Messages) /\ Unanswering(notices)
    BY <1>1, SendingFacts DEF Unanswering, IsResponse
  <2>3. /\ main'.pc = "drainRequests" /\ main'.answer = main.answer /\ main'.item = main.item
        /\ main'.batch = notices
    BY <1>1, <2>1, <2>2 DEF MainStates
  <2> QED BY <1>1, <1>2, <2>1, <2>2, <2>3, AnsweringKept DEF CrossingPcs, CarryingPcs
<1>7. CASE TakesRequests
  BY <1>1, <1>7, AnsweringGathers
<1>8. CASE Writes
  <2>1. /\ main.pc = "write" /\ main' = Idle /\ Deliver(Len(main.batch)) /\ held' \in {None, held}
    BY <1>8 DEF Writes, MainAt
  <2>2. Len(main.batch) \in 0..Len(main.batch)
    BY <1>1, LenProperties
  <2>3. Bare(main') /\ main'.cause = "none" /\ main'.pc = "take"
    BY <2>1, IdleIs DEF Is
  <2> QED BY <1>1, <2>1, <2>2, <2>3, AnsweringWrites
<1>9. CASE WriteFails
  <2>1. /\ main.pc = "write" /\ main' = Crossing(main.item, "abort") /\ held' = held
    BY <1>9 DEF WriteFails, MainAt
  <2>2. PICK k \in 0..Len(main.batch) : Deliver(k)
    BY <1>9 DEF WriteFails
  <2>3. Bare(main') /\ main'.cause = "abort" /\ main'.pc = "retire"
    BY <1>1, <2>1, TurnsToBoundary DEF Is
  <2> QED BY <1>1, <2>1, <2>2, <2>3, AnsweringWrites
<1>10. CASE Returns
  <2>1. /\ main.pc = "take" /\ main' = [main EXCEPT !.pc = "returned"] /\ UNCHANGED <<held, written>>
    BY <1>10 DEF Returns, MainAt, Go
  <2>2. main'.pc = "returned" /\ main'.answer = main.answer
    BY <1>1, <2>1 DEF MainStates
  <2>3. main.answer = <<>>
    BY <1>1, <2>1, WaitingFacts DEF Bare
  <2> QED BY <1>1, <2>1, <2>2, <2>3, AnsweringKept DEF CrossingPcs
<1> QED BY <1>4, <1>5, <1>6, <1>7, <1>8, <1>9, <1>10 DEF MainAnswers

\* Every step keeps the requests and their responses in order.
LEMMA TurnsStep ==
    ASSUME RuntimeInv, Turns, [Next]_vars
    PROVE  Turns'
<1>1. Queued /\ Answering /\ Queued' /\ Onward
  BY QueueStep DEF Turns
<1>2. CASE ClientSends \/ ReaderStep \/ WorkerStep \/ (\E t \in {"main", "worker"} : RefreshStep(t))
           \/ UNCHANGED vars
  <2>1. UNCHANGED <<main, running, held, written>>
    BY <1>2, OthersLeave DEF vars, sessionVars
  <2>2. Outgoing' = Outgoing /\ Acks' = Acks
    BY <2>1 DEF Outgoing, Acks
  <2>3. Settled' /\ Acknowledging'
    BY <1>1, <2>1, <2>2, SettledAsBefore, AcksBy DEF Answering
  <2>4. Forms'
    BY <1>1, <2>1 DEF Answering, Forms
  <2> QED BY <2>3, <2>4, <1>1 DEF Answering, Turns
<1>3. CASE MainTakes
  <2>1. UNCHANGED written
    BY <1>3 DEF MainTakes
  <2>2. Answering'
    BY <1>1, <1>3, <2>1, AnsweringTakes, AnsweringCompletes
  <2> QED BY <1>1, <2>2 DEF Turns
<1>4. CASE MainReplays \/ MainDispatches \/ MainCrosses \/ MainAnswers
  <2>1. Answering'
    BY <1>1, <1>4, AnsweringReplays, AnsweringDispatches, AnsweringCrosses, AnsweringAnswers
  <2> QED BY <1>1, <2>1 DEF Turns
<1> QED BY <1>2, <1>3, <1>4 DEF Next, MainStep

LEMMA InitTurns ==
    ASSUME Init
    PROVE  Turns
<1>1. DOMAIN <<>> = {} /\ Len(<<>>) = 0
  BY EmptySeq, LenProperties
<1>2. /\ main = Idle /\ Is(main, "take", "take", "none") /\ main.answer = <<>>
      /\ events = <<>> /\ deferred = <<>> /\ written = <<>> /\ running = None /\ held = None
      /\ frames = 0
  BY IdleIs DEF Init, Bare
<1>3. ~Decides /\ Outgoing = <<>> /\ Numbers(<<>>) = {} /\ Nulls(<<>>) = {} /\ Increasing(<<>>)
      /\ Completions = {}
  BY <1>1, <1>2 DEF Is, Decides, Carries, Outgoing, Numbers, Nulls, Increasing, Completions
<1>4. Coming = {} /\ Waiting = {} /\ Acks = {}
  BY <1>2, <1>3 DEF Is, Coming, Waiting, Acks, CrossingPcs
<1>5. Queued
  BY <1>2, <1>3, <1>4 DEF Queued
<1>6. Settled /\ Acknowledging
  BY <1>1, <1>2, <1>3, <1>4 DEF Settled, Orderly, Follows, Acknowledging
<1>7. Forms
  BY <1>1, <1>2 DEF Forms, Is
<1> QED BY <1>5, <1>6, <1>7 DEF Turns, Answering

\* Requests wait in the order they were read; what is written and what main has at hand
\* answers requests that wait no longer.
THEOREM RequestsTakeTurns == Spec => []Turns
<1>1. Init => Turns
  BY InitTurns
<1>2. RuntimeInv /\ Turns /\ [Next]_vars => Turns'
  BY TurnsStep
<1> QED BY <1>1, <1>2, RuntimeKeepsInvariant, PTL DEF Spec

\* Two responses of the stream: the earlier and the later.
LEMMA ResponsesInOrder ==
    ASSUME Turns, NEW i \in Responses, NEW j \in Responses, i < j
    PROVE  InOrder(written[i], written[j])
BY DEF Turns, Answering, Settled, Orderly, Responses

\* A request is answered once: its completion, a held acknowledgement, a refusal and an
\* abort never make a second response (run_session's held batch and its write).
THEOREM RequestsAnsweredOnce == Spec => []AnsweredOnce
<1>1. RuntimeInv /\ Turns => AnsweredOnce
  <2> SUFFICES ASSUME RuntimeInv, Turns, NEW i \in Responses, NEW j \in Responses,
                      written[i].n = written[j].n, i # j
               PROVE  FALSE
    BY DEF AnsweredOnce
  <2>1. IsResponse(written[i]) /\ IsResponse(written[j])
    BY DEF Responses, IsResponse
  <2>2. i < j \/ j < i
    <3>1. written \in Seq(Messages)
      BY DEF RuntimeInv, Typed, WorkTyped, WorkTypeOK
    <3>2. DOMAIN written = 1..Len(written) /\ Len(written) \in Nat
      BY <3>1, LenProperties
    <3> QED BY <3>2 DEF Responses
  <2>3. ~(i < j)
    BY <2>1, ResponsesInOrder DEF InOrder
  <2>4. ~(j < i)
    BY <2>1, ResponsesInOrder DEF InOrder
  <2> QED BY <2>2, <2>3, <2>4
<1> QED BY <1>1, RuntimeKeepsInvariant, RequestsTakeTurns, PTL

\* Responses leave in the order their requests were read, but for the acknowledgement of a
\* shutdown handled beside the running request, which passes requests that are then
\* refused (run_session's deferral and live lane).
THEOREM RequestsAnsweredInOrder == Spec => []AnsweredInOrder
<1>1. Turns => AnsweredInOrder
  <2> SUFFICES ASSUME Turns, NEW i \in Responses, NEW j \in Responses,
                      i < j, written[i].n > written[j].n
               PROVE  written[i].outcome = "null" /\ written[j].outcome = "refused"
    BY DEF AnsweredInOrder
  <2>1. IsResponse(written[i]) /\ IsResponse(written[j])
    BY DEF Responses, IsResponse
  <2> QED BY <2>1, ResponsesInOrder DEF InOrder
<1> QED BY <1>1, RequestsTakeTurns, PTL

-----------------------------------------------------------------------------
(***************************************************************************)
(* Cancellations that come before their request is executed.               *)
(***************************************************************************)

\* The requests that were read and are not executed yet; and completions in the queue.
Askers(s) == {s[i] : i \in {j \in DOMAIN s : Asks(s[j])}}
Unstarted == Askers(events) \cup Askers(deferred) \cup (IF Decides THEN {main.item} ELSE {})
Finished == {events[i] : i \in Completions}

\* A frame the client has just sent, and the completion the worker posts.
Read(f) ==
    \E kind \in {"request", "shutdown"}, id \in Ids :
        ReadRequest(kind, id) /\ f = Item(kind, id, frames', lastEdit, "none")

Posts(f) ==
    WorkerCompletes /\ f = [worker.item EXCEPT !.kind = "completed", !.outcome = worker.outcome]

LEMMA AskersAppended ==
    ASSUME NEW S, NEW s \in Seq(S), NEW f \in S
    PROVE  Askers(Append(s, f)) = Askers(s) \cup (IF Asks(f) THEN {f} ELSE {})
<1>1. PICK t, k : t = Append(s, f) /\ k = Len(s)
  OBVIOUS
<1>2. /\ DOMAIN t = 1..(k + 1) /\ DOMAIN s = 1..k /\ k \in Nat /\ t[k + 1] = f
      /\ \A i \in 1..k : t[i] = s[i]
  BY <1>1, AppendFacts
<1>3. Askers(t) = Askers(s) \cup (IF Asks(f) THEN {f} ELSE {})
  BY <1>2 DEF Askers
<1> QED BY <1>1, <1>3

LEMMA AskersTaken ==
    ASSUME NEW S, NEW s \in Seq(S), s # <<>>
    PROVE  Askers(Tail(s)) \subseteq Askers(s) /\ (Asks(Head(s)) => Head(s) \in Askers(s))
<1>1. PICK t, k, h : t = Tail(s) /\ k = Len(s) /\ h = Head(s)
  OBVIOUS
<1>2. /\ DOMAIN t = 1..(k - 1) /\ DOMAIN s = 1..k /\ k \in Nat /\ k >= 1 /\ h = s[1]
      /\ \A i \in DOMAIN t : i + 1 \in DOMAIN s /\ t[i] = s[i + 1]
  BY <1>1, TailFacts
<1>3. Askers(t) \subseteq Askers(s)
  BY <1>2 DEF Askers
<1>4. Asks(h) => h \in Askers(s)
  BY <1>2 DEF Askers
<1> QED BY <1>1, <1>3, <1>4

\* What becomes of the events.
LEMMA EventsStep ==
    ASSUME RuntimeInv, [Next]_vars
    PROVE  \/ events' = events
           \/ events # <<>> /\ events' = Tail(events)
           \/ \E f \in Items : /\ events' = Append(events, f)
                               /\ Read(f) \/ Posts(f) \/ (~Asks(f) /\ f.kind # "completed")
<1>1. Typed /\ frames \in Nat /\ lastEdit \in 0..MaxFrames /\ worker.item \in Items /\ worker.outcome \in Outcomes
  BY NumberFacts DEF RuntimeInv, Typed, ClientTypeOK, WorkTyped, WorkTypeOK
<1>2. ASSUME NEW kind \in AllFrameKinds, NEW id \in Ids \cup {None}, NEW n \in 0..(MaxFrames + MaxRequests)
      PROVE  LET f == Item(kind, id, n, lastEdit, "none") IN f \in Items /\ f.kind = kind /\ f.n = n
  BY <1>1, <1>2 DEF Item, Items, Outcomes
<1> DEFINE Appends == \E f \in Items : /\ events' = Append(events, f)
                                       /\ Read(f) \/ Posts(f) \/ (~Asks(f) /\ f.kind # "completed")
<1>3. ASSUME NEW kind \in {"request", "shutdown"}, NEW id \in Ids, ReadRequest(kind, id)
      PROVE  Appends
  <2>1. PICK f : f = Item(kind, id, frames', lastEdit, "none")
    OBVIOUS
  <2>2. frames' \in 0..(MaxFrames + MaxRequests)
    BY <1>1, <1>3, RuntimeAssumption DEF ReadRequest, CanRead, Typed, ClientTypeOK
  <2>3. f \in Items
    BY <1>2, <2>1, <2>2 DEF AllFrameKinds
  <2>4. events' = Append(events, f) /\ Read(f)
    BY <1>3, <2>1 DEF ReadRequest, Read
  <2> QED BY <2>3, <2>4
<1>4. ASSUME NEW kind \in {"edit", "other", "exit"}, ReadNotification(kind)
      PROVE  Appends
  <2>1. PICK f : f = Item(kind, None, frames', lastEdit, "none")
    OBVIOUS
  <2>2. frames' \in 0..(MaxFrames + MaxRequests)
    BY <1>1, <1>4, RuntimeAssumption DEF ReadNotification, CanRead, Typed, ClientTypeOK
  <2>3. f \in Items /\ f.kind # "completed" /\ ~Asks(f)
    BY <1>2, <2>1, <2>2 DEF AllFrameKinds, Asks
  <2>4. events' = Append(events, f)
    BY <1>4, <2>1 DEF ReadNotification
  <2> QED BY <2>3, <2>4
<1>5. ASSUME NEW r \in Requests, ReadReply(r) PROVE Appends
  <2>1. PICK f : f = Item("reply", None, r, lastEdit, "none")
    OBVIOUS
  <2>2. r \in 0..(MaxFrames + MaxRequests)
    BY RuntimeAssumption DEF Requests
  <2>3. f \in Items /\ f.kind # "completed" /\ ~Asks(f)
    BY <1>2, <2>1, <2>2 DEF AllFrameKinds, Asks
  <2>4. events' = Append(events, f)
    BY <1>5, <2>1 DEF ReadReply
  <2> QED BY <2>3, <2>4
<1>6. ASSUME NEW f \in {Ready, Failure}, events' = Append(events, f) PROVE Appends
  <2>1. f \in Items /\ f.kind # "completed" /\ ~Asks(f)
    BY RuntimeAssumption DEF Ready, Failure, Item, Items, Outcomes, Asks
  <2> QED BY <1>6, <2>1
<1>7. CASE ClientSends
  <2>1. ASSUME NEW id \in Ids, ReadCancel(id) PROVE events' = events
    BY <2>1 DEF ReadCancel, queueVars
  <2>2. ReadFailure => Appends
    <3>1. ReadFailure => events' = Append(events, Failure)
      BY DEF ReadFailure
    <3> HIDE DEF Appends
    <3> QED BY <1>6, <3>1
  <2> HIDE DEF Appends
  <2>3. Appends \/ events' = events
    BY <1>3, <1>4, <1>5, <1>7, <2>1, <2>2 DEF ClientSends
  <2> QED BY <2>3 DEF Appends
<1>8. CASE WorkerStep
  <2>1. CASE WorkerCompletes
    <3>1. PICK f : f = [worker.item EXCEPT !.kind = "completed", !.outcome = worker.outcome]
      OBVIOUS
    <3>2. f \in Items
      BY <1>1, <3>1 DEF Items
    <3>3. events' = Append(events, f) /\ Posts(f)
      BY <2>1, <3>1 DEF WorkerCompletes, Posts
    <3> QED BY <3>2, <3>3
  <2>2. CASE ~WorkerCompletes
    BY <1>8, <2>2 DEF WorkerStep, WorkerRoutes, WorkerCaptures, WorkerStarts, WorkerNotifies,
         WorkerChecks, WorkerCommits, WorkerRaises, WorkerFinishes, WorkerClears, WorkerDiscards
  <2> QED BY <2>1, <2>2
<1>9. ASSUME NEW t \in {"main", "worker"}, RefreshStep(t) PROVE events' = events \/ Appends
  <2> HIDE DEF Appends
  <2> QED BY <1>6, <1>9 DEF RefreshStep, WakeTransport, CheckRefresh, PostRefresh
<1>10. CASE MainTakes
  BY <1>10 DEF MainTakes, TakesDeferred, TakesDropped, TakesFrame, TakesReady, TakesFailure,
               TakesCompletion, TakesEvent
<1>11. CASE ReaderStep \/ MainReplays \/ MainDispatches \/ MainCrosses \/ MainAnswers \/ UNCHANGED vars
  BY <1>11 DEF ReaderStep, ReaderStages, ReaderPosts, MainReplays, MainDispatches, MainCrosses,
               MainAnswers, vars, queueVars
<1> QED BY <1>7, <1>8, <1>9, <1>10, <1>11 DEF Next, MainStep

\* Requests come to wait as they are read; completions are posted by the worker.
LEMMA UnstartedStep ==
    ASSUME RuntimeInv, [Next]_vars
    PROVE  /\ \A f \in Unstarted' : f \in Unstarted \/ Read(f)
           /\ \A f \in Finished' : f \in Finished \/ Posts(f)
<1>1. /\ Typed /\ events \in Seq(Items) /\ deferred \in Seq(Items) /\ main.item \in Items
      /\ Askers(events) \subseteq Unstarted /\ Askers(deferred) \subseteq Unstarted
      /\ (Decides => main.item \in Unstarted)
  BY NumberFacts DEF RuntimeInv, Unstarted
<1>2. \A f \in Askers(events') : f \in Unstarted \/ Read(f)
  <2>1. CASE events' = events
    BY <1>1, <2>1
  <2>2. CASE events # <<>> /\ events' = Tail(events)
    BY <1>1, <2>2, AskersTaken
  <2>3. ASSUME NEW f \in Items, events' = Append(events, f), Read(f) \/ Posts(f) \/ ~Asks(f)
        PROVE  \A g \in Askers(events') : g \in Unstarted \/ Read(g)
    <3>1. Askers(events') = Askers(events) \cup (IF Asks(f) THEN {f} ELSE {})
      BY <1>1, <2>3, AskersAppended
    <3>2. Posts(f) => ~Asks(f)
      <4>1. worker.item \in Items
        BY <1>1 DEF Typed, WorkTyped, WorkTypeOK
      <4> QED BY <4>1 DEF Posts, Items, Asks
    <3> QED BY <1>1, <2>3, <3>1, <3>2
  <2> QED BY <2>1, <2>2, <2>3, EventsStep
<1>3. /\ \A f \in Askers(deferred') : f \in Unstarted
      /\ Decides' => main'.item \in Unstarted
  <2>1. CASE ClientSends \/ ReaderStep \/ WorkerStep \/ (\E t \in {"main", "worker"} : RefreshStep(t))
             \/ UNCHANGED vars
    <3>1. UNCHANGED <<main, deferred>>
      BY <2>1 DEF ClientSends, ReadRequest, ReadNotification, ReadReply, ReadCancel, ReadFailure,
         ReaderStep, ReaderStages, ReaderPosts, WorkerStep, RefreshStep, vars, queueVars
    <3> QED BY <1>1, <3>1 DEF Decides, Carries
  <2>2. CASE TakesDeferred
    <3>1. deferred # <<>> /\ deferred' = Tail(deferred) /\ main' = Replaying(Head(deferred), "dispatch", <<>>)
      BY <2>2 DEF TakesDeferred
    <3>2. main'.item = Head(deferred)
      BY <3>1 DEF Replaying, Idle
    <3> QED BY <1>1, <3>1, <3>2, AskersTaken DEF Decides
  <2>3. CASE TakesFrame
    <3>1. TakesEvent(AllFrameKinds) /\ main' = Replaying(Head(events), "dispatch", <<>>)
      BY <2>3 DEF TakesFrame
    <3>2. main'.item = Head(events)
      BY <3>1 DEF Replaying, Idle
    <3>3. deferred' = deferred /\ events # <<>>
      BY <3>1 DEF TakesEvent
    <3> QED BY <1>1, <3>2, <3>3, AskersTaken DEF Decides
  <2>4. CASE MainTakes /\ ~TakesDeferred /\ ~TakesFrame
    <3>1. deferred' = deferred /\ main.pc = "take"
      BY <2>4 DEF MainTakes, TakesDropped, TakesReady, TakesFailure, TakesCompletion, TakesEvent,
         Taking, MainAt
    <3>2. ~Carries
      <4>1. main = Idle
        BY <3>1 DEF RuntimeInv, Course, Shape
      <4> QED BY <4>1, IdleIs DEF Is, Carries
    <3>3. ~Carries'
      <4>1. CASE TakesDropped
        BY <3>2, <4>1 DEF TakesDropped, Carries
      <4>2. CASE TakesReady \/ TakesFailure
        <5>1. main' = Idle \/ main' = [Idle EXCEPT !.pc = "drainNotices"] \/ main' = Crossing(Failure, "abort")
          BY <4>2 DEF TakesReady, TakesFailure
        <5>2. main' = Idle => ~Carries'
          BY DEF Idle, Carries
        <5>3. main' = [Idle EXCEPT !.pc = "drainNotices"] => ~Carries'
          BY DEF Idle, Carries
        <5>4. main' = Crossing(Failure, "abort") => ~Carries'
          BY DEF Idle, Crossing, Carries
        <5> QED BY <5>1, <5>2, <5>3, <5>4
      <4>3. CASE TakesCompletion
        <5>1. PICK done : done = Head(events)
          OBVIOUS
        <5>2. PICK answer, batch : answer = <<Response(done.n, done.outcome)>>
                 /\ batch = Front(held) \o <<Response(done.n, "cancelled"), Last(held)>>
          OBVIOUS
        <5>3. \/ main' = [Idle EXCEPT !.pc = "raised"]
              \/ main' = [Idle EXCEPT !.pc = "returned"]
              \/ main' = [Idle EXCEPT !.pc = "write", !.item = done, !.batch = batch]
              \/ main' = Replaying(done, "raised", answer)
              \/ main' = Replaying(done, "drainNotices", answer)
          BY <4>3, <5>1, <5>2 DEF TakesCompletion
        <5> QED BY <5>3 DEF Replaying, Idle, Carries
      <4> QED BY <2>4, <4>1, <4>2, <4>3 DEF MainTakes
    <3> QED BY <1>1, <3>1, <3>3 DEF Decides
  <2>5. CASE MainDispatches
    <3>1. ~Carries' /\ (Carries <=> main.pc = "dispatch")
      BY <2>5, DispatchCarries
    <3>2. CASE Defers
      <4>1. Carries /\ deferred' = Append(deferred, main.item)
        BY <3>1, <3>2 DEF Defers, MainAt
      <4>2. Askers(deferred') = Askers(deferred) \cup (IF Asks(main.item) THEN {main.item} ELSE {})
        BY <1>1, <4>1, AskersAppended
      <4> QED BY <1>1, <3>1, <4>1, <4>2 DEF Decides
    <3>3. CASE ~Defers
      <4>1. deferred' = deferred
        BY <2>5, <3>3 DEF MainDispatches, StartsWorker, RefusesRequest, AcceptsShutdown, AcceptsExit,
           AppliesEdit, ConsumesReply, HandlesOther, EditHandled
      <4> QED BY <1>1, <3>1, <4>1 DEF Decides
    <3> QED BY <3>2, <3>3
  <2>6. CASE MainReplays \/ MainCrosses \/ MainAnswers
    <3>1. deferred' = deferred
      BY <2>6 DEF MainReplays, MainCrosses, MainAnswers, queueVars
    <3>2. Decides' => Decides /\ main'.item = main.item
      BY <2>6, RestCarries DEF Decides
    <3> QED BY <1>1, <3>1, <3>2
  <2> QED BY <2>1, <2>2, <2>3, <2>4, <2>5, <2>6 DEF Next, MainStep
<1>4. \A f \in Unstarted' : f \in Unstarted \/ Read(f)
  BY <1>2, <1>3 DEF Unstarted
<1>5. \A f \in Finished' : f \in Finished \/ Posts(f)
  <2>1. CASE events' = events
    BY <2>1 DEF Finished, Completions
  <2>2. CASE events # <<>> /\ events' = Tail(events)
    <3>1. \A i \in DOMAIN events' : i + 1 \in DOMAIN events /\ events'[i] = events[i + 1]
      BY <1>1, <2>2, TailFacts
    <3> QED BY <3>1 DEF Finished, Completions
  <2>3. ASSUME NEW f \in Items, events' = Append(events, f), Posts(f) \/ f.kind # "completed"
        PROVE  \A g \in Finished' : g \in Finished \/ Posts(g)
    <3>1. /\ DOMAIN events' = 1..(Len(events) + 1) /\ DOMAIN events = 1..Len(events) /\ Len(events) \in Nat
          /\ \A i \in 1..Len(events) : events'[i] = events[i]
          /\ events'[Len(events) + 1] = f
      BY <1>1, <2>3, AppendFacts
    <3> QED BY <2>3, <3>1 DEF Finished, Completions
  <2>4. ASSUME NEW f, Read(f) PROVE f.kind # "completed"
    BY <2>4 DEF Read, Item
  <2> QED BY <2>1, <2>2, <2>3, <2>4, EventsStep
<1> QED BY <1>4, <1>5

\* The requests a response carries the result of.
Results(s) == {s[i].n : i \in {j \in DOMAIN s : IsResponse(s[j]) /\ s[j].outcome = "result"}}
Resulted == Results(written) \cup Results(Outgoing)

\* Main takes the completion that carries the result of request n.
Completes(n) ==
    /\ TakesCompletion /\ ~failed /\ state = "RUNNING" /\ running # None
    /\ \E f \in Finished : f.n = n /\ f.outcome = "result"

\* A message that is no result.
LEMMA NoResultOfOne ==
    ASSUME NEW m \in Messages, SoundMessage(m), m.outcome # "result", NEW c, c = <<m>>
    PROVE  Results(c) = {}
<1>1. DOMAIN c = {1} /\ c[1] = m
  BY AnswerFacts
<1> QED BY <1>1 DEF Results

\* Main keeps what it has at hand or drops it.
LEMMA ResultedKept ==
    ASSUME UNCHANGED written, main.pc # "write", main'.pc # "write",
           main'.answer = main.answer \/ main'.answer = <<>> \/ Results(main'.answer) = {}
    PROVE  Resulted' \subseteq Resulted
<1>1. Results(<<>>) = {}
  <2>1. DOMAIN <<>> = {}
    BY EmptySeq, LenProperties
  <2> QED BY <2>1 DEF Results
<1> QED BY <1>1 DEF Resulted, Outgoing

LEMMA ResultedDispatches ==
    ASSUME RuntimeInv, MainDispatches
    PROVE  Resulted' \subseteq Resulted
<1>1. /\ main.pc \in {"dispatch", "edited"} /\ main \in MainStates /\ main.item \in Items
      /\ UNCHANGED written
  BY DispatchCarries, NumberFacts DEF RuntimeInv, Typed, MainTyped, MainTypeOK, MainStates, MainDispatches
<1>2. CASE Defers \/ StartsWorker
  BY <1>1, <1>2, IdleIs, ResultedKept DEF Defers, StartsWorker, Is, Bare
<1>3. CASE RefusesRequest
  <2>1. Sound(main.item) /\ main.item.kind \in {"request", "shutdown"}
    BY <1>3 DEF RuntimeInv, Typed, MainTyped, RefusesRequest, Dispatching
  <2>2. PICK m, a : m = Response(main.item.n, "refused") /\ a = <<m>>
    OBVIOUS
  <2>3. m \in Messages /\ SoundMessage(m) /\ m.outcome = "refused"
    BY <2>1, <2>2, MessageFacts DEF Outcomes, Sound, Response, Message
  <2>4. Results(a) = {}
    BY <2>2, <2>3, NoResultOfOne
  <2>5. main' = [main EXCEPT !.pc = "clear", !.answer = a]
    BY <1>3, <2>2 DEF RefusesRequest
  <2>6. main'.pc = "clear" /\ main'.answer = a
    BY <1>1, <2>5 DEF MainStates
  <2> QED BY <1>1, <2>4, <2>6, ResultedKept
<1>4. CASE AcceptsShutdown \/ AcceptsExit
  <2>1. PICK cause \in {"shutdown", "exit"} : main' = Crossing(main.item, cause)
    BY <1>4 DEF AcceptsShutdown, AcceptsExit
  <2> QED BY <1>1, <2>1, TurnsToBoundary, ResultedKept DEF Is, Bare
<1>5. CASE AppliesEdit \/ ConsumesReply \/ HandlesOther \/ EditHandled
  <2>1. PICK pc \in {"edited", "replay"} : main' = [main EXCEPT !.pc = pc]
    BY <1>5 DEF AppliesEdit, ConsumesReply, HandlesOther, EditHandled, Go
  <2>2. main'.pc = pc /\ main'.answer = main.answer
    BY <1>1, <2>1 DEF MainStates
  <2> QED BY <1>1, <2>2, ResultedKept
<1> QED BY <1>2, <1>3, <1>4, <1>5 DEF MainDispatches

LEMMA ResultedCrosses ==
    ASSUME RuntimeInv, MainCrosses
    PROVE  Resulted' \subseteq Resulted
<1>1. /\ MainTyped /\ main \in MainStates /\ main.item \in Items /\ Sound(main.item)
      /\ UNCHANGED written /\ main.pc \in CrossingPcs /\ main.pc # "write"
      /\ {"drainNotices", "returned"} \subseteq MainPcs
      /\ main.cause \in {"shutdown", "exit", "abort"}
  <2>1. /\ MainTyped /\ Shape /\ main \in MainStates /\ main.item \in Items /\ Sound(main.item)
        /\ UNCHANGED written /\ main.pc \in CrossingPcs
        /\ {"drainNotices", "returned"} \subseteq MainPcs
    BY DEF RuntimeInv, Typed, Course, MainTyped, MainTypeOK, MainStates, MainPcs, MainCrosses,
           RetiresContexts, StagesRunning, RetiresOutbox, Closes, MainAt, CrossingPcs
  <2> QED BY <2>1 DEF Shape, CrossingPcs, MainStates
<1>2. CASE RetiresContexts \/ StagesRunning \/ RetiresOutbox
  <2>1. PICK pc \in {"stage", "retireOutbox", "close"} : main' = [main EXCEPT !.pc = pc]
    BY <1>2 DEF RetiresContexts, StagesRunning, RetiresOutbox, Go
  <2>2. main'.pc = pc /\ main'.answer = main.answer
    BY <1>1, <2>1 DEF MainStates
  <2> QED BY <1>1, <2>2, ResultedKept
<1>3. CASE Closes /\ main.cause = "shutdown"
  <2>1. main.item.n \in Generations
    BY <1>1, <1>3 DEF MainTyped, Sound
  <2>2. PICK m, a : m = Response(main.item.n, "null") /\ a = <<m>>
    OBVIOUS
  <2>3. m \in Messages /\ SoundMessage(m) /\ m.outcome = "null"
    BY <2>1, <2>2, MessageFacts DEF Outcomes, Response, Message
  <2>4. Results(a) = {}
    BY <2>2, <2>3, NoResultOfOne
  <2>5. main' = [main EXCEPT !.pc = "clear", !.answer = a]
    BY <1>3, <2>2 DEF Closes
  <2>6. main'.pc = "clear" /\ main'.answer = a
    BY <1>1, <2>5 DEF MainStates
  <2> QED BY <1>1, <2>4, <2>6, ResultedKept
<1>4. CASE Closes /\ main.cause # "shutdown"
  <2>1. \/ main' = Replaying(main.item, "drainNotices", <<>>)
        \/ main' = Idle
        \/ main' = [Idle EXCEPT !.pc = "returned"]
    BY <1>1, <1>4 DEF Closes
  <2>2. Bare(main') /\ main'.pc # "write"
    BY <1>1, <2>1, TurnsToItem, IdleIs, TurnsToNothing DEF Is
  <2> QED BY <1>1, <2>2, ResultedKept DEF Bare
<1> QED BY <1>2, <1>3, <1>4 DEF MainCrosses

LEMMA ResultedAnswers ==
    ASSUME RuntimeInv, Answering, MainAnswers
    PROVE  Resulted' \subseteq Resulted
<1>1. /\ main \in MainStates /\ MainTyped /\ main.item \in Items /\ main.answer \in Seq(Messages)
      /\ notices \in Seq(Sendings) /\ "drainNotices" \in MainPcs
      /\ outbox \in Seq(Requests) /\ written \in Seq(Messages) /\ answered \in SUBSET Generations
      /\ main.batch \in Seq(Messages) /\ \A i \in DOMAIN main.batch : SoundMessage(main.batch[i])
  BY DEF RuntimeInv, Typed, Course, MainTyped, MainTypeOK, MainStates, OutboxTyped, OutboxTypeOK,
         Sendings, MainPcs, WorkTyped, WorkTypeOK, ClientTypeOK
<1>2. CASE MainClears \/ CancelsRunning \/ MainDiscards \/ TakesNotices \/ Returns
  <2>1. UNCHANGED written /\ main.pc # "write"
    BY <1>2 DEF MainClears, CancelsRunning, MainDiscards, TakesNotices, Returns, MainAt
  <2>2. CASE main' = Replaying(main.item, "drainNotices", main.answer)
    <3>1. Is(main', "replay", "drainNotices", "none") /\ main'.answer = main.answer
      BY <1>1, <2>2, TurnsWithAnswer
    <3> QED BY <2>1, <3>1, ResultedKept DEF Is
  <2>3. ASSUME NEW pc \in {"discard", "stageRunning", "drainNotices", "returned"},
               main' = [main EXCEPT !.pc = pc]
        PROVE  Resulted' \subseteq Resulted
    <3>1. main'.pc = pc /\ main'.answer = main.answer
      BY <1>1, <2>3 DEF MainStates
    <3> QED BY <2>1, <3>1, ResultedKept
  <2>4. CASE main' = [main EXCEPT !.pc = "drainRequests", !.batch = notices]
    <3>1. main'.pc = "drainRequests" /\ main'.answer = main.answer
      BY <1>1, <2>4 DEF MainStates
    <3> QED BY <2>1, <3>1, ResultedKept
  <2> QED BY <1>2, <2>2, <2>3, <2>4 DEF MainClears, CancelsRunning, MainDiscards, TakesNotices, Returns, Go
<1>3. CASE TakesRequests
  <2>1. PICK c : c = main.batch \o [i \in DOMAIN outbox |-> RefreshRequest(outbox[i])]
                                \o main.answer
    OBVIOUS
  <2>2. main.pc = "drainRequests" /\ UNCHANGED written /\ Unanswering(main.batch)
    BY <1>3 DEF TakesRequests, MainAt, Answering, Forms
  <2>3. PICK k \in Nat : /\ DOMAIN c = 1..(k + Len(main.answer))
                         /\ \A i \in 1..k : ~IsResponse(c[i])
                         /\ \A i \in DOMAIN main.answer : c[k + i] = main.answer[i]
    BY <1>1, <2>1, <2>2, BatchAnswers
  <2>4. DOMAIN main.answer = 1..Len(main.answer) /\ Len(main.answer) \in Nat
    BY <1>1, LenProperties
  <2>5. Results(c) \subseteq Results(main.answer)
    <3>1. ASSUME NEW i \in DOMAIN c, IsResponse(c[i]) PROVE i - k \in DOMAIN main.answer /\ c[i] = main.answer[i - k]
      <4>1. i \in 1..(k + Len(main.answer)) /\ i \notin 1..k
        BY <2>3, <3>1
      <4>2. i - k \in DOMAIN main.answer /\ k + (i - k) = i
        BY <2>4, <4>1
      <4> QED BY <2>3, <4>2
    <3> QED BY <3>1 DEF Results
  <2>6. main' = Idle \/ main' = [main EXCEPT !.pc = "write", !.batch = c]
    BY <1>3, <2>1 DEF TakesRequests
  <2>7. CASE main' = Idle
    BY <2>2, <2>7, IdleIs, ResultedKept DEF Is, Bare
  <2>8. CASE main' = [main EXCEPT !.pc = "write", !.batch = c]
    <3>1. main'.pc = "write" /\ main'.batch = c
      BY <1>1, <2>8 DEF MainStates
    <3> QED BY <2>2, <2>5, <3>1 DEF Resulted, Outgoing
  <2> QED BY <2>6, <2>7, <2>8
<1>4. ASSUME NEW k \in 0..Len(main.batch), Deliver(k), main.pc = "write", Bare(main'), main'.pc # "write"
      PROVE  Resulted' \subseteq Resulted
  <2>1. /\ \A i \in DOMAIN written : written'[i] = written[i]
        /\ \A i \in DOMAIN written' : i \notin DOMAIN written =>
              i - Len(written) \in DOMAIN main.batch /\ written'[i] = main.batch[i - Len(written)]
    BY <1>1, <1>4, DeliverFacts
  <2>2. Results(written') \subseteq Results(written) \cup Results(main.batch)
    BY <2>1 DEF Results
  <2>3. Results(<<>>) = {}
    <3>1. DOMAIN <<>> = {}
      BY EmptySeq, LenProperties
    <3> QED BY <3>1 DEF Results
  <2> QED BY <1>4, <2>2, <2>3 DEF Resulted, Outgoing, Bare
<1>5. CASE Writes
  <2>1. /\ main.pc = "write" /\ main' = Idle /\ Deliver(Len(main.batch))
    BY <1>5 DEF Writes, MainAt
  <2>2. Len(main.batch) \in 0..Len(main.batch)
    BY <1>1, LenProperties
  <2> QED BY <1>4, <2>1, <2>2, IdleIs DEF Is
<1>6. CASE WriteFails
  <2>1. /\ main.pc = "write" /\ main' = Crossing(main.item, "abort")
    BY <1>6 DEF WriteFails, MainAt
  <2>2. PICK k \in 0..Len(main.batch) : Deliver(k)
    BY <1>6 DEF WriteFails
  <2> QED BY <1>1, <1>4, <2>1, <2>2, TurnsToBoundary DEF Is
<1> QED BY <1>2, <1>3, <1>5, <1>6 DEF MainAnswers

\* Main takes an item: only a completion makes a result, and only of the request it completes.
LEMMA ResultedTakes ==
    ASSUME RuntimeInv, Turns, MainTakes, NEW n \in Resulted'
    PROVE  n \in Resulted \/ Completes(n)
<1>1. /\ Course /\ Lane /\ QueueTyped /\ deferred \in Seq(Items) /\ UNCHANGED written
      /\ main.pc = "take" /\ main = Idle /\ Bare(main) /\ main.cause = "none" /\ state # "EXITED"
      /\ {"dispatch", "drainNotices", "raised", "returned"} \subseteq MainPcs
  <2>1. main.pc = "take" /\ state # "EXITED"
    BY DEF MainTakes, TakesDeferred, TakesDropped, TakesFrame, TakesReady, TakesFailure,
           TakesCompletion, TakesEvent, Taking, MainAt
  <2> QED BY <2>1, WaitingFacts DEF RuntimeInv, Typed, QueueTyped, QueueTypeOK, MainPcs, Course, Shape, MainTakes
<1>2. ASSUME Bare(main'), main'.pc # "write" PROVE n \in Resulted
  BY <1>1, <1>2, ResultedKept DEF Bare
<1>3. CASE TakesDeferred
  <2>1. PICK f \in Items : f = Head(deferred)
    BY <1>1, <1>3, TailFacts DEF TakesDeferred
  <2>2. main' = Replaying(f, "dispatch", <<>>)
    BY <1>3, <2>1 DEF TakesDeferred
  <2> QED BY <1>1, <1>2, <2>2, TurnsToItem DEF Is
<1>4. CASE TakesDropped
  BY <1>1, <1>2, <1>4 DEF TakesDropped
<1>5. CASE TakesFrame
  <2>1. TakesEvent(AllFrameKinds) /\ main' = Replaying(Head(events), "dispatch", <<>>)
    BY <1>5 DEF TakesFrame
  <2>2. PICK f \in Items : f = Head(events)
    BY <1>1, <2>1, EventTaken
  <2>3. main' = Replaying(f, "dispatch", <<>>)
    BY <2>1, <2>2
  <2> QED BY <1>1, <1>2, <2>3, TurnsToItem DEF Is
<1>6. CASE TakesReady
  <2>1. main' = Idle \/ main' = [Idle EXCEPT !.pc = "drainNotices"]
    BY <1>6 DEF TakesReady
  <2> QED BY <1>1, <1>2, <2>1, TurnsToNothing, IdleIs DEF Is
<1>7. CASE TakesFailure
  <2>1. main' = Crossing(Failure, "abort") /\ Failure \in Items
    BY <1>7, RuntimeAssumption DEF TakesFailure, Failure, Item, Items, Outcomes
  <2> QED BY <1>2, <2>1, TurnsToBoundary DEF Is
<1>8. CASE TakesCompletion
  <2>1. TakesEvent({"completed"}) /\ events # <<>>
    BY <1>8 DEF TakesCompletion, TakesEvent
  <2>2. PICK done \in Items : /\ done = Head(events) /\ done.kind = "completed"
                              /\ done.n \in Generations /\ done.outcome \in Outcomes
    <3>1. Head(events) \in Items /\ Sound(Head(events)) /\ Head(events).kind = "completed"
      BY <1>1, <2>1, EventTaken
    <3> QED BY <3>1 DEF Sound, Items
  <2>3. done \in Finished /\ running # None
    <3>1. events \in Seq(Items)
      BY <1>1 DEF QueueTyped, QueueTypeOK
    <3>2. 1 \in DOMAIN events /\ events[1] = done
      BY <2>1, <2>2, <3>1, TailFacts
    <3>3. 1 \in Completions
      BY <2>2, <3>2 DEF Completions
    <3> QED BY <1>1, <3>2, <3>3 DEF Lane, Finished
  <2> DEFINE stop == done.outcome = "raised" /\ (failed \/ held # None)
  <2>4. CASE stop \/ failed
    <3>1. PICK pc \in {"raised", "returned"} : main' = [Idle EXCEPT !.pc = pc]
      BY <1>8, <2>2, <2>4 DEF TakesCompletion
    <3>2. Is(main', pc, "take", "none") /\ Bare(main')
      BY <1>1, <3>1, TurnsToNothing
    <3> QED BY <1>2, <3>2 DEF Is
  <2>5. CASE ~failed /\ held # None /\ done.outcome # "raised"
    <3>1. PICK m : m = Response(done.n, "cancelled")
      OBVIOUS
    <3>2. m \in Messages /\ m.outcome = "cancelled"
      BY <2>2, <3>1, MessageFacts DEF Outcomes, Response, Message
    <3>3. /\ held \in Seq(Messages) /\ held # <<>> /\ Last(held).outcome = "null"
          /\ \A i \in DOMAIN held : i < Len(held) => ~IsResponse(held[i])
      BY <2>3, <2>5 DEF RuntimeInv, Typed, SessionTyped, SessionTypeOK, Turns, Answering, Forms
    <3>4. PICK c : c = Front(held) \o <<m, Last(held)>>
      OBVIOUS
    <3>5. \E k \in Nat : /\ DOMAIN c = 1..(k + 2)
                         /\ \A i \in 1..k : ~IsResponse(c[i])
                         /\ c[k + 1] = m /\ c[k + 2] = Last(held)
      BY <3>2, <3>3, <3>4, HeldAnswers
    <3>6. PICK k \in Nat : /\ DOMAIN c = 1..(k + 2)
                           /\ \A i \in 1..k : ~IsResponse(c[i])
                           /\ c[k + 1] = m /\ c[k + 2] = Last(held)
      BY <3>5
    <3>7. Results(c) = {}
      <4>1. \A i \in DOMAIN c : i \in 1..k \/ i = k + 1 \/ i = k + 2
        BY <3>6
      <4>2. \A i \in DOMAIN c : ~IsResponse(c[i]) \/ c[i].outcome # "result"
        BY <3>2, <3>3, <3>6, <4>1
      <4> QED BY <4>2 DEF Results
    <3>8. main' = [Idle EXCEPT !.pc = "write", !.item = done, !.batch = c]
      BY <1>8, <2>2, <2>5, <3>1, <3>4 DEF TakesCompletion
    <3>9. main'.pc = "write" /\ main'.batch = c
      BY <3>8 DEF Idle
    <3> QED BY <1>1, <3>7, <3>9 DEF Resulted, Outgoing
  <2>6. CASE ~failed /\ held = None
    <3>1. PICK m, a : m = Response(done.n, done.outcome) /\ a = <<m>>
      OBVIOUS
    <3>2. m \in Messages /\ SoundMessage(m) /\ m.n = done.n /\ m.outcome = done.outcome
      BY <2>2, <3>1, MessageFacts DEF Response, Message
    <3>3. a \in Seq(Messages) /\ DOMAIN a = {1} /\ a[1] = m
      BY <3>1, <3>2, AnswerFacts
    <3>4. PICK next \in {"raised", "drainNotices"} : main' = Replaying(done, next, a)
      BY <1>8, <2>2, <2>6, <3>1 DEF TakesCompletion
    <3>5. Is(main', "replay", next, "none") /\ main'.answer = a
      <4> HIDE DEF stop
      <4>1. next \in MainPcs
        BY <1>1
      <4> QED BY <3>3, <3>4, <4>1, TurnsWithAnswer
    <3>6. Outgoing' = a
      BY <3>5 DEF Is, Outgoing
    <3>7. \A x \in Results(a) : x = done.n /\ done.outcome = "result"
      BY <3>2, <3>3 DEF Results
    <3>8. state = "RUNNING"
      <4>1. ~Null(main.answer) /\ ~Null(main.batch) /\ ~Ended
        <5>1. DOMAIN <<>> = {}
          BY EmptySeq, LenProperties
        <5> QED BY <1>1, <5>1 DEF Bare, Null, Ended
      <4>2. state \in {"RUNNING", "SHUTDOWN"}
        BY <1>1 DEF RuntimeInv, Typed, SessionTyped, SessionTypeOK
      <4> QED BY <1>1, <2>3, <2>6, <4>1, <4>2 DEF Course, Boundary, Acknowledged
    <3> QED BY <1>1, <1>8, <2>3, <2>6, <3>6, <3>7, <3>8 DEF Resulted, Completes
  <2> QED BY <2>4, <2>5, <2>6
<1> QED BY <1>3, <1>4, <1>5, <1>6, <1>7, <1>8 DEF MainTakes

\* A result is made as the completion of its request is taken, and no other way.
LEMMA ResultedStep ==
    ASSUME RuntimeInv, Turns, [Next]_vars, NEW n \in Resulted'
    PROVE  n \in Resulted \/ Completes(n)
<1>1. CASE ClientSends \/ ReaderStep \/ WorkerStep \/ (\E t \in {"main", "worker"} : RefreshStep(t))
           \/ UNCHANGED vars
  <2>1. UNCHANGED <<main, written>>
    BY <1>1, OthersLeave DEF vars
  <2> QED BY <2>1 DEF Resulted, Outgoing
<1>2. CASE MainReplays
  <2>1. main.pc = "replay" /\ UNCHANGED written /\ main \in MainStates /\ Shape
    BY <1>2 DEF MainReplays, ReplaysControl, ControlsReplayed, MainAt, RuntimeInv, Course, Typed,
                MainTyped, MainTypeOK, MainStates
  <2>2. CASE main' = main
    BY <2>1, <2>2, ResultedKept
  <2>3. CASE main' = [main EXCEPT !.pc = main.next, !.next = "drainNotices"]
    <3>1. main'.pc = main.next /\ main'.answer = main.answer
      BY <2>1, <2>3 DEF MainStates
    <3> QED BY <2>1, <3>1, ResultedKept DEF Shape
  <2> QED BY <1>2, <2>2, <2>3 DEF MainReplays, ReplaysControl, ControlsReplayed
<1>3. CASE MainTakes
  BY <1>3, ResultedTakes
<1>4. CASE MainDispatches
  BY <1>4, ResultedDispatches
<1>5. CASE MainCrosses
  BY <1>5, ResultedCrosses
<1>6. CASE MainAnswers
  BY <1>6, ResultedAnswers DEF Turns
<1> QED BY <1>1, <1>2, <1>3, <1>4, <1>5, <1>6 DEF Next, MainStep

LEMMA NothingAsked ==
    /\ ~Asks(Idle.item) /\ ~Asks(Nothing) /\ ~Asks(Failure)
    /\ \A f, pc, a : Replaying(f, pc, a).item = f /\ Replaying(f, pc, a).next = pc
    /\ \A f, cause : Crossing(f, cause).item = f
BY DEF Idle, Nothing, Failure, Item, Asks, Replaying, Crossing

\* Main is at a completion, or at nothing at all, once a completion was taken.
LEMMA CompletionItem ==
    ASSUME TakesCompletion
    PROVE  ~Asks(main'.item)
<1>1. PICK done : done = Head(events) /\ done.kind = "completed"
  BY DEF TakesCompletion, TakesEvent
<1>2. ~Asks(done)
  BY <1>1 DEF Asks
<1>3. PICK answer, batch : answer = <<Response(done.n, done.outcome)>>
         /\ batch = Front(held) \o <<Response(done.n, "cancelled"), Last(held)>>
  OBVIOUS
<1>4. \/ main' = [Idle EXCEPT !.pc = "raised"]
      \/ main' = [Idle EXCEPT !.pc = "returned"]
      \/ main' = [Idle EXCEPT !.pc = "write", !.item = done, !.batch = batch]
      \/ main' = Replaying(done, "raised", answer)
      \/ main' = Replaying(done, "drainNotices", answer)
  BY <1>1, <1>3 DEF TakesCompletion
<1>5. CASE main' = [Idle EXCEPT !.pc = "raised"] \/ main' = [Idle EXCEPT !.pc = "returned"]
  <2>1. main'.item = Idle.item
    BY <1>5 DEF Idle
  <2> QED BY <2>1, NothingAsked
<1>6. CASE main' = [Idle EXCEPT !.pc = "write", !.item = done, !.batch = batch]
  <2>1. main'.item = done
    BY <1>6 DEF Idle
  <2> QED BY <1>2, <2>1
<1>7. CASE main' = Replaying(done, "raised", answer) \/ main' = Replaying(done, "drainNotices", answer)
  BY <1>2, <1>7, NothingAsked
<1> QED BY <1>4, <1>5, <1>6, <1>7

\* What main takes is a frame to dispatch, or nothing that is answered.
LEMMA TakesItem ==
    ASSUME RuntimeInv, MainTakes, Asks(main'.item)
    PROVE  Carries'
<1>1. CASE TakesDeferred \/ TakesFrame
  <2>1. PICK f : main' = Replaying(f, "dispatch", <<>>)
    BY <1>1 DEF TakesDeferred, TakesFrame
  <2>2. main'.next = "dispatch"
    BY <2>1, NothingAsked
  <2> QED BY <2>2 DEF Carries
<1>2. CASE TakesDropped
  <2>1. main.pc = "take" /\ main' = main
    BY <1>2 DEF TakesDropped, TakesEvent, Taking, MainAt
  <2>2. main' = Idle
    BY <2>1 DEF RuntimeInv, Course, Shape
  <2> QED BY <2>2, NothingAsked
<1>3. CASE TakesReady
  <2>1. main' = Idle \/ main' = [Idle EXCEPT !.pc = "drainNotices"]
    BY <1>3 DEF TakesReady
  <2>2. main'.item = Idle.item
    BY <2>1 DEF Idle
  <2> QED BY <2>2, NothingAsked
<1>4. CASE TakesFailure
  <2>1. main'.item = Failure
    BY <1>4, NothingAsked DEF TakesFailure
  <2> QED BY <2>1, NothingAsked
<1> QED BY <1>1, <1>2, <1>3, <1>4, CompletionItem DEF MainTakes

\* Main stays at its item as it finishes, gathers a batch and writes it.
LEMMA AnswersItem ==
    ASSUME RuntimeInv, MainAnswers
    PROVE  main'.item = main.item \/ main'.item = Idle.item
<1>1. main \in MainStates
  BY DEF RuntimeInv, Typed, MainTyped, MainTypeOK, MainStates
<1>2. PICK c : c = main.batch \o [i \in DOMAIN outbox |-> RefreshRequest(outbox[i])]
                              \o main.answer
  OBVIOUS
<1>3. CASE MainClears \/ CancelsRunning \/ Returns
  <2>1. PICK pc : main' = [main EXCEPT !.pc = pc]
    BY <1>3 DEF MainClears, CancelsRunning, Returns, Go
  <2> QED BY <1>1, <2>1 DEF MainStates
<1>4. CASE MainDiscards
  <2>1. main' = [main EXCEPT !.pc = "stageRunning"] \/ main' = Replaying(main.item, "drainNotices", main.answer)
    BY <1>4 DEF MainDiscards
  <2> QED BY <1>1, <2>1, NothingAsked DEF MainStates
<1>5. CASE TakesNotices
  <2>1. main' = [main EXCEPT !.pc = "drainRequests", !.batch = notices]
    BY <1>5 DEF TakesNotices
  <2> QED BY <1>1, <2>1 DEF MainStates
<1>6. CASE TakesRequests
  <2>1. main' = Idle \/ main' = [main EXCEPT !.pc = "write", !.batch = c]
    BY <1>2, <1>6 DEF TakesRequests
  <2> QED BY <1>1, <2>1 DEF MainStates
<1>7. CASE Writes \/ WriteFails
  BY <1>7, NothingAsked DEF Writes, WriteFails
<1> QED BY <1>3, <1>4, <1>5, <1>6, <1>7 DEF MainAnswers

\* Main turns to a request to dispatch it, and stays at it.
LEMMA ItemStep ==
    ASSUME RuntimeInv, [Next]_vars, Asks(main'.item), ~Carries'
    PROVE  main'.item = main.item
<1>1. main \in MainStates
  BY DEF RuntimeInv, Typed, MainTyped, MainTypeOK, MainStates
<1>2. CASE ClientSends \/ ReaderStep \/ WorkerStep \/ (\E t \in {"main", "worker"} : RefreshStep(t))
           \/ UNCHANGED vars
  BY <1>2, OthersLeave DEF vars
<1>3. CASE MainReplays
  <2>1. main' = main \/ main' = [main EXCEPT !.pc = main.next, !.next = "drainNotices"]
    BY <1>3 DEF MainReplays, ReplaysControl, ControlsReplayed
  <2> QED BY <1>1, <2>1 DEF MainStates
<1>4. CASE MainDispatches
  <2>1. CASE Defers \/ StartsWorker \/ AcceptsShutdown \/ AcceptsExit
    BY <2>1, NothingAsked DEF Defers, StartsWorker, AcceptsShutdown, AcceptsExit
  <2>2. CASE RefusesRequest
    <3>1. PICK a : a = <<Response(main.item.n, "refused")>>
      OBVIOUS
    <3>2. main' = [main EXCEPT !.pc = "clear", !.answer = a]
      BY <2>2, <3>1 DEF RefusesRequest
    <3> QED BY <1>1, <3>2 DEF MainStates
  <2>3. CASE AppliesEdit \/ ConsumesReply \/ HandlesOther \/ EditHandled
    <3>1. PICK pc \in {"edited", "replay"} : main' = [main EXCEPT !.pc = pc]
      BY <2>3 DEF AppliesEdit, ConsumesReply, HandlesOther, EditHandled, Go
    <3> QED BY <1>1, <3>1 DEF MainStates
  <2> QED BY <1>4, <2>1, <2>2, <2>3 DEF MainDispatches
<1>5. CASE MainCrosses
  <2>1. CASE RetiresContexts \/ StagesRunning \/ RetiresOutbox
    <3>1. PICK pc : main' = [main EXCEPT !.pc = pc]
      BY <2>1 DEF RetiresContexts, StagesRunning, RetiresOutbox, Go
    <3> QED BY <1>1, <3>1 DEF MainStates
  <2>2. CASE Closes
    <3>1. main.cause \in {"shutdown", "exit", "abort"}
      <4>1. Shape /\ main.pc = "close"
        BY <2>2 DEF RuntimeInv, Course, Closes, MainAt
      <4> QED BY <1>1, <4>1 DEF Shape, CrossingPcs, MainStates
    <3>2. PICK a : a = <<Response(main.item.n, "null")>>
      OBVIOUS
    <3>3. \/ main' = [main EXCEPT !.pc = "clear", !.answer = a]
          \/ main' = Replaying(main.item, "drainNotices", <<>>)
          \/ main' = Idle
          \/ main' = [Idle EXCEPT !.pc = "returned"]
      BY <2>2, <3>1, <3>2 DEF Closes
    <3>4. main'.item = main.item \/ main'.item = Idle.item
      <4>1. CASE main' = [main EXCEPT !.pc = "clear", !.answer = a]
        BY <1>1, <4>1 DEF MainStates
      <4>2. CASE main' = Replaying(main.item, "drainNotices", <<>>)
        BY <4>2, NothingAsked
      <4>3. CASE main' = Idle \/ main' = [Idle EXCEPT !.pc = "returned"]
        BY <4>3 DEF Idle
      <4> QED BY <3>3, <4>1, <4>2, <4>3
    <3> QED BY <3>4, NothingAsked
  <2> QED BY <1>5, <2>1, <2>2 DEF MainCrosses
<1> QED BY <1>2, <1>3, <1>4, <1>5, TakesItem, AnswersItem, NothingAsked DEF Next, MainStep

\* A request that main is done dispatching was refused, or it is a shutdown.
Handled ==
    Asks(main.item) =>
        Carries \/ state # "RUNNING" \/ (main.pc \in CrossingPcs /\ main.cause = "shutdown")

LEMMA HandledStep ==
    ASSUME RuntimeInv, Handled, [Next]_vars
    PROVE  Handled'
<1> SUFFICES ASSUME Asks(main'.item), ~Carries', state' = "RUNNING"
             PROVE  main'.pc \in CrossingPcs /\ main'.cause = "shutdown"
  BY DEF Handled, Asks
<1>1. /\ Shape /\ main \in MainStates /\ main'.item = main.item /\ Asks(main.item)
  BY ItemStep DEF RuntimeInv, Course, Typed, MainTyped, MainTypeOK, MainStates
<1>2. ~MainTakes
  BY TakesItem
<1>3. CASE ClientSends \/ ReaderStep \/ WorkerStep \/ (\E t \in {"main", "worker"} : RefreshStep(t))
           \/ UNCHANGED vars
  <2>1. UNCHANGED <<main, state>>
    BY <1>3, OthersLeave DEF vars, sessionVars
  <2> QED BY <1>1, <2>1 DEF Handled, Carries
<1>4. CASE MainReplays \/ MainAnswers
  <2>1. state = "RUNNING" /\ main.pc \notin CrossingPcs
    BY <1>4 DEF MainReplays, ReplaysControl, ControlsReplayed, sessionVars,
                MainAnswers, MainClears, MainDiscards, CancelsRunning, TakesNotices, TakesRequests,
                Writes, WriteFails, Returns, MainAt, CrossingPcs
  <2> QED BY <1>1, <1>4, <2>1, RestCarries DEF Handled
<1>5. CASE MainDispatches
  <2>1. CASE Defers \/ StartsWorker
    BY <2>1, NothingAsked DEF Defers, StartsWorker
  <2>2. CASE RefusesRequest
    BY <2>2 DEF RefusesRequest, sessionVars
  <2>3. CASE AcceptsShutdown
    BY <2>3 DEF AcceptsShutdown, Crossing, Idle, CrossingPcs
  <2>4. CASE AcceptsExit \/ AppliesEdit \/ ConsumesReply \/ HandlesOther \/ EditHandled
    <3>1. main.item.kind \in {"exit", "edit", "reply", "other"}
      BY <1>1, <2>4 DEF Shape, AcceptsExit, AppliesEdit, ConsumesReply, HandlesOther, EditHandled,
                        Dispatching, MainAt
    <3> QED BY <1>1, <3>1 DEF Asks
  <2> QED BY <1>5, <2>1, <2>2, <2>3, <2>4 DEF MainDispatches
<1>6. CASE MainCrosses
  <2>1. main.pc \in CrossingPcs /\ main.cause \in {"shutdown", "exit", "abort"}
    <3>1. main.pc \in CrossingPcs
      BY <1>6 DEF MainCrosses, RetiresContexts, StagesRunning, RetiresOutbox, Closes, MainAt, CrossingPcs
    <3> QED BY <1>1, <3>1 DEF Shape, CrossingPcs, MainStates
  <2>2. CASE RetiresContexts \/ StagesRunning \/ RetiresOutbox
    <3>1. PICK pc \in {"stage", "retireOutbox", "close"} : main' = [main EXCEPT !.pc = pc]
      BY <2>2 DEF RetiresContexts, StagesRunning, RetiresOutbox, Go
    <3>2. main'.pc = pc /\ main'.cause = main.cause
      BY <1>1, <3>1 DEF MainStates
    <3>3. state = "RUNNING"
      BY <2>2 DEF RetiresContexts, StagesRunning, RetiresOutbox
    <3> QED BY <1>1, <1>6, <2>1, <3>2, <3>3, RestCarries DEF Handled, CrossingPcs
  <2>3. CASE Closes
    <3>1. main.cause \notin {"shutdown", "exit"}
      BY <2>3 DEF Closes
    <3>2. main' = Idle \/ main' = [Idle EXCEPT !.pc = "returned"]
      BY <2>1, <2>3, <3>1 DEF Closes
    <3>3. main'.item = Idle.item
      BY <3>2 DEF Idle
    <3> QED BY <3>3, NothingAsked
  <2> QED BY <1>6, <2>2, <2>3 DEF MainCrosses
<1> QED BY <1>2, <1>3, <1>4, <1>5, <1>6 DEF Next, MainStep

\* A request that is not executed yet has its id and its number, and it waits.
LEMMA UnstartedFacts ==
    ASSUME Typed, NEW f \in Unstarted
    PROVE  Asks(f) /\ f.id \in Ids /\ f.n \in Generations /\ f.n \in Coming /\ f.n \in Waiting
<1>1. /\ \A i \in DOMAIN events : Sound(events[i])
      /\ \A i \in DOMAIN deferred : Sound(deferred[i])
      /\ Sound(main.item)
  BY DEF Typed, QueueTyped, MainTyped
<1>2. Asks(f) /\ Sound(f) /\ f.n \in Coming
  BY <1>1 DEF Unstarted, Askers, Coming, Numbers, Decides
<1> QED BY <1>2 DEF Asks, Sound, Waiting

\* A number is given to one request; the newest of an id is the one that waits under it.
Named ==
    /\ \A x, y \in Ids : newest[x] = newest[y] /\ newest[x] # 0 => x = y
    /\ \A x \in Ids : newest[x] <= frames
    /\ \A g \in asked : g <= frames
    /\ \A g \in answered : g \in 1..frames /\ g \notin Waiting
    /\ \A f \in Unstarted : newest[f.id] = f.n
    /\ running # None => newest[running.id] = running.n

\* What is given a number, cancelled, answered and executed by a step.
LEMMA NamesStep ==
    ASSUME RuntimeInv, Turns, [Next]_vars
    PROVE  /\ newest' = newest \/ \E kind, id : id \in Ids /\ ReadRequest(kind, id)
           /\ \A g \in asked' : g \in asked \/ \E x \in Ids : g = newest[x]
           /\ \A g \in answered' : g \in answered \/ (g \in 1..frames /\ g \notin Waiting)
           /\ running' # None => running' = running \/ (running' = main.item /\ Decides)
<1>1. CASE ClientSends
  <2>1. UNCHANGED <<answered, running>>
    BY <1>1 DEF ClientSends, ReadRequest, ReadNotification, ReadReply, ReadCancel, ReadFailure,
                clientVars, sessionVars
  <2>2. /\ newest' = newest \/ \E kind, id : id \in Ids /\ ReadRequest(kind, id)
        /\ asked' = asked \/ \E id \in Ids : ReadCancel(id)
    BY <1>1 DEF ClientSends, ReadRequest, ReadNotification, ReadReply, ReadCancel, ReadFailure,
                clientVars
  <2>3. \A g \in asked' : g \in asked \/ \E x \in Ids : g = newest[x]
    <3>1. ASSUME NEW id \in Ids, ReadCancel(id) PROVE asked' \subseteq asked \cup {newest[id]}
      BY <3>1 DEF ReadCancel
    <3> QED BY <2>2, <3>1
  <2> QED BY <2>1, <2>2, <2>3
<1>2. CASE MainAnswers
  <2>1. UNCHANGED <<newest, asked, running>>
    BY <1>2 DEF MainAnswers
  <2>2. ASSUME NEW k \in 0..Len(main.batch), Deliver(k), main.pc = "write"
        PROVE  \A g \in answered' : g \in answered \/ (g \in 1..frames /\ g \notin Waiting)
    <3>1. main.batch \in Seq(Messages) /\ \A i \in DOMAIN main.batch : Passed(main.batch[i])
      BY <2>2 DEF RuntimeInv, Typed, MainTyped, MainTypeOK, Turns, Answering, Settled, Outgoing
    <3>2. \A i \in 1..k : i \in DOMAIN main.batch
      <4>1. DOMAIN main.batch = 1..Len(main.batch) /\ Len(main.batch) \in Nat
        BY <3>1, LenProperties
      <4> QED BY <2>2, <4>1
    <3> QED BY <2>2, <3>1, <3>2 DEF Deliver, Passed, IsResponse
  <2>3. CASE Writes
    <3>1. Len(main.batch) \in 0..Len(main.batch)
      <4>1. main.batch \in Seq(Messages)
        BY DEF RuntimeInv, Typed, MainTyped, MainTypeOK
      <4> QED BY <4>1, LenProperties
    <3>2. Deliver(Len(main.batch)) /\ main.pc = "write"
      BY <2>3 DEF Writes, MainAt
    <3> QED BY <2>1, <2>2, <3>1, <3>2
  <2>4. CASE WriteFails
    <3>1. PICK k \in 0..Len(main.batch) : Deliver(k)
      BY <2>4 DEF WriteFails
    <3> QED BY <2>1, <2>2, <2>4, <3>1 DEF WriteFails, MainAt
  <2>5. CASE ~Writes /\ ~WriteFails
    <3>1. answered' = answered
      BY <1>2, <2>5 DEF MainAnswers, MainClears, MainDiscards, CancelsRunning, TakesNotices,
                        TakesRequests, Returns
    <3> QED BY <2>1, <3>1
  <2> QED BY <2>3, <2>4, <2>5
<1>3. CASE MainDispatches
  <2>1. UNCHANGED <<newest, asked, answered>>
    BY <1>3 DEF MainDispatches, clientVars
  <2>2. CASE StartsWorker
    <3>1. running' = main.item /\ main.pc = "dispatch" /\ main.item.kind = "request"
      BY <2>2 DEF StartsWorker, Dispatching, MainAt
    <3>2. Decides
      BY <3>1 DEF Decides, Carries, Asks
    <3> QED BY <2>1, <3>1, <3>2
  <2>3. CASE ~StartsWorker
    <3>1. running' = running
      BY <1>3, <2>3 DEF MainDispatches, Defers, RefusesRequest, AcceptsShutdown, AcceptsExit,
                        AppliesEdit, ConsumesReply, HandlesOther, EditHandled, sessionVars
    <3> QED BY <2>1, <3>1
  <2> QED BY <2>2, <2>3
<1>4. CASE MainTakes
  <2>1. UNCHANGED <<newest, asked, answered>>
    BY <1>4 DEF MainTakes, clientVars
  <2>2. running' = running \/ running' = None
    BY <1>4 DEF MainTakes, TakesDeferred, TakesDropped, TakesFrame, TakesReady, TakesFailure,
                TakesCompletion, sessionVars
  <2> QED BY <2>1, <2>2
<1>5. CASE ReaderStep \/ WorkerStep \/ (\E t \in {"main", "worker"} : RefreshStep(t))
           \/ MainReplays \/ MainCrosses \/ UNCHANGED vars
  <2>1. UNCHANGED <<newest, asked, answered, running>>
    BY <1>5 DEF ReaderStep, ReaderStages, ReaderPosts, WorkerStep, RefreshStep, MainReplays,
                MainCrosses, vars, clientVars, sessionVars
  <2> QED BY <2>1
<1> QED BY <1>1, <1>2, <1>3, <1>4, <1>5 DEF Next, MainStep

LEMMA NamedStep ==
    ASSUME RuntimeInv, Turns, Named, [Next]_vars
    PROVE  Named'
<1>1. /\ Typed /\ Queued /\ Onward /\ newest \in [Ids -> 0..MaxFrames] /\ MaxFrames \in Nat
      /\ frames \in Nat /\ asked \in SUBSET Generations
  BY QueueStep, NumberFacts, RuntimeAssumption DEF RuntimeInv, Turns, Typed, ClientTypeOK
<1>2. /\ newest' = newest \/ \E kind, id : id \in Ids /\ ReadRequest(kind, id)
      /\ \A g \in asked' : g \in asked \/ \E x \in Ids : g = newest[x]
      /\ \A g \in answered' : g \in answered \/ (g \in 1..frames /\ g \notin Waiting)
      /\ running' # None => running' = running \/ (running' = main.item /\ Decides)
  BY NamesStep
<1>3. \A g \in asked' : g <= frames'
  <2>1. /\ \A x \in Ids : newest[x] \in Nat /\ newest[x] <= frames
        /\ \A g \in asked : g \in Nat /\ g <= frames
    BY <1>1 DEF Named, Generations
  <2>2. ASSUME NEW g \in asked' PROVE g \in Nat /\ g <= frames
    BY <1>2, <2>1, <2>2
  <2> QED BY <1>1, <2>2 DEF Onward
<1>4. \A g \in answered' : g \in 1..frames' /\ g \notin Waiting'
  <2>1. ASSUME NEW g \in answered' PROVE g \in 1..frames /\ g \notin Waiting
    BY <1>2, <2>1 DEF Named
  <2> QED BY <1>1, <2>1 DEF Onward
<1>5. \A f \in Unstarted : newest[f.id] = f.n /\ f.id \in Ids /\ f.n \in Waiting /\ f.n \in 1..frames
  BY <1>1, UnstartedFacts DEF Named, Queued
<1>6. running' # None => newest[running'.id] = running'.n /\ running'.id \in Ids
                         /\ running'.n \in Waiting /\ running'.n \in 1..frames
  <2>1. running # None => running.id \in Ids /\ running.n \in Waiting /\ running.n \in 1..frames
    BY <1>1 DEF Typed, SessionTyped, Sound, Waiting, Queued
  <2>2. Decides => main.item \in Unstarted
    BY DEF Unstarted
  <2> QED BY <1>2, <1>5, <2>1, <2>2 DEF Named
<1>7. \A f \in Unstarted' : f \in Unstarted \/ (newest'[f.id] = f.n)
  <2>1. ASSUME NEW f, Read(f) PROVE newest'[f.id] = f.n
    <3>1. PICK kind, id : id \in Ids /\ ReadRequest(kind, id) /\ f = Item(kind, id, frames', lastEdit, "none")
      BY <2>1 DEF Read
    <3>2. newest' = [newest EXCEPT ![id] = frames'] /\ f.id = id /\ f.n = frames'
      BY <3>1 DEF ReadRequest, Item
    <3> QED BY <1>1, <3>1, <3>2
  <2> QED BY <2>1, UnstartedStep
<1>8. CASE newest' = newest
  <2>1. \A x \in Ids : newest'[x] <= frames'
    BY <1>1, <1>8 DEF Named, Onward
  <2> QED BY <1>3, <1>4, <1>5, <1>6, <1>7, <1>8, <2>1 DEF Named
<1>9. ASSUME NEW kind, NEW id \in Ids, ReadRequest(kind, id) PROVE Named'
  <2>1. /\ newest' = [newest EXCEPT ![id] = frames'] /\ frames' = frames + 1
        /\ newest[id] = 0 \/ newest[id] \in answered
    BY <1>9 DEF ReadRequest, CanRead
  <2>2. \A x \in Ids : newest'[x] = IF x = id THEN frames + 1 ELSE newest[x]
    BY <1>1, <2>1
  <2>3. \A x \in Ids : newest[x] \in Nat /\ newest[x] <= frames
    BY <1>1 DEF Named
  <2>4. \A x, y \in Ids : newest'[x] = newest'[y] /\ newest'[x] # 0 => x = y
    <3>1. \A x \in Ids : newest[x] # frames + 1
      BY <1>1, <2>3
    <3> QED BY <2>2, <3>1 DEF Named
  <2>5. \A x \in Ids : newest'[x] <= frames'
    BY <1>1, <2>1, <2>2, <2>3
  <2>6. newest[id] \notin Waiting
    BY <1>1, <2>1 DEF Named, Queued
  <2>7. ASSUME NEW f, f.id \in Ids, newest[f.id] = f.n, f.n \in Waiting
        PROVE  newest'[f.id] = f.n
    BY <2>2, <2>6, <2>7
  <2>8. \A f \in Unstarted' : newest'[f.id] = f.n
    BY <1>5, <1>7, <2>7
  <2>9. running' # None => newest'[running'.id] = running'.n
    BY <1>6, <2>7
  <2> QED BY <1>3, <1>4, <2>4, <2>5, <2>8, <2>9 DEF Named
<1> QED BY <1>2, <1>8, <1>9

\* The session is at an end, or a terminal boundary has retired the contexts.
Over ==
    \/ state # "RUNNING" \/ failed
    \/ main.pc \in {"stage", "retireOutbox", "close"}
    \/ Ended

\* The cancellation of request g is where its execution finds it.
Honoured(g) ==
    /\ \A f \in Unstarted : f.kind = "request" /\ f.n = g => f.id \in staged
    /\ worker.pc # "off" /\ worker.item.n = g =>
          /\ worker.pc \in BeforeContext => worker.item.id \in staged
          /\ worker.pc = "work" => g \in cancelled
          /\ worker.pc # "commit"
          /\ worker.pc \in {"finish", "clear", "discard", "complete"} => worker.outcome # "result"
    /\ \A f \in Finished : f.n = g => f.outcome # "result"

Caught == ~Over => \A g \in early : Honoured(g)

\* No result is made of a request that was cancelled early or refused.
Unresulting ==
    /\ \A g \in early : g \notin Resulted
    /\ main.item.kind = "request" /\ ~Carries => main.item.n \notin Resulted

EarlyInv == Named /\ Handled /\ Unresulting /\ Caught

\* What has a result does not wait.
LEMMA ResultedPassed ==
    ASSUME Turns, NEW n \in Resulted
    PROVE  n \notin Waiting
BY DEF Turns, Answering, Settled, Resulted, Results, Passed

\* A request that has not been started waits, unless main has just refused it.
LEMMA NotStartedWaits ==
    ASSUME RuntimeInv, NEW g, NotStarted(g)
    PROVE  \/ \E f \in Unstarted : f.kind = "request" /\ f.n = g
           \/ main.item.kind = "request" /\ ~Carries /\ main.item.n = g
           \/ worker.item.n = g /\ worker.pc \in BeforeContext /\ running # None /\ worker.item = running
<1>1. CASE \E f \in Range(events) \cup Range(deferred) : f.kind = "request" /\ f.n = g
  <2>1. PICK f : f \in Range(events) \cup Range(deferred) /\ f.kind = "request" /\ f.n = g
    BY <1>1
  <2>2. f \in Unstarted
    BY <2>1 DEF Range, Unstarted, Askers, Asks
  <2> QED BY <2>1, <2>2
<1>2. CASE main.item.kind = "request" /\ main.item.n = g
  BY <1>2 DEF Unstarted, Decides, Asks
<1>3. CASE worker.item.n = g /\ worker.pc \in BeforeContext
  BY <1>3 DEF RuntimeInv, Lane, BeforeContext
<1> QED BY <1>1, <1>2, <1>3 DEF NotStarted

\* A cancellation is early if the reader stages it before its request is started.
LEMMA EarlyStep ==
    ASSUME [Next]_vars, NEW g \in early'
    PROVE  \/ g \in early
           \/ ReaderStages /\ ReaderStep /\ g \in asked /\ g = newest[reader.id] /\ NotStarted(g)
<1>1. CASE ReaderStep
  BY <1>1 DEF ReaderStep, ReaderStages, ReaderPosts, clientVars
<1>2. CASE ~ReaderStep
  <2>1. early' = early
    BY <1>2 DEF Next, MainStep, ClientSends, ReadRequest, ReadNotification, ReadReply, ReadCancel,
           ReadFailure, WorkerStep, RefreshStep, MainTakes, MainReplays, MainDispatches, MainCrosses,
           MainAnswers, vars, clientVars
  <2> QED BY <2>1
<1> QED BY <1>1, <1>2

\* Main is at its queue and at nothing else when it takes a completion.
LEMMA CompletesAtTake ==
    ASSUME RuntimeInv, NEW n, Completes(n)
    PROVE  ~Over /\ ~Asks(main'.item) /\ \E f \in Finished : f.n = n /\ f.outcome = "result"
<1>1. TakesCompletion /\ main.pc = "take" /\ ~failed /\ state = "RUNNING"
  BY DEF Completes, TakesCompletion, TakesEvent, Taking, MainAt
<1> QED BY <1>1, CompletionItem DEF Completes, Over, Ended

LEMMA UnresultingStep ==
    ASSUME RuntimeInv, Turns, EarlyInv, [Next]_vars
    PROVE  Unresulting'
<1>1. ASSUME NEW n \in Resulted' PROVE n \in Resulted \/ Completes(n)
  BY <1>1, ResultedStep
<1>2. ASSUME NEW g \in early' PROVE g \notin Resulted'
  <2>1. CASE g \in early
    <3>1. g \notin Resulted
      BY <2>1 DEF EarlyInv, Unresulting
    <3>2. ~Completes(g)
      BY <2>1, CompletesAtTake DEF EarlyInv, Caught, Honoured
    <3> QED BY <1>1, <3>1, <3>2
  <2>2. CASE ReaderStep /\ NotStarted(g)
    <3>1. Resulted' = Resulted
      <4>1. UNCHANGED <<main, written>>
        BY <2>2, OthersLeave
      <4> QED BY <4>1 DEF Resulted, Outgoing
    <3>2. g \notin Resulted
      <4>1. CASE \E f \in Unstarted : f.n = g
        BY <4>1, UnstartedFacts, ResultedPassed DEF RuntimeInv
      <4>2. CASE main.item.kind = "request" /\ ~Carries /\ main.item.n = g
        BY <4>2 DEF EarlyInv, Unresulting
      <4>3. CASE running # None /\ running.n = g
        BY <4>3, ResultedPassed DEF Waiting
      <4> QED BY <2>2, <4>1, <4>2, <4>3, NotStartedWaits
    <3> QED BY <3>1, <3>2
  <2> QED BY <1>2, <2>1, <2>2, EarlyStep
<1>3. ASSUME main'.item.kind = "request", ~Carries' PROVE main'.item.n \notin Resulted'
  <2>1. Asks(main'.item) /\ main'.item = main.item
    BY <1>3, ItemStep DEF Asks
  <2>2. main.item.n \notin Resulted
    <3>1. CASE Carries
      <4>1. main.item.n \in Waiting
        BY <2>1, <3>1 DEF Decides, Coming, Waiting
      <4> QED BY <4>1, ResultedPassed
    <3>2. CASE ~Carries
      BY <1>3, <2>1, <3>2 DEF EarlyInv, Unresulting
    <3> QED BY <3>1, <3>2
  <2>3. ~Completes(main.item.n)
    BY <2>1, CompletesAtTake
  <2> QED BY <1>1, <2>1, <2>2, <2>3
<1> QED BY <1>2, <1>3 DEF Unresulting

\* The end of a session is not taken back.
LEMMA OverStays ==
    ASSUME RuntimeInv, [Next]_vars, Over
    PROVE  Over'
<1>1. /\ Shape /\ Ending /\ main \in MainStates
  BY DEF RuntimeInv, Course, Typed, MainTyped, MainTypeOK, MainStates
<1>2. CASE ClientSends \/ ReaderStep \/ WorkerStep \/ (\E t \in {"main", "worker"} : RefreshStep(t))
           \/ UNCHANGED vars
  <2>1. UNCHANGED <<main, state, failed>>
    BY <1>2, OthersLeave DEF vars, sessionVars
  <2> QED BY <2>1 DEF Over, Ended
<1>3. CASE MainTakes \/ MainReplays \/ MainDispatches \/ MainAnswers
  <2>1. /\ UNCHANGED <<state, failed>>
        /\ main.pc \notin {"stage", "retireOutbox", "close"} /\ ~Ended
    BY <1>3 DEF Ended, MainAt, sessionVars,
           MainTakes, TakesDeferred, TakesDropped, TakesFrame, TakesReady, TakesFailure,
           TakesCompletion, TakesEvent, Taking, MainReplays, ReplaysControl, ControlsReplayed,
           MainDispatches, Defers, StartsWorker, RefusesRequest, AcceptsShutdown, AcceptsExit,
           AppliesEdit, ConsumesReply, HandlesOther, EditHandled, Dispatching,
           MainAnswers, MainClears, MainDiscards, CancelsRunning, TakesNotices, TakesRequests,
           Writes, WriteFails, Returns
  <2> QED BY <2>1 DEF Over
<1>4. CASE MainCrosses
  <2>1. main.pc \in CrossingPcs /\ main.cause \in {"shutdown", "exit", "abort"}
    <3>1. main.pc \in CrossingPcs
      BY <1>4 DEF MainCrosses, RetiresContexts, StagesRunning, RetiresOutbox, Closes, MainAt, CrossingPcs
    <3> QED BY <1>1, <3>1 DEF Shape, CrossingPcs, MainStates
  <2>2. CASE RetiresContexts \/ StagesRunning \/ RetiresOutbox
    <3>1. PICK pc \in {"stage", "retireOutbox", "close"} : main' = [main EXCEPT !.pc = pc]
      BY <2>2 DEF RetiresContexts, StagesRunning, RetiresOutbox, Go
    <3>2. main'.pc = pc
      BY <1>1, <3>1 DEF MainStates
    <3> QED BY <3>2 DEF Over
  <2>3. CASE Closes
    <3>1. CASE main.cause \in {"shutdown", "exit"}
      <4>1. state' # "RUNNING"
        BY <2>3, <3>1 DEF Closes
      <4> QED BY <4>1 DEF Over
    <3>2. CASE main.cause = "abort" /\ running # None
      <4>1. failed'
        BY <2>3, <3>2 DEF Closes
      <4> QED BY <4>1 DEF Over
    <3>3. CASE main.cause = "abort" /\ running = None
      <4>1. main' = [Idle EXCEPT !.pc = "returned"]
        BY <2>3, <3>3 DEF Closes
      <4>2. main'.pc = "returned"
        BY <4>1 DEF Idle
      <4> QED BY <4>2 DEF Over, Ended
    <3> QED BY <2>1, <3>1, <3>2, <3>3
  <2> QED BY <1>4, <2>2, <2>3 DEF MainCrosses
<1> QED BY <1>2, <1>3, <1>4 DEF Next, MainStep

\* A staged cancellation is taken by the request it is for, or as one of the same id is
\* done with; a cancelled context stays cancelled.
LEMMA StagedStep ==
    ASSUME RuntimeInv, Handled, [Next]_vars, ~Over, ~Over'
    PROVE  /\ \A id \in staged : \/ id \in staged'
                                 \/ /\ id = worker.item.id /\ worker' # worker
                                    /\ worker.pc \in {"start", "clear"}
                                    /\ WorkerStarts \/ WorkerClears
           /\ cancelled \subseteq cancelled'
<1>1. /\ Typed /\ Shape /\ MainTyped /\ main \in MainStates
  BY DEF RuntimeInv, Course, Typed, MainTyped, MainTypeOK, MainStates
<1>2. CASE ClientSends \/ MainTakes \/ MainDispatches \/ (\E t \in {"main", "worker"} : RefreshStep(t))
           \/ UNCHANGED vars
  <2>1. UNCHANGED <<staged, cancelled>>
    BY <1>2 DEF ClientSends, MainTakes, MainDispatches, RefreshStep, vars, trackerVars
  <2> QED BY <2>1
<1>3. ASSUME NEW id, StageCancel(id) PROVE staged \subseteq staged' /\ cancelled \subseteq cancelled'
  BY <1>3 DEF StageCancel
<1>4. CASE ReaderStep
  BY <1>3, <1>4 DEF ReaderStep, ReaderStages, trackerVars
<1>5. CASE WorkerStep
  <2>1. CASE WorkerStarts \/ WorkerClears
    <3>1. worker.pc \in {"start", "clear"} /\ worker \in [pc : WorkPcs, item : Items, edition : 0..MaxFrames,
                   outcome : Outcomes, noted : BOOLEAN]
      BY <1>1, <2>1 DEF WorkerStarts, WorkerClears, WorkerAt, Typed, WorkTyped, WorkTypeOK
    <3>2. worker'.pc \in {"work", "discard"}
      BY <2>1, <3>1 DEF WorkerStarts, WorkerClears
    <3>3. worker' # worker
      BY <3>1, <3>2
    <3>4. staged \ {worker.item.id} \subseteq staged' /\ cancelled \subseteq cancelled'
      BY <2>1 DEF WorkerStarts, WorkerClears, StartContext, ClearStaged
    <3> QED BY <2>1, <3>1, <3>3, <3>4
  <2>2. CASE ~WorkerStarts /\ ~WorkerClears
    BY <1>5, <2>2 DEF WorkerStep, WorkerRoutes, WorkerCaptures, WorkerNotifies, WorkerChecks,
         WorkerCommits, WorkerRaises, WorkerFinishes, WorkerDiscards, WorkerCompletes,
         FinishContext, trackerVars
  <2> QED BY <2>1, <2>2
<1>6. CASE MainReplays
  BY <1>6 DEF MainReplays, ReplaysControl, ControlsReplayed, CancelActive, trackerVars
<1>7. CASE MainCrosses
  <2>1. ~RetiresContexts
    <3>1. ASSUME RetiresContexts PROVE FALSE
      <4>1. PICK pc \in {"stage", "retireOutbox"} : main' = [main EXCEPT !.pc = pc]
        BY <3>1 DEF RetiresContexts, Go
      <4>2. main'.pc = pc
        BY <1>1, <4>1 DEF MainStates
      <4> QED BY <4>2 DEF Over
    <3> QED BY <3>1
  <2> QED BY <1>3, <1>7, <2>1 DEF MainCrosses, StagesRunning, RetiresOutbox, Closes, trackerVars
<1>8. CASE MainAnswers
  <2>1. ~MainClears
    <3>1. ASSUME MainClears PROVE FALSE
      <4>1. main.pc = "clear" /\ Asks(main.item) /\ ~Carries
        BY <1>1, <3>1 DEF MainClears, MainAt, MainTyped, Asks, Shape, Carries
      <4> QED BY <4>1 DEF Handled, Over, CrossingPcs
    <3> QED BY <3>1
  <2> QED BY <1>3, <1>8, <2>1 DEF MainAnswers, MainDiscards, CancelsRunning, TakesNotices,
         TakesRequests, Writes, WriteFails, Returns, trackerVars
<1> QED BY <1>2, <1>4, <1>5, <1>6, <1>7, <1>8 DEF Next, MainStep

LEMMA WorkerChanges ==
    ASSUME [Next]_vars, worker' # worker
    PROVE  WorkerStep \/ StartsWorker
BY DEF Next, MainStep, ClientSends, ReaderStep, RefreshStep, MainTakes, MainReplays, MainDispatches,
       Defers, RefusesRequest, AcceptsShutdown, AcceptsExit, AppliesEdit, ConsumesReply,
       HandlesOther, EditHandled, MainCrosses, MainAnswers, vars

\* A cancellation that was staged early finds its request.
LEMMA HonouredStays ==
    ASSUME RuntimeInv, Turns, Named, Handled, [Next]_vars, ~Over, ~Over', NEW g \in early, Honoured(g)
    PROVE  Honoured(g)'
<1>1. /\ Typed /\ Lane /\ Queued /\ frames \in Nat /\ g \in Nat /\ g <= frames
      /\ worker \in [pc : WorkPcs, item : Items, edition : 0..MaxFrames, outcome : Outcomes, noted : BOOLEAN]
  <2>1. g \in asked /\ g \in Generations
    BY DEF RuntimeInv, Typed, ClientTypeOK
  <2> QED BY <2>1, NumberFacts DEF RuntimeInv, Turns, Typed, WorkTyped, WorkTypeOK, Named, Generations
<1>2. /\ \A f \in Unstarted' : f \in Unstarted \/ Read(f)
      /\ \A f \in Finished' : f \in Finished \/ Posts(f)
  BY UnstartedStep
<1>3. /\ \A id \in staged : \/ id \in staged'
                            \/ /\ id = worker.item.id /\ worker' # worker
                               /\ worker.pc \in {"start", "clear"}
                               /\ WorkerStarts \/ WorkerClears
      /\ cancelled \subseteq cancelled'
  BY StagedStep
<1>4. ASSUME NEW f \in Unstarted, f.kind = "request", f.n = g PROVE f.id \in staged'
  <2>1. f.id \in staged /\ f.id \in Ids /\ newest[f.id] = f.n /\ f.n \in Coming
    BY <1>1, <1>4, UnstartedFacts DEF Honoured, Named
  <2>2. ASSUME worker.pc \in {"start", "clear"} PROVE f.id # worker.item.id
    <3>1. worker.item = running /\ running # None
      BY <1>1, <2>2 DEF Lane
    <3>2. newest[running.id] = running.n /\ running.n < f.n /\ running.n \in Nat
      BY <1>1, <2>1, <3>1 DEF Named, Queued, Waiting
    <3> QED BY <2>1, <3>1, <3>2
  <2> QED BY <1>3, <2>1, <2>2
<1>5. ASSUME NEW f \in Unstarted', f.kind = "request", f.n = g PROVE f.id \in staged'
  <2>1. ~Read(f)
    <3>1. ASSUME Read(f) PROVE f.n = frames + 1
      BY <3>1 DEF Read, ReadRequest, CanRead, Item
    <3> QED BY <1>1, <1>5, <3>1
  <2> QED BY <1>2, <1>4, <1>5, <2>1
<1>6. ASSUME NEW f \in Finished', f.n = g PROVE f.outcome # "result"
  <2>1. CASE f \in Finished
    BY <1>6, <2>1 DEF Honoured
  <2>2. CASE Posts(f)
    <3>1. /\ f = [worker.item EXCEPT !.kind = "completed", !.outcome = worker.outcome]
          /\ worker.pc = "complete" /\ worker.item \in Items
      BY <1>1, <2>2 DEF Posts, WorkerCompletes, WorkerAt
    <3>2. f.n = worker.item.n /\ f.outcome = worker.outcome
      BY <3>1 DEF Items
    <3> QED BY <1>6, <3>1, <3>2 DEF Honoured
  <2> QED BY <1>2, <1>6, <2>1, <2>2
<1> DEFINE Safe(w) == w.pc # "off" /\ w.item.n = g =>
              /\ w.pc \in BeforeContext => w.item.id \in staged'
              /\ w.pc = "work" => g \in cancelled'
              /\ w.pc # "commit"
              /\ w.pc \in {"finish", "clear", "discard", "complete"} => w.outcome # "result"
<1>7. Safe(worker')
  <2>1. CASE worker' = worker
    BY <1>3, <2>1 DEF Honoured, BeforeContext
  <2>2. CASE StartsWorker
    <3>1. /\ worker' = [NoWork EXCEPT !.pc = "route", !.item = main.item]
          /\ main.pc = "dispatch" /\ main.item.kind = "request"
      BY <2>2 DEF StartsWorker, Dispatching, MainAt
    <3>2. main.item \in Unstarted
      BY <3>1 DEF Unstarted, Decides, Carries, Asks
    <3>3. worker'.pc = "route" /\ worker'.item = main.item
      BY <3>1 DEF NoWork
    <3> QED BY <1>4, <3>1, <3>2, <3>3 DEF BeforeContext
  <2>3. CASE WorkerStep /\ ~WorkerStarts /\ ~WorkerClears
    <3>1. \A id \in staged : id \in staged'
      BY <1>3, <2>3
    <3>2. CASE WorkerRoutes
      <4>1. worker.pc = "route"
        BY <3>2 DEF WorkerRoutes, WorkerAt
      <4>2. CASE worker' = [worker EXCEPT !.pc = "capture"]
        <5>1. worker'.pc = "capture" /\ worker'.item = worker.item
          BY <1>1, <4>2
        <5> QED BY <3>1, <4>1, <5>1 DEF Honoured, BeforeContext
      <4>3. CASE worker' = [worker EXCEPT !.pc = "clear", !.outcome = "refused"]
        <5>1. worker'.pc = "clear" /\ worker'.outcome = "refused"
          BY <1>1, <4>3
        <5> QED BY <5>1 DEF BeforeContext
      <4> QED BY <3>2, <4>2, <4>3 DEF WorkerRoutes
    <3>3. CASE WorkerCaptures
      <4>1. worker.pc = "capture" /\ worker' = [worker EXCEPT !.pc = "start", !.edition = edition]
        BY <3>3 DEF WorkerCaptures, WorkerAt
      <4>2. worker'.pc = "start" /\ worker'.item = worker.item
        BY <1>1, <4>1
      <4> QED BY <3>1, <4>1, <4>2 DEF Honoured, BeforeContext
    <3>4. CASE WorkerNotifies
      <4>1. worker.pc = "work" /\ worker' = [worker EXCEPT !.noted = TRUE]
        BY <3>4 DEF WorkerNotifies, WorkerAt
      <4>2. worker'.pc = "work" /\ worker'.item = worker.item
        BY <1>1, <4>1
      <4> QED BY <1>3, <4>1, <4>2 DEF Honoured, BeforeContext
    <3>5. CASE WorkerChecks
      <4>1. worker.pc = "work"
        BY <3>5 DEF WorkerChecks, WorkerAt
      <4>2. CASE worker.item.n = g
        <5>1. g \in cancelled
          BY <4>1, <4>2 DEF Honoured
        <5>2. worker' = [worker EXCEPT !.pc = "finish", !.outcome = "cancelled"]
          BY <3>5, <4>2, <5>1 DEF WorkerChecks
        <5>3. worker'.pc = "finish" /\ worker'.outcome = "cancelled"
          BY <1>1, <5>2
        <5> QED BY <5>3 DEF BeforeContext
      <4>3. CASE worker.item.n # g
        <5>1. \/ worker' = [worker EXCEPT !.pc = "finish", !.outcome = "cancelled"]
              \/ worker' = [worker EXCEPT !.pc = "finish", !.outcome = "modified"]
              \/ worker' = [worker EXCEPT !.pc = "commit"]
          BY <3>5 DEF WorkerChecks
        <5>2. worker'.item = worker.item
          BY <1>1, <5>1
        <5> QED BY <4>3, <5>2
      <4> QED BY <4>2, <4>3
    <3>6. CASE WorkerCommits
      <4>1. worker.pc = "commit"
        BY <3>6 DEF WorkerCommits, WorkerAt
      <4>2. \E o \in {"result", "modified"} : worker' = [worker EXCEPT !.pc = "finish", !.outcome = o]
        BY <3>6 DEF WorkerCommits
      <4>3. worker'.item = worker.item
        BY <1>1, <4>2
      <4>4. worker.item.n # g
        BY <4>1 DEF Honoured
      <4> QED BY <4>3, <4>4
    <3>7. CASE WorkerRaises
      <4>1. worker' = [worker EXCEPT !.pc = "finish", !.outcome = "raised"]
        BY <3>7 DEF WorkerRaises
      <4>2. worker'.pc = "finish" /\ worker'.outcome = "raised"
        BY <1>1, <4>1
      <4> QED BY <4>2 DEF BeforeContext
    <3>8. CASE WorkerFinishes \/ WorkerDiscards
      <4>1. worker.pc \in {"finish", "discard"}
        BY <3>8 DEF WorkerFinishes, WorkerDiscards, WorkerAt
      <4>2. PICK pc \in {"clear", "complete"} : worker' = [worker EXCEPT !.pc = pc]
        BY <3>8 DEF WorkerFinishes, WorkerDiscards
      <4>3. worker'.pc = pc /\ worker'.item = worker.item /\ worker'.outcome = worker.outcome
        BY <1>1, <4>2
      <4> QED BY <4>1, <4>3 DEF Honoured, BeforeContext
    <3>9. CASE WorkerCompletes
      <4>1. worker' = NoWork
        BY <3>9 DEF WorkerCompletes
      <4>2. worker'.pc = "off"
        BY <4>1 DEF NoWork
      <4> QED BY <4>2
    <3> QED BY <2>3, <3>2, <3>3, <3>4, <3>5, <3>6, <3>7, <3>8, <3>9 DEF WorkerStep
  <2>4. CASE WorkerStarts
    <3>1. /\ worker.pc = "start" /\ worker' = [worker EXCEPT !.pc = "work"]
          /\ cancelled' = IF worker.item.id \in staged THEN cancelled \cup {worker.item.n} ELSE cancelled
      BY <2>4 DEF WorkerStarts, WorkerAt, StartContext
    <3>2. worker'.pc = "work" /\ worker'.item = worker.item
      BY <1>1, <3>1
    <3> QED BY <3>1, <3>2 DEF Honoured, BeforeContext
  <2>5. CASE WorkerClears
    <3>1. worker.pc = "clear" /\ worker' = [worker EXCEPT !.pc = "discard"]
      BY <2>5 DEF WorkerClears, WorkerAt
    <3>2. worker'.pc = "discard" /\ worker'.item = worker.item /\ worker'.outcome = worker.outcome
      BY <1>1, <3>1
    <3> QED BY <3>1, <3>2 DEF Honoured, BeforeContext
  <2> HIDE DEF Safe
  <2> QED BY <2>1, <2>2, <2>3, <2>4, <2>5, WorkerChanges
<1> QED BY <1>5, <1>6, <1>7 DEF Honoured

\* The reader stages a cancellation before its request is started: the request is not
\* started, so nothing but the staged id is needed.
LEMMA HonouredNew ==
    ASSUME RuntimeInv, Turns, Named, Handled, ReaderStages, ReaderStep, ~Over,
           NEW g \in asked, g = newest[reader.id], NotStarted(g)
    PROVE  Honoured(g)'
<1>1. /\ Typed /\ Lane /\ Queued /\ MainTyped /\ reader.id \in Ids /\ g \in Nat /\ g # 0
      /\ active \in [Ids -> 0..MaxFrames]
  <2>1. g \in Generations /\ reader.pc = "stage"
    BY DEF RuntimeInv, Typed, ClientTypeOK, ReaderStages
  <2> QED BY <2>1 DEF RuntimeInv, Turns, Typed, ReaderTyped, TrackerTypeOK, Generations
<1>2. ~(main.item.kind = "request" /\ ~Carries)
  BY <1>1 DEF Handled, Asks, Over, MainTyped
<1>3. \/ \E f \in Unstarted : f.kind = "request" /\ f.n = g
      \/ worker.item.n = g /\ worker.pc \in BeforeContext /\ running # None /\ worker.item = running
  BY <1>2, NotStartedWaits
<1>4. \A f \in Unstarted : f.n = g => f.id = reader.id
  BY <1>1, UnstartedFacts DEF Named
<1>5. \A f \in Unstarted : f.n = g /\ running # None => running.n # g
  <2>1. ASSUME NEW f \in Unstarted, f.n = g, running # None PROVE running.n < g
    <3>1. f.n \in Coming
      BY <1>1, UnstartedFacts
    <3> QED BY <2>1, <3>1, <1>1 DEF Queued
  <2> QED BY <1>1, <2>1
<1>6. running # None /\ (running.n = g \/ running.id = reader.id) => running.n = g /\ running.id = reader.id
  BY <1>1 DEF Named, Typed, SessionTyped, Sound
<1>7. active[reader.id] = 0
  <2>1. ASSUME active[reader.id] # 0 PROVE FALSE
    <3>1. /\ worker.pc \in {"work", "commit", "finish"} /\ worker.item.id = reader.id
          /\ worker.item = running /\ running # None
      BY <1>1, <2>1 DEF Lane
    <3>2. running.n = g
      BY <1>6, <3>1
    <3> QED BY <1>3, <1>5, <3>1, <3>2 DEF BeforeContext
  <2> QED BY <2>1
<1>8. reader.id \in staged'
  BY <1>7 DEF ReaderStages, StageCancel
<1>9. UNCHANGED <<main, worker, events, deferred>>
  BY DEF ReaderStep, ReaderStages, queueVars
<1>10. Unstarted' = Unstarted /\ Finished' = Finished
  BY <1>9 DEF Unstarted, Finished, Completions, Decides, Carries
<1>11. \A f \in Unstarted' : f.kind = "request" /\ f.n = g => f.id \in staged'
  BY <1>4, <1>8, <1>10
<1>12. ASSUME worker.pc # "off", worker.item.n = g PROVE worker.pc \in BeforeContext /\ worker.item.id \in staged'
  <2>1. worker.item = running /\ running # None
    BY <1>1, <1>12 DEF Lane
  <2>2. running.id = reader.id
    BY <1>6, <1>12, <2>1
  <2> QED BY <1>3, <1>5, <1>8, <1>12, <2>1, <2>2
<1>13. \A f \in Finished : f.n # g
  <2>1. ASSUME NEW f \in Finished, f.n = g PROVE FALSE
    <3>1. Completions # {} /\ (running # None => running.n = g)
      BY <1>1, <2>1 DEF Finished, Queued
    <3>2. worker.pc = "off" /\ running # None
      BY <1>1, <3>1 DEF Lane
    <3> QED BY <1>3, <1>5, <3>1, <3>2 DEF BeforeContext
  <2> QED BY <2>1
<1>14. worker' = worker /\ \A pc \in BeforeContext : pc \notin {"work", "commit", "finish", "clear", "discard", "complete"}
  BY <1>9 DEF BeforeContext
<1> QED BY <1>10, <1>11, <1>12, <1>13, <1>14 DEF Honoured

LEMMA CaughtStep ==
    ASSUME RuntimeInv, Turns, EarlyInv, [Next]_vars
    PROVE  Caught'
<1> SUFFICES ASSUME ~Over', NEW g \in early' PROVE Honoured(g)'
  BY DEF Caught
<1>1. ~Over /\ Named /\ Handled /\ \A h \in early : Honoured(h)
  BY OverStays DEF EarlyInv, Caught
<1> QED BY <1>1, EarlyStep, HonouredStays, HonouredNew

LEMMA InitEarly ==
    ASSUME Init
    PROVE  EarlyInv
<1>1. DOMAIN <<>> = {}
  BY EmptySeq, LenProperties
<1>2. /\ main = Idle /\ Is(main, "take", "take", "none") /\ main.answer = <<>>
      /\ events = <<>> /\ deferred = <<>> /\ written = <<>> /\ running = None
      /\ asked = {} /\ answered = {} /\ early = {} /\ newest = [id \in Ids |-> 0]
      /\ frames = 0
  BY IdleIs DEF Init, Bare
<1>3. ~Carries /\ ~Asks(main.item) /\ main.item.kind # "request"
  BY <1>2, NothingAsked DEF Is, Carries, Asks
<1>4. Unstarted = {}
  BY <1>1, <1>2, <1>3 DEF Unstarted, Askers, Decides
<1>5. Named
  BY <1>2, <1>4 DEF Named
<1> QED BY <1>2, <1>3, <1>5 DEF EarlyInv, Handled, Unresulting, Caught

\* A cancellation that reaches the tracker before its request begins to execute is staged
\* until the request registers its context, whoever else comes and goes under the id
\* meanwhile: the request does not answer with a result (stage_cancel, start and
\* clear_staged_cancel, with the reader, the worker and main).
THEOREM EarlyCancelsHonoured == Spec => []EarlyCancelHonoured
<1>1. Init => EarlyInv
  BY InitEarly
<1>2. RuntimeInv /\ Turns /\ EarlyInv /\ [Next]_vars => EarlyInv'
  BY NamedStep, HandledStep, UnresultingStep, CaughtStep DEF EarlyInv
<1>3. EarlyInv => EarlyCancelHonoured
  <2> SUFFICES ASSUME EarlyInv, NEW i \in Responses, written[i].n \in early, written[i].outcome = "result"
               PROVE  FALSE
    BY DEF EarlyCancelHonoured
  <2>1. written[i].n \in Resulted
    BY DEF Responses, Resulted, Results, IsResponse
  <2> QED BY <2>1 DEF EarlyInv, Unresulting
<1> QED BY <1>1, <1>2, <1>3, RuntimeKeepsInvariant, RequestsTakeTurns, PTL DEF Spec
=============================================================================
