--------------------------- MODULE WorkspaceProofs ---------------------------
(***************************************************************************)
(* Theorems about WorkspaceSession, for any URIs, objects, notifications   *)
(* and requests.                                                           *)
(*                                                                         *)
(* What is pushed and what is answered rests on the locks that are held    *)
(* and on the counters: every change of the index or of the folders counts *)
(* (Pushing, Answering).  That open buffers win and that closed files stay *)
(* tracked is an argument about one thread at a time: the entry of a URI   *)
(* is right, or that thread is at a step that is going to right it         *)
(* (Stage).                                                                *)
(***************************************************************************)
EXTENDS WorkspaceSession, TLAPS

-----------------------------------------------------------------------------
(***************************************************************************)
(* Types.                                                                  *)
(***************************************************************************)
\* Steps of main alone, steps with a URI, and what loops go through.
BufferSteps == {"drop", "read", "edit", "analyse", "index", "close", "unindex", "restore",
                "restored", "track"}
FolderSteps == {"apply", "invalidate", "leave", "removeLeft", "enter", "admit"}
SyncSteps == {"list", "scan", "tracked", "prune", "pruned", "untrack", "compare", "replace",
              "trackFound"}
PublishSteps == {"plan", "commit", "push"}
AnswerSteps == {"captures", "scopes", "lock", "answer"}

UriSteps == BufferSteps \cup {"removeLeft", "admit", "pruned", "untrack", "replace", "trackFound"}
OverSnapshots == {"leave", "removeLeft", "commit", "push"}
OverUris == {"enter", "admit", "scan", "prune", "pruned", "untrack", "compare", "replace",
             "trackFound"}

TaskOK(t, m) ==
    /\ m \in Tasks
    /\ m.taken <= Len(m.order)
    /\ m.at \in UriSteps => m.uri \in Uris
    /\ m.at \in OverSnapshots => m.left \in SUBSET Snapshots
    /\ m.at \in OverUris => m.left \in SUBSET Uris
    /\ t = "worker" => m.at \in {"idle", "verify"} \cup SyncSteps \cup PublishSteps \cup AnswerSteps
    /\ t = "main" => m.at \notin {"verify"} \cup AnswerSteps
    /\ m.at = "verify" => m.expected \in Snapshots
    /\ m.at \in AnswerSteps => m.semantic \in Snapshots
    /\ m.at \in {"lock", "answer"} => m.order \in AllOrders
    /\ m.at \notin {"lock", "answer"} => m.taken = 0

TasksOK == task \in [Threads -> Tasks] /\ \A t \in Threads : TaskOK(t, task[t])

StoresOK ==
    /\ WorkspaceTypeOK
    /\ buffer \in [Uris -> (1..MaxId) \cup {None}]
    /\ live \in [Uris -> Snapshots \cup {None}]
    /\ \A u \in Uris : live[u] # None =>
          live[u].uri = u /\ buffer[u] # None /\ live[u].doc = buffer[u]
    /\ closed \in SUBSET Uris
    /\ pushed \in [Uris -> (SUBSET Snapshots) \cup {None}]
    /\ nextId \in 1..(MaxId + 1)

CountsOK ==
    /\ notices \in 0..MaxNotices /\ requests \in 0..MaxRequests
    /\ moved \in SUBSET {"index", "scope"} /\ overlapped \in BOOLEAN

\* Main is where it analyses or indexes a document that is there.
MainOK ==
    LET m == task["main"]
    IN  /\ m.at = "analyse" => buffer[m.uri] # None
        /\ m.at \in {"index", "admit"} => live[m.uri] # None

Typed == TasksOK /\ StoresOK /\ CountsOK /\ MainOK

-----------------------------------------------------------------------------
(***************************************************************************)
(* What is pushed, and what is answered.                                   *)
(***************************************************************************)
Pushing == \A t \in Threads : At(t, "push") => task[t].capture.snapshots = Indexed

\* What has moved has been counted; what is locked has not moved.
Answering ==
    LET m == task["worker"]
    IN  /\ m.at \in {"scopes", "lock", "answer"} =>
              /\ m.capture.generation <= generation
              /\ "index" \in moved => m.capture.generation < generation
        /\ m.at \in {"lock", "answer"} =>
              /\ m.folders <= scopeGeneration
              /\ "scope" \in moved => m.folders < scopeGeneration
        /\ m.at \in {"lock", "answer"} => \A i \in 1..m.taken :
              /\ m.order[i] = "chain" => live[m.semantic.uri] = m.semantic
              /\ m.order[i] = "index" => "index" \notin moved
              /\ m.order[i] = "folders" => "scope" \notin moved

-----------------------------------------------------------------------------
(***************************************************************************)
(* One thread at a time.                                                   *)
(***************************************************************************)
Alone == ~overlapped /\ ~(task["worker"].op = "files" /\ task["main"] # Idle)

\* The thread does not work on the index.
Quiet(t) == task[t].at \notin BufferSteps \cup FolderSteps \cup SyncSteps

\* The entry of a URI is that of its buffer, or of its file, or there is none.
FromBuffer(u) == live[u] # None /\ index[u] = live[u] /\ u \notin closed
FromFile(u) == live[u] = None /\ index[u] # None /\ Detached(index[u]) /\ u \in closed
Missing(u) == index[u] = None /\ (live[u] # None => u \notin closed)

\* A tracked file that has no entry is stale.
Right(u) ==
    IF u \in scope THEN FromBuffer(u) \/ FromFile(u) \/ (live[u] = None /\ Missing(u) /\ u \notin closed)
    ELSE Missing(u)
Stale(u) == u \in scope /\ live[u] = None /\ index[u] = None /\ u \in closed

\* What main knows of the URI while it replaces its buffer.
Known(u, expected) == index[u] = expected /\ u \notin closed /\ (u \notin scope => index[u] = None)

\* The URI is not open, and its file is not tracked.
Untracked(u) == live[u] = None /\ buffer[u] = None /\ u \notin closed

BufferStage(m) ==
    LET u == m.uri
    IN  /\ m.op \in {"open", "change", "close"}
        /\ \A v \in Uris \ {u} : Right(v)
        /\ m.at = "drop" => m.op = "open" /\ Untracked(u) /\ index[u] = m.expected
        /\ m.at = "read" =>
              /\ Right(u) /\ u \notin closed
              /\ IF m.op = "open" THEN buffer[u] = None ELSE buffer[u] # None
        /\ m.at \in {"edit", "analyse", "index", "close"} => Known(u, m.expected)
        /\ m.at = "unindex" => Known(u, m.expected) /\ Untracked(u)
        /\ m.at = "restore" => Right(u) /\ Untracked(u) /\ index[u] = None
        /\ m.at = "restored" => u \in scope /\ Untracked(u) /\ index[u] = None /\ m.expected = None
        /\ m.at = "track" => u \in scope /\ Untracked(u) /\ index[u] # None /\ Detached(index[u])

FolderStage(m) ==
    /\ m.op = "folders"
    /\ m.at \in {"apply", "invalidate"} => m.capture.snapshots = Indexed
    /\ m.at = "apply" => \A u \in Uris : Right(u)
    /\ m.at # "apply" => \A u \in Uris :
          \/ FromBuffer(u) \/ FromFile(u) \/ Missing(u)
          \/ m.at = "removeLeft" /\ u = m.uri
    /\ m.at \in {"leave", "removeLeft"} => \A s \in m.left : s.uri \in Uris \ scope /\ index[s.uri] = s
    /\ m.at = "leave" => \A u \in Uris \ scope : index[u] = None \/ index[u] \in m.left
    /\ m.at = "removeLeft" =>
          /\ m.uri \notin scope /\ index[m.uri] = m.expected /\ m.expected \notin m.left
          /\ live[m.uri] # None => m.uri \notin closed
          /\ \A u \in Uris \ scope : u = m.uri \/ index[u] = None \/ index[u] \in m.left
    /\ m.at \in {"enter", "admit"} =>
          /\ m.left \subseteq scope
          /\ \A u \in Uris \ scope : index[u] = None
          /\ \A u \in scope : live[u] # None /\ index[u] = None =>
                u \in m.left \/ (m.at = "admit" /\ u = m.uri)
    /\ m.at = "admit" => m.uri \in scope /\ index[m.uri] = None /\ m.expected = None

SyncStage(m) ==
    /\ m.op \in {"folders", "files"}
    /\ m.at \in {"list", "scan", "tracked"} => \A u \in Uris : Right(u) \/ Stale(u)
    /\ m.at = "scan" => \A u \in Uris : live[u] # None => u \in m.left
    /\ m.at \in {"tracked", "prune", "pruned", "untrack"} =>
          \A u \in m.found : u \in scope /\ live[u] = None
    /\ m.at \in {"prune", "pruned", "untrack"} =>
          /\ m.left \subseteq closed
          /\ \A u \in Uris : Right(u) \/ (Stale(u) /\ u \in m.left \cup m.found)
                                \/ (m.at # "prune" /\ u = m.uri)
    /\ m.at = "pruned" => m.uri \notin m.left /\ live[m.uri] = None /\ index[m.uri] = m.expected
    /\ m.at = "untrack" => m.uri \notin m.left /\ live[m.uri] = None /\ index[m.uri] = None
    /\ m.at \in {"compare", "replace", "trackFound"} =>
          /\ \A u \in m.left : u \in scope /\ live[u] = None
          /\ \A u \in Uris : Right(u) \/ (Stale(u) /\ u \in m.left)
                                \/ (m.at # "compare" /\ u = m.uri)
    /\ m.at = "replace" => m.uri \in scope /\ live[m.uri] = None /\ index[m.uri] = m.expected
    /\ m.at = "trackFound" =>
          m.uri \in scope /\ live[m.uri] = None /\ index[m.uri] # None /\ Detached(index[m.uri])

Stage(m) ==
    /\ m.at \in BufferSteps => BufferStage(m)
    /\ m.at \in FolderSteps => FolderStage(m)
    /\ m.at \in SyncSteps => SyncStage(m)

\* What a thread leaves behind, while the other does not work on the index.
Good(t) == IF Quiet(t) THEN \A u \in Uris : Right(u) ELSE Stage(task[t])

OneAtATime == Alone => \E t \in Threads : Good(t) /\ \A o \in Threads \ {t} : Quiet(o)

\* A buffer has semantics, but while it is analysed; and the worker works on the
\* index in its rescans only.
Paired ==
    \A u \in Uris : (live[u] = None <=> buffer[u] = None)
        \/ (task["main"].at = "analyse" /\ u = task["main"].uri)
WorkerRescans == task["worker"].at \in SyncSteps => task["worker"].op = "files"

-----------------------------------------------------------------------------
(***************************************************************************)
(* What is published settles.  As long as no file outside the folders has  *)
(* been indexed, an open buffer whose diagnostics do not rest on what is   *)
(* indexed is waited upon by a thread that has still to publish.           *)
(***************************************************************************)
\* Until the folders change, nothing outside of them is indexed.
Within(m) ==
    /\ m.found \subseteq scope
    /\ m.at \in FolderSteps => m.at = "apply"
    /\ m.op = "folders" => m.at = "apply"
    /\ m.at \in {"compare", "replace", "trackFound"} => m.left \subseteq scope
    /\ m.at \in {"replace", "trackFound", "restored", "track"} => m.uri \in scope
Confined ==
    scopeGeneration = 0 => /\ \A u \in Uris : index[u] # None => u \in scope
                           /\ \A t \in Threads : Within(task[t])

\* What main drops because its buffer opens is in the workspace.
DropsScoped ==
    (Alone \/ scopeGeneration = 0) /\ At("main", "drop") => task["main"].uri \in scope

\* What is stored is older than what is made next.
Aged == \A u \in Uris : /\ index[u] # None => index[u].id < nextId
                        /\ live[u] # None => live[u].id < nextId

FolderOps == task["main"].at \in FolderSteps => task["main"].op = "folders"

\* The diagnostics pushed for the open buffer do not rest on what is indexed.
Awaits(u) == u \in scope /\ live[u] # None /\ index[u] = live[u] /\ pushed[u] # Indexed

\* The thread publishes before it ends what it is doing.
Owes(t) ==
    LET m == task[t]
    IN  \/ m.at = "plan"
        \/ m.at \in FolderSteps
        \/ m.at \in SyncSteps /\ (m.op = "folders" \/ m.changed \/ m.at = "trackFound")
        \/ m.at \in {"close", "unindex", "restore", "restored", "track"}
        \/ m.at = "drop" /\ m.uri \in scope
        \/ m.at = "read" /\ (m.op = "close" \/ m.uri \in scope \/ index[m.uri] # None)
        \/ m.at \in {"edit", "analyse", "index"}
           /\ IF m.uri \in scope THEN ~Refuses(m.uri, m.expected) ELSE m.expected # None

\* What the thread is publishing includes the current semantics of the URI.
Covers(t, u) ==
    LET m == task[t]
    IN  live[u] \in m.left /\ (m.at = "push" \/ (m.at = "commit" /\ Complete(m.capture)))

Promised ==
    Alone \/ scopeGeneration = 0 =>
        \A u \in Uris : Awaits(u) => \E t \in Threads : Owes(t) \/ Covers(t, u)

-----------------------------------------------------------------------------
(***************************************************************************)
(* Operations of the index.                                                *)
(***************************************************************************)
IndexOK ==
    /\ index \in [Uris -> Snapshots \cup {None}]
    /\ \A u \in Uris : index[u] # None => index[u].uri = u
    /\ generation \in Nat

\* A replacement changes one entry, counts the change, or is refused.
LEMMA ReplaceFacts ==
    ASSUME IndexOK, NEW u \in Uris, NEW s \in Snapshots, s.uri = u, NEW expected,
           Attempts(Replace(s, expected), Refuses(u, expected))
    PROVE  /\ IndexOK' /\ generation <= generation'
           /\ index' # index => generation < generation'
           /\ Refuses(u, expected) => index' = index /\ generation' = generation
           /\ ~Refuses(u, expected) => index' = [index EXCEPT ![u] = s]
<1>1. CASE Refuses(u, expected)
  <2>1. index' = index /\ generation' = generation
    BY <1>1 DEF Attempts, indexVars
  <2> QED BY <1>1, <2>1 DEF IndexOK
<1>2. CASE ~Refuses(u, expected)
  <2>1. /\ index' = [index EXCEPT ![u] = s]
        /\ generation' = IF index[u] = s THEN generation ELSE generation + 1
    BY <1>2 DEF Attempts, Replace
  <2>2. index[u] = s => index' = index
    BY <2>1 DEF IndexOK
  <2>3. IndexOK'
    BY <2>1 DEF IndexOK
  <2> QED BY <1>2, <2>1, <2>2, <2>3 DEF IndexOK
<1> QED BY <1>1, <1>2

\* So does a removal.
LEMMA RemoveFacts ==
    ASSUME IndexOK, NEW u \in Uris, NEW expected,
           Attempts(Remove(u, expected), Refuses(u, expected))
    PROVE  /\ IndexOK' /\ generation <= generation'
           /\ index' # index => generation < generation'
           /\ Refuses(u, expected) => index' = index /\ generation' = generation
           /\ ~Refuses(u, expected) => index' = [index EXCEPT ![u] = None]
<1>1. CASE Refuses(u, expected)
  <2>1. index' = index /\ generation' = generation
    BY <1>1 DEF Attempts, indexVars
  <2> QED BY <1>1, <2>1 DEF IndexOK
<1>2. CASE ~Refuses(u, expected)
  <2>1. /\ index' = [index EXCEPT ![u] = None]
        /\ generation' = IF index[u] = None THEN generation ELSE generation + 1
    BY <1>2 DEF Attempts, Remove
  <2>2. index[u] = None => index' = index
    BY <2>1 DEF IndexOK
  <2>3. IndexOK'
    BY <2>1 DEF IndexOK
  <2> QED BY <1>2, <2>1, <2>2, <2>3 DEF IndexOK
<1> QED BY <1>1, <1>2

\* A new snapshot is one of its URI and its document.
LEMMA FreshFacts ==
    ASSUME nextId \in 1..(MaxId + 1), nextId <= MaxId, NEW u \in Uris, NEW doc \in 0..MaxId
    PROVE  /\ Fresh(u, doc) \in Snapshots /\ Fresh(u, doc) # None
           /\ Fresh(u, doc).uri = u /\ Fresh(u, doc).doc = doc
           /\ nextId + 1 \in 1..(MaxId + 1)
BY SessionAssumption, NoneAssumption DEF Fresh, Snapshots

\* What is indexed are snapshots.
LEMMA IndexedFacts ==
    ASSUME IndexOK
    PROVE  /\ Indexed \in SUBSET Snapshots
           /\ \A u \in Uris : index[u] # None => index[u] \in Indexed
           /\ \A s \in Indexed : s.uri \in Uris /\ index[s.uri] = s
           /\ Capture \in [snapshots : SUBSET Snapshots, generation : Nat]
           /\ Capture.snapshots = Indexed /\ Capture.generation = generation
<1>1. Indexed \in SUBSET Snapshots
  BY DEF IndexOK, Indexed
<1>2. /\ \A u \in Uris : index[u] # None => index[u] \in Indexed
      /\ \A s \in Indexed : s.uri \in Uris /\ index[s.uri] = s
  BY DEF IndexOK, Indexed
<1> QED BY <1>1, <1>2 DEF IndexOK, Capture

-----------------------------------------------------------------------------
(***************************************************************************)
(* The types hold.                                                         *)
(***************************************************************************)

\* A thread turns to another well-formed task.
LEMMA TaskTurns ==
    ASSUME TasksOK, NEW t \in Threads, NEW m, TaskOK(t, m), task' = [task EXCEPT ![t] = m]
    PROVE  TasksOK' /\ task'[t] = m /\ \A o \in Threads \ {t} : task'[o] = task[o]
<1>1. task' \in [Threads -> Tasks] /\ task'[t] = m /\ \A o \in Threads \ {t} : task'[o] = task[o]
  BY DEF TasksOK, TaskOK
<1>2. \A o \in Threads : TaskOK(o, task'[o])
  BY <1>1 DEF TasksOK
<1>3. (\A o \in Threads : TaskOK(o, task[o]))'
  BY <1>2 DEF TaskOK
<1> QED BY <1>1, <1>3 DEF TasksOK

LEMMA IdleOK ==
    /\ Idle \in Tasks /\ Idle.at = "idle" /\ Idle.op = "none" /\ Idle.taken = 0 /\ Idle.left = {}
    /\ Idle.uri = None /\ Idle.expected = None /\ Idle.order = <<>> /\ Idle.found = {}
    /\ Idle.changed = FALSE
    /\ \A t \in Threads : TaskOK(t, Idle)
<1>1. /\ Idle \in Tasks
  BY DEF Idle, Tasks, Steps, Ops
<1>2. Len(Idle.order) = 0
  BY DEF Idle
<1>3. \A t \in Threads : TaskOK(t, Idle)
  BY <1>1, <1>2 DEF TaskOK, Idle, UriSteps, BufferSteps, OverSnapshots, OverUris, AnswerSteps, Threads
<1> QED BY <1>1, <1>3 DEF Idle

\* What an action of main leaves to show of the types.
LEMMA MainTyped ==
    ASSUME TasksOK, NEW m, TaskOK("main", m), task' = [task EXCEPT !["main"] = m], StoresOK',
           m.at = "analyse" => buffer'[m.uri] # None,
           m.at \in {"index", "admit"} => live'[m.uri] # None
    PROVE  TasksOK' /\ StoresOK' /\ MainOK'
<1>1. TasksOK' /\ task'["main"] = m
  BY TaskTurns DEF Threads
<1> QED BY <1>1 DEF MainOK

\* And an action of either thread that changes no store, and leaves main away
\* from what rests on them.
LEMMA ThreadTyped ==
    ASSUME TasksOK, StoresOK, MainOK, NEW t \in Threads, NEW m, TaskOK(t, m),
           task' = [task EXCEPT ![t] = m], StoresOK', UNCHANGED <<buffer, live>>,
           m.at \notin {"analyse", "index", "admit"}
    PROVE  TasksOK' /\ StoresOK' /\ MainOK'
<1>1. TasksOK' /\ task'[t] = m /\ \A o \in Threads \ {t} : task'[o] = task[o]
  BY TaskTurns
<1>2. MainOK'
  BY <1>1 DEF MainOK, Threads
<1> QED BY <1>1, <1>2

\* The stores stay well formed where nothing of them changes, where only the index
\* does, and where a snapshot is made for it.
LEMMA StoresStay ==
    ASSUME StoresOK, UNCHANGED <<indexVars, scopeVars, bufferVars>>, closed' \in SUBSET Uris
    PROVE  StoresOK'
BY DEF StoresOK, WorkspaceTypeOK, indexVars, scopeVars, bufferVars

LEMMA StoresIndexed ==
    ASSUME StoresOK, IndexOK', UNCHANGED <<scopeVars, buffer, live, pushed, closed>>,
           nextId' \in 1..(MaxId + 1)
    PROVE  StoresOK'
BY DEF StoresOK, WorkspaceTypeOK, scopeVars, IndexOK

LEMMA StoresIndexOK == ASSUME StoresOK PROVE IndexOK
BY DEF StoresOK, WorkspaceTypeOK, IndexOK

LEMMA DropsTyped ==
    ASSUME TasksOK, StoresOK, MainOK, Drops PROVE TasksOK' /\ StoresOK' /\ MainOK'
<1> DEFINE m == task["main"]
           n == [m EXCEPT !.at = "read"]
<1>1. TaskOK("main", m) /\ m.at = "drop" /\ m.uri \in Uris
  BY DEF Drops, At, TasksOK, TaskOK, Threads, UriSteps, BufferSteps
<1>2. TaskOK("main", n)
  BY <1>1 DEF TaskOK, Tasks, Steps, UriSteps, BufferSteps, FolderSteps, SyncSteps, PublishSteps, AnswerSteps, OverSnapshots, OverUris
<1>3. task' = [task EXCEPT !["main"] = n]
  BY DEF Drops, Goes, TasksOK
<1>4. StoresOK'
  <2>1. IndexOK'
    BY <1>1, StoresIndexOK, RemoveFacts DEF Drops
  <2> QED BY <2>1, StoresIndexed DEF Drops, bufferVars, StoresOK
<1>5. n.at = "read"
  BY <1>1 DEF TaskOK, Tasks
<1> HIDE DEF n
<1> QED BY <1>2, <1>3, <1>4, <1>5, MainTyped


LEMMA BeginsOK ==
    ASSUME NEW op \in {"open", "change", "close"}, NEW u \in Uris, NEW e \in Snapshots \cup {None},
           NEW s \in {"drop", "read"}
    PROVE  TaskOK("main", [Idle EXCEPT !.op = op, !.uri = u, !.expected = e, !.at = s])
<1> DEFINE n == [Idle EXCEPT !.op = op, !.uri = u, !.expected = e, !.at = s]
<1>1. n \in Tasks
  BY ZenonT(40), IdleOK DEF Tasks, Steps, Ops, AllNotices
<1>2. n.at = s /\ n.uri = u /\ n.taken = 0 /\ n.order = <<>>
  BY IdleOK DEF Tasks
<1> HIDE DEF n
<1>3. n.taken <= Len(n.order)
  BY <1>2
<1>4. TaskOK("main", n)
  BY <1>1, <1>2, <1>3 DEF TaskOK, UriSteps, BufferSteps, AnswerSteps, OverSnapshots, OverUris
<1> QED BY <1>4 DEF n

LEMMA OpenArrivesTyped ==
    ASSUME TasksOK, StoresOK, MainOK, NEW u \in Uris, OpenArrives(u) PROVE TasksOK' /\ StoresOK' /\ MainOK'
<1>1. index[u] \in Snapshots \cup {None}
  BY DEF StoresOK, WorkspaceTypeOK
<1>2. PICK s \in {"drop", "read"} :
        task' = [task EXCEPT !["main"] = [Idle EXCEPT !.op = "open", !.uri = u, !.expected = index[u], !.at = s]]
  BY DEF OpenArrives
<1> DEFINE n == [Idle EXCEPT !.op = "open", !.uri = u, !.expected = index[u], !.at = s]
<1>3. TaskOK("main", n)
  BY <1>1, BeginsOK
<1>4. StoresOK'
  BY StoresStay DEF OpenArrives, StoresOK
<1>5. n.at \in {"drop", "read"}
  BY IdleOK DEF Tasks
<1>6. task' = [task EXCEPT !["main"] = n]
  BY <1>2
<1> HIDE DEF n
<1> QED BY <1>3, <1>4, <1>5, <1>6, MainTyped

LEMMA ChangeArrivesTyped ==
    ASSUME TasksOK, StoresOK, MainOK, NEW u \in Uris, NEW kind \in {"change", "close"}, ChangeArrives(u, kind)
    PROVE TasksOK' /\ StoresOK' /\ MainOK'
<1> DEFINE n == [Idle EXCEPT !.op = kind, !.uri = u, !.at = "read"]
<1>1. n = [Idle EXCEPT !.op = kind, !.uri = u, !.expected = None, !.at = "read"]
  BY IdleOK DEF Tasks
<1>3. TaskOK("main", n)
  BY <1>1, BeginsOK
<1>4. StoresOK'
  BY StoresStay DEF ChangeArrives, StoresOK
<1>5. n.at = "read"
  BY IdleOK DEF Tasks
<1>6. task' = [task EXCEPT !["main"] = n]
  BY DEF ChangeArrives
<1> HIDE DEF n
<1> QED BY <1>3, <1>4, <1>5, <1>6, MainTyped

LEMMA ReadsPreviousTyped ==
    ASSUME TasksOK, StoresOK, MainOK, ReadsPrevious PROVE TasksOK' /\ StoresOK' /\ MainOK'
<1> DEFINE m == task["main"]
<1>1. TaskOK("main", m) /\ m.at = "read" /\ m.uri \in Uris
  BY DEF ReadsPrevious, At, TasksOK, TaskOK, Threads, UriSteps, BufferSteps
<1>2. index[m.uri] \in Snapshots \cup {None}
  BY <1>1 DEF StoresOK, WorkspaceTypeOK
<1>3. PICK s \in {"edit", "close"} : task' = [task EXCEPT !["main"] = [m EXCEPT !.expected = index[m.uri], !.at = s]]
  BY DEF ReadsPrevious, TasksOK
<1> DEFINE n == [m EXCEPT !.expected = index[m.uri], !.at = s]
<1>4. TaskOK("main", n)
  BY <1>1, <1>2 DEF TaskOK, Tasks, Steps, UriSteps, BufferSteps, OverSnapshots, OverUris, AnswerSteps
<1>5. n.at \in {"edit", "close"}
  BY <1>1 DEF TaskOK, Tasks
<1>6. StoresOK'
  BY StoresStay DEF ReadsPrevious, StoresOK
<1>7. task' = [task EXCEPT !["main"] = n]
  BY <1>3
<1> HIDE DEF n
<1> QED BY <1>4, <1>5, <1>6, <1>7, MainTyped

\* A thread goes on with what it has, at a step that needs no more than a URI.
LEMMA GoesOK ==
    ASSUME NEW t \in Threads, NEW m, TaskOK(t, m), NEW step \in UriSteps \ (OverUris \cup OverSnapshots),
           t = "main", m.at \in UriSteps \ AnswerSteps
    PROVE  TaskOK(t, [m EXCEPT !.at = step]) /\ [m EXCEPT !.at = step].at = step
           /\ [m EXCEPT !.at = step].uri = m.uri
BY DEF TaskOK, Tasks, Steps, UriSteps, BufferSteps, OverSnapshots, OverUris, AnswerSteps

LEMMA GoesTo ==
    ASSUME TasksOK, NEW t \in Threads, NEW step, Goes(t, step)
    PROVE  task' = [task EXCEPT ![t] = [task[t] EXCEPT !.at = step]]
BY DEF Goes, TasksOK

LEMMA EditsTyped ==
    ASSUME TasksOK, StoresOK, MainOK, Edits PROVE TasksOK' /\ StoresOK' /\ MainOK'
<1> DEFINE m == task["main"]
           n == [m EXCEPT !.at = "analyse"]
<1>1. TaskOK("main", m) /\ m.at = "edit" /\ m.uri \in Uris
  BY DEF Edits, At, TasksOK, TaskOK, Threads, UriSteps, BufferSteps
<1>2. TaskOK("main", n) /\ n.at = "analyse" /\ n.uri = m.uri
  BY <1>1, GoesOK DEF UriSteps, BufferSteps, OverSnapshots, OverUris, AnswerSteps, Threads
<1>3. task' = [task EXCEPT !["main"] = n]
  BY GoesTo DEF Edits, Threads
<1>4. nextId \in 1..MaxId /\ nextId' = nextId + 1 /\ nextId' \in 1..(MaxId + 1)
  BY SessionAssumption DEF Edits, StoresOK
<1>5. /\ buffer' = [buffer EXCEPT ![m.uri] = nextId] /\ live' = [live EXCEPT ![m.uri] = None]
      /\ pushed' = pushed \/ pushed' = [pushed EXCEPT ![m.uri] = {}]
      /\ UNCHANGED <<indexVars, scopeVars, closed>>
  BY DEF Edits
<1>6. buffer' \in [Uris -> (1..MaxId) \cup {None}] /\ buffer'[m.uri] # None
  BY <1>1, <1>4, <1>5, NoneAssumption DEF StoresOK
<1>7. /\ live' \in [Uris -> Snapshots \cup {None}]
      /\ \A u \in Uris : live'[u] # None => live'[u].uri = u /\ buffer'[u] # None /\ live'[u].doc = buffer'[u]
  BY <1>1, <1>5 DEF StoresOK
<1>8. pushed' \in [Uris -> (SUBSET Snapshots) \cup {None}]
  BY <1>1, <1>5 DEF StoresOK
<1>9. StoresOK'
  BY <1>4, <1>5, <1>6, <1>7, <1>8 DEF StoresOK, WorkspaceTypeOK, indexVars, scopeVars
<1> HIDE DEF n
<1> QED BY <1>2, <1>3, <1>6, <1>9, MainTyped

LEMMA AnalysedTyped ==
    ASSUME StoresOK, NEW u \in Uris, Analysed(u), buffer[u] # None, UNCHANGED <<indexVars, scopeVars>>,
           closed' \in SUBSET Uris
    PROVE  StoresOK' /\ live'[u] # None
<1>1. Fresh(u, buffer[u]) \in Snapshots /\ Fresh(u, buffer[u]) # None
      /\ Fresh(u, buffer[u]).uri = u /\ Fresh(u, buffer[u]).doc = buffer[u] /\ nextId + 1 \in 1..(MaxId + 1)
  <2>1. buffer[u] \in 0..MaxId
    BY SessionAssumption DEF StoresOK
  <2> QED BY <2>1, FreshFacts DEF Analysed, StoresOK
<1>2. /\ live' = [live EXCEPT ![u] = Fresh(u, buffer[u])]
      /\ pushed' = [pushed EXCEPT ![u] = {}] /\ nextId' = nextId + 1 /\ buffer' = buffer
  BY DEF Analysed
<1>3. /\ live' \in [Uris -> Snapshots \cup {None}]
      /\ \A v \in Uris : live'[v] # None => live'[v].uri = v /\ buffer'[v] # None /\ live'[v].doc = buffer'[v]
      /\ live'[u] # None
  BY <1>1, <1>2 DEF StoresOK
<1>4. pushed' \in [Uris -> (SUBSET Snapshots) \cup {None}]
  BY <1>2 DEF StoresOK
<1> QED BY <1>1, <1>2, <1>3, <1>4 DEF StoresOK, WorkspaceTypeOK, indexVars, scopeVars

LEMMA AnalysesTyped ==
    ASSUME TasksOK, StoresOK, MainOK, Analyses PROVE TasksOK' /\ StoresOK' /\ MainOK'
<1> DEFINE m == task["main"]
           n == [m EXCEPT !.at = "index"]
<1>1. TaskOK("main", m) /\ m.at = "analyse" /\ m.uri \in Uris
  BY DEF Analyses, At, TasksOK, TaskOK, Threads, UriSteps, BufferSteps
<1>2. TaskOK("main", n) /\ n.at = "index" /\ n.uri = m.uri
  BY <1>1, GoesOK DEF UriSteps, BufferSteps, OverSnapshots, OverUris, AnswerSteps, Threads
<1>3. task' = [task EXCEPT !["main"] = n]
  BY GoesTo DEF Analyses, Threads
<1>4. StoresOK' /\ live'[m.uri] # None
  BY <1>1, AnalysedTyped DEF Analyses, MainOK, StoresOK
<1> HIDE DEF n
<1> QED BY <1>2, <1>3, <1>4, MainTyped

\* A thread is done with a URI.
LEMMA LeavingOK ==
    ASSUME NEW t \in Threads, NEW m, TaskOK(t, m), m.at \in UriSteps, NEW step \in {"plan", "enter", "leave", "prune", "compare"},
           step = "leave" => t = "main" /\ m.left \in SUBSET Snapshots,
           step \in {"enter", "prune", "compare"} => m.left \in SUBSET Uris,
           step = "enter" => t = "main"
    PROVE  /\ TaskOK(t, Leaving(m, step)) /\ Leaving(m, step).at = step /\ Leaving(m, step).left = m.left
           /\ Leaving(m, step).op = m.op /\ Leaving(m, step).found = m.found
<1>1. /\ Leaving(m, step) \in Tasks /\ Leaving(m, step).at = step /\ Leaving(m, step).left = m.left
      /\ Leaving(m, step).taken = m.taken /\ Leaving(m, step).order = m.order
      /\ Leaving(m, step).op = m.op /\ Leaving(m, step).found = m.found
  BY ZenonT(40) DEF Leaving, TaskOK, Tasks, Steps
<1>2. m.taken = 0 /\ m.taken <= Len(m.order)
  BY DEF TaskOK, UriSteps, BufferSteps
<1> QED BY <1>1, <1>2 DEF TaskOK, UriSteps, BufferSteps, SyncSteps, PublishSteps, AnswerSteps, OverSnapshots, OverUris

LEMMA IndexesTyped ==
    ASSUME TasksOK, StoresOK, MainOK, Indexes PROVE TasksOK' /\ StoresOK' /\ MainOK'
<1> DEFINE m == task["main"]
<1>1. TaskOK("main", m) /\ m.at = "index" /\ m.uri \in Uris /\ live[m.uri] # None /\ m.at \in UriSteps
  BY DEF Indexes, At, TasksOK, TaskOK, Threads, UriSteps, BufferSteps, MainOK
<1>2. PICK n : task' = [task EXCEPT !["main"] = n] /\ n \in {Idle, Leaving(m, "plan")}
  BY DEF Indexes, Finishes
<1>3. TaskOK("main", n) /\ n.at \in {"idle", "plan"}
  BY <1>1, <1>2, LeavingOK, IdleOK DEF Threads
<1>4. live[m.uri] \in Snapshots /\ live[m.uri].uri = m.uri
  BY <1>1 DEF StoresOK
<1>5. IndexOK'
  <2>1. CASE m.uri \in scope
    BY <1>1, <1>4, <2>1, StoresIndexOK, ReplaceFacts DEF Indexes
  <2>2. CASE m.uri \notin scope /\ m.expected # None
    BY <1>1, <2>2, StoresIndexOK, RemoveFacts DEF Indexes
  <2>3. CASE m.uri \notin scope /\ m.expected = None
    BY <1>1, <2>3, StoresIndexOK DEF Indexes, indexVars, IndexOK
  <2> QED BY <2>1, <2>2, <2>3
<1>6. StoresOK'
  BY <1>5, StoresIndexed DEF Indexes, bufferVars, StoresOK
<1> QED BY <1>2, <1>3, <1>6, MainTyped

LEMMA ClosesTyped ==
    ASSUME TasksOK, StoresOK, MainOK, Closes PROVE TasksOK' /\ StoresOK' /\ MainOK'
<1> DEFINE m == task["main"]
<1>1. TaskOK("main", m) /\ m.at = "close" /\ m.uri \in Uris /\ m.at \in UriSteps \ AnswerSteps
  BY DEF Closes, At, TasksOK, TaskOK, Threads, UriSteps, BufferSteps, AnswerSteps
<1>2. PICK s \in {"restore", "unindex"} : Goes("main", s)
  BY DEF Closes
<1> DEFINE n == [m EXCEPT !.at = s]
<1>3. TaskOK("main", n) /\ n.at = s
  BY <1>1, GoesOK DEF UriSteps, BufferSteps, OverSnapshots, OverUris, Threads
<1>4. task' = [task EXCEPT !["main"] = n]
  BY <1>2, GoesTo DEF Threads
<1>5. StoresOK'
  BY <1>1 DEF Closes, StoresOK, WorkspaceTypeOK, indexVars, scopeVars
<1> HIDE DEF n
<1> QED BY <1>3, <1>4, <1>5, MainTyped

LEMMA UnindexesTyped ==
    ASSUME TasksOK, StoresOK, MainOK, Unindexes PROVE TasksOK' /\ StoresOK' /\ MainOK'
<1> DEFINE m == task["main"]
           n == [m EXCEPT !.at = "restore"]
<1>1. TaskOK("main", m) /\ m.at = "unindex" /\ m.uri \in Uris /\ m.at \in UriSteps \ AnswerSteps
  BY DEF Unindexes, At, TasksOK, TaskOK, Threads, UriSteps, BufferSteps, AnswerSteps
<1>3. TaskOK("main", n) /\ n.at = "restore"
  BY <1>1, GoesOK DEF UriSteps, BufferSteps, OverSnapshots, OverUris, Threads
<1>4. task' = [task EXCEPT !["main"] = n]
  BY GoesTo DEF Threads, Unindexes
<1>5. IndexOK'
  BY <1>1, StoresIndexOK, RemoveFacts DEF Unindexes
<1>6. StoresOK'
  BY <1>5, StoresIndexed DEF Unindexes, bufferVars, StoresOK
<1> HIDE DEF n
<1> QED BY <1>3, <1>4, <1>6, MainTyped

LEMMA ReadsFileTyped ==
    ASSUME TasksOK, StoresOK, MainOK, ReadsFile PROVE TasksOK' /\ StoresOK' /\ MainOK'
<1> DEFINE m == task["main"]
           n == [m EXCEPT !.expected = index[m.uri], !.at = "restored"]
<1>1. TaskOK("main", m) /\ m.at = "restore" /\ m.uri \in Uris /\ m.at \in UriSteps
  BY DEF ReadsFile, At, TasksOK, TaskOK, Threads, UriSteps, BufferSteps
<1>2. StoresOK'
  BY StoresStay DEF ReadsFile, StoresOK
<1>3. CASE Finishes("main", "plan")
  <2>1. TaskOK("main", Leaving(m, "plan")) /\ Leaving(m, "plan").at = "plan"
    BY <1>1, LeavingOK DEF Threads
  <2>2. task' = [task EXCEPT !["main"] = Leaving(m, "plan")]
    BY <1>3 DEF Finishes
  <2> QED BY <1>2, <2>1, <2>2, MainTyped
<1>4. CASE task' = [task EXCEPT !["main"].expected = index[m.uri], !["main"].at = "restored"]
  <2>1. index[m.uri] \in Snapshots \cup {None}
    BY <1>1 DEF StoresOK, WorkspaceTypeOK
  <2>2. TaskOK("main", n) /\ n.at = "restored"
    BY <1>1, <2>1 DEF TaskOK, Tasks, Steps, UriSteps, BufferSteps, OverSnapshots, OverUris, AnswerSteps
  <2>3. task' = [task EXCEPT !["main"] = n]
    BY <1>4 DEF TasksOK
  <2> HIDE DEF n
  <2> QED BY <1>2, <2>2, <2>3, MainTyped
<1> QED BY <1>3, <1>4 DEF ReadsFile

LEMMA RestoresTyped ==
    ASSUME TasksOK, StoresOK, MainOK, Restores PROVE TasksOK' /\ StoresOK' /\ MainOK'
<1> DEFINE m == task["main"]
           n == [m EXCEPT !.at = "track"]
<1>1. TaskOK("main", m) /\ m.at = "restored" /\ m.uri \in Uris /\ m.at \in UriSteps \ AnswerSteps
  BY DEF Restores, At, TasksOK, TaskOK, Threads, UriSteps, BufferSteps, AnswerSteps
<1>2. /\ Fresh(m.uri, 0) \in Snapshots /\ Fresh(m.uri, 0).uri = m.uri /\ nextId + 1 \in 1..(MaxId + 1)
  BY <1>1, FreshFacts, SessionAssumption DEF Restores, StoresOK
<1>3. IndexOK'
  BY <1>1, <1>2, StoresIndexOK, ReplaceFacts DEF Restores
<1>4. StoresOK'
  BY <1>2, <1>3, StoresIndexed DEF Restores, StoresOK
<1>5. TaskOK("main", n) /\ n.at = "track"
  BY <1>1, GoesOK DEF UriSteps, BufferSteps, OverSnapshots, OverUris, Threads
<1>6. TaskOK("main", Leaving(m, "plan")) /\ Leaving(m, "plan").at = "plan"
  BY <1>1, LeavingOK DEF Threads
<1>7. CASE Finishes("main", "plan")
  BY <1>4, <1>6, <1>7, MainTyped DEF Finishes
<1>8. CASE Goes("main", "track")
  <2>1. task' = [task EXCEPT !["main"] = n]
    BY <1>8, GoesTo DEF Threads
  <2> HIDE DEF n
  <2> QED BY <1>4, <1>5, <2>1, MainTyped
<1> QED BY <1>7, <1>8 DEF Restores

LEMMA TracksTyped ==
    ASSUME TasksOK, StoresOK, MainOK, Tracks PROVE TasksOK' /\ StoresOK' /\ MainOK'
<1> DEFINE m == task["main"]
<1>1. TaskOK("main", m) /\ m.at = "track" /\ m.uri \in Uris /\ m.at \in UriSteps
  BY DEF Tracks, At, TasksOK, TaskOK, Threads, UriSteps, BufferSteps
<1>2. TaskOK("main", Leaving(m, "plan")) /\ Leaving(m, "plan").at = "plan"
  BY <1>1, LeavingOK DEF Threads
<1>3. StoresOK'
  BY <1>1, StoresStay DEF Tracks, StoresOK
<1> QED BY <1>2, <1>3, MainTyped DEF Tracks, Finishes

LEMMA BuffersTyped ==
    ASSUME TasksOK, StoresOK, MainOK, Buffers PROVE TasksOK' /\ StoresOK' /\ MainOK'
BY OpenArrivesTyped, ChangeArrivesTyped, DropsTyped, ReadsPreviousTyped, EditsTyped, AnalysesTyped,
   IndexesTyped, ClosesTyped, UnindexesTyped, ReadsFileTyped, RestoresTyped, TracksTyped DEF Buffers

LEMMA FoldersArriveTyped ==
    ASSUME TasksOK, StoresOK, MainOK, FoldersArrive PROVE TasksOK' /\ StoresOK' /\ MainOK'
<1> DEFINE n == [Idle EXCEPT !.op = "folders", !.at = "apply", !.capture = Capture]
<1>1. Capture \in [snapshots : SUBSET Snapshots, generation : Nat]
  BY StoresIndexOK, IndexedFacts
<1>2. n \in Tasks /\ n.at = "apply" /\ n.taken = 0 /\ n.order = <<>>
  BY ZenonT(40), <1>1, IdleOK DEF Tasks, Steps, Ops, AllNotices
<1>3. task' = [task EXCEPT !["main"] = n]
  BY DEF FoldersArrive
<1>4. StoresOK'
  BY StoresStay DEF FoldersArrive, StoresOK
<1> HIDE DEF n
<1>5. n.taken <= Len(n.order)
  BY <1>2
<1>6. TaskOK("main", n)
  BY <1>2, <1>5 DEF TaskOK, UriSteps, BufferSteps, AnswerSteps, OverSnapshots, OverUris
<1> QED BY <1>2, <1>3, <1>4, <1>6, MainTyped

LEMMA AppliesTyped ==
    ASSUME TasksOK, StoresOK, MainOK, Applies PROVE TasksOK' /\ StoresOK' /\ MainOK'
<1> DEFINE m == task["main"]
           n == [m EXCEPT !.at = "invalidate"]
<1>1. TaskOK("main", m) /\ m.at = "apply"
  BY DEF Applies, At, TasksOK, Threads
<1>2. TaskOK("main", n) /\ n.at = "invalidate"
  BY <1>1 DEF TaskOK, Tasks, Steps, UriSteps, BufferSteps, AnswerSteps, OverSnapshots, OverUris
<1>3. task' = [task EXCEPT !["main"] = n]
  BY GoesTo DEF Applies, Threads
<1>4. StoresOK'
  BY DEF Applies, ChangeScope, StoresOK, WorkspaceTypeOK, indexVars, bufferVars
<1> HIDE DEF n
<1> QED BY <1>2, <1>3, <1>4, MainTyped

LEMMA InvalidatesTyped ==
    ASSUME TasksOK, StoresOK, MainOK, Invalidates PROVE TasksOK' /\ StoresOK' /\ MainOK'
<1> DEFINE m == task["main"]
           left == {s \in m.capture.snapshots : s.uri \notin scope}
           n == [Idle EXCEPT !.op = "folders", !.at = "leave", !.left = left]
<1>1. TaskOK("main", m) /\ left \in SUBSET Snapshots
  BY DEF TasksOK, TaskOK, Tasks, Threads
<1>2. task' = [task EXCEPT !["main"] = n]
  BY DEF Invalidates
<1>3. StoresOK'
  BY DEF Invalidates, Invalidate, StoresOK, WorkspaceTypeOK, scopeVars, bufferVars
<1> HIDE DEF left
<1>4. n \in Tasks /\ n.at = "leave" /\ n.taken = 0 /\ n.order = <<>> /\ n.left = left
  BY ZenonT(40), <1>1, IdleOK DEF Tasks, Steps, Ops, AllNotices
<1> HIDE DEF n
<1>5. n.taken <= Len(n.order)
  BY <1>4
<1>6. TaskOK("main", n)
  BY <1>1, <1>4, <1>5 DEF TaskOK, UriSteps, BufferSteps, AnswerSteps, OverSnapshots, OverUris
<1> QED BY <1>2, <1>3, <1>4, <1>6, MainTyped

LEMMA LeavesTyped ==
    ASSUME TasksOK, StoresOK, MainOK, Leaves PROVE TasksOK' /\ StoresOK' /\ MainOK'
<1> DEFINE m == task["main"]
<1>1. TaskOK("main", m) /\ m.at = "leave" /\ m.left \in SUBSET Snapshots
  BY DEF Leaves, At, TasksOK, TaskOK, Threads, OverSnapshots
<1>2. PICK s \in m.left :
        /\ task' = [task EXCEPT !["main"] = [m EXCEPT !.expected = s, !.uri = s.uri,
                                                      !.left = m.left \ {s}, !.at = "removeLeft"]]
        /\ IF buffer[s.uri] # None THEN Analysed(s.uri) ELSE UNCHANGED bufferVars
  BY DEF Leaves
<1>3. s \in Snapshots /\ s.uri \in Uris
  BY <1>1 DEF Snapshots
<1> DEFINE n == [m EXCEPT !.expected = s, !.uri = s.uri, !.left = m.left \ {s}, !.at = "removeLeft"]
<1>4. n.at = "removeLeft" /\ TaskOK("main", n)
  BY <1>1, <1>3 DEF TaskOK, Tasks, Steps, UriSteps, BufferSteps, AnswerSteps, OverSnapshots, OverUris
<1>5. StoresOK'
  <2>1. CASE buffer[s.uri] # None
    BY <1>2, <1>3, <2>1, AnalysedTyped DEF Leaves, StoresOK
  <2>2. CASE buffer[s.uri] = None
    BY <1>2, <2>2, StoresStay DEF Leaves, StoresOK
  <2> QED BY <2>1, <2>2
<1>6. task' = [task EXCEPT !["main"] = n]
  BY <1>2
<1> HIDE DEF n
<1> QED BY <1>4, <1>5, <1>6, MainTyped

LEMMA RemovesLeftTyped ==
    ASSUME TasksOK, StoresOK, MainOK, RemovesLeft PROVE TasksOK' /\ StoresOK' /\ MainOK'
<1> DEFINE m == task["main"]
<1>1. TaskOK("main", m) /\ m.at = "removeLeft" /\ m.uri \in Uris /\ m.at \in UriSteps /\ m.left \in SUBSET Snapshots
  BY DEF RemovesLeft, At, TasksOK, TaskOK, Threads, UriSteps, OverSnapshots
<1>2. TaskOK("main", Leaving(m, "leave")) /\ Leaving(m, "leave").at = "leave"
  BY <1>1, LeavingOK DEF Threads
<1>3. IndexOK'
  BY <1>1, StoresIndexOK, RemoveFacts DEF RemovesLeft
<1>4. StoresOK'
  BY <1>3, StoresIndexed DEF RemovesLeft, bufferVars, StoresOK
<1> QED BY <1>2, <1>4, MainTyped DEF RemovesLeft, Finishes

LEMMA ListsEnteredTyped ==
    ASSUME TasksOK, StoresOK, MainOK, ListsEntered PROVE TasksOK' /\ StoresOK' /\ MainOK'
<1> DEFINE m == task["main"]
           n == [m EXCEPT !.left = {u \in scope : buffer[u] # None}, !.at = "enter"]
<1>1. TaskOK("main", m) /\ m.at = "leave" /\ scope \in SUBSET Uris
  BY DEF ListsEntered, At, TasksOK, Threads, StoresOK, WorkspaceTypeOK
<1>2. TaskOK("main", n) /\ n.at = "enter"
  BY <1>1 DEF TaskOK, Tasks, Steps, UriSteps, BufferSteps, AnswerSteps, OverSnapshots, OverUris
<1>3. task' = [task EXCEPT !["main"] = n]
  BY DEF ListsEntered, TasksOK
<1>4. StoresOK'
  BY StoresStay DEF ListsEntered, StoresOK
<1> HIDE DEF n
<1> QED BY <1>2, <1>3, <1>4, MainTyped

LEMMA EntersTyped ==
    ASSUME TasksOK, StoresOK, MainOK, Enters PROVE TasksOK' /\ StoresOK' /\ MainOK'
<1> DEFINE m == task["main"]
<1>1. TaskOK("main", m) /\ m.at = "enter" /\ m.left \in SUBSET Uris
  BY DEF Enters, At, TasksOK, TaskOK, Threads, OverUris
<1>2. StoresOK'
  BY StoresStay DEF Enters, StoresOK
<1>3. PICK u \in m.left :
        task' = [task EXCEPT !["main"] =
           IF live[u] = None \/ index[u] = live[u] THEN [m EXCEPT !.left = m.left \ {u}]
           ELSE [m EXCEPT !.left = m.left \ {u}, !.uri = u, !.expected = index[u], !.at = "admit"]]
  BY DEF Enters
<1>4. CASE live[u] = None \/ index[u] = live[u]
  <2> DEFINE n == [m EXCEPT !.left = m.left \ {u}]
  <2>1. TaskOK("main", n) /\ n.at = "enter"
    BY <1>1 DEF TaskOK, Tasks, UriSteps, BufferSteps, AnswerSteps, OverSnapshots, OverUris
  <2>2. task' = [task EXCEPT !["main"] = n]
    BY <1>3, <1>4
  <2> HIDE DEF n
  <2> QED BY <1>2, <2>1, <2>2, MainTyped
<1>5. CASE ~(live[u] = None \/ index[u] = live[u])
  <2> DEFINE n == [m EXCEPT !.left = m.left \ {u}, !.uri = u, !.expected = index[u], !.at = "admit"]
  <2>1. index[u] \in Snapshots \cup {None}
    BY <1>1 DEF StoresOK, WorkspaceTypeOK
  <2>2. TaskOK("main", n) /\ n.at = "admit" /\ n.uri = u
    BY <1>1, <2>1 DEF TaskOK, Tasks, Steps, UriSteps, BufferSteps, AnswerSteps, OverSnapshots, OverUris
  <2>3. task' = [task EXCEPT !["main"] = n]
    BY <1>3, <1>5
  <2>4. live'[u] # None
    BY <1>5 DEF Enters, bufferVars
  <2> HIDE DEF n
  <2> QED BY <1>2, <2>2, <2>3, <2>4, MainTyped
<1> QED BY <1>4, <1>5

LEMMA AdmitsTyped ==
    ASSUME TasksOK, StoresOK, MainOK, Admits PROVE TasksOK' /\ StoresOK' /\ MainOK'
<1> DEFINE m == task["main"]
<1>1. TaskOK("main", m) /\ m.at = "admit" /\ m.uri \in Uris /\ live[m.uri] # None
      /\ m.at \in UriSteps /\ m.left \in SUBSET Uris
  BY DEF Admits, At, TasksOK, TaskOK, Threads, UriSteps, OverUris, MainOK
<1>2. TaskOK("main", Leaving(m, "enter")) /\ Leaving(m, "enter").at = "enter"
  BY <1>1, LeavingOK DEF Threads
<1>3. live[m.uri] \in Snapshots /\ live[m.uri].uri = m.uri
  BY <1>1 DEF StoresOK
<1>4. IndexOK'
  BY <1>1, <1>3, StoresIndexOK, ReplaceFacts DEF Admits
<1>5. StoresOK'
  BY <1>4, StoresIndexed DEF Admits, bufferVars, StoresOK
<1> QED BY <1>2, <1>5, MainTyped DEF Admits, Finishes

LEMMA FoldersTyped ==
    ASSUME TasksOK, StoresOK, MainOK, Folders PROVE TasksOK' /\ StoresOK' /\ MainOK'
BY FoldersArriveTyped, AppliesTyped, InvalidatesTyped, LeavesTyped, RemovesLeftTyped, ListsEnteredTyped,
   EntersTyped, AdmitsTyped DEF Folders

\* A thread begins a rescan, or goes on to the diagnostics.
LEMMA IdleAtOK ==
    ASSUME NEW t \in Threads, NEW op \in Ops, NEW step \in {"list", "plan"}
    PROVE  /\ TaskOK(t, [Idle EXCEPT !.op = op, !.at = step]) /\ [Idle EXCEPT !.op = op, !.at = step].at = step
           /\ [Idle EXCEPT !.op = op, !.at = step].op = op
           /\ [Idle EXCEPT !.op = op, !.at = step].capture = Idle.capture
<1> DEFINE n == [Idle EXCEPT !.op = op, !.at = step]
<1>1. n \in Tasks /\ n.at = step /\ n.op = op /\ n.taken = 0 /\ n.order = <<>> /\ n.capture = Idle.capture
  BY ZenonT(40), IdleOK DEF Tasks, Steps
<1> HIDE DEF n
<1>2. n.taken <= Len(n.order)
  BY <1>1
<1>3. TaskOK(t, n)
  BY <1>1, <1>2 DEF TaskOK, UriSteps, BufferSteps, SyncSteps, PublishSteps, AnswerSteps, OverSnapshots, OverUris
<1> QED BY <1>1, <1>3 DEF n

LEMMA SyncedOK ==
    ASSUME TasksOK, NEW t \in Threads, NEW changed, task' = Synced(t, changed)
    PROVE  \E n : TaskOK(t, n) /\ task' = [task EXCEPT ![t] = n] /\ n.at \in {"plan", "idle"}
<1>1. task[t].op \in Ops
  BY DEF TasksOK, Tasks
<1>2. CASE changed \/ task[t].op = "folders"
  <2> DEFINE n == [Idle EXCEPT !.op = task[t].op, !.at = "plan"]
  <2>1. TaskOK(t, n) /\ n.at = "plan"
    BY <1>1, IdleAtOK
  <2>2. task' = [task EXCEPT ![t] = n]
    BY <1>2 DEF Synced
  <2> HIDE DEF n
  <2> QED BY <2>1, <2>2
<1>3. CASE ~(changed \/ task[t].op = "folders")
  BY <1>3, IdleOK DEF Synced
<1> QED BY <1>2, <1>3

LEMMA FilesArriveTyped ==
    ASSUME TasksOK, StoresOK, MainOK, FilesArrive PROVE TasksOK' /\ StoresOK' /\ MainOK'
<1> DEFINE n == [Idle EXCEPT !.op = "files", !.at = "list"]
<1>1. TaskOK("main", n) /\ n.at = "list"
  BY IdleAtOK DEF Ops, AllNotices, Threads
<1>2. task' = [task EXCEPT !["main"] = n]
  BY DEF FilesArrive
<1>3. StoresOK'
  BY StoresStay DEF FilesArrive, StoresOK
<1> HIDE DEF n
<1> QED BY <1>1, <1>2, <1>3, MainTyped

LEMMA RescanArrivesTyped ==
    ASSUME TasksOK, StoresOK, MainOK, RescanArrives PROVE TasksOK' /\ StoresOK' /\ MainOK'
<1>1. PICK s \in Indexed : task' = [task EXCEPT !["worker"] = [Idle EXCEPT !.at = "verify", !.expected = s]]
  BY DEF RescanArrives
<1>2. s \in Snapshots
  BY StoresIndexOK, IndexedFacts
<1> DEFINE n == [Idle EXCEPT !.at = "verify", !.expected = s]
<1>3. n \in Tasks /\ n.at = "verify" /\ n.expected = s /\ n.taken = 0 /\ n.order = <<>>
  BY ZenonT(40), <1>2, IdleOK DEF Tasks, Steps
<1>4. StoresOK' /\ UNCHANGED <<buffer, live>>
  BY StoresStay DEF RescanArrives, StoresOK, bufferVars
<1>5. task' = [task EXCEPT !["worker"] = n]
  BY <1>1
<1> HIDE DEF n
<1>6. n.taken <= Len(n.order)
  BY <1>3
<1>7. TaskOK("worker", n)
  BY <1>2, <1>3, <1>6 DEF TaskOK, UriSteps, BufferSteps, SyncSteps, PublishSteps, AnswerSteps, OverSnapshots, OverUris
<1> QED BY <1>3, <1>4, <1>5, <1>7, ThreadTyped DEF Threads

LEMMA VerifiesTyped ==
    ASSUME TasksOK, StoresOK, MainOK, Verifies PROVE TasksOK' /\ StoresOK' /\ MainOK'
<1> DEFINE n == [Idle EXCEPT !.op = "files", !.at = "list"]
<1>1. TaskOK("worker", n) /\ n.at = "list"
  BY IdleAtOK DEF Ops, AllNotices, Threads
<1>2. \/ task' = [task EXCEPT !["worker"] = n]
      \/ task' = [task EXCEPT !["worker"] = Idle]
  BY DEF Verifies
<1>3. StoresOK' /\ UNCHANGED <<buffer, live>>
  BY StoresStay DEF Verifies, StoresOK, bufferVars
<1> HIDE DEF n
<1>4. TaskOK("worker", Idle) /\ Idle.at = "idle"
  BY IdleOK DEF Threads
<1>5. CASE task' = [task EXCEPT !["worker"] = n]
  BY <1>1, <1>3, <1>5, ThreadTyped DEF Threads
<1>6. CASE task' = [task EXCEPT !["worker"] = Idle]
  BY <1>3, <1>4, <1>6, ThreadTyped DEF Threads
<1> QED BY <1>2, <1>5, <1>6

LEMMA ListsOpenTyped ==
    ASSUME TasksOK, StoresOK, MainOK, NEW t \in Threads, ListsOpen(t) PROVE TasksOK' /\ StoresOK' /\ MainOK'
<1> DEFINE m == task[t]
           n == [m EXCEPT !.left = {u \in Uris : buffer[u] # None}, !.at = "scan"]
<1>1. TaskOK(t, m) /\ m.at \in {"list", "enter"}
  BY DEF ListsOpen, At, TasksOK
<1>2. StoresOK' /\ UNCHANGED <<buffer, live>>
  BY StoresStay DEF ListsOpen, StoresOK, bufferVars
<1>3. CASE scope = {}
  <2>1. PICK k : TaskOK(t, k) /\ task' = [task EXCEPT ![t] = k] /\ k.at \in {"plan", "idle"}
    BY <1>3, SyncedOK DEF ListsOpen
  <2> QED BY <1>2, <2>1, ThreadTyped
<1>4. CASE scope # {}
  <2>1. TaskOK(t, n) /\ n.at = "scan"
    BY ZenonT(40), <1>1 DEF TaskOK, Tasks, Steps, UriSteps, BufferSteps, SyncSteps, PublishSteps, AnswerSteps, OverSnapshots, OverUris
  <2>2. task' = [task EXCEPT ![t] = n]
    BY <1>4 DEF ListsOpen, TasksOK
  <2> HIDE DEF n
  <2> QED BY <1>2, <2>1, <2>2, ThreadTyped
<1> QED BY <1>3, <1>4

LEMMA ScansTyped ==
    ASSUME TasksOK, StoresOK, MainOK, NEW t \in Threads, Scans(t) PROVE TasksOK' /\ StoresOK' /\ MainOK'
<1> DEFINE m == task[t]
<1>1. TaskOK(t, m) /\ m.at = "scan" /\ scope \in SUBSET Uris
  BY DEF Scans, At, TasksOK, StoresOK, WorkspaceTypeOK
<1>2. PICK found \in SUBSET (scope \ m.left) :
        task' = [task EXCEPT ![t] = [m EXCEPT !.left = {}, !.found = found, !.at = "tracked"]]
  BY DEF Scans
<1> DEFINE n == [m EXCEPT !.left = {}, !.found = found, !.at = "tracked"]
<1>3. TaskOK(t, n) /\ n.at = "tracked"
  BY <1>1 DEF TaskOK, Tasks, Steps, UriSteps, BufferSteps, SyncSteps, PublishSteps, AnswerSteps, OverSnapshots, OverUris
<1>4. StoresOK' /\ UNCHANGED <<buffer, live>>
  BY StoresStay DEF Scans, StoresOK, bufferVars
<1>5. task' = [task EXCEPT ![t] = n]
  BY <1>2
<1> HIDE DEF n
<1> QED BY <1>3, <1>4, <1>5, ThreadTyped

LEMMA ListsTrackedTyped ==
    ASSUME TasksOK, StoresOK, MainOK, NEW t \in Threads, ListsTracked(t) PROVE TasksOK' /\ StoresOK' /\ MainOK'
<1> DEFINE m == task[t]
           n == [m EXCEPT !.left = closed \ m.found, !.at = "prune"]
<1>1. TaskOK(t, m) /\ m.at = "tracked" /\ closed \in SUBSET Uris
  BY DEF ListsTracked, At, TasksOK, StoresOK
<1>3. TaskOK(t, n) /\ n.at = "prune"
  BY ZenonT(40), <1>1 DEF TaskOK, Tasks, Steps, UriSteps, BufferSteps, SyncSteps, PublishSteps, AnswerSteps, OverSnapshots, OverUris
<1>4. StoresOK' /\ UNCHANGED <<buffer, live>>
  BY StoresStay DEF ListsTracked, StoresOK, bufferVars
<1>5. task' = [task EXCEPT ![t] = n]
  BY DEF ListsTracked, TasksOK
<1> HIDE DEF n
<1> QED BY <1>3, <1>4, <1>5, ThreadTyped

LEMMA PrunesTyped ==
    ASSUME TasksOK, StoresOK, MainOK, NEW t \in Threads, Prunes(t) PROVE TasksOK' /\ StoresOK' /\ MainOK'
<1> DEFINE m == task[t]
<1>1. TaskOK(t, m) /\ m.at = "prune" /\ m.left \in SUBSET Uris
  BY DEF Prunes, At, TasksOK, TaskOK, OverUris
<1>2. PICK u \in m.left, s \in {"untrack", "pruned"} :
        task' = [task EXCEPT ![t] =
           [m EXCEPT !.left = m.left \ {u}, !.uri = u, !.expected = index[u], !.at = s]]
  BY DEF Prunes
<1>3. index[u] \in Snapshots \cup {None}
  BY <1>1 DEF StoresOK, WorkspaceTypeOK
<1> DEFINE n == [m EXCEPT !.left = m.left \ {u}, !.uri = u, !.expected = index[u], !.at = s]
<1>4. TaskOK(t, n) /\ n.at = s
  BY ZenonT(40), <1>1, <1>3 DEF TaskOK, Tasks, Steps, UriSteps, BufferSteps, SyncSteps, PublishSteps, AnswerSteps, OverSnapshots, OverUris
<1>5. StoresOK' /\ UNCHANGED <<buffer, live>>
  BY StoresStay DEF Prunes, StoresOK, bufferVars
<1>6. task' = [task EXCEPT ![t] = n]
  BY <1>2
<1> HIDE DEF n
<1> QED BY <1>4, <1>5, <1>6, ThreadTyped

LEMMA RemovesPrunedTyped ==
    ASSUME TasksOK, StoresOK, MainOK, NEW t \in Threads, RemovesPruned(t) PROVE TasksOK' /\ StoresOK' /\ MainOK'
<1> DEFINE m == task[t]
           changed == m.changed \/ (~Refuses(m.uri, m.expected) /\ index[m.uri] # None)
           n == [m EXCEPT !.at = "untrack", !.changed = changed]
<1>1. TaskOK(t, m) /\ m.at = "pruned" /\ m.uri \in Uris
  BY DEF RemovesPruned, At, TasksOK, TaskOK, UriSteps
<1>2. task' = [task EXCEPT ![t] = n]
  BY DEF RemovesPruned
<1>3. changed \in BOOLEAN
  BY <1>1 DEF TaskOK, Tasks
<1> HIDE DEF changed
<1>4. TaskOK(t, n) /\ n.at = "untrack"
  BY ZenonT(40), <1>1, <1>3 DEF TaskOK, Tasks, Steps, UriSteps, BufferSteps, SyncSteps, PublishSteps, AnswerSteps, OverSnapshots, OverUris
<1>5. IndexOK'
  BY <1>1, StoresIndexOK, RemoveFacts DEF RemovesPruned
<1>6. StoresOK' /\ UNCHANGED <<buffer, live>>
  BY <1>5, StoresIndexed DEF RemovesPruned, bufferVars, StoresOK
<1> HIDE DEF n
<1> QED BY <1>2, <1>4, <1>6, ThreadTyped

LEMMA UntracksTyped ==
    ASSUME TasksOK, StoresOK, MainOK, NEW t \in Threads, Untracks(t) PROVE TasksOK' /\ StoresOK' /\ MainOK'
<1> DEFINE m == task[t]
<1>1. TaskOK(t, m) /\ m.at = "untrack" /\ m.at \in UriSteps /\ m.left \in SUBSET Uris
  BY DEF Untracks, At, TasksOK, TaskOK, UriSteps, OverUris
<1>2. TaskOK(t, Leaving(m, "prune")) /\ Leaving(m, "prune").at = "prune"
  BY <1>1, LeavingOK
<1>3. StoresOK' /\ UNCHANGED <<buffer, live>>
  BY StoresStay DEF Untracks, StoresOK, bufferVars
<1> QED BY <1>2, <1>3, ThreadTyped DEF Untracks, Finishes

LEMMA StartsComparingTyped ==
    ASSUME TasksOK, StoresOK, MainOK, NEW t \in Threads, StartsComparing(t) PROVE TasksOK' /\ StoresOK' /\ MainOK'
<1> DEFINE m == task[t]
           n == [m EXCEPT !.left = m.found, !.found = {}, !.at = "compare"]
<1>1. TaskOK(t, m) /\ m.at = "prune"
  BY DEF StartsComparing, At, TasksOK
<1>3. TaskOK(t, n) /\ n.at = "compare"
  BY ZenonT(40), <1>1 DEF TaskOK, Tasks, Steps, UriSteps, BufferSteps, SyncSteps, PublishSteps, AnswerSteps, OverSnapshots, OverUris
<1>4. StoresOK' /\ UNCHANGED <<buffer, live>>
  BY StoresStay DEF StartsComparing, StoresOK, bufferVars
<1>5. task' = [task EXCEPT ![t] = n]
  BY DEF StartsComparing
<1> HIDE DEF n
<1> QED BY <1>3, <1>4, <1>5, ThreadTyped

LEMMA ComparesTyped ==
    ASSUME TasksOK, StoresOK, MainOK, NEW t \in Threads, Compares(t) PROVE TasksOK' /\ StoresOK' /\ MainOK'
<1> DEFINE m == task[t]
<1>1. TaskOK(t, m) /\ m.at = "compare" /\ m.left \in SUBSET Uris
  BY DEF Compares, At, TasksOK, TaskOK, OverUris
<1>2. PICK u \in m.left :
        \/ task' = [task EXCEPT ![t] = [m EXCEPT !.left = m.left \ {u}]]
        \/ task' = [task EXCEPT ![t] = [m EXCEPT !.left = m.left \ {u}, !.uri = u,
                                                 !.expected = index[u], !.at = "replace"]]
  BY DEF Compares
<1>3. index[u] \in Snapshots \cup {None}
  BY <1>1 DEF StoresOK, WorkspaceTypeOK
<1> DEFINE n == [m EXCEPT !.left = m.left \ {u}]
           r == [m EXCEPT !.left = m.left \ {u}, !.uri = u, !.expected = index[u], !.at = "replace"]
<1>4. TaskOK(t, n) /\ n.at = "compare"
  BY <1>1, <1>3 DEF TaskOK, Tasks, Steps, UriSteps, BufferSteps, SyncSteps, PublishSteps, AnswerSteps, OverSnapshots, OverUris
<1>5. TaskOK(t, r) /\ r.at = "replace"
  BY <1>1, <1>3 DEF TaskOK, Tasks, Steps, UriSteps, BufferSteps, SyncSteps, PublishSteps, AnswerSteps, OverSnapshots, OverUris
<1>6. StoresOK' /\ UNCHANGED <<buffer, live>>
  BY StoresStay DEF Compares, StoresOK, bufferVars
<1>7. task' = [task EXCEPT ![t] = n] \/ task' = [task EXCEPT ![t] = r]
  BY <1>2
<1> HIDE DEF n, r
<1> QED BY <1>4, <1>5, <1>6, <1>7, ThreadTyped

LEMMA ReplacesTyped ==
    ASSUME TasksOK, StoresOK, MainOK, NEW t \in Threads, Replaces(t) PROVE TasksOK' /\ StoresOK' /\ MainOK'
<1> DEFINE m == task[t]
           n == [m EXCEPT !.at = "trackFound"]
<1>1. TaskOK(t, m) /\ m.at = "replace" /\ m.uri \in Uris /\ m.at \in UriSteps /\ m.left \in SUBSET Uris
  BY DEF Replaces, At, TasksOK, TaskOK, UriSteps, OverUris
<1>2. /\ Fresh(m.uri, 0) \in Snapshots /\ Fresh(m.uri, 0).uri = m.uri /\ nextId + 1 \in 1..(MaxId + 1)
  BY <1>1, FreshFacts, SessionAssumption DEF Replaces, StoresOK
<1>3. IndexOK'
  BY <1>1, <1>2, StoresIndexOK, ReplaceFacts DEF Replaces
<1>4. StoresOK' /\ UNCHANGED <<buffer, live>>
  BY <1>2, <1>3, StoresIndexed DEF Replaces, StoresOK
<1>5. TaskOK(t, n) /\ n.at = "trackFound"
  BY <1>1 DEF TaskOK, Tasks, Steps, UriSteps, BufferSteps, SyncSteps, PublishSteps, AnswerSteps, OverSnapshots, OverUris
<1>6. TaskOK(t, Leaving(m, "compare")) /\ Leaving(m, "compare").at = "compare"
  BY <1>1, LeavingOK
<1>7. CASE Finishes(t, "compare")
  BY <1>4, <1>6, <1>7, ThreadTyped DEF Finishes
<1>8. CASE Goes(t, "trackFound")
  <2>1. task' = [task EXCEPT ![t] = n]
    BY <1>8, GoesTo
  <2> HIDE DEF n
  <2> QED BY <1>4, <1>5, <2>1, ThreadTyped
<1> QED BY <1>7, <1>8 DEF Replaces

LEMMA TracksFoundTyped ==
    ASSUME TasksOK, StoresOK, MainOK, NEW t \in Threads, TracksFound(t) PROVE TasksOK' /\ StoresOK' /\ MainOK'
<1> DEFINE m == task[t]
           k == Leaving(m, "compare")
           n == [k EXCEPT !.changed = TRUE]
<1>1. TaskOK(t, m) /\ m.at = "trackFound" /\ m.at \in UriSteps /\ m.left \in SUBSET Uris /\ m.uri \in Uris
  BY DEF TracksFound, At, TasksOK, TaskOK, UriSteps, OverUris
<1>2. TaskOK(t, k) /\ k.at = "compare"
  BY <1>1, LeavingOK
<1>3. task' = [task EXCEPT ![t] = n]
  BY DEF TracksFound
<1> HIDE DEF k
<1>4. TaskOK(t, n) /\ n.at = "compare"
  BY <1>2 DEF TaskOK, Tasks, Steps, UriSteps, BufferSteps, SyncSteps, PublishSteps, AnswerSteps, OverSnapshots, OverUris
<1>5. StoresOK' /\ UNCHANGED <<buffer, live>>
  BY <1>1, StoresStay DEF TracksFound, StoresOK, bufferVars
<1> HIDE DEF n
<1> QED BY <1>3, <1>4, <1>5, ThreadTyped

LEMMA SyncsTyped ==
    ASSUME TasksOK, StoresOK, MainOK, NEW t \in Threads, Syncs(t) PROVE TasksOK' /\ StoresOK' /\ MainOK'
<1>1. PICK k : TaskOK(t, k) /\ task' = [task EXCEPT ![t] = k] /\ k.at \in {"plan", "idle"}
  BY SyncedOK DEF Syncs
<1>2. StoresOK' /\ UNCHANGED <<buffer, live>>
  BY StoresStay DEF Syncs, StoresOK, bufferVars
<1> QED BY <1>1, <1>2, ThreadTyped

LEMMA ReconcilesTyped ==
    ASSUME TasksOK, StoresOK, MainOK, NEW t \in Threads, Reconciles(t) PROVE TasksOK' /\ StoresOK' /\ MainOK'
BY ListsOpenTyped, ScansTyped, ListsTrackedTyped, PrunesTyped, RemovesPrunedTyped, UntracksTyped,
   StartsComparingTyped, ComparesTyped, ReplacesTyped, TracksFoundTyped, SyncsTyped DEF Reconciles

LEMMA PlansTyped ==
    ASSUME TasksOK, StoresOK, MainOK, NEW t \in Threads, Plans(t) PROVE TasksOK' /\ StoresOK' /\ MainOK'
<1> DEFINE m == task[t]
           left == {s \in Indexed : live[s.uri] = s}
           n == [m EXCEPT !.capture = Capture, !.at = "commit", !.left = left]
<1>1. TaskOK(t, m) /\ m.at = "plan"
  BY DEF Plans, At, TasksOK
<1>2. Capture \in [snapshots : SUBSET Snapshots, generation : Nat] /\ left \in SUBSET Snapshots
  BY StoresIndexOK, IndexedFacts
<1>3. task' = [task EXCEPT ![t] = n]
  BY DEF Plans, TasksOK
<1>4. StoresOK' /\ UNCHANGED <<buffer, live>>
  BY StoresStay DEF Plans, StoresOK, bufferVars
<1> HIDE DEF left
<1>5. TaskOK(t, n) /\ n.at = "commit"
  BY ZenonT(40), <1>1, <1>2 DEF TaskOK, Tasks, Steps, UriSteps, BufferSteps, SyncSteps, PublishSteps, AnswerSteps, OverSnapshots, OverUris
<1> HIDE DEF n
<1> QED BY <1>3, <1>4, <1>5, ThreadTyped

LEMMA CommitsTyped ==
    ASSUME TasksOK, StoresOK, MainOK, NEW t \in Threads, Commits(t) PROVE TasksOK' /\ StoresOK' /\ MainOK'
<1> DEFINE m == task[t]
           n == [m EXCEPT !.at = "push"]
<1>1. TaskOK(t, m) /\ m.at = "commit"
  BY DEF Commits, At, TasksOK
<1>2. StoresOK' /\ UNCHANGED <<buffer, live>>
  BY StoresStay DEF Commits, StoresOK, bufferVars
<1>3. TaskOK(t, n) /\ n.at = "push"
  BY <1>1 DEF TaskOK, Tasks, Steps, UriSteps, BufferSteps, SyncSteps, PublishSteps, AnswerSteps, OverSnapshots, OverUris
<1>4. task' = [task EXCEPT ![t] = n] \/ task' = [task EXCEPT ![t] = Idle]
  BY DEF Commits
<1> HIDE DEF n
<1> QED BY <1>2, <1>3, <1>4, IdleOK, ThreadTyped

LEMMA PushesTyped ==
    ASSUME TasksOK, StoresOK, MainOK, NEW t \in Threads, Pushes(t) PROVE TasksOK' /\ StoresOK' /\ MainOK'
<1> DEFINE m == task[t]
<1>1. TaskOK(t, m) /\ m.at = "push" /\ m.left \in SUBSET Snapshots /\ m.capture.snapshots \in SUBSET Snapshots
  BY DEF Pushes, At, TasksOK, TaskOK, Tasks, OverSnapshots
<1>2. PICK s \in m.left :
        /\ pushed' = IF live[s.uri] = s THEN [pushed EXCEPT ![s.uri] = m.capture.snapshots] ELSE pushed
        /\ task' = [task EXCEPT ![t] = [m EXCEPT !.left = m.left \ {s}]]
  BY DEF Pushes, TasksOK
<1> DEFINE n == [m EXCEPT !.left = m.left \ {s}]
<1>3. TaskOK(t, n) /\ n.at = "push"
  BY <1>1 DEF TaskOK, Tasks, Steps, UriSteps, BufferSteps, SyncSteps, PublishSteps, AnswerSteps, OverSnapshots, OverUris
<1>4. pushed' \in [Uris -> (SUBSET Snapshots) \cup {None}]
  BY <1>1, <1>2 DEF StoresOK
<1>5. StoresOK' /\ UNCHANGED <<buffer, live>>
  BY <1>4 DEF Pushes, StoresOK, WorkspaceTypeOK, indexVars, scopeVars
<1>6. task' = [task EXCEPT ![t] = n]
  BY <1>2
<1> HIDE DEF n
<1> QED BY <1>3, <1>5, <1>6, ThreadTyped

LEMMA HasPushedTyped ==
    ASSUME TasksOK, StoresOK, MainOK, NEW t \in Threads, HasPushed(t) PROVE TasksOK' /\ StoresOK' /\ MainOK'
<1>1. StoresOK' /\ UNCHANGED <<buffer, live>>
  BY StoresStay DEF HasPushed, StoresOK, bufferVars
<1> QED BY <1>1, IdleOK, ThreadTyped DEF HasPushed

LEMMA PublishesTyped ==
    ASSUME TasksOK, StoresOK, MainOK, NEW t \in Threads, Publishes(t) PROVE TasksOK' /\ StoresOK' /\ MainOK'
BY PlansTyped, CommitsTyped, PushesTyped, HasPushedTyped DEF Publishes

LEMMA ArrivesTyped ==
    ASSUME TasksOK, StoresOK, MainOK, NEW u \in Uris, Arrives(u) PROVE TasksOK' /\ StoresOK' /\ MainOK'
<1> DEFINE n == [Idle EXCEPT !.op = "respond", !.at = "captures", !.semantic = live[u]]
<1>1. live[u] \in Snapshots
  BY DEF Arrives, StoresOK
<1>2. n \in Tasks /\ n.at = "captures" /\ n.semantic = live[u] /\ n.taken = 0 /\ n.order = <<>>
  BY ZenonT(40), <1>1, IdleOK DEF Tasks, Steps, Ops
<1>3. task' = [task EXCEPT !["worker"] = n]
  BY DEF Arrives
<1>4. StoresOK' /\ UNCHANGED <<buffer, live>>
  BY StoresStay DEF Arrives, StoresOK, bufferVars
<1> HIDE DEF n
<1>5. n.taken <= Len(n.order)
  BY <1>2
<1>6. TaskOK("worker", n)
  BY <1>1, <1>2, <1>5 DEF TaskOK, UriSteps, BufferSteps, SyncSteps, PublishSteps, AnswerSteps, OverSnapshots, OverUris
<1> QED BY <1>2, <1>3, <1>4, <1>6, ThreadTyped DEF Threads

LEMMA CapturesWorkspaceTyped ==
    ASSUME TasksOK, StoresOK, MainOK, CapturesWorkspace PROVE TasksOK' /\ StoresOK' /\ MainOK'
<1> DEFINE m == task["worker"]
           n == [m EXCEPT !.capture = Capture, !.at = "scopes"]
<1>1. TaskOK("worker", m) /\ m.at = "captures"
  BY DEF CapturesWorkspace, At, TasksOK, Threads
<1>2. Capture \in [snapshots : SUBSET Snapshots, generation : Nat]
  BY StoresIndexOK, IndexedFacts
<1>3. TaskOK("worker", n) /\ n.at = "scopes"
  BY <1>1, <1>2 DEF TaskOK, Tasks, Steps, UriSteps, BufferSteps, SyncSteps, PublishSteps, AnswerSteps, OverSnapshots, OverUris
<1>4. task' = [task EXCEPT !["worker"] = n]
  BY DEF CapturesWorkspace, TasksOK
<1>5. StoresOK' /\ UNCHANGED <<buffer, live>>
  BY StoresStay DEF CapturesWorkspace, StoresOK, bufferVars
<1> HIDE DEF n
<1> QED BY <1>3, <1>4, <1>5, ThreadTyped DEF Threads

LEMMA CapturesFoldersTyped ==
    ASSUME TasksOK, StoresOK, MainOK, CapturesFolders PROVE TasksOK' /\ StoresOK' /\ MainOK'
<1> DEFINE m == task["worker"]
<1>1. TaskOK("worker", m) /\ m.at = "scopes" /\ scopeGeneration \in Nat
  BY DEF CapturesFolders, At, TasksOK, Threads, StoresOK, WorkspaceTypeOK
<1>2. PICK order \in Orders :
        task' = [task EXCEPT !["worker"] = [m EXCEPT !.folders = scopeGeneration, !.order = order, !.at = "lock"]]
  BY DEF CapturesFolders
<1>3. order \in AllOrders /\ 0 <= Len(order)
  BY SessionAssumption DEF AllOrders
<1> DEFINE n == [m EXCEPT !.folders = scopeGeneration, !.order = order, !.at = "lock"]
<1>4. n \in Tasks /\ n.at = "lock" /\ n.taken = 0 /\ n.order = order /\ n.semantic \in Snapshots
  BY <1>1, <1>3 DEF TaskOK, Tasks, Steps, AnswerSteps
<1>5. task' = [task EXCEPT !["worker"] = n]
  BY <1>2
<1>6. StoresOK' /\ UNCHANGED <<buffer, live>>
  BY StoresStay DEF CapturesFolders, StoresOK, bufferVars
<1> HIDE DEF n
<1>7. TaskOK("worker", n)
  BY <1>3, <1>4 DEF TaskOK, UriSteps, BufferSteps, SyncSteps, PublishSteps, AnswerSteps, OverSnapshots, OverUris
<1> QED BY <1>4, <1>5, <1>6, <1>7, ThreadTyped DEF Threads

\* The orders have two or three locks at most.
LEMMA OrderFacts ==
    ASSUME NEW order \in AllOrders
    PROVE  Len(order) \in 1..3 /\ \A i \in 1..Len(order) : order[i] \in {"chain", "index", "folders"}
BY DEF AllOrders

LEMMA LocksTyped ==
    ASSUME TasksOK, StoresOK, MainOK, Locks PROVE TasksOK' /\ StoresOK' /\ MainOK'
<1> DEFINE m == task["worker"]
<1>1. TaskOK("worker", m) /\ m.at = "lock" /\ m.order \in AllOrders /\ m.semantic \in Snapshots
      /\ m.taken < Len(m.order) /\ m.taken \in 0..3
  BY DEF Locks, At, TasksOK, TaskOK, Tasks, Threads, AnswerSteps
<1>2. Len(m.order) \in 1..3
  BY <1>1, OrderFacts
<1>3. PICK s \in {"answer", "lock"} :
        \/ task' = [task EXCEPT !["worker"] = Idle]
        \/ task' = [task EXCEPT !["worker"] = [m EXCEPT !.taken = m.taken + 1, !.at = s]]
  BY DEF Locks
<1> DEFINE n == [m EXCEPT !.taken = m.taken + 1, !.at = s]
<1>4. StoresOK' /\ UNCHANGED <<buffer, live>>
  BY StoresStay DEF Locks, StoresOK, bufferVars
<1>5. m.taken + 1 \in 0..3 /\ m.taken + 1 <= Len(m.order)
  <2>1. PICK i : i = m.taken
    OBVIOUS
  <2>2. PICK k : k = Len(m.order)
    OBVIOUS
  <2>3. i \in 0..3 /\ k \in 1..3 /\ i < k
    BY <1>1, <1>2, <2>1, <2>2
  <2>4. i + 1 \in 0..3 /\ i + 1 <= k
    BY <2>3
  <2> QED BY <2>1, <2>2, <2>4
<1>6. n \in Tasks /\ n.at = s /\ n.taken = m.taken + 1 /\ n.order = m.order /\ n.semantic = m.semantic
  BY <1>1, <1>5 DEF TaskOK, Tasks, Steps
<1>7. task' = [task EXCEPT !["worker"] = n] \/ task' = [task EXCEPT !["worker"] = Idle]
  BY <1>3
<1> HIDE DEF n
<1>8. TaskOK("worker", n)
  BY <1>1, <1>5, <1>6 DEF TaskOK, UriSteps, BufferSteps, SyncSteps, PublishSteps, AnswerSteps, OverSnapshots, OverUris
<1>9. CASE task' = [task EXCEPT !["worker"] = n]
  BY <1>4, <1>6, <1>8, <1>9, ThreadTyped DEF Threads
<1>10. CASE task' = [task EXCEPT !["worker"] = Idle]
  BY <1>4, <1>10, IdleOK, ThreadTyped DEF Threads
<1> QED BY <1>7, <1>9, <1>10

LEMMA AnswersTyped ==
    ASSUME TasksOK, StoresOK, MainOK, Answers PROVE TasksOK' /\ StoresOK' /\ MainOK'
<1>1. StoresOK' /\ UNCHANGED <<buffer, live>>
  BY StoresStay DEF Answers, StoresOK, bufferVars
<1> QED BY <1>1, IdleOK, ThreadTyped DEF Answers, Threads

LEMMA RespondsTyped ==
    ASSUME TasksOK, StoresOK, MainOK, Responds PROVE TasksOK' /\ StoresOK' /\ MainOK'
BY ArrivesTyped, CapturesWorkspaceTyped, CapturesFoldersTyped, LocksTyped, AnswersTyped DEF Responds

LEMMA CountsTyped ==
    ASSUME CountsOK, Next PROVE CountsOK'
<1>1. moved' \in SUBSET {"index", "scope"} /\ overlapped' \in BOOLEAN
  BY DEF Next, Moves, Overlaps, CountsOK
<1>2. notices' \in 0..MaxNotices
  <2>1. notices' = notices \/ (notices < MaxNotices /\ notices' = notices + 1)
    BY DEF Next, Buffers, Folders, Responds, Reconciles, Publishes, OpenArrives, ChangeArrives, Drops,
       ReadsPrevious, Edits, Analyses, Indexes, Closes, Unindexes, ReadsFile, Restores, Tracks,
       FoldersArrive, Applies, Invalidates, Leaves, RemovesLeft, ListsEntered, Enters, Admits,
       FilesArrive, RescanArrives, Verifies, ListsOpen, Scans, ListsTracked, Prunes, RemovesPruned,
       Untracks, StartsComparing, Compares, Replaces, TracksFound, Syncs, Plans, Commits, Pushes,
       HasPushed, Arrives, CapturesWorkspace, CapturesFolders, Locks, Answers, Notify, countVars
  <2> QED BY <2>1, SessionAssumption DEF CountsOK
<1>3. requests' \in 0..MaxRequests
  <2>1. requests' = requests \/ (requests < MaxRequests /\ requests' = requests + 1)
    BY DEF Next, Buffers, Folders, Responds, Reconciles, Publishes, OpenArrives, ChangeArrives, Drops,
       ReadsPrevious, Edits, Analyses, Indexes, Closes, Unindexes, ReadsFile, Restores, Tracks,
       FoldersArrive, Applies, Invalidates, Leaves, RemovesLeft, ListsEntered, Enters, Admits,
       FilesArrive, RescanArrives, Verifies, ListsOpen, Scans, ListsTracked, Prunes, RemovesPruned,
       Untracks, StartsComparing, Compares, Replaces, TracksFound, Syncs, Plans, Commits, Pushes,
       HasPushed, Arrives, CapturesWorkspace, CapturesFolders, Locks, Answers, Notify, countVars
  <2> QED BY <2>1, SessionAssumption DEF CountsOK
<1> QED BY <1>1, <1>2, <1>3 DEF CountsOK

LEMMA InitTyped == ASSUME Init PROVE Typed
<1>1. StoresOK
  BY SessionAssumption DEF Init, WorkspaceInit, StoresOK, WorkspaceTypeOK
<1>2. CountsOK
  <2>1. MaxNotices \in Nat /\ MaxRequests \in Nat /\ notices = 0 /\ requests = 0
    BY SessionAssumption DEF Init
  <2>2. notices \in 0..MaxNotices /\ requests \in 0..MaxRequests
    BY <2>1
  <2>3. moved \in SUBSET {"index", "scope"} /\ overlapped \in BOOLEAN
    BY DEF Init
  <2> QED BY <2>2, <2>3 DEF CountsOK
<1>3. task \in [Threads -> Tasks] /\ \A t \in Threads : task[t] = Idle
  BY IdleOK DEF Init
<1>4. TasksOK
  BY <1>3, IdleOK DEF TasksOK
<1>5. MainOK
  BY <1>3, IdleOK DEF MainOK, Threads
<1> QED BY <1>1, <1>2, <1>4, <1>5 DEF Typed

LEMMA NextTyped == ASSUME Typed, [Next]_vars PROVE Typed'
<1>1. CASE Next
  <2>1. TasksOK' /\ StoresOK' /\ MainOK'
    BY <1>1, BuffersTyped, FoldersTyped, FilesArriveTyped, RescanArrivesTyped, VerifiesTyped, RespondsTyped,
       ReconcilesTyped, PublishesTyped DEF Next, Typed
  <2> QED BY <1>1, <2>1, CountsTyped DEF Typed
<1>2. CASE UNCHANGED vars
  BY <1>2 DEF vars, indexVars, scopeVars, bufferVars, countVars, Typed, TasksOK, TaskOK, StoresOK,
     WorkspaceTypeOK, CountsOK, MainOK
<1> QED BY <1>1, <1>2

\* Every state of the session is well formed: the index and the semantic store hold
\* snapshots of the URI they are filed under, a thread in the middle of a handler
\* has what its next step uses, and no request holds locks beyond those of its order.
THEOREM WorkspaceTyped == Spec => []TypeOK
<1>1. Init => Typed
  BY InitTyped
<1>2. Typed /\ [Next]_vars => Typed'
  BY NextTyped
<1>3. Typed => TypeOK
  BY DEF Typed, TasksOK, TaskOK, StoresOK, CountsOK, TypeOK
<1> QED BY <1>1, <1>2, <1>3, PTL DEF Spec

-----------------------------------------------------------------------------
(***************************************************************************)
(* What a step of a thread does to what the other has captured or locked.  *)
(***************************************************************************)
CountedStep(t) ==
    /\ generation <= generation' /\ scopeGeneration <= scopeGeneration'
    /\ index' # index => generation < generation'
    /\ generation' # generation => Free("index", t)
    /\ scope' # scope => scopeGeneration < scopeGeneration' /\ Free("folders", t)
    /\ live' # live => Free("chain", t)

Turn(t) ==
    /\ \A o \in Threads \ {t} : task'[o] = task[o]
    /\ task'[t].at = "push" =>
          /\ UNCHANGED index /\ task'[t].capture = task[t].capture
          /\ At(t, "push") \/ Complete(task[t].capture)
    /\ task'[t].at \in AnswerSteps => UNCHANGED <<index, generation, scope, scopeGeneration, live>>
    /\ \A u \in Uris : pushed'[u] \notin {pushed[u], None, {}} =>
          At(t, "push") /\ pushed'[u] = task[t].capture.snapshots

LEMMA CountedSame ==
    ASSUME StoresOK, NEW t \in Threads, UNCHANGED <<indexVars, scopeVars>>, live' # live => Free("chain", t)
    PROVE  CountedStep(t)
BY DEF CountedStep, indexVars, scopeVars, StoresOK, WorkspaceTypeOK

LEMMA CountedReplace ==
    ASSUME StoresOK, NEW t \in Threads, NEW u \in Uris, NEW s \in Snapshots, s.uri = u, NEW expected,
           Attempts(Replace(s, expected), Refuses(u, expected)), Free("index", t),
           UNCHANGED <<scopeVars, live>>
    PROVE  CountedStep(t)
<1>1. generation <= generation' /\ (index' # index => generation < generation')
  BY StoresIndexOK, ReplaceFacts
<1> QED BY <1>1 DEF CountedStep, scopeVars, StoresOK, WorkspaceTypeOK

LEMMA CountedRemove ==
    ASSUME StoresOK, NEW t \in Threads, NEW u \in Uris, NEW expected,
           Attempts(Remove(u, expected), Refuses(u, expected)), Free("index", t),
           UNCHANGED <<scopeVars, live>>
    PROVE  CountedStep(t)
<1>1. generation <= generation' /\ (index' # index => generation < generation')
  BY StoresIndexOK, RemoveFacts
<1> QED BY <1>1 DEF CountedStep, scopeVars, StoresOK, WorkspaceTypeOK

\* What main knows of its URI, from the types.
LEMMA MainUri ==
    ASSUME TasksOK, task["main"].at \in UriSteps
    PROVE  task["main"].uri \in Uris /\ task["main"] \in Tasks
BY DEF TasksOK, TaskOK, Threads

LEMMA BuffersCounted ==
    ASSUME TasksOK, StoresOK, MainOK, Buffers PROVE CountedStep("main")
<1> DEFINE m == task["main"]
<1>1. ASSUME NEW u \in Uris, OpenArrives(u) \/ \E kind \in {"change", "close"} : ChangeArrives(u, kind)
      PROVE  CountedStep("main")
  BY <1>1, CountedSame DEF OpenArrives, ChangeArrives, bufferVars, Threads
<1>2. CASE Drops
  BY <1>2, MainUri, CountedRemove DEF Drops, At, UriSteps, BufferSteps, bufferVars, Threads
<1>3. CASE ReadsPrevious
  BY <1>3, CountedSame DEF ReadsPrevious, bufferVars, Threads
<1>4. CASE Edits
  BY <1>4, CountedSame DEF Edits, Threads
<1>5. CASE Analyses
  BY <1>5, CountedSame DEF Analyses, Analysed, Threads
<1>6. CASE Indexes
  <2>1. m.uri \in Uris /\ live[m.uri] # None /\ Free("index", "main") /\ UNCHANGED <<scopeVars, live>>
    BY <1>6, MainUri DEF Indexes, At, UriSteps, BufferSteps, MainOK, bufferVars
  <2>2. live[m.uri] \in Snapshots /\ live[m.uri].uri = m.uri
    BY <2>1 DEF StoresOK
  <2>3. CASE m.uri \in scope
    BY <1>6, <2>1, <2>2, <2>3, CountedReplace DEF Indexes, Threads
  <2>4. CASE m.uri \notin scope /\ m.expected # None
    BY <1>6, <2>1, <2>4, CountedRemove DEF Indexes, Threads
  <2>5. CASE m.uri \notin scope /\ m.expected = None
    BY <1>6, <2>1, <2>5, CountedSame DEF Indexes, Threads
  <2> QED BY <2>3, <2>4, <2>5
<1>7. CASE Closes
  BY <1>7, CountedSame DEF Closes, Threads
<1>8. CASE Unindexes
  BY <1>8, MainUri, CountedRemove DEF Unindexes, At, UriSteps, BufferSteps, bufferVars, Threads
<1>9. CASE ReadsFile
  BY <1>9, CountedSame DEF ReadsFile, bufferVars, Threads
<1>10. CASE Restores
  <2>1. m.uri \in Uris
    BY <1>10, MainUri DEF Restores, At, UriSteps, BufferSteps
  <2>2. Fresh(m.uri, 0) \in Snapshots /\ Fresh(m.uri, 0).uri = m.uri
    BY <1>10, <2>1, FreshFacts, SessionAssumption DEF Restores, StoresOK
  <2> QED BY <1>10, <2>1, <2>2, CountedReplace DEF Restores, Threads
<1>11. CASE Tracks
  BY <1>11, CountedSame DEF Tracks, bufferVars, Threads
<1> QED BY <1>1, <1>2, <1>3, <1>4, <1>5, <1>6, <1>7, <1>8, <1>9, <1>10, <1>11 DEF Buffers

LEMMA FoldersCounted ==
    ASSUME TasksOK, StoresOK, MainOK, Folders PROVE CountedStep("main")
<1> DEFINE m == task["main"]
<1>1. CASE FoldersArrive \/ ListsEntered \/ Enters
  BY <1>1, CountedSame DEF FoldersArrive, ListsEntered, Enters, bufferVars, Threads
<1>2. CASE Applies
  BY <1>2 DEF Applies, ChangeScope, CountedStep, indexVars, bufferVars, StoresOK, WorkspaceTypeOK
<1>3. CASE Invalidates
  BY <1>3 DEF Invalidates, Invalidate, CountedStep, scopeVars, bufferVars, StoresOK, WorkspaceTypeOK
<1>4. CASE Leaves
  BY <1>4, CountedSame DEF Leaves, Analysed, bufferVars, Threads
<1>5. CASE RemovesLeft
  BY <1>5, MainUri, CountedRemove DEF RemovesLeft, At, UriSteps, bufferVars, Threads
<1>6. CASE Admits
  <2>1. m.uri \in Uris /\ live[m.uri] # None
    BY <1>6, MainUri DEF Admits, At, UriSteps, MainOK
  <2>2. live[m.uri] \in Snapshots /\ live[m.uri].uri = m.uri
    BY <2>1 DEF StoresOK
  <2> QED BY <1>6, <2>1, <2>2, CountedReplace DEF Admits, bufferVars, Threads
<1> QED BY <1>1, <1>2, <1>3, <1>4, <1>5, <1>6 DEF Folders

LEMMA ReconcilesCounted ==
    ASSUME TasksOK, StoresOK, NEW t \in Threads, Reconciles(t) PROVE CountedStep(t)
<1> DEFINE m == task[t]
<1>1. CASE ListsOpen(t) \/ Scans(t) \/ ListsTracked(t) \/ Prunes(t) \/ Untracks(t) \/ StartsComparing(t)
           \/ Compares(t) \/ TracksFound(t) \/ Syncs(t)
  BY <1>1, CountedSame DEF ListsOpen, Scans, ListsTracked, Prunes, Untracks, StartsComparing, Compares,
     TracksFound, Syncs, bufferVars
<1>2. CASE RemovesPruned(t)
  <2>1. m.uri \in Uris
    BY <1>2 DEF RemovesPruned, At, TasksOK, TaskOK, UriSteps
  <2> QED BY <1>2, <2>1, CountedRemove DEF RemovesPruned, bufferVars
<1>3. CASE Replaces(t)
  <2>1. m.uri \in Uris
    BY <1>3 DEF Replaces, At, TasksOK, TaskOK, UriSteps
  <2>2. Fresh(m.uri, 0) \in Snapshots /\ Fresh(m.uri, 0).uri = m.uri
    BY <1>3, <2>1, FreshFacts, SessionAssumption DEF Replaces, StoresOK
  <2> QED BY <1>3, <2>1, <2>2, CountedReplace DEF Replaces
<1> QED BY <1>1, <1>2, <1>3 DEF Reconciles

LEMMA OthersCounted ==
    ASSUME StoresOK, NEW t \in Threads, Publishes(t) \/ (FilesArrive /\ t = "main") \/ (RescanArrives /\ t = "worker")
                         \/ (Verifies /\ t = "worker") \/ (Responds /\ t = "worker")
    PROVE  CountedStep(t)
BY CountedSame DEF Publishes, Plans, Commits, Pushes, HasPushed, FilesArrive, RescanArrives, Verifies,
   Responds, Arrives, CapturesWorkspace, CapturesFolders, Locks, Answers, bufferVars

\* A turn that neither pushes nor answers.
QuietTurn(t) ==
    /\ \A o \in Threads \ {t} : task'[o] = task[o]
    /\ task'[t].at \notin {"push"} \cup AnswerSteps
    /\ \A u \in Uris : pushed'[u] \in {pushed[u], None, {}}

LEMMA QuietTurns == ASSUME NEW t \in Threads, QuietTurn(t) PROVE Turn(t)
BY DEF QuietTurn, Turn

LEMMA TurnsTo ==
    ASSUME TasksOK, NEW t \in Threads, NEW n, task' = [task EXCEPT ![t] = n]
    PROVE  task'[t] = n /\ \A o \in Threads \ {t} : task'[o] = task[o]
BY DEF TasksOK

LEMMA GoesAt ==
    ASSUME TasksOK, NEW t \in Threads, NEW step, Goes(t, step)
    PROVE  task'[t].at = step /\ \A o \in Threads \ {t} : task'[o] = task[o]
BY DEF TasksOK, Tasks, Goes

LEMMA FinishesAt ==
    ASSUME TasksOK, NEW t \in Threads, NEW step, Finishes(t, step)
    PROVE  task'[t].at = step /\ \A o \in Threads \ {t} : task'[o] = task[o]
BY DEF TasksOK, Tasks, Finishes, Leaving

LEMMA BuffersTurn ==
    ASSUME TasksOK, StoresOK, Buffers PROVE QuietTurn("main")
<1> USE DEF Threads
<1>1. ASSUME NEW u \in Uris, OpenArrives(u) \/ \E kind \in {"change", "close"} : ChangeArrives(u, kind)
      PROVE  QuietTurn("main")
  <2>1. CASE OpenArrives(u)
    <3>1. PICK s \in {"drop", "read"} : task' = [task EXCEPT !["main"] =
            [Idle EXCEPT !.op = "open", !.uri = u, !.expected = index[u], !.at = s]]
      BY <2>1 DEF OpenArrives
    <3> QED BY <2>1, <3>1, IdleOK DEF OpenArrives, bufferVars, QuietTurn, TasksOK, Tasks, AnswerSteps
  <2>2. ASSUME NEW kind \in {"change", "close"}, ChangeArrives(u, kind) PROVE QuietTurn("main")
    BY <2>2, IdleOK DEF ChangeArrives, bufferVars, QuietTurn, TasksOK, Tasks, AnswerSteps
  <2> QED BY <1>1, <2>1, <2>2
<1>2. CASE Drops
  BY <1>2, GoesAt DEF Drops, bufferVars, QuietTurn, AnswerSteps
<1>3. CASE ReadsPrevious
  <2>1. PICK s \in {"edit", "close"} :
          task' = [task EXCEPT !["main"].expected = index[task["main"].uri], !["main"].at = s]
    BY <1>3 DEF ReadsPrevious
  <2> QED BY <1>3, <2>1 DEF ReadsPrevious, bufferVars, QuietTurn, TasksOK, Tasks, AnswerSteps
<1>4. CASE Edits
  BY <1>4, GoesAt DEF Edits, QuietTurn, AnswerSteps, StoresOK
<1>5. CASE Analyses
  BY <1>5, GoesAt DEF Analyses, Analysed, QuietTurn, AnswerSteps, StoresOK
<1>6. CASE Indexes
  <2>1. task' = [task EXCEPT !["main"] = Idle] \/ Finishes("main", "plan")
    BY <1>6 DEF Indexes, Finishes
  <2>2. task'["main"].at \in {"idle", "plan"} /\ \A o \in Threads \ {"main"} : task'[o] = task[o]
    BY <2>1, FinishesAt, TurnsTo, IdleOK
  <2> QED BY <1>6, <2>2 DEF Indexes, bufferVars, QuietTurn, AnswerSteps
<1>7. CASE Closes
  <2>1. Goes("main", "restore") \/ Goes("main", "unindex")
    BY <1>7 DEF Closes
  <2> QED BY <1>7, <2>1, GoesAt DEF Closes, QuietTurn, AnswerSteps, StoresOK
<1>8. CASE Unindexes
  BY <1>8, GoesAt DEF Unindexes, bufferVars, QuietTurn, AnswerSteps
<1>9. CASE ReadsFile
  <2>1. task'["main"].at \in {"plan", "restored"} /\ \A o \in Threads \ {"main"} : task'[o] = task[o]
    BY <1>9, FinishesAt DEF ReadsFile, TasksOK, Tasks
  <2> QED BY <1>9, <2>1 DEF ReadsFile, bufferVars, QuietTurn, AnswerSteps
<1>10. CASE Restores
  <2>1. Goes("main", "track") \/ Finishes("main", "plan")
    BY <1>10 DEF Restores
  <2> QED BY <1>10, <2>1, GoesAt, FinishesAt DEF Restores, QuietTurn, AnswerSteps
<1>11. CASE Tracks
  BY <1>11, FinishesAt DEF Tracks, bufferVars, QuietTurn, AnswerSteps
<1> QED BY <1>1, <1>2, <1>3, <1>4, <1>5, <1>6, <1>7, <1>8, <1>9, <1>10, <1>11 DEF Buffers

LEMMA FoldersTurn ==
    ASSUME TasksOK, StoresOK, Folders \/ FilesArrive PROVE QuietTurn("main")
<1> USE DEF Threads
<1>1. CASE FoldersArrive
  BY <1>1, IdleOK DEF FoldersArrive, bufferVars, QuietTurn, TasksOK, Tasks, AnswerSteps
<1>2. CASE Applies
  BY <1>2, GoesAt DEF Applies, bufferVars, QuietTurn, AnswerSteps
<1>3. CASE Invalidates
  BY <1>3, IdleOK DEF Invalidates, bufferVars, QuietTurn, TasksOK, Tasks, AnswerSteps
<1>4. CASE Leaves
  <2>1. task'["main"].at = "removeLeft" /\ \A o \in Threads \ {"main"} : task'[o] = task[o]
    BY <1>4 DEF Leaves, TasksOK, Tasks
  <2>2. \A u \in Uris : pushed'[u] \in {pushed[u], None, {}}
    BY <1>4 DEF Leaves, Analysed, bufferVars, StoresOK
  <2> QED BY <2>1, <2>2 DEF QuietTurn, AnswerSteps
<1>5. CASE RemovesLeft
  BY <1>5, FinishesAt DEF RemovesLeft, bufferVars, QuietTurn, AnswerSteps
<1>6. CASE ListsEntered
  BY <1>6 DEF ListsEntered, bufferVars, QuietTurn, TasksOK, Tasks, AnswerSteps
<1>7. CASE Enters
  BY <1>7 DEF Enters, At, bufferVars, QuietTurn, TasksOK, Tasks, AnswerSteps
<1>8. CASE Admits
  BY <1>8, FinishesAt DEF Admits, bufferVars, QuietTurn, AnswerSteps
<1>9. CASE FilesArrive
  BY <1>9, IdleOK DEF FilesArrive, bufferVars, QuietTurn, TasksOK, Tasks, AnswerSteps
<1> QED BY <1>1, <1>2, <1>3, <1>4, <1>5, <1>6, <1>7, <1>8, <1>9 DEF Folders

LEMMA ReconcilesTurn ==
    ASSUME TasksOK, StoresOK, NEW t \in Threads, Reconciles(t) PROVE QuietTurn(t)
<1>0. ASSUME NEW changed, task' = Synced(t, changed)
      PROVE  task'[t].at \in {"plan", "idle"} /\ \A o \in Threads \ {t} : task'[o] = task[o]
  <2>1. PICK n : task' = [task EXCEPT ![t] = n] /\ n.at \in {"plan", "idle"}
    BY <1>0, SyncedOK
  <2> QED BY <2>1, TurnsTo
<1>1. CASE ListsOpen(t)
  <2>1. task'[t].at \in {"plan", "idle", "scan"} /\ \A o \in Threads \ {t} : task'[o] = task[o]
    <3>1. CASE task' = Synced(t, FALSE)
      BY <1>0, <3>1
    <3>2. CASE task' = [task EXCEPT ![t].left = {u \in Uris : buffer[u] # None}, ![t].at = "scan"]
      BY <3>2 DEF TasksOK, Tasks
    <3> QED BY <1>1, <3>1, <3>2 DEF ListsOpen
  <2> QED BY <1>1, <2>1 DEF ListsOpen, bufferVars, QuietTurn, AnswerSteps
<1>2. CASE Scans(t)
  BY <1>2 DEF Scans, bufferVars, QuietTurn, TasksOK, Tasks, AnswerSteps
<1>3. CASE ListsTracked(t)
  BY <1>3 DEF ListsTracked, bufferVars, QuietTurn, TasksOK, Tasks, AnswerSteps
<1>4. CASE Prunes(t)
  BY <1>4 DEF Prunes, bufferVars, QuietTurn, TasksOK, Tasks, AnswerSteps
<1>5. CASE RemovesPruned(t)
  BY <1>5 DEF RemovesPruned, bufferVars, QuietTurn, TasksOK, Tasks, AnswerSteps
<1>6. CASE Untracks(t)
  BY <1>6, FinishesAt DEF Untracks, bufferVars, QuietTurn, AnswerSteps
<1>7. CASE StartsComparing(t)
  BY <1>7 DEF StartsComparing, bufferVars, QuietTurn, TasksOK, Tasks, AnswerSteps
<1>8. CASE Compares(t)
  BY <1>8 DEF Compares, At, bufferVars, QuietTurn, TasksOK, Tasks, AnswerSteps
<1>9. CASE Replaces(t)
  <2>1. Goes(t, "trackFound") \/ Finishes(t, "compare")
    BY <1>9 DEF Replaces
  <2> QED BY <1>9, <2>1, GoesAt, FinishesAt DEF Replaces, QuietTurn, AnswerSteps
<1>10. CASE TracksFound(t)
  BY <1>10 DEF TracksFound, Leaving, bufferVars, QuietTurn, TasksOK, Tasks, AnswerSteps
<1>11. CASE Syncs(t)
  BY <1>0, <1>11 DEF Syncs, bufferVars, QuietTurn, AnswerSteps
<1> QED BY <1>1, <1>2, <1>3, <1>4, <1>5, <1>6, <1>7, <1>8, <1>9, <1>10, <1>11 DEF Reconciles

LEMMA PublishesTurn ==
    ASSUME TasksOK, StoresOK, NEW t \in Threads, Publishes(t) PROVE Turn(t)
<1>1. CASE Plans(t)
  <2>1. QuietTurn(t)
    BY <1>1 DEF Plans, bufferVars, QuietTurn, TasksOK, Tasks, AnswerSteps
  <2> QED BY <2>1, QuietTurns
<1>2. CASE Commits(t)
  BY <1>2, IdleOK DEF Commits, bufferVars, indexVars, Turn, TasksOK, Tasks, AnswerSteps
<1>3. CASE Pushes(t)
  <2>1. PICK s \in task[t].left :
          /\ pushed' = IF live[s.uri] = s THEN [pushed EXCEPT ![s.uri] = task[t].capture.snapshots] ELSE pushed
          /\ task' = [task EXCEPT ![t].left = task[t].left \ {s}]
    BY <1>3 DEF Pushes
  <2>2. task'[t].at = "push" /\ task'[t].capture = task[t].capture /\ \A o \in Threads \ {t} : task'[o] = task[o]
    BY <1>3, <2>1 DEF Pushes, At, TasksOK, Tasks
  <2>3. \A u \in Uris : pushed'[u] \in {pushed[u], task[t].capture.snapshots}
    BY <2>1 DEF StoresOK
  <2> QED BY <1>3, <2>2, <2>3 DEF Pushes, Turn, indexVars, AnswerSteps
<1>4. CASE HasPushed(t)
  <2>1. QuietTurn(t)
    BY <1>4, IdleOK DEF HasPushed, bufferVars, QuietTurn, TasksOK, Tasks, AnswerSteps
  <2> QED BY <2>1, QuietTurns
<1> QED BY <1>1, <1>2, <1>3, <1>4 DEF Publishes

LEMMA RequestsTurn ==
    ASSUME TasksOK, StoresOK, RescanArrives \/ Verifies \/ Responds PROVE Turn("worker")
<1> USE DEF Threads
<1>1. CASE RescanArrives
  <2>1. PICK s : task' = [task EXCEPT !["worker"] = [Idle EXCEPT !.at = "verify", !.expected = s]]
    BY <1>1 DEF RescanArrives
  <2>2. task'["worker"].at = "verify" /\ \A o \in Threads \ {"worker"} : task'[o] = task[o]
    BY <2>1, IdleOK DEF TasksOK, Tasks
  <2>3. QuietTurn("worker")
    BY <1>1, <2>2 DEF RescanArrives, bufferVars, QuietTurn, AnswerSteps
  <2> QED BY <2>3, QuietTurns
<1>2. CASE Verifies
  <2>1. task' = [task EXCEPT !["worker"] = Idle]
        \/ task' = [task EXCEPT !["worker"] = [Idle EXCEPT !.op = "files", !.at = "list"]]
    BY <1>2 DEF Verifies
  <2>2. task'["worker"].at \in {"idle", "list"} /\ \A o \in Threads \ {"worker"} : task'[o] = task[o]
    BY ZenonT(40), <2>1, IdleOK DEF TasksOK, Tasks
  <2>3. QuietTurn("worker")
    BY <1>2, <2>2 DEF Verifies, bufferVars, QuietTurn, AnswerSteps
  <2> QED BY <2>3, QuietTurns
<1>3. CASE Responds
  <2>1. \A o \in Threads \ {"worker"} : task'[o] = task[o]
    BY <1>3 DEF Responds, Arrives, CapturesWorkspace, CapturesFolders, Locks, Answers, TasksOK
  <2>2. task'["worker"].at # "push"
    <3>1. CASE \E u \in Uris : Arrives(u)
      BY <3>1, IdleOK DEF Arrives, TasksOK, Tasks
    <3>2. CASE CapturesWorkspace
      BY <3>2 DEF CapturesWorkspace, TasksOK, Tasks
    <3>3. CASE CapturesFolders
      BY <3>3 DEF CapturesFolders, TasksOK, Tasks
    <3>4. CASE Locks
      <4>1. PICK s \in {"answer", "lock"} :
              \/ task' = [task EXCEPT !["worker"] = Idle]
              \/ task' = [task EXCEPT !["worker"] = [task["worker"] EXCEPT !.taken = task["worker"].taken + 1, !.at = s]]
        BY <3>4 DEF Locks
      <4>2. CASE task' = [task EXCEPT !["worker"] = Idle]
        BY <4>2, IdleOK, TurnsTo
      <4>3. CASE task' = [task EXCEPT !["worker"] = [task["worker"] EXCEPT !.taken = task["worker"].taken + 1, !.at = s]]
        <5>1. task'["worker"] = [task["worker"] EXCEPT !.taken = task["worker"].taken + 1, !.at = s]
          BY <4>3, TurnsTo
        <5>2. task'["worker"].at = s
          BY <5>1 DEF TasksOK, Tasks
        <5> QED BY <5>2
      <4> QED BY <4>1, <4>2, <4>3
    <3>5. CASE Answers
      BY <3>5, IdleOK DEF Answers, TasksOK, Tasks
    <3> QED BY <1>3, <3>1, <3>2, <3>3, <3>4, <3>5 DEF Responds
  <2>3. UNCHANGED <<index, generation, scope, scopeGeneration, live, pushed>>
    BY <1>3 DEF Responds, Arrives, CapturesWorkspace, CapturesFolders, Locks, Answers, bufferVars, indexVars, scopeVars
  <2> QED BY <2>1, <2>2, <2>3 DEF Turn
<1> QED BY <1>1, <1>2, <1>3

\* Every step is the turn of one thread.
LEMMA EveryTurn ==
    ASSUME Typed, Next
    PROVE  \E t \in Threads : Turn(t) /\ CountedStep(t) /\ (~QuietTurn(t) => Publishes(t) \/ t = "worker")
<1> USE DEF Threads, Typed
<1>1. CASE Buffers \/ Folders \/ FilesArrive
  <2>1. QuietTurn("main") /\ CountedStep("main")
    BY <1>1, BuffersTurn, FoldersTurn, BuffersCounted, FoldersCounted, OthersCounted
  <2> QED BY <2>1, QuietTurns
<1>2. CASE RescanArrives \/ Verifies \/ Responds
  BY <1>2, RequestsTurn, OthersCounted
<1>3. ASSUME NEW t \in Threads, Reconciles(t) PROVE Turn(t) /\ CountedStep(t) /\ QuietTurn(t)
  BY <1>3, ReconcilesTurn, ReconcilesCounted, QuietTurns
<1>4. ASSUME NEW t \in Threads, Publishes(t) PROVE Turn(t) /\ CountedStep(t)
  BY <1>4, PublishesTurn, OthersCounted
<1> QED BY <1>1, <1>2, <1>3, <1>4 DEF Next

-----------------------------------------------------------------------------
(***************************************************************************)
(* What is pushed rests on what is indexed.                                *)
(***************************************************************************)
LEMMA InitPushing == ASSUME Init PROVE Pushing
BY IdleOK DEF Init, Pushing, At

LEMMA NextPushing == ASSUME Typed, Pushing, [Next]_vars PROVE Pushing'
<1>1. CASE Next
  <2>1. PICK t \in Threads : Turn(t) /\ CountedStep(t)
    BY <1>1, EveryTurn
  <2>2. ASSUME NEW o \in Threads, task'[o].at = "push" PROVE task'[o].capture.snapshots = Indexed'
    <3>1. CASE o = t
      BY <2>1, <2>2, <3>1 DEF Turn, Pushing, Complete, Indexed, At
    <3>2. CASE o # t
      <4>1. task'[o] = task[o] /\ At(o, "push")
        BY <2>1, <2>2, <3>2 DEF Turn, At
      <4>2. ~Free("index", t)
        BY <3>2, <4>1 DEF Free, Held, At
      <4>3. index' = index /\ generation' = generation
        BY <2>1, <4>2 DEF CountedStep, Typed, StoresOK, WorkspaceTypeOK
      <4> QED BY <4>1, <4>3 DEF Pushing, Indexed
    <3> QED BY <3>1, <3>2
  <2> QED BY <2>2 DEF Pushing, At
<1>2. CASE UNCHANGED vars
  BY <1>2 DEF vars, indexVars, Pushing, At, Indexed
<1> QED BY <1>1, <1>2

\* Diagnostics of the workspace are computed outside every lock from a captured
\* index, and pushed under its lock if the generation is still the captured one: no
\* diagnostics ever leave the server that rest on entries the index does not have.
THEOREM PushesAreCurrent == Spec => PushedFromCurrentIndex
<1>1. Init => Typed /\ Pushing
  BY InitTyped, InitPushing
<1>2. (Typed /\ Pushing) /\ [Next]_vars => (Typed /\ Pushing)'
  BY NextTyped, NextPushing
<1>3. ASSUME Typed, Pushing, [Next]_vars
      PROVE  [\A u \in Uris : pushed'[u] \notin {pushed[u], None, {}} => pushed'[u] = Indexed]_vars
  <2>1. SUFFICES ASSUME Next
                 PROVE  \A u \in Uris : pushed'[u] \notin {pushed[u], None, {}} => pushed'[u] = Indexed
    BY <1>3
  <2>2. PICK t \in Threads : Turn(t)
    BY <1>3, <2>1, EveryTurn
  <2> QED BY <1>3, <2>2 DEF Turn, Pushing
<1> QED BY <1>1, <1>2, <1>3, PTL DEF Spec, PushedFromCurrentIndex

-----------------------------------------------------------------------------
(***************************************************************************)
(* What is answered rests on what has not moved.                           *)
(***************************************************************************)
LEMMA InitAnswering == ASSUME Init PROVE Answering
BY IdleOK DEF Init, Answering, Threads

\* A move of the index, or of the folders, is seen while it is captured.
LEMMA MovesSeen ==
    ASSUME Next
    PROVE  /\ "index" \in moved' =>
                 /\ task["worker"].at \in {"scopes", "lock", "answer"}
                 /\ "index" \in moved \/ index' # index \/ generation' # generation
           /\ "scope" \in moved' =>
                 /\ task["worker"].at \in {"lock", "answer"}
                 /\ "scope" \in moved \/ scope' # scope
<1>1. Moves
  BY DEF Next
<1> QED BY <1>1 DEF Moves

LEMMA MainAnswering ==
    ASSUME Typed, Answering, Next, Turn("main"), CountedStep("main") PROVE Answering'
<1> DEFINE m == task["worker"]
<1>1. task'["worker"] = m
  BY DEF Turn, Threads
<1>2. /\ m \in Tasks /\ generation \in Nat /\ generation' \in Nat /\ scopeGeneration \in Nat /\ scopeGeneration' \in Nat
      /\ m.capture.generation \in Nat /\ m.folders \in Nat
  BY NextTyped DEF Typed, TasksOK, TaskOK, Tasks, StoresOK, WorkspaceTypeOK, Threads
<1>3. ASSUME m.at \in {"scopes", "lock", "answer"}
      PROVE  /\ m.capture.generation <= generation'
             /\ "index" \in moved' => m.capture.generation < generation'
  BY <1>2, <1>3, MovesSeen DEF Answering, CountedStep
<1>4. ASSUME m.at \in {"lock", "answer"}
      PROVE  /\ m.folders <= scopeGeneration'
             /\ "scope" \in moved' => m.folders < scopeGeneration'
  BY <1>2, <1>4, MovesSeen DEF Answering, CountedStep
<1>5. ASSUME m.at \in {"lock", "answer"}, NEW i \in 1..m.taken
      PROVE  /\ m.order[i] = "chain" => live'[m.semantic.uri] = m.semantic
             /\ m.order[i] = "index" => "index" \notin moved'
             /\ m.order[i] = "folders" => "scope" \notin moved'
  <2>1. m.order[i] \in Held("worker")
    BY <1>5 DEF Held
  <2>2. ~Free(m.order[i], "main")
    BY <2>1 DEF Free, Threads
  <2>3. CASE m.order[i] = "chain"
    BY <1>5, <2>2, <2>3 DEF Answering, CountedStep
  <2>4. CASE m.order[i] = "index"
    <3>1. generation' = generation
      BY <2>2, <2>4 DEF CountedStep
    <3>2. index' = index
      BY <1>2, <3>1 DEF CountedStep
    <3> QED BY <1>5, <2>4, <3>1, <3>2, MovesSeen DEF Answering
  <2>5. CASE m.order[i] = "folders"
    BY <1>5, <2>2, <2>5, MovesSeen DEF Answering, CountedStep
  <2> QED BY <2>3, <2>4, <2>5
<1>6. PICK n : n = m
  OBVIOUS
<1>7. task'["worker"] = n
  BY <1>1, <1>6
<1> QED BY <1>3, <1>4, <1>5, <1>6, <1>7 DEF Answering

LEMMA WorkerAnswering ==
    ASSUME Typed, Answering, Next, Responds PROVE Answering'
<1> DEFINE m == task["worker"]
<1>0. UNCHANGED <<index, generation, scope, scopeGeneration, live>>
  BY DEF Responds, Arrives, CapturesWorkspace, CapturesFolders, Locks, Answers, bufferVars, indexVars, scopeVars
<1>1. /\ m \in Tasks /\ generation \in Nat /\ scopeGeneration \in Nat /\ TaskOK("worker", m)
      /\ m.capture.generation \in Nat /\ m.folders \in Nat
  BY DEF Typed, TasksOK, TaskOK, Tasks, StoresOK, WorkspaceTypeOK, Threads
<1>2. /\ "index" \in moved' => m.at \in {"scopes", "lock", "answer"} /\ "index" \in moved
      /\ "scope" \in moved' => m.at \in {"lock", "answer"} /\ "scope" \in moved
  BY <1>0, MovesSeen
<1>3. CASE \E u \in Uris : Arrives(u)
  <2>1. task'["worker"].at = "captures"
    BY <1>3, IdleOK DEF Arrives, Typed, TasksOK, Tasks, Threads
  <2> QED BY <2>1 DEF Answering
<1>4. CASE CapturesWorkspace
  <2>1. task'["worker"] = [m EXCEPT !.capture = Capture, !.at = "scopes"] /\ m.at = "captures"
    BY <1>4 DEF CapturesWorkspace, At, Typed, TasksOK, Threads
  <2>2. task'["worker"].at = "scopes" /\ task'["worker"].capture.generation = generation
    BY <1>1, <2>1 DEF Tasks, Capture
  <2> QED BY <1>0, <1>1, <1>2, <2>1, <2>2 DEF Answering
<1>5. CASE CapturesFolders
  <2>1. PICK order : task'["worker"] = [m EXCEPT !.folders = scopeGeneration, !.order = order, !.at = "lock"]
    BY <1>5 DEF CapturesFolders, Typed, TasksOK, Threads
  <2>2. m.at = "scopes" /\ m.taken = 0
    BY <1>1, <1>5 DEF CapturesFolders, At, TaskOK
  <2>3. PICK n : n = task'["worker"]
    OBVIOUS
  <2>4. n.at = "lock" /\ n.capture = m.capture /\ n.folders = scopeGeneration /\ n.taken = 0
    BY <1>1, <2>1, <2>2, <2>3 DEF Tasks
  <2>5. n.capture.generation <= generation /\ ("index" \in moved' => n.capture.generation < generation)
    BY <1>1, <1>2, <2>2, <2>4 DEF Answering
  <2>6. n.folders <= scopeGeneration /\ "scope" \notin moved'
    BY <1>1, <1>2, <2>2, <2>4
  <2>7. 1..n.taken = {}
    BY <2>4
  <2> QED BY <1>0, <2>3, <2>4, <2>5, <2>6, <2>7 DEF Answering
<1>6. CASE Locks
  <2>1. CASE task' = [task EXCEPT !["worker"] = Idle]
    <3>1. task'["worker"].at = "idle"
      BY <2>1, IdleOK DEF Typed, TasksOK, Threads
    <3> QED BY <3>1 DEF Answering
  <2>2. CASE task' # [task EXCEPT !["worker"] = Idle]
    <3>1. PICK s \in {"answer", "lock"} : task' = [task EXCEPT !["worker"] = [m EXCEPT !.taken = m.taken + 1, !.at = s]]
      BY <1>6, <2>2 DEF Locks
    <3>2. Agrees(m.order[m.taken + 1], m) /\ m.at = "lock"
      BY <1>6, <2>2 DEF Locks, At
    <3>3. PICK n : n = task'["worker"]
      OBVIOUS
    <3>4. n = [m EXCEPT !.taken = m.taken + 1, !.at = s]
      BY <3>1, <3>3 DEF Typed, TasksOK, Threads
    <3>5. /\ n.at \in {"lock", "answer"} /\ n.capture = m.capture /\ n.folders = m.folders /\ n.taken = m.taken + 1
          /\ n.order = m.order /\ n.semantic = m.semantic
      BY <1>1, <3>4 DEF Tasks
    <3>6. /\ n.capture.generation <= generation /\ ("index" \in moved' => n.capture.generation < generation)
          /\ n.folders <= scopeGeneration /\ ("scope" \in moved' => n.folders < scopeGeneration)
      BY <1>2, <3>2, <3>5 DEF Answering
    <3>7. ASSUME NEW i \in 1..n.taken
          PROVE  /\ n.order[i] = "chain" => live[n.semantic.uri] = n.semantic
                 /\ n.order[i] = "index" => "index" \notin moved'
                 /\ n.order[i] = "folders" => "scope" \notin moved'
      <4>1. m.taken \in Nat
        BY <1>1 DEF Tasks
      <4>2. i \in 1..m.taken \/ i = m.taken + 1
        BY <3>5, <4>1
      <4>3. CASE i \in 1..m.taken
        BY <1>2, <3>2, <3>5, <4>3 DEF Answering
      <4>4. CASE i = m.taken + 1
        BY <1>1, <1>2, <3>2, <3>5, <3>6, <4>4 DEF Agrees, Complete, ScopeCurrent
      <4> QED BY <4>2, <4>3, <4>4
    <3> QED BY <1>0, <3>3, <3>5, <3>6, <3>7 DEF Answering
  <2> QED BY <2>1, <2>2
<1>7. CASE Answers
  <2>1. task'["worker"].at = "idle"
    BY <1>7, IdleOK DEF Answers, Typed, TasksOK, Threads
  <2> QED BY <2>1 DEF Answering
<1> QED BY <1>3, <1>4, <1>5, <1>6, <1>7 DEF Responds

LEMMA NextAnswering == ASSUME Typed, Answering, [Next]_vars PROVE Answering'
<1> USE DEF Threads
<1>1. CASE Next
  <2>1. ASSUME QuietTurn("worker") PROVE Answering'
    BY <2>1 DEF QuietTurn, Answering, AnswerSteps
  <2>2. ASSUME NEW t \in Threads, Publishes(t) PROVE Answering'
    <3>1. Turn(t) /\ CountedStep(t)
      BY <2>2, PublishesTurn, OthersCounted DEF Typed
    <3>2. task'[t].at \notin AnswerSteps
      <4>1. task'[t].at \in {"commit", "push", "idle"}
        BY <2>2, IdleOK DEF Publishes, Plans, Commits, Pushes, HasPushed, At, Typed, TasksOK, Tasks
      <4> QED BY <4>1 DEF AnswerSteps
    <3>3. CASE t = "main"
      BY <1>1, <3>1, <3>3, MainAnswering
    <3>4. CASE t = "worker"
      BY <3>2, <3>4 DEF Answering, AnswerSteps
    <3> QED BY <3>3, <3>4
  <2>3. CASE Buffers \/ Folders \/ FilesArrive
    <3>1. Turn("main") /\ CountedStep("main")
      BY <2>3, BuffersTurn, FoldersTurn, BuffersCounted, FoldersCounted, OthersCounted, QuietTurns DEF Typed
    <3> QED BY <1>1, <3>1, MainAnswering
  <2>4. CASE RescanArrives
    <3>1. PICK s : task' = [task EXCEPT !["worker"] = [Idle EXCEPT !.at = "verify", !.expected = s]]
      BY <2>4 DEF RescanArrives
    <3>2. task'["worker"].at = "verify"
      BY <3>1, IdleOK DEF Typed, TasksOK, Tasks
    <3> QED BY <3>2 DEF Answering
  <2>5. CASE Verifies
    <3>1. task' = [task EXCEPT !["worker"] = Idle]
          \/ task' = [task EXCEPT !["worker"] = [Idle EXCEPT !.op = "files", !.at = "list"]]
      BY <2>5 DEF Verifies
    <3>2. task'["worker"] \in {Idle, [Idle EXCEPT !.op = "files", !.at = "list"]}
      BY <3>1 DEF Typed, TasksOK
    <3>3. Idle.at = "idle" /\ [Idle EXCEPT !.op = "files", !.at = "list"].at = "list"
      BY IdleOK DEF Tasks
    <3>4. task'["worker"].at \in {"idle", "list"}
      BY <3>2, <3>3
    <3> QED BY <3>4 DEF Answering
  <2>6. ASSUME NEW t \in Threads, Reconciles(t) PROVE Answering'
    <3>1. QuietTurn(t) /\ CountedStep(t)
      BY <2>6, ReconcilesTurn, ReconcilesCounted DEF Typed
    <3>2. Turn(t)
      BY <3>1, QuietTurns
    <3> QED BY <1>1, <2>1, <3>1, <3>2, MainAnswering
  <2> QED BY <1>1, <2>2, <2>3, <2>4, <2>5, <2>6, WorkerAnswering DEF Next
<1>2. CASE UNCHANGED vars
  BY <1>2 DEF vars, indexVars, scopeVars, bufferVars, Answering
<1> QED BY <1>1, <1>2

\* A request is answered under the locks of what its answer rests on, each taken
\* only if it agrees with what was captured: while it is answered the semantics are
\* current, the index has not changed, nor been invalidated, and no folder has been
\* added or removed, since they were captured, whatever notifications came between.
THEOREM AnswersAreUnmoved == Spec => []AnswersUnmoved
<1>1. Init => Typed /\ Answering
  BY InitTyped, InitAnswering
<1>2. (Typed /\ Answering) /\ [Next]_vars => (Typed /\ Answering)'
  BY NextTyped, NextAnswering
<1>3. ASSUME Typed, Answering PROVE AnswersUnmoved
  <2>1. SUFFICES ASSUME task["worker"].at = "answer"
                 PROVE  LET m == task["worker"]
                        IN  /\ "chain" \in Held("worker") => live[m.semantic.uri] = m.semantic
                            /\ "index" \in Held("worker") => "index" \notin moved
                            /\ "folders" \in Held("worker") => "scope" \notin moved
    BY DEF AnswersUnmoved, At
  <2>2. \A lock \in Held("worker") : \E i \in 1..task["worker"].taken : task["worker"].order[i] = lock
    BY <2>1 DEF Held
  <2> QED BY <1>3, <2>1, <2>2 DEF Answering
<1> QED BY <1>1, <1>2, <1>3, PTL DEF Spec

-----------------------------------------------------------------------------
(***************************************************************************)
(* Buffers have semantics, and the worker rescans.                         *)
(***************************************************************************)
LEMMA PairedSame ==
    ASSUME Paired, UNCHANGED <<buffer, live>>, task'["main"] = task["main"] \/ task["main"].at # "analyse"
    PROVE  Paired'
BY DEF Paired

LEMMA BuffersPaired ==
    ASSUME Typed, Paired, Buffers PROVE Paired'
<1> USE DEF Threads, Typed
<1> DEFINE m == task["main"]
<1>1. ASSUME NEW u \in Uris, OpenArrives(u) \/ \E kind \in {"change", "close"} : ChangeArrives(u, kind)
      PROVE  Paired'
  BY <1>1, IdleOK, PairedSame DEF OpenArrives, ChangeArrives, Notify, bufferVars
<1>2. CASE Drops \/ ReadsPrevious \/ Indexes \/ Unindexes \/ ReadsFile \/ Restores \/ Tracks
  BY <1>2, PairedSame DEF Drops, ReadsPrevious, Indexes, Unindexes, ReadsFile, Restores, Tracks, At, bufferVars
<1>3. CASE Edits
  <2>1. m.uri \in Uris /\ m.at = "edit" /\ m \in Tasks
    BY <1>3, MainUri DEF Edits, At, UriSteps, BufferSteps
  <2>2. task'["main"] = [m EXCEPT !.at = "analyse"]
    BY <1>3, GoesTo DEF Edits, TasksOK
  <2>3. task'["main"].at = "analyse" /\ task'["main"].uri = m.uri
    BY <2>1, <2>2 DEF Tasks
  <2>4. \A u \in Uris \ {m.uri} : buffer'[u] = buffer[u] /\ live'[u] = live[u]
    BY <1>3, <2>1 DEF Edits, StoresOK
  <2> QED BY <2>1, <2>3, <2>4 DEF Paired
<1>4. CASE Analyses
  <2>1. m.uri \in Uris /\ m.at = "analyse" /\ buffer[m.uri] # None
    BY <1>4, MainUri DEF Analyses, At, UriSteps, BufferSteps, MainOK
  <2>2. live'[m.uri] # None
    BY <1>4, <2>1, AnalysedTyped DEF Analyses, StoresOK
  <2>3. buffer' = buffer /\ \A u \in Uris \ {m.uri} : live'[u] = live[u]
    BY <1>4, <2>1 DEF Analyses, Analysed, StoresOK
  <2> QED BY <2>1, <2>2, <2>3 DEF Paired
<1>5. CASE Closes
  <2>1. m.uri \in Uris /\ m.at = "close"
    BY <1>5, MainUri DEF Closes, At, UriSteps, BufferSteps
  <2>2. buffer'[m.uri] = None /\ live'[m.uri] = None
    BY <1>5, <2>1 DEF Closes, StoresOK
  <2>3. \A u \in Uris \ {m.uri} : buffer'[u] = buffer[u] /\ live'[u] = live[u]
    BY <1>5, <2>1 DEF Closes, StoresOK
  <2> QED BY <2>1, <2>2, <2>3 DEF Paired
<1> QED BY <1>1, <1>2, <1>3, <1>4, <1>5 DEF Buffers

LEMMA FoldersPaired ==
    ASSUME Typed, Paired, Folders \/ FilesArrive PROVE Paired'
<1> USE DEF Threads, Typed
<1> DEFINE m == task["main"]
<1>1. CASE FoldersArrive \/ FilesArrive
  BY <1>1, IdleOK, PairedSame DEF FoldersArrive, FilesArrive, Notify, bufferVars
<1>2. CASE Applies \/ Invalidates \/ RemovesLeft \/ ListsEntered \/ Enters \/ Admits
  BY <1>2, PairedSame DEF Applies, Invalidates, RemovesLeft, ListsEntered, Enters, Admits, At, bufferVars
<1>3. CASE Leaves
  <2>1. m.at = "leave" /\ m.left \in SUBSET Snapshots
    BY <1>3 DEF Leaves, At, TasksOK, TaskOK, OverSnapshots
  <2>2. PICK s \in m.left : IF buffer[s.uri] # None THEN Analysed(s.uri) ELSE UNCHANGED bufferVars
    BY <1>3 DEF Leaves
  <2>3. CASE buffer[s.uri] = None
    BY <2>1, <2>2, <2>3, PairedSame DEF bufferVars
  <2>4. CASE buffer[s.uri] # None
    <3>1. s.uri \in Uris
      BY <2>1 DEF Snapshots
    <3>2. live'[s.uri] # None
      BY <1>3, <2>2, <2>4, <3>1, AnalysedTyped DEF Leaves, StoresOK
    <3>3. buffer' = buffer /\ \A u \in Uris \ {s.uri} : live'[u] = live[u]
      BY <2>2, <2>4, <3>1 DEF Analysed, StoresOK
    <3> QED BY <2>1, <2>4, <3>1, <3>2, <3>3 DEF Paired
  <2> QED BY <2>3, <2>4
<1> QED BY <1>1, <1>2, <1>3 DEF Folders

LEMMA ThreadsPaired ==
    ASSUME Typed, Paired, NEW t \in Threads, Reconciles(t) \/ Publishes(t) PROVE Paired'
<1>1. UNCHANGED <<buffer, live>>
  BY DEF Reconciles, ListsOpen, Scans, ListsTracked, Prunes, RemovesPruned, Untracks, StartsComparing,
     Compares, Replaces, TracksFound, Syncs, Publishes, Plans, Commits, Pushes, HasPushed, bufferVars
<1>2. task[t].at # "analyse"
  BY DEF Reconciles, ListsOpen, Scans, ListsTracked, Prunes, RemovesPruned, Untracks, StartsComparing,
     Compares, Replaces, TracksFound, Syncs, Publishes, Plans, Commits, Pushes, HasPushed, At
<1>3. Turn(t)
  BY ReconcilesTurn, PublishesTurn, QuietTurns DEF Typed
<1>4. task'["main"] = task["main"] \/ task["main"].at # "analyse"
  BY <1>2, <1>3 DEF Turn, Threads
<1> QED BY <1>1, <1>4, PairedSame

LEMMA NextPaired == ASSUME Typed, Paired, [Next]_vars PROVE Paired'
<1>1. CASE RescanArrives \/ Verifies \/ Responds
  <2>1. UNCHANGED <<buffer, live>>
    BY <1>1 DEF RescanArrives, Verifies, Responds, Arrives, CapturesWorkspace, CapturesFolders, Locks, Answers, bufferVars
  <2>2. task'["main"] = task["main"]
    BY <1>1, RequestsTurn DEF Typed, Turn, Threads
  <2> QED BY <2>1, <2>2, PairedSame
<1>2. CASE UNCHANGED vars
  BY <1>2, PairedSame DEF vars, bufferVars
<1> QED BY <1>1, <1>2, BuffersPaired, FoldersPaired, ThreadsPaired DEF Next

\* A thread keeps its operation through a rescan.
LEMMA ReconcilesOp ==
    ASSUME TasksOK, StoresOK, NEW t \in Threads, Reconciles(t)
    PROVE  task'[t].at \in {"plan", "idle"} \/ task'[t].op = task[t].op
<1>0. ASSUME NEW changed, task' = Synced(t, changed) PROVE task'[t].at \in {"plan", "idle"}
  <2>1. PICK n : task' = [task EXCEPT ![t] = n] /\ n.at \in {"plan", "idle"}
    BY <1>0, SyncedOK
  <2> QED BY <2>1, TurnsTo
<1>1. CASE ListsOpen(t)
  <2>1. CASE task' = [task EXCEPT ![t].left = {u \in Uris : buffer[u] # None}, ![t].at = "scan"]
    BY <2>1 DEF TasksOK, Tasks
  <2> QED BY <1>0, <1>1, <2>1 DEF ListsOpen
<1>2. CASE Scans(t) \/ ListsTracked(t) \/ Prunes(t) \/ RemovesPruned(t) \/ StartsComparing(t)
  <2>1. CASE Scans(t)
    BY <2>1 DEF Scans, TasksOK, Tasks
  <2>2. CASE ListsTracked(t)
    BY <2>2 DEF ListsTracked, TasksOK, Tasks
  <2>3. CASE Prunes(t)
    BY <2>3 DEF Prunes, TasksOK, Tasks
  <2>4. CASE RemovesPruned(t)
    BY <2>4 DEF RemovesPruned, TasksOK, Tasks
  <2>5. CASE StartsComparing(t)
    BY <2>5 DEF StartsComparing, TasksOK, Tasks
  <2> QED BY <1>2, <2>1, <2>2, <2>3, <2>4, <2>5
<1>3. CASE Untracks(t)
  BY <1>3 DEF Untracks, Finishes, Leaving, TasksOK, Tasks
<1>4. CASE Compares(t)
  <2>1. PICK u \in task[t].left :
        \/ task' = [task EXCEPT ![t] = [task[t] EXCEPT !.left = task[t].left \ {u}]]
        \/ task' = [task EXCEPT ![t] = [task[t] EXCEPT !.left = task[t].left \ {u}, !.uri = u,
                                                       !.expected = index[u], !.at = "replace"]]
    BY <1>4 DEF Compares
  <2> QED BY ZenonT(40), <2>1 DEF TasksOK, Tasks
<1>5. CASE Replaces(t)
  <2>1. Goes(t, "trackFound") \/ Finishes(t, "compare")
    BY <1>5 DEF Replaces
  <2> QED BY ZenonT(40), <2>1 DEF Goes, Finishes, Leaving, TasksOK, Tasks
<1>6. CASE TracksFound(t)
  BY <1>6 DEF TracksFound, Leaving, TasksOK, Tasks
<1>7. CASE Syncs(t)
  BY <1>0, <1>7 DEF Syncs
<1> QED BY <1>1, <1>2, <1>3, <1>4, <1>5, <1>6, <1>7 DEF Reconciles

\* Where the worker is when it has taken a step of a request.
LEMMA WorkerSteps ==
    ASSUME TasksOK, RescanArrives \/ Responds PROVE task'["worker"].at \in {"idle", "verify"} \cup AnswerSteps
<1> USE DEF Threads
<1>0. CASE RescanArrives
  <2>1. PICK s : task' = [task EXCEPT !["worker"] = [Idle EXCEPT !.at = "verify", !.expected = s]]
    BY <1>0 DEF RescanArrives
  <2> QED BY <2>1, IdleOK DEF TasksOK, Tasks
<1>1. CASE \E u \in Uris : Arrives(u)
  BY <1>1, IdleOK DEF Arrives, TasksOK, Tasks, AnswerSteps
<1>2. CASE CapturesWorkspace
  BY <1>2 DEF CapturesWorkspace, TasksOK, Tasks, AnswerSteps
<1>3. CASE CapturesFolders
  BY <1>3 DEF CapturesFolders, TasksOK, Tasks, AnswerSteps
<1>4. CASE Locks
  <2>1. PICK s \in {"answer", "lock"} :
          \/ task' = [task EXCEPT !["worker"] = Idle]
          \/ task' = [task EXCEPT !["worker"] = [task["worker"] EXCEPT !.taken = task["worker"].taken + 1, !.at = s]]
    BY <1>4 DEF Locks
  <2>2. CASE task' = [task EXCEPT !["worker"] = Idle]
    BY <2>2, IdleOK, TurnsTo
  <2>3. CASE task' = [task EXCEPT !["worker"] = [task["worker"] EXCEPT !.taken = task["worker"].taken + 1, !.at = s]]
    <3>1. task'["worker"] = [task["worker"] EXCEPT !.taken = task["worker"].taken + 1, !.at = s]
      BY <2>3, TurnsTo
    <3>2. task'["worker"].at = s
      BY <3>1 DEF TasksOK, Tasks
    <3> QED BY <3>2 DEF AnswerSteps
  <2> QED BY <2>1, <2>2, <2>3
<1>5. CASE Answers
  BY <1>5, IdleOK DEF Answers, TasksOK, Tasks
<1> QED BY <1>0, <1>1, <1>2, <1>3, <1>4, <1>5 DEF Responds

LEMMA NextRescans == ASSUME Typed, WorkerRescans, [Next]_vars PROVE WorkerRescans'
<1> USE DEF Threads
<1>1. CASE Buffers \/ Folders \/ FilesArrive
  <2>1. task'["worker"] = task["worker"]
    BY <1>1, BuffersTurn, FoldersTurn DEF Typed, QuietTurn
  <2> QED BY <2>1 DEF WorkerRescans
<1>2. CASE RescanArrives
  <2>1. PICK s : task' = [task EXCEPT !["worker"] = [Idle EXCEPT !.at = "verify", !.expected = s]]
    BY <1>2 DEF RescanArrives
  <2>2. task'["worker"].at = "verify"
    BY <2>1, IdleOK DEF Typed, TasksOK, Tasks
  <2> QED BY <2>2 DEF WorkerRescans, SyncSteps
<1>3. CASE Verifies
  <2>1. task' = [task EXCEPT !["worker"] = Idle]
        \/ task' = [task EXCEPT !["worker"] = [Idle EXCEPT !.op = "files", !.at = "list"]]
    BY <1>3 DEF Verifies
  <2>2. task'["worker"] \in {Idle, [Idle EXCEPT !.op = "files", !.at = "list"]}
    BY <2>1 DEF Typed, TasksOK
  <2>3. Idle.at = "idle" /\ [Idle EXCEPT !.op = "files", !.at = "list"].op = "files"
    BY IdleOK DEF Tasks
  <2> QED BY <2>2, <2>3 DEF WorkerRescans, SyncSteps
<1>4. CASE Responds
  <2>1. task'["worker"].at \in {"idle", "verify"} \cup AnswerSteps
    BY <1>4, WorkerSteps DEF Typed
  <2> QED BY <2>1 DEF WorkerRescans, SyncSteps, AnswerSteps
<1>5. ASSUME NEW t \in Threads, Reconciles(t) PROVE WorkerRescans'
  <2>1. CASE t = "main"
    <3>1. task'["worker"] = task["worker"]
      BY <1>5, <2>1, ReconcilesTurn DEF Typed, QuietTurn
    <3> QED BY <3>1 DEF WorkerRescans
  <2>2. CASE t = "worker"
    <3>1. task["worker"].at \in SyncSteps
      <4>1. task["worker"].at # "enter"
        BY DEF Typed, TasksOK, TaskOK, SyncSteps, PublishSteps, AnswerSteps
      <4> QED BY <1>5, <2>2, <4>1 DEF Reconciles, ListsOpen, Scans, ListsTracked, Prunes, RemovesPruned, Untracks,
           StartsComparing, Compares, Replaces, TracksFound, Syncs, At, SyncSteps
    <3> QED BY <1>5, <2>2, <3>1, ReconcilesOp DEF Typed, WorkerRescans, SyncSteps
  <2> QED BY <2>1, <2>2
<1>6. ASSUME NEW t \in Threads, Publishes(t) PROVE WorkerRescans'
  <2>1. task'[t].at \in {"commit", "push", "idle"}
    BY <1>6, IdleOK DEF Publishes, Plans, Commits, Pushes, HasPushed, At, Typed, TasksOK, Tasks
  <2>2. \A o \in Threads \ {t} : task'[o] = task[o]
    BY <1>6, PublishesTurn DEF Typed, Turn
  <2> QED BY <2>1, <2>2 DEF WorkerRescans, SyncSteps
<1>7. CASE UNCHANGED vars
  BY <1>7 DEF vars, WorkerRescans
<1> QED BY <1>1, <1>2, <1>3, <1>4, <1>5, <1>6, <1>7 DEF Next

-----------------------------------------------------------------------------
(***************************************************************************)
(* One thread at a time: its step leaves what it has found, or what its    *)
(* next step is going to right.                                            *)
(***************************************************************************)

\* What is known of a URI does not depend on the others.
LEMMA Elsewhere ==
    ASSUME NEW v, index'[v] = index[v], live'[v] = live[v], v \in closed' <=> v \in closed, v \in scope' <=> v \in scope
    PROVE  /\ Right(v)' <=> Right(v)
           /\ Stale(v)' <=> Stale(v)
           /\ FromBuffer(v)' <=> FromBuffer(v)
           /\ FromFile(v)' <=> FromFile(v)
           /\ Missing(v)' <=> Missing(v)
BY DEF Right, Stale, FromBuffer, FromFile, Missing

LEMMA BufferGood ==
    ASSUME NEW n, n = task'["main"], n.at \in BufferSteps, BufferStage(n)' PROVE Good("main")'
<1>1. n.at \notin FolderSteps \cup SyncSteps
  BY DEF BufferSteps, FolderSteps, SyncSteps
<1>2. BufferStage(task["main"])'
  BY DEF BufferStage
<1> QED BY <1>1, <1>2 DEF Good, Quiet, Stage

LEMMA FolderGood ==
    ASSUME NEW n, n = task'["main"], n.at \in FolderSteps, FolderStage(n)' PROVE Good("main")'
<1>1. n.at \notin BufferSteps \cup SyncSteps
  BY DEF BufferSteps, FolderSteps, SyncSteps
<1>2. FolderStage(task["main"])'
  BY DEF FolderStage
<1> QED BY <1>1, <1>2 DEF Good, Quiet, Stage

LEMMA SyncGood ==
    ASSUME NEW t, NEW n, n = task'[t], n.at \in SyncSteps, SyncStage(n)' PROVE Good(t)'
<1>1. n.at \notin BufferSteps \cup FolderSteps
  BY DEF BufferSteps, FolderSteps, SyncSteps
<1>2. SyncStage(task[t])'
  BY DEF SyncStage
<1> QED BY <1>1, <1>2 DEF Good, Quiet, Stage

LEMMA QuietGood ==
    ASSUME NEW t, task'[t].at \in {"idle", "plan"}, \A u \in Uris : Right(u)' PROVE Good(t)'
<1>1. task'[t].at \notin BufferSteps \cup FolderSteps \cup SyncSteps
  BY DEF BufferSteps, FolderSteps, SyncSteps
<1> QED BY <1>1 DEF Good, Quiet

LEMMA OpenArrivesGood ==
    ASSUME Typed, Paired, Good("main"), NEW u \in Uris, OpenArrives(u) PROVE Good("main")'
<1>1. \A v \in Uris : Right(v)
  BY IdleOK DEF Good, Quiet, OpenArrives, Notify, BufferSteps, FolderSteps, SyncSteps
<1>2. buffer[u] = None /\ live[u] = None
  BY IdleOK DEF OpenArrives, Notify, Paired
<1>3. /\ UNCHANGED <<index, live, buffer, scope>> /\ closed' = closed \ {u}
  BY DEF OpenArrives, indexVars, scopeVars, bufferVars
<1>4. \A v \in Uris \ {u} : Right(v)'
  BY <1>1, <1>3, Elsewhere
<1>5. PICK s \in {"drop", "read"} :
        /\ task' = [task EXCEPT !["main"] = [Idle EXCEPT !.op = "open", !.uri = u, !.expected = index[u], !.at = s]]
        /\ s = "read" => index[u] = None \/ u \notin closed
  BY DEF OpenArrives
<1>6. PICK n : n = task'["main"]
  OBVIOUS
<1>7. n.op = "open" /\ n.uri = u /\ n.expected = index[u] /\ n.at = s
  BY <1>5, <1>6, IdleOK DEF Typed, TasksOK, Tasks, Threads
<1>8. s = "read" => Right(u)'
  BY <1>1, <1>2, <1>3, <1>5 DEF Right, FromBuffer, FromFile, Missing
<1>9. BufferStage(n)'
  BY <1>2, <1>3, <1>4, <1>7, <1>8 DEF BufferStage, Untracked
<1> QED BY <1>6, <1>7, <1>9, BufferGood DEF BufferSteps

LEMMA ChangeArrivesGood ==
    ASSUME Typed, Paired, Good("main"), NEW u \in Uris, NEW kind \in {"change", "close"}, ChangeArrives(u, kind)
    PROVE  Good("main")'
<1>1. \A v \in Uris : Right(v)
  BY IdleOK DEF Good, Quiet, ChangeArrives, Notify, BufferSteps, FolderSteps, SyncSteps
<1>2. buffer[u] # None /\ live[u] # None
  BY IdleOK DEF ChangeArrives, Notify, Paired
<1>3. UNCHANGED <<index, live, buffer, scope, closed>>
  BY DEF ChangeArrives, indexVars, scopeVars, bufferVars
<1>4. \A v \in Uris : Right(v)'
  BY <1>1, <1>3, Elsewhere
<1>6. PICK n : n = task'["main"]
  OBVIOUS
<1>7. n.op = kind /\ n.uri = u /\ n.at = "read"
  BY <1>6, IdleOK DEF ChangeArrives, Typed, TasksOK, Tasks, Threads
<1>8. u \notin closed
  BY <1>1, <1>2 DEF Right, FromBuffer, FromFile, Missing
<1>9. BufferStage(n)'
  BY <1>2, <1>3, <1>4, <1>7, <1>8 DEF BufferStage
<1> QED BY <1>6, <1>7, <1>9, BufferGood DEF BufferSteps

\* What main finds at a step of the buffers.
LEMMA AtBuffer ==
    ASSUME Typed, Good("main"), task["main"].at \in BufferSteps
    PROVE  BufferStage(task["main"]) /\ task["main"].uri \in Uris /\ task["main"] \in Tasks
<1>1. task["main"].uri \in Uris /\ task["main"] \in Tasks
  BY MainUri DEF Typed, UriSteps
<1>2. ~Quiet("main")
  BY DEF Quiet
<1>3. Stage(task["main"])
  BY <1>2 DEF Good
<1> QED BY <1>1, <1>3 DEF Stage

LEMMA DropsGood ==
    ASSUME Typed, Paired, Good("main"), Drops PROVE Good("main")'
<1> DEFINE m == task["main"]
<1>0. PICK u : u = m.uri
  OBVIOUS
<1>1. m.at = "drop" /\ BufferStage(m) /\ u \in Uris /\ m \in Tasks
  BY <1>0, AtBuffer DEF Drops, At, BufferSteps
<1>2. m.op = "open" /\ Untracked(u) /\ index[u] = m.expected /\ \A v \in Uris \ {u} : Right(v)
  BY <1>0, <1>1 DEF BufferStage
<1>3. UNCHANGED <<live, buffer, scope, closed>> /\ index' = [index EXCEPT ![u] = None]
  BY <1>0, <1>2 DEF Drops, Attempts, Refuses, Remove, scopeVars, bufferVars
<1>4. \A v \in Uris \ {u} : Right(v)'
  BY <1>2, <1>3, Elsewhere DEF Typed, StoresOK, WorkspaceTypeOK
<1>5. Right(u)' /\ Untracked(u)'
  BY <1>1, <1>2, <1>3 DEF Right, Missing, Untracked, Typed, StoresOK, WorkspaceTypeOK
<1>6. PICK n : n = task'["main"]
  OBVIOUS
<1>7. n.op = "open" /\ n.uri = u /\ n.at = "read"
  BY <1>0, <1>1, <1>2, <1>6 DEF Drops, Goes, Typed, TasksOK, Tasks, Threads
<1>8. BufferStage(n)'
  BY <1>4, <1>5, <1>7 DEF BufferStage, Untracked
<1> QED BY <1>6, <1>7, <1>8, BufferGood DEF BufferSteps

LEMMA ReadsPreviousGood ==
    ASSUME Typed, Paired, Good("main"), ReadsPrevious PROVE Good("main")'
<1> DEFINE m == task["main"]
<1>0. PICK u : u = m.uri
  OBVIOUS
<1>1. m.at = "read" /\ BufferStage(m) /\ u \in Uris /\ m \in Tasks
  BY <1>0, AtBuffer DEF ReadsPrevious, At, BufferSteps
<1>2. m.op \in {"open", "change", "close"} /\ Right(u) /\ u \notin closed /\ \A v \in Uris \ {u} : Right(v)
  BY <1>0, <1>1 DEF BufferStage
<1>3. UNCHANGED <<live, buffer, scope, closed, index>>
  BY DEF ReadsPrevious, scopeVars, bufferVars, indexVars
<1>4. \A v \in Uris \ {u} : Right(v)'
  BY <1>2, <1>3, Elsewhere
<1>5. PICK s \in {"edit", "close"} : task' = [task EXCEPT !["main"].expected = index[u], !["main"].at = s]
  BY <1>0 DEF ReadsPrevious
<1>6. PICK n : n = task'["main"]
  OBVIOUS
<1>7. n.op = m.op /\ n.uri = u /\ n.at = s /\ n.expected = index[u]
  BY <1>0, <1>1, <1>5, <1>6 DEF Typed, TasksOK, Tasks, Threads
<1>8. Known(u, n.expected)'
  BY <1>2, <1>3, <1>7 DEF Known, Right, Missing
<1>9. BufferStage(n)'
  BY <1>2, <1>4, <1>7, <1>8 DEF BufferStage
<1> QED BY <1>6, <1>7, <1>9, BufferGood DEF BufferSteps

LEMMA EditsGood ==
    ASSUME Typed, Paired, Good("main"), Edits PROVE Good("main")'
<1> DEFINE m == task["main"]
<1>0. PICK u : u = m.uri
  OBVIOUS
<1>1. m.at = "edit" /\ BufferStage(m) /\ u \in Uris /\ m \in Tasks
  BY <1>0, AtBuffer DEF Edits, At, BufferSteps
<1>2. m.op \in {"open", "change", "close"} /\ Known(u, m.expected) /\ \A v \in Uris \ {u} : Right(v)
  BY <1>0, <1>1 DEF BufferStage
<1>3. UNCHANGED <<scope, closed, index>> /\ live' = [live EXCEPT ![u] = None]
  BY <1>0 DEF Edits, scopeVars, indexVars
<1>4. \A v \in Uris \ {u} : Right(v)'
  BY <1>2, <1>3, Elsewhere DEF Typed, StoresOK
<1>6. PICK n : n = task'["main"]
  OBVIOUS
<1>7. n.op = m.op /\ n.uri = u /\ n.at = "analyse" /\ n.expected = m.expected
  BY <1>0, <1>1, <1>6 DEF Edits, Goes, Typed, TasksOK, Tasks, Threads
<1>8. Known(u, n.expected)'
  BY <1>2, <1>3, <1>7 DEF Known
<1>9. BufferStage(n)'
  BY <1>2, <1>4, <1>7, <1>8 DEF BufferStage
<1> QED BY <1>6, <1>7, <1>9, BufferGood DEF BufferSteps

LEMMA AnalysesGood ==
    ASSUME Typed, Paired, Good("main"), Analyses PROVE Good("main")'
<1> DEFINE m == task["main"]
<1>0. PICK u : u = m.uri
  OBVIOUS
<1>1. m.at = "analyse" /\ BufferStage(m) /\ u \in Uris /\ m \in Tasks
  BY <1>0, AtBuffer DEF Analyses, At, BufferSteps
<1>2. m.op \in {"open", "change", "close"} /\ Known(u, m.expected) /\ \A v \in Uris \ {u} : Right(v)
  BY <1>0, <1>1 DEF BufferStage
<1>3. UNCHANGED <<scope, closed, index>> /\ live' = [live EXCEPT ![u] = Fresh(u, buffer[u])]
  BY <1>0 DEF Analyses, Analysed, scopeVars, indexVars
<1>4. \A v \in Uris \ {u} : Right(v)'
  BY <1>2, <1>3, Elsewhere DEF Typed, StoresOK
<1>6. PICK n : n = task'["main"]
  OBVIOUS
<1>7. n.op = m.op /\ n.uri = u /\ n.at = "index" /\ n.expected = m.expected
  BY <1>0, <1>1, <1>6 DEF Analyses, Goes, Typed, TasksOK, Tasks, Threads
<1>8. Known(u, n.expected)'
  BY <1>2, <1>3, <1>7 DEF Known
<1>9. BufferStage(n)'
  BY <1>2, <1>4, <1>7, <1>8 DEF BufferStage
<1> QED BY <1>6, <1>7, <1>9, BufferGood DEF BufferSteps

LEMMA IndexesGood ==
    ASSUME Typed, Paired, Good("main"), Indexes PROVE Good("main")'
<1> DEFINE m == task["main"]
<1>0. PICK u : u = m.uri
  OBVIOUS
<1>1. m.at = "index" /\ BufferStage(m) /\ u \in Uris /\ m \in Tasks /\ live[u] # None
  BY <1>0, AtBuffer DEF Indexes, At, BufferSteps, Typed, MainOK
<1>2. Known(u, m.expected) /\ \A v \in Uris \ {u} : Right(v)
  BY <1>0, <1>1 DEF BufferStage
<1>3. UNCHANGED <<scope, closed, live>> /\ live[u].uri = u
  BY <1>1 DEF Indexes, scopeVars, bufferVars, Typed, StoresOK
<1>4. index' = IF u \in scope THEN [index EXCEPT ![u] = live[u]] ELSE index
  BY <1>0, <1>2, <1>3 DEF Indexes, Attempts, Refuses, Replace, Known, indexVars
<1>5. \A v \in Uris \ {u} : Right(v)'
  BY <1>2, <1>3, <1>4, Elsewhere DEF Typed, StoresOK, WorkspaceTypeOK
<1>6. Right(u)'
  BY <1>1, <1>2, <1>3, <1>4 DEF Known, Right, FromBuffer, Missing, Typed, StoresOK, WorkspaceTypeOK
<1>7. task' = [task EXCEPT !["main"] = Idle] \/ Finishes("main", "plan")
  BY DEF Indexes, Finishes
<1>8. task'["main"].at \in {"idle", "plan"}
  BY <1>7, FinishesAt, TurnsTo, IdleOK DEF Typed, Threads
<1> QED BY <1>5, <1>6, <1>8, QuietGood

LEMMA ClosesGood ==
    ASSUME Typed, Paired, Good("main"), Closes PROVE Good("main")'
<1> DEFINE m == task["main"]
<1>0. PICK u : u = m.uri
  OBVIOUS
<1>1. m.at = "close" /\ BufferStage(m) /\ u \in Uris /\ m \in Tasks
  BY <1>0, AtBuffer DEF Closes, At, BufferSteps
<1>2. m.op \in {"open", "change", "close"} /\ Known(u, m.expected) /\ \A v \in Uris \ {u} : Right(v)
  BY <1>0, <1>1 DEF BufferStage
<1>3. UNCHANGED <<scope, closed, index>> /\ live' = [live EXCEPT ![u] = None] /\ buffer' = [buffer EXCEPT ![u] = None]
  BY <1>0 DEF Closes, scopeVars, indexVars
<1>4. \A v \in Uris \ {u} : Right(v)'
  BY <1>2, <1>3, Elsewhere DEF Typed, StoresOK
<1>5. Untracked(u)' /\ (m.expected = None => Right(u)' /\ index'[u] = None)
  BY <1>1, <1>2, <1>3 DEF Known, Untracked, Right, Missing, Typed, StoresOK
<1>6. PICK n : n = task'["main"]
  OBVIOUS
<1>7. /\ n.op = m.op /\ n.uri = u /\ n.expected = m.expected
      /\ n.at = IF m.expected = None THEN "restore" ELSE "unindex"
  BY <1>0, <1>1, <1>6 DEF Closes, Goes, Typed, TasksOK, Tasks, Threads
<1>8. Known(u, n.expected)'
  BY <1>2, <1>3, <1>7 DEF Known
<1>9. BufferStage(n)'
  BY <1>2, <1>4, <1>5, <1>7, <1>8 DEF BufferStage
<1>10. n.at \in BufferSteps
  BY <1>7 DEF BufferSteps
<1> QED BY <1>6, <1>9, <1>10, BufferGood

LEMMA UnindexesGood ==
    ASSUME Typed, Paired, Good("main"), Unindexes PROVE Good("main")'
<1> DEFINE m == task["main"]
<1>0. PICK u : u = m.uri
  OBVIOUS
<1>1. m.at = "unindex" /\ BufferStage(m) /\ u \in Uris /\ m \in Tasks
  BY <1>0, AtBuffer DEF Unindexes, At, BufferSteps
<1>2. m.op \in {"open", "change", "close"} /\ Known(u, m.expected) /\ Untracked(u) /\ \A v \in Uris \ {u} : Right(v)
  BY <1>0, <1>1 DEF BufferStage
<1>3. UNCHANGED <<live, buffer, scope, closed>> /\ index' = [index EXCEPT ![u] = None]
  BY <1>0, <1>2 DEF Unindexes, Attempts, Refuses, Remove, Known, scopeVars, bufferVars
<1>4. \A v \in Uris \ {u} : Right(v)'
  BY <1>2, <1>3, Elsewhere DEF Typed, StoresOK, WorkspaceTypeOK
<1>5. Right(u)' /\ Untracked(u)' /\ index'[u] = None
  BY <1>1, <1>2, <1>3 DEF Right, Missing, Untracked, Typed, StoresOK, WorkspaceTypeOK
<1>6. PICK n : n = task'["main"]
  OBVIOUS
<1>7. n.op = m.op /\ n.uri = u /\ n.at = "restore"
  BY <1>0, <1>1, <1>6 DEF Unindexes, Goes, Typed, TasksOK, Tasks, Threads
<1>8. BufferStage(n)'
  BY <1>2, <1>4, <1>5, <1>7 DEF BufferStage
<1> QED BY <1>6, <1>7, <1>8, BufferGood DEF BufferSteps

LEMMA ReadsFileGood ==
    ASSUME Typed, Paired, Good("main"), ReadsFile PROVE Good("main")'
<1> DEFINE m == task["main"]
<1>0. PICK u : u = m.uri
  OBVIOUS
<1>1. m.at = "restore" /\ BufferStage(m) /\ u \in Uris /\ m \in Tasks
  BY <1>0, AtBuffer DEF ReadsFile, At, BufferSteps
<1>2. /\ m.op \in {"open", "change", "close"} /\ Untracked(u) /\ index[u] = None
      /\ Right(u) /\ \A v \in Uris \ {u} : Right(v)
  BY <1>0, <1>1 DEF BufferStage
<1>3. UNCHANGED <<live, buffer, scope, closed, index>>
  BY DEF ReadsFile, scopeVars, bufferVars, indexVars
<1>4. \A v \in Uris : Right(v)'
  BY <1>2, <1>3, Elsewhere
<1>5. CASE Finishes("main", "plan")
  BY <1>4, <1>5, FinishesAt, QuietGood DEF Typed, Threads
<1>6. CASE u \in scope /\ task' = [task EXCEPT !["main"].expected = index[u], !["main"].at = "restored"]
  <2>1. PICK n : n = task'["main"]
    OBVIOUS
  <2>2. n.op = m.op /\ n.uri = u /\ n.at = "restored" /\ n.expected = None
    BY <1>0, <1>1, <1>2, <1>6, <2>1 DEF Typed, TasksOK, Tasks, Threads
  <2>3. BufferStage(n)'
    BY <1>2, <1>3, <1>4, <1>6, <2>2 DEF BufferStage, Untracked
  <2> QED BY <2>1, <2>2, <2>3, BufferGood DEF BufferSteps
<1> QED BY <1>0, <1>5, <1>6 DEF ReadsFile

LEMMA RestoresGood ==
    ASSUME Typed, Paired, Good("main"), Restores PROVE Good("main")'
<1> DEFINE m == task["main"]
<1>0. PICK u : u = m.uri
  OBVIOUS
<1>1. m.at = "restored" /\ BufferStage(m) /\ u \in Uris /\ m \in Tasks
  BY <1>0, AtBuffer DEF Restores, At, BufferSteps
<1>2. /\ m.op \in {"open", "change", "close"} /\ Untracked(u) /\ u \in scope /\ m.expected = None
      /\ \A v \in Uris \ {u} : Right(v)
  BY <1>0, <1>1 DEF BufferStage
<1>3. Fresh(u, 0) # None /\ Fresh(u, 0).uri = u /\ Fresh(u, 0).doc = 0
  BY <1>1, FreshFacts, SessionAssumption DEF Restores, Typed, StoresOK
<1>4. /\ UNCHANGED <<live, buffer, scope, closed>> /\ index' = [index EXCEPT ![u] = Fresh(u, 0)]
      /\ Goes("main", "track")
  BY <1>0, <1>2, <1>3 DEF Restores, Attempts, Refuses, Replace, scopeVars
<1>5. \A v \in Uris \ {u} : Right(v)'
  BY <1>2, <1>4, Elsewhere DEF Typed, StoresOK, WorkspaceTypeOK
<1>6. PICK n : n = task'["main"]
  OBVIOUS
<1>7. n.op = m.op /\ n.uri = u /\ n.at = "track"
  BY <1>0, <1>1, <1>4, <1>6 DEF Goes, Typed, TasksOK, Tasks, Threads
<1>8. u \in scope' /\ Untracked(u)' /\ index'[u] # None /\ Detached(index'[u])
  BY <1>1, <1>2, <1>3, <1>4 DEF Untracked, Detached, Typed, StoresOK, WorkspaceTypeOK
<1>9. BufferStage(n)'
  BY <1>2, <1>5, <1>7, <1>8 DEF BufferStage, Detached
<1> QED BY <1>6, <1>7, <1>9, BufferGood DEF BufferSteps

LEMMA TracksGood ==
    ASSUME Typed, Paired, Good("main"), Tracks PROVE Good("main")'
<1> DEFINE m == task["main"]
<1>0. PICK u : u = m.uri
  OBVIOUS
<1>1. m.at = "track" /\ BufferStage(m) /\ u \in Uris /\ m \in Tasks
  BY <1>0, AtBuffer DEF Tracks, At, BufferSteps
<1>2. u \in scope /\ Untracked(u) /\ index[u] # None /\ Detached(index[u]) /\ \A v \in Uris \ {u} : Right(v)
  BY <1>0, <1>1 DEF BufferStage
<1>3. UNCHANGED <<live, buffer, scope, index>> /\ closed' = closed \cup {u}
  BY <1>0 DEF Tracks, scopeVars, bufferVars, indexVars
<1>4. \A v \in Uris \ {u} : Right(v)'
  BY <1>2, <1>3, Elsewhere
<1>5. Right(u)'
  BY <1>2, <1>3 DEF Right, FromFile, Untracked, Detached
<1>6. task'["main"].at = "plan"
  BY FinishesAt DEF Tracks, Typed, Threads
<1> QED BY <1>4, <1>5, <1>6, QuietGood

LEMMA BuffersGood ==
    ASSUME Typed, Paired, Good("main"), Buffers PROVE Good("main")'
BY OpenArrivesGood, ChangeArrivesGood, DropsGood, ReadsPreviousGood, EditsGood, AnalysesGood, IndexesGood,
   ClosesGood, UnindexesGood, ReadsFileGood, RestoresGood, TracksGood DEF Buffers

LEMMA FoldersArriveGood ==
    ASSUME Typed, Paired, Good("main"), FoldersArrive PROVE Good("main")'
<1>1. \A v \in Uris : Right(v)
  BY IdleOK DEF Good, Quiet, FoldersArrive, Notify, BufferSteps, FolderSteps, SyncSteps
<1>2. UNCHANGED <<index, live, buffer, scope, closed>>
  BY DEF FoldersArrive, indexVars, scopeVars, bufferVars
<1>3. \A v \in Uris : Right(v)'
  BY <1>1, <1>2, Elsewhere
<1>4. PICK n : n = task'["main"]
  OBVIOUS
<1>5. n.op = "folders" /\ n.at = "apply" /\ n.capture = Capture
  BY <1>4, IdleOK DEF FoldersArrive, Typed, TasksOK, Tasks, Threads
<1>6. n.capture.snapshots = Indexed'
  BY <1>2, <1>5 DEF Capture, Indexed
<1>7. FolderStage(n)'
  BY <1>3, <1>5, <1>6 DEF FolderStage
<1> QED BY <1>4, <1>5, <1>7, FolderGood DEF FolderSteps

\* What main finds at a step of the folders.
LEMMA AtFolders ==
    ASSUME Typed, Good("main"), task["main"].at \in FolderSteps
    PROVE  FolderStage(task["main"]) /\ task["main"] \in Tasks /\ TaskOK("main", task["main"])
<1>1. task["main"] \in Tasks /\ TaskOK("main", task["main"])
  BY DEF Typed, TasksOK, Threads
<1>2. ~Quiet("main")
  BY DEF Quiet
<1>3. Stage(task["main"])
  BY <1>2 DEF Good
<1> QED BY <1>1, <1>3 DEF Stage

LEMMA AppliesGood ==
    ASSUME Typed, Paired, Good("main"), Applies PROVE Good("main")'
<1> DEFINE m == task["main"]
<1>1. m.at = "apply" /\ FolderStage(m) /\ m \in Tasks
  BY AtFolders DEF Applies, At, FolderSteps
<1>2. m.op = "folders" /\ m.capture.snapshots = Indexed /\ \A v \in Uris : Right(v)
  BY <1>1 DEF FolderStage
<1>3. UNCHANGED <<index, live, closed>>
  BY DEF Applies, indexVars, bufferVars
<1>4. \A v \in Uris : FromBuffer(v)' \/ FromFile(v)' \/ Missing(v)'
  BY <1>2, <1>3 DEF Right, FromBuffer, FromFile, Missing
<1>5. PICK n : n = task'["main"]
  OBVIOUS
<1>6. n.op = "folders" /\ n.at = "invalidate" /\ n.capture = m.capture
  BY <1>1, <1>2, <1>5 DEF Applies, Goes, Typed, TasksOK, Tasks, Threads
<1>7. n.capture.snapshots = Indexed'
  BY <1>2, <1>3, <1>6 DEF Indexed
<1>8. FolderStage(n)'
  BY <1>4, <1>6, <1>7 DEF FolderStage
<1> QED BY <1>5, <1>6, <1>8, FolderGood DEF FolderSteps

LEMMA InvalidatesGood ==
    ASSUME Typed, Paired, Good("main"), Invalidates PROVE Good("main")'
<1> DEFINE m == task["main"]
<1>1. m.at = "invalidate" /\ FolderStage(m) /\ m \in Tasks
  BY AtFolders DEF Invalidates, At, FolderSteps
<1>2. m.capture.snapshots = Indexed /\ \A v \in Uris : FromBuffer(v) \/ FromFile(v) \/ Missing(v)
  BY <1>1 DEF FolderStage
<1>3. UNCHANGED <<index, live, closed, scope>>
  BY DEF Invalidates, Invalidate, scopeVars, bufferVars
<1>4. \A v \in Uris : FromBuffer(v)' \/ FromFile(v)' \/ Missing(v)'
  BY <1>2, <1>3, Elsewhere
<1>5. PICK n : n = task'["main"]
  OBVIOUS
<1>6. n.op = "folders" /\ n.at = "leave" /\ n.left = {s \in Indexed : s.uri \notin scope}
  BY <1>2, <1>5, IdleOK DEF Invalidates, Typed, TasksOK, Tasks, Threads
<1>7. /\ \A s \in n.left : s.uri \in Uris \ scope /\ index[s.uri] = s
      /\ \A u \in Uris \ scope : index[u] = None \/ index[u] \in n.left
  <2>1. \A s \in Indexed : s.uri \in Uris /\ index[s.uri] = s
    BY IndexedFacts, StoresIndexOK DEF Typed
  <2>2. \A u \in Uris : index[u] # None => index[u] \in Indexed /\ index[u].uri = u
    BY IndexedFacts, StoresIndexOK DEF Typed, IndexOK
  <2> QED BY <1>6, <2>1, <2>2
<1>8. FolderStage(n)'
  BY <1>3, <1>4, <1>6, <1>7 DEF FolderStage
<1> QED BY <1>5, <1>6, <1>8, FolderGood DEF FolderSteps

LEMMA LeavesGood ==
    ASSUME Typed, Paired, Good("main"), Leaves PROVE Good("main")'
<1> DEFINE m == task["main"]
<1>1. m.at = "leave" /\ FolderStage(m) /\ m \in Tasks
  BY AtFolders DEF Leaves, At, FolderSteps
<1>2. /\ m.op = "folders"
      /\ \A v \in Uris : FromBuffer(v) \/ FromFile(v) \/ Missing(v)
      /\ \A s \in m.left : s.uri \in Uris \ scope /\ index[s.uri] = s
      /\ \A v \in Uris \ scope : index[v] = None \/ index[v] \in m.left
  BY <1>1 DEF FolderStage
<1>3. PICK s \in m.left :
        /\ task' = [task EXCEPT !["main"] = [m EXCEPT !.expected = s, !.uri = s.uri,
                                                      !.left = m.left \ {s}, !.at = "removeLeft"]]
        /\ IF buffer[s.uri] # None THEN Analysed(s.uri) ELSE UNCHANGED bufferVars
  BY DEF Leaves
<1>4. PICK u : u = s.uri
  OBVIOUS
<1>5. u \in Uris \ scope /\ index[u] = s /\ s # None
  BY <1>1, <1>2, <1>3, <1>4, NoneAssumption DEF Typed, TasksOK, TaskOK, OverSnapshots, Threads
<1>6. PICK n : n = task'["main"]
  OBVIOUS
<1>7. n.op = "folders" /\ n.at = "removeLeft" /\ n.uri = u /\ n.expected = s /\ n.left = m.left \ {s}
  BY <1>1, <1>2, <1>3, <1>4, <1>6 DEF Typed, TasksOK, Tasks, Threads
<1>8. UNCHANGED <<index, scope, closed>> /\ \A v \in Uris \ {u} : live'[v] = live[v]
  <2>1. UNCHANGED <<index, scope, closed>>
    BY DEF Leaves, indexVars, scopeVars
  <2>2. live' = live \/ live' = [live EXCEPT ![u] = Fresh(u, buffer[u])]
    BY <1>3, <1>4 DEF Analysed, bufferVars
  <2> QED BY <2>1, <2>2 DEF Typed, StoresOK
<1>9. \A v \in Uris \ {u} : FromBuffer(v)' \/ FromFile(v)' \/ Missing(v)'
  BY <1>2, <1>8, Elsewhere
<1>10. live'[u] # None => u \notin closed'
  <2>1. CASE buffer[u] = None
    <3>1. live[u] = None /\ live' = live
      BY <1>1, <1>3, <1>4, <1>5, <2>1 DEF Paired, bufferVars
    <3> QED BY <3>1
  <2>2. CASE buffer[u] # None
    <3>1. live[u] # None
      BY <1>1, <1>5, <2>2 DEF Paired
    <3>2. FromBuffer(u)
      BY <1>2, <1>5, <3>1 DEF FromFile, Missing
    <3> QED BY <1>8, <3>2 DEF FromBuffer
  <2> QED BY <2>1, <2>2
<1>11. \A v \in Uris \ scope : v = u \/ index[v] = None \/ index[v] \in n.left
  <2> SUFFICES ASSUME NEW v \in Uris \ scope, v # u, index[v] # None PROVE index[v] \in n.left
    OBVIOUS
  <2>1. index[v] \in m.left /\ index[v].uri = v
    BY <1>2 DEF Typed, StoresOK, WorkspaceTypeOK
  <2>2. index[v] # s
    BY <1>4, <2>1
  <2> QED BY <1>7, <2>1, <2>2
<1>12. \A r \in n.left : r.uri \in Uris \ scope /\ index[r.uri] = r
  BY <1>2, <1>7
<1>13. FolderStage(n)'
  BY <1>5, <1>7, <1>8, <1>9, <1>10, <1>11, <1>12 DEF FolderStage
<1> QED BY <1>6, <1>7, <1>13, FolderGood DEF FolderSteps

LEMMA RemovesLeftGood ==
    ASSUME Typed, Paired, Good("main"), RemovesLeft PROVE Good("main")'
<1> DEFINE m == task["main"]
<1>0. PICK u : u = m.uri
  OBVIOUS
<1>1. m.at = "removeLeft" /\ FolderStage(m) /\ m \in Tasks /\ u \in Uris
  BY <1>0, AtFolders DEF RemovesLeft, At, FolderSteps, TaskOK, UriSteps
<1>2. /\ m.op = "folders"
      /\ \A v \in Uris \ {u} : FromBuffer(v) \/ FromFile(v) \/ Missing(v)
      /\ \A s \in m.left : s.uri \in Uris \ scope /\ index[s.uri] = s
      /\ u \notin scope /\ index[u] = m.expected /\ m.expected \notin m.left
      /\ live[u] # None => u \notin closed
      /\ \A v \in Uris \ scope : v = u \/ index[v] = None \/ index[v] \in m.left
  BY <1>0, <1>1 DEF FolderStage
<1>3. UNCHANGED <<live, buffer, scope, closed>> /\ index' = [index EXCEPT ![u] = None]
  BY <1>0, <1>2 DEF RemovesLeft, Attempts, Refuses, Remove, scopeVars, bufferVars
<1>4. index'[u] = None /\ \A v \in Uris \ {u} : index'[v] = index[v]
  BY <1>1, <1>3 DEF Typed, StoresOK, WorkspaceTypeOK
<1>5. \A v \in Uris : FromBuffer(v)' \/ FromFile(v)' \/ Missing(v)'
  <2>1. \A v \in Uris \ {u} : FromBuffer(v)' \/ FromFile(v)' \/ Missing(v)'
    BY <1>2, <1>3, <1>4, Elsewhere
  <2>2. Missing(u)'
    BY <1>2, <1>3, <1>4 DEF Missing
  <2> QED BY <2>1, <2>2
<1>6. PICK n : n = task'["main"]
  OBVIOUS
<1>7. n.op = "folders" /\ n.at = "leave" /\ n.left = m.left
  BY <1>1, <1>2, <1>6 DEF RemovesLeft, Finishes, Leaving, Typed, TasksOK, Tasks, Threads
<1>8. \A s \in n.left : s.uri \in Uris \ scope /\ index'[s.uri] = s
  <2> SUFFICES ASSUME NEW s \in m.left PROVE s.uri \in Uris \ scope /\ index'[s.uri] = s
    BY <1>7
  <2>1. s.uri # u
    BY <1>2
  <2> QED BY <1>2, <1>4, <2>1
<1>9. \A v \in Uris \ scope : index'[v] = None \/ index'[v] \in n.left
  BY <1>2, <1>4, <1>7
<1>10. FolderStage(n)'
  BY <1>3, <1>5, <1>7, <1>8, <1>9 DEF FolderStage
<1> QED BY <1>6, <1>7, <1>10, FolderGood DEF FolderSteps

LEMMA ListsEnteredGood ==
    ASSUME Typed, Paired, Good("main"), ListsEntered PROVE Good("main")'
<1> DEFINE m == task["main"]
<1>1. m.at = "leave" /\ FolderStage(m) /\ m \in Tasks /\ m.left = {}
  BY AtFolders DEF ListsEntered, At, FolderSteps
<1>2. /\ m.op = "folders"
      /\ \A v \in Uris : FromBuffer(v) \/ FromFile(v) \/ Missing(v)
      /\ \A v \in Uris \ scope : index[v] = None
  BY <1>1 DEF FolderStage
<1>3. UNCHANGED <<live, buffer, scope, closed, index>>
  BY DEF ListsEntered, scopeVars, bufferVars, indexVars
<1>4. \A v \in Uris : FromBuffer(v)' \/ FromFile(v)' \/ Missing(v)'
  BY <1>2, <1>3, Elsewhere
<1>5. PICK n : n = task'["main"]
  OBVIOUS
<1>6. n.op = "folders" /\ n.at = "enter" /\ n.left = {v \in scope : buffer[v] # None}
  BY <1>1, <1>2, <1>5 DEF ListsEntered, Typed, TasksOK, Tasks, Threads
<1>7. n.left \subseteq scope /\ \A v \in scope : live[v] # None => v \in n.left
  BY <1>1, <1>6 DEF Paired, Typed, StoresOK, WorkspaceTypeOK
<1>8. FolderStage(n)'
  BY <1>2, <1>3, <1>4, <1>6, <1>7 DEF FolderStage
<1> QED BY <1>5, <1>6, <1>8, FolderGood DEF FolderSteps

LEMMA EntersGood ==
    ASSUME Typed, Paired, Good("main"), Enters PROVE Good("main")'
<1> DEFINE m == task["main"]
<1>1. m.at = "enter" /\ FolderStage(m) /\ m \in Tasks
  BY AtFolders DEF Enters, At, FolderSteps
<1>2. /\ m.op = "folders"
      /\ \A v \in Uris : FromBuffer(v) \/ FromFile(v) \/ Missing(v)
      /\ m.left \subseteq scope
      /\ \A v \in Uris \ scope : index[v] = None
      /\ \A v \in scope : live[v] # None /\ index[v] = None => v \in m.left
  BY <1>1 DEF FolderStage
<1>3. UNCHANGED <<live, buffer, scope, closed, index>>
  BY DEF Enters, scopeVars, bufferVars, indexVars
<1>4. \A v \in Uris : FromBuffer(v)' \/ FromFile(v)' \/ Missing(v)'
  BY <1>2, <1>3, Elsewhere
<1>5. PICK u \in m.left :
        task' = [task EXCEPT !["main"] =
           IF live[u] = None \/ index[u] = live[u] THEN [m EXCEPT !.left = m.left \ {u}]
           ELSE [m EXCEPT !.left = m.left \ {u}, !.uri = u, !.expected = index[u], !.at = "admit"]]
  BY DEF Enters
<1>6. PICK n : n = task'["main"]
  OBVIOUS
<1>7. CASE live[u] = None \/ index[u] = live[u]
  <2>1. n.op = "folders" /\ n.at = "enter" /\ n.left = m.left \ {u}
    BY <1>1, <1>2, <1>5, <1>6, <1>7 DEF Typed, TasksOK, Tasks, Threads
  <2>2. \A v \in scope : live[v] # None /\ index[v] = None => v \in n.left
    BY <1>2, <1>7, <2>1
  <2>3. FolderStage(n)'
    BY <1>2, <1>3, <1>4, <2>1, <2>2 DEF FolderStage
  <2> QED BY <1>6, <2>1, <2>3, FolderGood DEF FolderSteps
<1>8. CASE ~(live[u] = None \/ index[u] = live[u])
  <2>1. n.op = "folders" /\ n.at = "admit" /\ n.left = m.left \ {u} /\ n.uri = u /\ n.expected = index[u]
    BY <1>1, <1>2, <1>5, <1>6, <1>8 DEF Typed, TasksOK, Tasks, Threads
  <2>2. index[u] = None /\ u \in scope
    BY <1>2, <1>8 DEF FromBuffer, FromFile, Missing, Typed, StoresOK, WorkspaceTypeOK
  <2>3. \A v \in scope : live[v] # None /\ index[v] = None => v \in n.left \/ v = n.uri
    BY <1>2, <2>1
  <2>4. FolderStage(n)'
    BY <1>2, <1>3, <1>4, <2>1, <2>2, <2>3 DEF FolderStage
  <2> QED BY <1>6, <2>1, <2>4, FolderGood DEF FolderSteps
<1> QED BY <1>7, <1>8

LEMMA AdmitsGood ==
    ASSUME Typed, Paired, Good("main"), Admits PROVE Good("main")'
<1> DEFINE m == task["main"]
<1>0. PICK u : u = m.uri
  OBVIOUS
<1>1. m.at = "admit" /\ FolderStage(m) /\ m \in Tasks /\ u \in Uris /\ live[u] # None
  BY <1>0, AtFolders DEF Admits, At, FolderSteps, TaskOK, UriSteps, Typed, MainOK
<1>2. /\ m.op = "folders"
      /\ \A v \in Uris : FromBuffer(v) \/ FromFile(v) \/ Missing(v)
      /\ m.left \subseteq scope
      /\ \A v \in Uris \ scope : index[v] = None
      /\ \A v \in scope : live[v] # None /\ index[v] = None => v \in m.left \/ v = u
      /\ u \in scope /\ index[u] = None /\ m.expected = None
  BY <1>0, <1>1 DEF FolderStage
<1>3. live[u].uri = u
  BY <1>1 DEF Typed, StoresOK
<1>4. UNCHANGED <<live, buffer, scope, closed>> /\ index' = [index EXCEPT ![u] = live[u]]
  BY <1>0, <1>2, <1>3 DEF Admits, Attempts, Refuses, Replace, scopeVars, bufferVars
<1>5. index'[u] = live[u] /\ \A v \in Uris \ {u} : index'[v] = index[v]
  BY <1>1, <1>4 DEF Typed, StoresOK, WorkspaceTypeOK
<1>6. \A v \in Uris : FromBuffer(v)' \/ FromFile(v)' \/ Missing(v)'
  <2>1. \A v \in Uris \ {u} : FromBuffer(v)' \/ FromFile(v)' \/ Missing(v)'
    BY <1>2, <1>4, <1>5, Elsewhere
  <2>2. FromBuffer(u)'
    BY <1>1, <1>2, <1>4, <1>5 DEF FromBuffer, FromFile, Missing
  <2> QED BY <2>1, <2>2
<1>7. PICK n : n = task'["main"]
  OBVIOUS
<1>8. n.op = "folders" /\ n.at = "enter" /\ n.left = m.left
  BY <1>1, <1>2, <1>7 DEF Admits, Finishes, Leaving, Typed, TasksOK, Tasks, Threads
<1>9. /\ \A v \in Uris \ scope : index'[v] = None
      /\ \A v \in scope : live[v] # None /\ index'[v] = None => v \in n.left
  BY <1>1, <1>2, <1>5, <1>8 DEF Typed, StoresOK, WorkspaceTypeOK
<1>10. FolderStage(n)'
  BY <1>2, <1>4, <1>6, <1>8, <1>9 DEF FolderStage
<1> QED BY <1>7, <1>8, <1>10, FolderGood DEF FolderSteps

LEMMA FoldersGood ==
    ASSUME Typed, Paired, Good("main"), Folders PROVE Good("main")'
BY FoldersArriveGood, AppliesGood, InvalidatesGood, LeavesGood, RemovesLeftGood, ListsEnteredGood,
   EntersGood, AdmitsGood DEF Folders

LEMMA FilesArriveGood ==
    ASSUME Typed, Good("main"), FilesArrive PROVE Good("main")'
<1>1. \A v \in Uris : Right(v)
  BY IdleOK DEF Good, Quiet, FilesArrive, Notify, BufferSteps, FolderSteps, SyncSteps
<1>2. UNCHANGED <<index, live, buffer, scope, closed>>
  BY DEF FilesArrive, indexVars, scopeVars, bufferVars
<1>3. \A v \in Uris : Right(v)'
  BY <1>1, <1>2, Elsewhere
<1>4. PICK n : n = task'["main"]
  OBVIOUS
<1>5. n.op = "files" /\ n.at = "list"
  BY <1>4, IdleOK DEF FilesArrive, Typed, TasksOK, Tasks, Threads
<1>6. SyncStage(n)'
  BY <1>3, <1>5 DEF SyncStage
<1> QED BY <1>4, <1>5, <1>6, SyncGood DEF SyncSteps

LEMMA VerifiesGood ==
    ASSUME Typed, Good("worker"), Quiet("worker"), Verifies PROVE Good("worker")'
<1>1. \A v \in Uris : Right(v)
  BY DEF Good
<1>2. UNCHANGED <<index, live, buffer, scope, closed>>
  BY DEF Verifies, indexVars, scopeVars, bufferVars
<1>3. \A v \in Uris : Right(v)'
  BY <1>1, <1>2, Elsewhere
<1>4. PICK n : n = task'["worker"]
  OBVIOUS
<1>5. CASE task' = [task EXCEPT !["worker"] = Idle]
  <2>1. task'["worker"].at = "idle"
    BY <1>5, IdleOK, TurnsTo DEF Typed, Threads
  <2> QED BY <1>3, <2>1, QuietGood
<1>6. CASE task' = [task EXCEPT !["worker"] = [Idle EXCEPT !.op = "files", !.at = "list"]]
  <2>1. n.op = "files" /\ n.at = "list"
    BY <1>4, <1>6, IdleOK DEF Typed, TasksOK, Tasks, Threads
  <2>2. SyncStage(n)'
    BY <1>3, <2>1 DEF SyncStage
  <2> QED BY <1>4, <2>1, <2>2, SyncGood DEF SyncSteps
<1> QED BY <1>5, <1>6 DEF Verifies

\* What a thread finds at a step of a rescan.
LEMMA AtSync ==
    ASSUME Typed, NEW t \in Threads, Good(t), task[t].at \in SyncSteps
    PROVE  SyncStage(task[t]) /\ task[t] \in Tasks /\ TaskOK(t, task[t])
<1>1. task[t] \in Tasks /\ TaskOK(t, task[t])
  BY DEF Typed, TasksOK
<1>2. ~Quiet(t)
  BY DEF Quiet
<1>3. Stage(task[t])
  BY <1>2 DEF Good
<1> QED BY <1>1, <1>3 DEF Stage

LEMMA ListsOpenGood ==
    ASSUME Typed, Paired, NEW t \in Threads, Good(t), ListsOpen(t) PROVE Good(t)'
<1> DEFINE m == task[t]
<1>0. UNCHANGED <<index, live, buffer, scope, closed>>
  BY DEF ListsOpen, indexVars, scopeVars, bufferVars
<1>1. m.at \in {"list", "enter"} /\ (m.at = "enter" => t = "main" /\ m.left = {})
  BY DEF ListsOpen, At, Typed, TasksOK, TaskOK, SyncSteps, PublishSteps, AnswerSteps, Threads
<1>2. m \in Tasks /\ m.op \in {"folders", "files"} /\ \A v \in Uris : Right(v) \/ Stale(v)
  <2>1. CASE m.at = "list"
    <3>1. SyncStage(m) /\ m \in Tasks
      BY <2>1, AtSync DEF SyncSteps
    <3> QED BY <2>1, <3>1 DEF SyncStage
  <2>2. CASE m.at = "enter"
    <3>1. t = "main" /\ FolderStage(m) /\ m \in Tasks /\ m.left = {}
      BY <1>1, <2>2, AtFolders DEF FolderSteps
    <3>2. /\ m.op = "folders"
          /\ \A v \in Uris : FromBuffer(v) \/ FromFile(v) \/ Missing(v)
          /\ \A v \in Uris \ scope : index[v] = None
          /\ \A v \in scope : live[v] # None => index[v] # None
      BY <2>2, <3>1 DEF FolderStage
    <3>3. \A v \in Uris : Right(v) \/ Stale(v)
      BY <3>2 DEF Right, Stale, FromBuffer, FromFile, Missing
    <3> QED BY <3>1, <3>2, <3>3
  <2> QED BY <1>1, <2>1, <2>2
<1>3. CASE scope = {}
  <2>1. \A v \in Uris : Right(v)'
    BY <1>0, <1>2, <1>3, Elsewhere DEF Stale
  <2>2. PICK k : task' = [task EXCEPT ![t] = k] /\ k.at \in {"plan", "idle"}
    BY <1>3, SyncedOK DEF ListsOpen, Typed
  <2>3. task'[t].at \in {"idle", "plan"}
    BY <2>2, TurnsTo DEF Typed
  <2> QED BY <2>1, <2>3, QuietGood
<1>4. CASE scope # {}
  <2>1. PICK n : n = task'[t]
    OBVIOUS
  <2>2. n.op = m.op /\ n.at = "scan" /\ n.left = {u \in Uris : buffer[u] # None}
    BY <1>2, <1>4, <2>1 DEF ListsOpen, Typed, TasksOK, Tasks
  <2>3. \A u \in Uris : live[u] # None => u \in n.left
    BY <1>1, <2>2 DEF Typed, StoresOK
  <2>4. \A v \in Uris : Right(v)' \/ Stale(v)'
    BY <1>0, <1>2, Elsewhere
  <2>5. SyncStage(n)'
    BY <1>0, <1>2, <2>2, <2>3, <2>4 DEF SyncStage
  <2> QED BY <2>1, <2>2, <2>5, SyncGood DEF SyncSteps
<1> QED BY <1>3, <1>4

LEMMA ScansGood ==
    ASSUME Typed, NEW t \in Threads, Good(t), Scans(t) PROVE Good(t)'
<1> DEFINE m == task[t]
<1>0. UNCHANGED <<index, live, buffer, scope, closed>>
  BY DEF Scans, indexVars, scopeVars, bufferVars
<1>1. m.at = "scan" /\ SyncStage(m) /\ m \in Tasks /\ scope \in SUBSET Uris
  BY AtSync DEF Scans, At, SyncSteps, Typed, StoresOK, WorkspaceTypeOK
<1>2. /\ m.op \in {"folders", "files"} /\ \A v \in Uris : Right(v) \/ Stale(v)
      /\ \A u \in Uris : live[u] # None => u \in m.left
  BY <1>1 DEF SyncStage
<1>3. PICK found \in SUBSET (scope \ m.left) :
        task' = [task EXCEPT ![t] = [m EXCEPT !.left = {}, !.found = found, !.at = "tracked"]]
  BY DEF Scans
<1>4. PICK n : n = task'[t]
  OBVIOUS
<1>5. n.op = m.op /\ n.at = "tracked" /\ n.found = found
  BY <1>1, <1>3, <1>4 DEF Typed, TasksOK, Tasks
<1>6. \A u \in n.found : u \in scope /\ live[u] = None
  BY <1>1, <1>2, <1>5
<1>7. \A v \in Uris : Right(v)' \/ Stale(v)'
  BY <1>0, <1>2, Elsewhere
<1>8. SyncStage(n)'
  BY <1>0, <1>2, <1>5, <1>6, <1>7 DEF SyncStage
<1> QED BY <1>4, <1>5, <1>8, SyncGood DEF SyncSteps

LEMMA ListsTrackedGood ==
    ASSUME Typed, NEW t \in Threads, Good(t), ListsTracked(t) PROVE Good(t)'
<1> DEFINE m == task[t]
<1>0. UNCHANGED <<index, live, buffer, scope, closed>>
  BY DEF ListsTracked, indexVars, scopeVars, bufferVars
<1>1. m.at = "tracked" /\ SyncStage(m) /\ m \in Tasks
  BY AtSync DEF ListsTracked, At, SyncSteps
<1>2. /\ m.op \in {"folders", "files"} /\ \A v \in Uris : Right(v) \/ Stale(v)
      /\ \A u \in m.found : u \in scope /\ live[u] = None
  BY <1>1 DEF SyncStage
<1>4. PICK n : n = task'[t]
  OBVIOUS
<1>5. n.op = m.op /\ n.at = "prune" /\ n.found = m.found /\ n.left = closed \ m.found
  BY <1>1, <1>4 DEF ListsTracked, Typed, TasksOK, Tasks
<1>6. \A v \in Uris : Right(v) \/ (Stale(v) /\ v \in n.left \cup n.found)
  BY <1>2, <1>5 DEF Stale
<1>7. \A v \in Uris : Right(v)' \/ (Stale(v)' /\ v \in n.left \cup n.found)
  BY <1>0, <1>6, Elsewhere
<1>8. SyncStage(n)'
  BY <1>0, <1>2, <1>5, <1>7 DEF SyncStage
<1> QED BY <1>4, <1>5, <1>8, SyncGood DEF SyncSteps

LEMMA PrunesGood ==
    ASSUME Typed, NEW t \in Threads, Good(t), Prunes(t) PROVE Good(t)'
<1> DEFINE m == task[t]
<1>0. UNCHANGED <<index, live, buffer, scope, closed>>
  BY DEF Prunes, indexVars, scopeVars, bufferVars
<1>1. m.at = "prune" /\ SyncStage(m) /\ m \in Tasks /\ m.left \subseteq Uris
  BY AtSync DEF Prunes, At, SyncSteps, TaskOK, OverUris
<1>2. /\ m.op \in {"folders", "files"} /\ m.left \subseteq closed
      /\ \A v \in Uris : Right(v) \/ (Stale(v) /\ v \in m.left \cup m.found)
      /\ \A u \in m.found : u \in scope /\ live[u] = None
  BY <1>1 DEF SyncStage
<1>3. PICK u \in m.left, s \in {"untrack", "pruned"} :
        /\ task' = [task EXCEPT ![t] =
              [m EXCEPT !.left = m.left \ {u}, !.uri = u, !.expected = index[u], !.at = s]]
        /\ s = "untrack" => index[u] = None
  BY DEF Prunes
<1>4. PICK n : n = task'[t]
  OBVIOUS
<1>5. n.op = m.op /\ n.at = s /\ n.found = m.found /\ n.left = m.left \ {u} /\ n.uri = u /\ n.expected = index[u]
  BY <1>1, <1>3, <1>4 DEF Typed, TasksOK, Tasks
<1>6. live[u] = None
  BY <1>1, <1>2 DEF Stale, Right, FromBuffer, FromFile, Missing
<1>7. \A v \in Uris : Right(v)' \/ (Stale(v)' /\ v \in n.left \cup n.found) \/ v = n.uri
  BY <1>0, <1>2, <1>5, Elsewhere
<1>8. SyncStage(n)'
  BY <1>0, <1>2, <1>3, <1>5, <1>6, <1>7 DEF SyncStage
<1>9. n.at \in SyncSteps
  BY <1>5 DEF SyncSteps
<1> QED BY <1>4, <1>8, <1>9, SyncGood

LEMMA RemovesPrunedGood ==
    ASSUME Typed, NEW t \in Threads, Good(t), RemovesPruned(t) PROVE Good(t)'
<1> DEFINE m == task[t]
<1>0. PICK u : u = m.uri
  OBVIOUS
<1>1. m.at = "pruned" /\ SyncStage(m) /\ m \in Tasks /\ u \in Uris
  BY <1>0, AtSync DEF RemovesPruned, At, SyncSteps, TaskOK, UriSteps
<1>2. /\ m.op \in {"folders", "files"} /\ m.left \subseteq closed
      /\ \A v \in Uris : Right(v) \/ (Stale(v) /\ v \in m.left \cup m.found) \/ v = u
      /\ \A v \in m.found : v \in scope /\ live[v] = None
      /\ u \notin m.left /\ live[u] = None /\ index[u] = m.expected
  BY <1>0, <1>1 DEF SyncStage
<1>3. UNCHANGED <<live, scope, closed>> /\ index' = [index EXCEPT ![u] = None]
  BY <1>0, <1>2 DEF RemovesPruned, Attempts, Refuses, Remove, scopeVars, bufferVars
<1>4. index'[u] = None /\ \A v \in Uris \ {u} : index'[v] = index[v]
  BY <1>1, <1>3 DEF Typed, StoresOK, WorkspaceTypeOK
<1>5. PICK n : n = task'[t]
  OBVIOUS
<1>6. n.op = m.op /\ n.at = "untrack" /\ n.found = m.found /\ n.left = m.left /\ n.uri = u
  BY <1>0, <1>1, <1>5 DEF RemovesPruned, Typed, TasksOK, Tasks
<1>7. \A v \in Uris : Right(v)' \/ (Stale(v)' /\ v \in n.left \cup n.found) \/ v = n.uri
  <2> SUFFICES ASSUME NEW v \in Uris \ {u} PROVE Right(v)' \/ (Stale(v)' /\ v \in n.left \cup n.found)
    BY <1>6
  <2> QED BY <1>2, <1>3, <1>4, <1>6, Elsewhere
<1>8. SyncStage(n)'
  BY <1>2, <1>3, <1>4, <1>6, <1>7 DEF SyncStage
<1> QED BY <1>5, <1>6, <1>8, SyncGood DEF SyncSteps

LEMMA UntracksGood ==
    ASSUME Typed, NEW t \in Threads, Good(t), Untracks(t) PROVE Good(t)'
<1> DEFINE m == task[t]
<1>0. PICK u : u = m.uri
  OBVIOUS
<1>1. m.at = "untrack" /\ SyncStage(m) /\ m \in Tasks /\ u \in Uris
  BY <1>0, AtSync DEF Untracks, At, SyncSteps, TaskOK, UriSteps
<1>2. /\ m.op \in {"folders", "files"} /\ m.left \subseteq closed
      /\ \A v \in Uris : Right(v) \/ (Stale(v) /\ v \in m.left \cup m.found) \/ v = u
      /\ \A v \in m.found : v \in scope /\ live[v] = None
      /\ u \notin m.left /\ live[u] = None /\ index[u] = None
  BY <1>0, <1>1 DEF SyncStage
<1>3. UNCHANGED <<live, scope, index>> /\ closed' = closed \ {u}
  BY <1>0 DEF Untracks, indexVars, scopeVars, bufferVars
<1>4. Right(u)'
  BY <1>2, <1>3 DEF Right, Missing
<1>5. PICK n : n = task'[t]
  OBVIOUS
<1>6. n.op = m.op /\ n.at = "prune" /\ n.found = m.found /\ n.left = m.left
  BY <1>1, <1>5 DEF Untracks, Finishes, Leaving, Typed, TasksOK, Tasks
<1>7. \A v \in Uris : Right(v)' \/ (Stale(v)' /\ v \in n.left \cup n.found)
  <2> SUFFICES ASSUME NEW v \in Uris \ {u} PROVE Right(v)' \/ (Stale(v)' /\ v \in n.left \cup n.found)
    BY <1>4
  <2> QED BY <1>2, <1>3, <1>6, Elsewhere
<1>8. SyncStage(n)'
  BY <1>2, <1>3, <1>6, <1>7 DEF SyncStage
<1> QED BY <1>5, <1>6, <1>8, SyncGood DEF SyncSteps

LEMMA StartsComparingGood ==
    ASSUME Typed, NEW t \in Threads, Good(t), StartsComparing(t) PROVE Good(t)'
<1> DEFINE m == task[t]
<1>0. UNCHANGED <<index, live, buffer, scope, closed>>
  BY DEF StartsComparing, indexVars, scopeVars, bufferVars
<1>1. m.at = "prune" /\ m.left = {} /\ SyncStage(m) /\ m \in Tasks
  BY AtSync DEF StartsComparing, At, SyncSteps
<1>2. /\ m.op \in {"folders", "files"}
      /\ \A v \in Uris : Right(v) \/ (Stale(v) /\ v \in m.found)
      /\ \A v \in m.found : v \in scope /\ live[v] = None
  BY <1>1 DEF SyncStage
<1>5. PICK n : n = task'[t]
  OBVIOUS
<1>6. n.op = m.op /\ n.at = "compare" /\ n.left = m.found
  BY <1>1, <1>5 DEF StartsComparing, Typed, TasksOK, Tasks
<1>7. \A v \in Uris : Right(v)' \/ (Stale(v)' /\ v \in n.left)
  BY <1>0, <1>2, <1>6, Elsewhere
<1>8. SyncStage(n)'
  BY <1>0, <1>2, <1>6, <1>7 DEF SyncStage
<1> QED BY <1>5, <1>6, <1>8, SyncGood DEF SyncSteps

LEMMA ComparesGood ==
    ASSUME Typed, NEW t \in Threads, Good(t), Compares(t) PROVE Good(t)'
<1> DEFINE m == task[t]
<1>0. UNCHANGED <<index, live, buffer, scope, closed>>
  BY DEF Compares, indexVars, scopeVars, bufferVars
<1>1. m.at = "compare" /\ SyncStage(m) /\ m \in Tasks
  BY AtSync DEF Compares, At, SyncSteps
<1>2. /\ m.op \in {"folders", "files"}
      /\ \A v \in Uris : Right(v) \/ (Stale(v) /\ v \in m.left)
      /\ \A v \in m.left : v \in scope /\ live[v] = None
  BY <1>1 DEF SyncStage
<1>3. PICK u \in m.left :
        \/ index[u] # None /\ task' = [task EXCEPT ![t] = [m EXCEPT !.left = m.left \ {u}]]
        \/ task' = [task EXCEPT ![t] = [m EXCEPT !.left = m.left \ {u}, !.uri = u,
                                                 !.expected = index[u], !.at = "replace"]]
  BY DEF Compares
<1>5. PICK n : n = task'[t]
  OBVIOUS
<1>6. CASE index[u] # None /\ task' = [task EXCEPT ![t] = [m EXCEPT !.left = m.left \ {u}]]
  <2>1. n.op = m.op /\ n.at = "compare" /\ n.left = m.left \ {u}
    BY <1>1, <1>5, <1>6 DEF Typed, TasksOK, Tasks
  <2>2. \A v \in Uris : Right(v) \/ (Stale(v) /\ v \in n.left)
    BY <1>2, <1>6, <2>1 DEF Stale
  <2>3. \A v \in Uris : Right(v)' \/ (Stale(v)' /\ v \in n.left)
    BY <1>0, <2>2, Elsewhere
  <2>4. SyncStage(n)'
    BY <1>0, <1>2, <2>1, <2>3 DEF SyncStage
  <2> QED BY <1>5, <2>1, <2>4, SyncGood DEF SyncSteps
<1>7. CASE task' = [task EXCEPT ![t] = [m EXCEPT !.left = m.left \ {u}, !.uri = u,
                                                 !.expected = index[u], !.at = "replace"]]
  <2>1. n.op = m.op /\ n.at = "replace" /\ n.left = m.left \ {u} /\ n.uri = u /\ n.expected = index[u]
    BY <1>1, <1>5, <1>7 DEF Typed, TasksOK, Tasks
  <2>2. \A v \in Uris : Right(v)' \/ (Stale(v)' /\ v \in n.left) \/ v = n.uri
    BY <1>0, <1>2, <2>1, Elsewhere
  <2>3. SyncStage(n)'
    BY <1>0, <1>2, <2>1, <2>2 DEF SyncStage
  <2> QED BY <1>5, <2>1, <2>3, SyncGood DEF SyncSteps
<1> QED BY <1>3, <1>6, <1>7

LEMMA ReplacesGood ==
    ASSUME Typed, NEW t \in Threads, Good(t), Replaces(t) PROVE Good(t)'
<1> DEFINE m == task[t]
<1>0. PICK u : u = m.uri
  OBVIOUS
<1>1. m.at = "replace" /\ SyncStage(m) /\ m \in Tasks /\ u \in Uris
  BY <1>0, AtSync DEF Replaces, At, SyncSteps, TaskOK, UriSteps
<1>2. /\ m.op \in {"folders", "files"}
      /\ \A v \in Uris : Right(v) \/ (Stale(v) /\ v \in m.left) \/ v = u
      /\ \A v \in m.left : v \in scope /\ live[v] = None
      /\ u \in scope /\ live[u] = None /\ index[u] = m.expected
  BY <1>0, <1>1 DEF SyncStage
<1>3. Fresh(u, 0) # None /\ Fresh(u, 0).uri = u /\ Fresh(u, 0).doc = 0
  BY <1>1, FreshFacts, SessionAssumption DEF Replaces, Typed, StoresOK
<1>4. /\ UNCHANGED <<live, scope, closed>> /\ index' = [index EXCEPT ![u] = Fresh(u, 0)]
      /\ Goes(t, "trackFound")
  BY <1>0, <1>2, <1>3 DEF Replaces, Attempts, Refuses, Replace, scopeVars
<1>5. index'[u] # None /\ Detached(index'[u]) /\ \A v \in Uris \ {u} : index'[v] = index[v]
  BY <1>1, <1>3, <1>4 DEF Detached, Typed, StoresOK, WorkspaceTypeOK
<1>6. PICK n : n = task'[t]
  OBVIOUS
<1>7. n.op = m.op /\ n.at = "trackFound" /\ n.left = m.left /\ n.uri = u
  BY <1>0, <1>1, <1>4, <1>6 DEF Goes, Typed, TasksOK, Tasks
<1>8. \A v \in Uris : Right(v)' \/ (Stale(v)' /\ v \in n.left) \/ v = n.uri
  <2> SUFFICES ASSUME NEW v \in Uris \ {u} PROVE Right(v)' \/ (Stale(v)' /\ v \in n.left)
    BY <1>7
  <2> QED BY <1>2, <1>4, <1>5, <1>7, Elsewhere
<1>9. SyncStage(n)'
  BY <1>2, <1>4, <1>5, <1>7, <1>8 DEF SyncStage, Detached
<1> QED BY <1>6, <1>7, <1>9, SyncGood DEF SyncSteps

LEMMA TracksFoundGood ==
    ASSUME Typed, NEW t \in Threads, Good(t), TracksFound(t) PROVE Good(t)'
<1> DEFINE m == task[t]
<1>0. PICK u : u = m.uri
  OBVIOUS
<1>1. m.at = "trackFound" /\ SyncStage(m) /\ m \in Tasks /\ u \in Uris
  BY <1>0, AtSync DEF TracksFound, At, SyncSteps, TaskOK, UriSteps
<1>2. /\ m.op \in {"folders", "files"}
      /\ \A v \in Uris : Right(v) \/ (Stale(v) /\ v \in m.left) \/ v = u
      /\ \A v \in m.left : v \in scope /\ live[v] = None
      /\ u \in scope /\ live[u] = None /\ index[u] # None /\ Detached(index[u])
  BY <1>0, <1>1 DEF SyncStage
<1>3. UNCHANGED <<live, scope, index>> /\ closed' = closed \cup {u}
  BY <1>0 DEF TracksFound, indexVars, scopeVars, bufferVars
<1>4. Right(u)'
  BY <1>2, <1>3 DEF Right, FromFile, Detached
<1>6. PICK n : n = task'[t]
  OBVIOUS
<1>7. n.op = m.op /\ n.at = "compare" /\ n.left = m.left
  BY <1>1, <1>6 DEF TracksFound, Leaving, Typed, TasksOK, Tasks
<1>8. \A v \in Uris : Right(v)' \/ (Stale(v)' /\ v \in n.left)
  <2> SUFFICES ASSUME NEW v \in Uris \ {u} PROVE Right(v)' \/ (Stale(v)' /\ v \in n.left)
    BY <1>4
  <2> QED BY <1>2, <1>3, <1>7, Elsewhere
<1>9. SyncStage(n)'
  BY <1>2, <1>3, <1>7, <1>8 DEF SyncStage
<1> QED BY <1>6, <1>7, <1>9, SyncGood DEF SyncSteps

LEMMA SyncsGood ==
    ASSUME Typed, NEW t \in Threads, Good(t), Syncs(t) PROVE Good(t)'
<1> DEFINE m == task[t]
<1>0. UNCHANGED <<index, live, buffer, scope, closed>>
  BY DEF Syncs, indexVars, scopeVars, bufferVars
<1>1. m.at = "compare" /\ SyncStage(m) /\ m.left = {}
  BY AtSync DEF Syncs, At, SyncSteps
<1>2. \A v \in Uris : Right(v)
  BY <1>1 DEF SyncStage
<1>3. \A v \in Uris : Right(v)'
  BY <1>0, <1>2, Elsewhere
<1>4. PICK k : task' = [task EXCEPT ![t] = k] /\ k.at \in {"plan", "idle"}
  BY SyncedOK DEF Syncs, Typed
<1>5. task'[t].at \in {"idle", "plan"}
  BY <1>4, TurnsTo DEF Typed
<1> QED BY <1>3, <1>5, QuietGood

LEMMA ReconcilesGood ==
    ASSUME Typed, Paired, NEW t \in Threads, Good(t), Reconciles(t) PROVE Good(t)'
BY ListsOpenGood, ScansGood, ListsTrackedGood, PrunesGood, RemovesPrunedGood, UntracksGood,
   StartsComparingGood, ComparesGood, ReplacesGood, TracksFoundGood, SyncsGood DEF Reconciles

\* A step that touches neither the index nor the task of the thread.
LEMMA GoodSame ==
    ASSUME NEW t, task'[t] = task[t], UNCHANGED <<index, live, buffer, scope, closed>>, Good(t) PROVE Good(t)'
<1>1. PICK m : m = task[t]
  OBVIOUS
<1>2. \A v : (Right(v)' <=> Right(v)) /\ (Stale(v)' <=> Stale(v)) /\ (FromBuffer(v)' <=> FromBuffer(v))
             /\ (FromFile(v)' <=> FromFile(v)) /\ (Missing(v)' <=> Missing(v))
  BY Elsewhere
<1>3. CASE Quiet(t)
  <2>1. Quiet(t)' /\ \A u \in Uris : Right(u)'
    BY <1>2, <1>3 DEF Good, Quiet
  <2> QED BY <2>1 DEF Good
<1>4. CASE ~Quiet(t)
  <2>1. Stage(m)
    BY <1>1, <1>4 DEF Good
  <2>2. m.at \in BufferSteps => BufferStage(m)'
    BY <1>2, <2>1 DEF Stage, BufferStage, Known, Untracked, Detached
  <2>3. m.at \in FolderSteps => FolderStage(m)'
    BY <1>2, <2>1 DEF Stage, FolderStage, Indexed
  <2>4. m.at \in SyncSteps => SyncStage(m)'
    BY <1>2, <2>1 DEF Stage, SyncStage, Detached
  <2>5. Stage(m)'
    BY <2>2, <2>3, <2>4 DEF Stage
  <2>6. Stage(task[t])'
    BY <1>1, <2>5 DEF Stage, BufferStage, FolderStage, SyncStage
  <2> QED BY <1>4, <2>6 DEF Good, Quiet
<1> QED BY <1>3, <1>4

\* The worker works on the index only while main is idle.
LEMMA MainAlone ==
    ASSUME TasksOK, WorkerRescans, Alone, task["main"] # Idle PROVE Quiet("worker")
<1>1. task["worker"].at \notin SyncSteps
  BY DEF WorkerRescans, Alone
<1>2. task["worker"].at \notin BufferSteps \cup FolderSteps
  BY DEF TasksOK, TaskOK, BufferSteps, FolderSteps, SyncSteps, PublishSteps, AnswerSteps, Threads
<1> QED BY <1>1, <1>2 DEF Quiet

LEMMA QuietStep ==
    ASSUME NEW t \in Threads, Quiet(t), Quiet(t)', UNCHANGED <<index, live, buffer, scope, closed>>,
           \A o \in Threads \ {t} : task'[o] = task[o],
           \E a \in Threads : Good(a) /\ \A o \in Threads \ {a} : Quiet(o)
    PROVE  (\E a \in Threads : Good(a) /\ \A o \in Threads \ {a} : Quiet(o))'
<1>1. PICK a \in Threads : Good(a) /\ \A o \in Threads \ {a} : Quiet(o)
  OBVIOUS
<1>2. Good(a)'
  <2>1. CASE a = t
    <3>1. \A u \in Uris : Right(u)'
      BY <1>1, <2>1, Elsewhere DEF Good
    <3> QED BY <2>1, <3>1 DEF Good
  <2>2. CASE a # t
    BY <1>1, <2>2, GoodSame
  <2> QED BY <2>1, <2>2
<1>3. \A o \in Threads \ {a} : Quiet(o)'
  BY <1>1 DEF Quiet
<1> QED BY <1>2, <1>3

LEMMA InitOneAtATime == ASSUME Init PROVE Paired /\ WorkerRescans /\ OneAtATime
<1>1. \A t \in Threads : task[t] = Idle
  BY DEF Init
<1>2. Paired
  BY DEF Init, Paired
<1>3. WorkerRescans
  BY <1>1, IdleOK DEF WorkerRescans, SyncSteps, Threads
<1>4. \A t \in Threads : Quiet(t)
  BY <1>1, IdleOK DEF Quiet, BufferSteps, FolderSteps, SyncSteps
<1>5. \A u \in Uris : Right(u)
  BY DEF Init, WorkspaceInit, Right, Missing
<1> QED BY <1>2, <1>3, <1>4, <1>5 DEF OneAtATime, Good, Threads

LEMMA NextOneAtATime ==
    ASSUME Typed, Typed', Paired, WorkerRescans, WorkerRescans', OneAtATime, [Next]_vars PROVE OneAtATime'
<1> USE DEF Threads
<1> DEFINE Left == \E a \in Threads : Good(a) /\ \A o \in Threads \ {a} : Quiet(o)
<1>1. CASE UNCHANGED vars
  <2>1. SUFFICES ASSUME Alone' PROVE Left'
    BY DEF OneAtATime
  <2>2. Alone
    BY <1>1, <2>1 DEF vars, Alone
  <2>3. PICK a \in Threads : Good(a) /\ \A o \in Threads \ {a} : Quiet(o)
    BY <2>2 DEF OneAtATime
  <2>4. Good(a)'
    BY <1>1, <2>3, GoodSame DEF vars, indexVars, scopeVars, bufferVars
  <2>5. \A o \in Threads \ {a} : Quiet(o)'
    BY <1>1, <2>3 DEF vars, Quiet
  <2> QED BY <2>4, <2>5
<1>2. CASE Next
  <2>1. SUFFICES ASSUME Alone' PROVE Left'
    BY DEF OneAtATime
  <2>2. Alone
    BY <1>2, <2>1 DEF Next, Overlaps, Alone
  <2>3. Left
    BY <2>2 DEF OneAtATime
  <2>4. Quiet("worker") => Good("main")
    BY <2>3 DEF Good
  <2>5. ASSUME QuietTurn("main"), task["main"] # Idle \/ task'["main"] # Idle
        PROVE  Quiet("worker") /\ Quiet("worker")'
    <3>1. task'["worker"] = task["worker"]
      BY <2>5 DEF QuietTurn
    <3>2. CASE task["main"] # Idle
      <4>1. Quiet("worker")
        BY <2>2, <3>2, MainAlone DEF Typed
      <4> QED BY <3>1, <4>1 DEF Quiet
    <3>3. CASE task'["main"] # Idle
      <4>1. task'["worker"].at \notin SyncSteps
        BY <2>1, <3>3 DEF WorkerRescans, Alone
      <4>2. task'["worker"].at \notin BufferSteps \cup FolderSteps
        BY DEF Typed, TasksOK, TaskOK, BufferSteps, FolderSteps, SyncSteps, PublishSteps, AnswerSteps
      <4> QED BY <3>1, <4>1, <4>2 DEF Quiet
    <3> QED BY <2>5, <3>2, <3>3
  <2>6. ASSUME Buffers \/ Folders \/ FilesArrive \/ Reconciles("main") PROVE Left'
    <3>1. QuietTurn("main")
      BY <2>6, BuffersTurn, FoldersTurn, ReconcilesTurn DEF Typed
    <3>2. task["main"] # Idle \/ task'["main"] # Idle
      <4>1. CASE FilesArrive \/ FoldersArrive \/ \E u \in Uris : OpenArrives(u) \/ \E kind \in {"change", "close"} : ChangeArrives(u, kind)
        <5>1. ASSUME FilesArrive PROVE task'["main"].op = "files"
          BY <5>1, IdleOK DEF FilesArrive, Typed, TasksOK, Tasks
        <5>2. ASSUME FoldersArrive PROVE task'["main"].op = "folders"
          BY <5>2, IdleOK DEF FoldersArrive, Typed, TasksOK, Tasks
        <5>3. ASSUME NEW u \in Uris, OpenArrives(u) PROVE task'["main"].op = "open"
          BY <5>3, IdleOK DEF OpenArrives, Typed, TasksOK, Tasks
        <5>4. ASSUME NEW u \in Uris, NEW kind \in {"change", "close"}, ChangeArrives(u, kind) PROVE task'["main"].op = kind
          BY <5>4, IdleOK DEF ChangeArrives, Typed, TasksOK, Tasks
        <5>5. task'["main"].op # "none"
          <6>1. CASE FilesArrive
            BY <5>1, <6>1
          <6>2. CASE FoldersArrive
            BY <5>2, <6>2
          <6>3. CASE ~FilesArrive /\ ~FoldersArrive
            <7>1. PICK u \in Uris : OpenArrives(u) \/ \E kind \in {"change", "close"} : ChangeArrives(u, kind)
              BY <4>1, <6>3
            <7> QED BY <5>3, <5>4, <7>1
          <6> QED BY <6>1, <6>2, <6>3
        <5> QED BY <5>5, IdleOK
      <4>2. CASE ~(FilesArrive \/ FoldersArrive \/ \E u \in Uris : OpenArrives(u) \/ \E kind \in {"change", "close"} : ChangeArrives(u, kind))
        <5>1. task["main"].at # "idle"
          BY <2>6, <4>2 DEF Buffers, Folders, Reconciles, At, Drops, ReadsPrevious, Edits, Analyses, Indexes, Closes, Unindexes,
             ReadsFile, Restores, Tracks, Applies, Invalidates, Leaves, RemovesLeft, ListsEntered, Enters, Admits,
             ListsOpen, Scans, ListsTracked, Prunes, RemovesPruned, Untracks, StartsComparing, Compares, Replaces,
             TracksFound, Syncs
        <5> QED BY <5>1, IdleOK
      <4> QED BY <4>1, <4>2
    <3>3. Quiet("worker") /\ Quiet("worker")'
      BY <2>5, <3>1, <3>2
    <3>4. Good("main")'
      BY <2>4, <2>6, <3>3, BuffersGood, FoldersGood, FilesArriveGood, ReconcilesGood
    <3> QED BY <3>3, <3>4
  <2>7. ASSUME Reconciles("worker") PROVE Left'
    <3>1. task["worker"].at \in SyncSteps
      <4>1. task["worker"].at # "enter"
        BY DEF Typed, TasksOK, TaskOK, SyncSteps, PublishSteps, AnswerSteps
      <4> QED BY <2>7, <4>1 DEF Reconciles, ListsOpen, Scans, ListsTracked, Prunes, RemovesPruned, Untracks,
           StartsComparing, Compares, Replaces, TracksFound, Syncs, At, SyncSteps
    <3>2. ~Quiet("worker")
      BY <3>1 DEF Quiet
    <3>3. Good("worker") /\ Quiet("main")
      BY <2>3, <3>2
    <3>4. Good("worker")'
      BY <2>7, <3>3, ReconcilesGood
    <3>5. task'["main"] = task["main"]
      BY <2>7, ReconcilesTurn DEF Typed, QuietTurn
    <3>6. Quiet("main")'
      BY <3>3, <3>5 DEF Quiet
    <3> QED BY <3>4, <3>6
  <2>8. CASE Verifies
    <3>1. Turn("worker") /\ UNCHANGED <<index, live, buffer, scope, closed>>
      BY <2>8, RequestsTurn DEF Typed, Verifies, indexVars, scopeVars, bufferVars
    <3>2. Quiet("worker")
      BY <2>8 DEF Verifies, At, Quiet, BufferSteps, FolderSteps, SyncSteps
    <3>3. CASE Quiet("worker")'
      <4>1. \A o \in Threads \ {"worker"} : task'[o] = task[o]
        BY <3>1 DEF Turn
      <4> HIDE DEF Threads
      <4> QED BY <2>3, <3>1, <3>2, <3>3, <4>1, QuietStep DEF Threads
    <3>4. CASE ~Quiet("worker")'
      <4>1. task'["main"] = Idle
        BY <2>1, <3>4, MainAlone DEF Typed, TasksOK, TaskOK, WorkerRescans, Alone, Quiet, BufferSteps, FolderSteps,
           SyncSteps, PublishSteps, AnswerSteps
      <4>2. task["main"] = Idle
        BY <3>1, <4>1 DEF Turn
      <4>3. Quiet("main") /\ Quiet("main")'
        BY <4>1, <4>2, IdleOK DEF Quiet, BufferSteps, FolderSteps, SyncSteps
      <4>4. Good("worker")
        BY <2>3, <3>2, <4>3 DEF Good
      <4>5. Good("worker")'
        BY <2>8, <3>2, <4>4, VerifiesGood
      <4> QED BY <4>3, <4>5
    <3> QED BY <3>3, <3>4
  <2>9. CASE RescanArrives \/ Responds
    <3>1. Turn("worker") /\ UNCHANGED <<index, live, buffer, scope, closed>>
      BY <2>9, RequestsTurn DEF Typed, RescanArrives, Responds, Arrives, CapturesWorkspace, CapturesFolders, Locks,
         Answers, indexVars, scopeVars, bufferVars
    <3>2. task["worker"].at \in {"idle"} \cup AnswerSteps
      BY <2>9, IdleOK DEF RescanArrives, Responds, Arrives, CapturesWorkspace, CapturesFolders, Locks, Answers, At, AnswerSteps
    <3>3. task'["worker"].at \in {"idle", "verify"} \cup AnswerSteps
      BY <2>9, WorkerSteps DEF Typed
    <3>4. Quiet("worker") /\ Quiet("worker")'
      BY <3>2, <3>3 DEF Quiet, AnswerSteps, BufferSteps, FolderSteps, SyncSteps
    <3>5. \A o \in Threads \ {"worker"} : task'[o] = task[o]
      BY <3>1 DEF Turn
    <3> QED BY <2>3, <3>1, <3>4, <3>5, QuietStep
  <2>10. ASSUME NEW t \in Threads, Publishes(t) PROVE Left'
    <3>1. Turn(t) /\ UNCHANGED <<index, live, buffer, scope, closed>>
      BY <2>10, PublishesTurn DEF Typed, Publishes, Plans, Commits, Pushes, HasPushed, indexVars, scopeVars, bufferVars
    <3>2. task[t].at \in {"plan", "commit", "push"} /\ task'[t].at \in {"commit", "push", "idle"}
      BY <2>10, IdleOK DEF Publishes, Plans, Commits, Pushes, HasPushed, At, Typed, TasksOK, Tasks
    <3>3. Quiet(t) /\ Quiet(t)'
      BY <3>2 DEF Quiet, BufferSteps, FolderSteps, SyncSteps
    <3>4. \A o \in Threads \ {t} : task'[o] = task[o]
      BY <3>1 DEF Turn
    <3> QED BY <2>3, <3>1, <3>3, <3>4, QuietStep
  <2> HIDE DEF Left
  <2> QED BY <1>2, <2>6, <2>7, <2>8, <2>9, <2>10 DEF Next
<1> QED BY <1>1, <1>2

LEMMA EntriesRight == ASSUME Typed, OneAtATime, Settled, ~overlapped PROVE \A u \in Uris : Right(u)
<1>1. task["main"] = Idle /\ task["worker"] = Idle
  BY DEF Settled, Threads
<1>2. Alone
  BY <1>1, IdleOK DEF Alone
<1>3. \A t \in Threads : Quiet(t)
  BY <1>1, IdleOK DEF Quiet, Threads, BufferSteps, FolderSteps, SyncSteps
<1> QED BY <1>2, <1>3 DEF OneAtATime, Good

\* A buffer is opened, edited and closed, the folders change and the files are
\* rescanned in many small steps, between which the other thread answers requests and
\* publishes: as long as the two threads do not both work on the index, an open
\* document of the workspace is always indexed by its buffer, never by its file.
THEOREM BuffersWin == Spec => []OpenBufferWinsAlone
<1> DEFINE I == Typed /\ Paired /\ WorkerRescans /\ OneAtATime
<1>1. Init => I
  BY InitTyped, InitOneAtATime
<1>2. I /\ [Next]_vars => I'
  BY NextTyped, NextPaired, NextRescans, NextOneAtATime
<1>3. I => OpenBufferWinsAlone
  BY EntriesRight DEF OpenBufferWinsAlone, Right, FromBuffer, FromFile, Missing, Typed, StoresOK, WorkspaceTypeOK
<1> QED BY <1>1, <1>2, <1>3, PTL DEF Spec

\* What is computed from files is tracked as such and nothing else is, whatever
\* either thread does alone: no closed file is left in the index that a rescan
\* would not find again, and nothing outside the folders stays indexed.
THEOREM FilesAreTracked == Spec => []ClosedFilesTracked
<1> DEFINE I == Typed /\ Paired /\ WorkerRescans /\ OneAtATime
<1>1. Init => I
  BY InitTyped, InitOneAtATime
<1>2. I /\ [Next]_vars => I'
  BY NextTyped, NextPaired, NextRescans, NextOneAtATime
<1>3. ASSUME I PROVE ClosedFilesTracked
  <2>1. SUFFICES ASSUME Settled, ~overlapped, NEW u \in Uris
                 PROVE  /\ index[u] # None => u \in scope
                        /\ u \in scope => (u \in closed <=> index[u] # None /\ Detached(index[u]))
    BY DEF ClosedFilesTracked
  <2>2. Right(u)
    BY <1>3, <2>1, EntriesRight
  <2>3. live[u] # None => ~Detached(live[u])
    BY <1>3 DEF Typed, StoresOK, Detached
  <2> QED BY <2>2, <2>3 DEF Right, FromBuffer, FromFile, Missing
<1> QED BY <1>1, <1>2, <1>3, PTL DEF Spec

-----------------------------------------------------------------------------
(***************************************************************************)
(* Snapshots are made one after the other.                                 *)
(***************************************************************************)
LEMMA AgedStep ==
    ASSUME Typed, Aged, nextId <= nextId', nextId' \in Nat,
           \A u \in Uris : \/ index'[u] \in {index[u], live[u], None}
                           \/ index'[u].id = nextId /\ nextId' = nextId + 1,
           \A u \in Uris : \/ live'[u] \in {live[u], None}
                           \/ live'[u].id = nextId /\ nextId' = nextId + 1
    PROVE  Aged'
<1>1. nextId \in Nat
  BY SessionAssumption DEF Typed, StoresOK
<1>2. \A u \in Uris : /\ index[u] # None => index[u].id \in Nat /\ index[u].id < nextId
                      /\ live[u] # None => live[u].id \in Nat /\ live[u].id < nextId
  BY SessionAssumption DEF Typed, StoresOK, WorkspaceTypeOK, Snapshots, Aged
<1>3. ASSUME NEW u \in Uris, index'[u] # None PROVE index'[u].id < nextId'
  BY <1>1, <1>2, <1>3
<1>4. ASSUME NEW u \in Uris, live'[u] # None PROVE live'[u].id < nextId'
  BY <1>1, <1>2, <1>4
<1> QED BY <1>3, <1>4 DEF Aged

LEMMA AgedSame == ASSUME Typed, Aged, UNCHANGED <<index, live, nextId>> PROVE Aged'
BY DEF Aged

\* The entry of one URI is replaced by its semantics, or removed.
LEMMA AgedIndexed ==
    ASSUME Typed, Aged, UNCHANGED <<live, nextId>>, NEW u \in Uris, live[u] # None, NEW expected,
           Attempts(Replace(live[u], expected), Refuses(u, expected))
    PROVE  Aged'
<1>1. live[u] \in Snapshots /\ live[u].uri = u
  BY DEF Typed, StoresOK
<1>2. index' = index \/ index' = [index EXCEPT ![u] = live[u]]
  BY <1>1 DEF Attempts, Replace, indexVars
<1>3. \A v \in Uris : index'[v] \in {index[v], live[v], None}
  BY <1>2 DEF Typed, StoresOK, WorkspaceTypeOK
<1>4. nextId \in Nat
  BY SessionAssumption DEF Typed, StoresOK
<1> QED BY <1>3, <1>4, AgedStep

LEMMA AgedRemoved ==
    ASSUME Typed, Aged, UNCHANGED <<live, nextId>>, NEW u \in Uris, NEW expected,
           Attempts(Remove(u, expected), Refuses(u, expected))
    PROVE  Aged'
<1>2. index' = index \/ index' = [index EXCEPT ![u] = None]
  BY DEF Attempts, Remove, indexVars
<1>3. \A v \in Uris : index'[v] \in {index[v], live[v], None}
  BY <1>2 DEF Typed, StoresOK, WorkspaceTypeOK
<1>4. nextId \in Nat
  BY SessionAssumption DEF Typed, StoresOK
<1> QED BY <1>3, <1>4, AgedStep

LEMMA AgedFile ==
    ASSUME Typed, Aged, UNCHANGED live, nextId' = nextId + 1, NEW u \in Uris, NEW expected,
           Attempts(Replace(Fresh(u, 0), expected), Refuses(u, expected))
    PROVE  Aged'
<1>1. Fresh(u, 0).uri = u /\ Fresh(u, 0).id = nextId /\ nextId \in Nat
  BY SessionAssumption DEF Fresh, Typed, StoresOK
<1> DEFINE s == Fresh(u, 0)
<1> HIDE DEF s
<1>2. s.uri = u /\ s.id = nextId /\ (index' = index \/ index' = [index EXCEPT ![u] = s])
  BY <1>1 DEF Attempts, Replace, indexVars, s
<1>3. \A v \in Uris : index'[v] = index[v] \/ index'[v].id = nextId
  BY <1>2 DEF Typed, StoresOK, WorkspaceTypeOK
<1> QED BY <1>1, <1>3, AgedStep

LEMMA AgedAnalysed == ASSUME Typed, Aged, UNCHANGED index, NEW u \in Uris, Analysed(u) PROVE Aged'
<1>1. nextId \in Nat /\ nextId' = nextId + 1
  BY SessionAssumption DEF Analysed, Typed, StoresOK
<1> DEFINE s == Fresh(u, buffer[u])
<1>2. s.id = nextId /\ live' = [live EXCEPT ![u] = s]
  BY DEF Analysed, Fresh
<1> HIDE DEF s
<1>3. \A v \in Uris : live'[v] = live[v] \/ live'[v].id = nextId
  BY <1>2 DEF Typed, StoresOK
<1> QED BY <1>1, <1>3, AgedStep

LEMMA BuffersAged == ASSUME Typed, Aged, Buffers PROVE Aged'
<1> DEFINE m == task["main"]
<1>0. m.at \in UriSteps => m.uri \in Uris
  BY MainUri DEF Typed
<1>a. nextId \in Nat
  BY SessionAssumption DEF Typed, StoresOK
<1>1. CASE \E u \in Uris : OpenArrives(u) \/ \E kind \in {"change", "close"} : ChangeArrives(u, kind)
  BY <1>1, AgedSame DEF OpenArrives, ChangeArrives, bufferVars, indexVars
<1>2. CASE ReadsPrevious \/ ReadsFile \/ Tracks
  BY <1>2, AgedSame DEF ReadsPrevious, ReadsFile, Tracks, bufferVars, indexVars
<1>3. CASE Drops \/ Unindexes
  BY <1>0, <1>3, AgedRemoved DEF Drops, Unindexes, At, UriSteps, BufferSteps, bufferVars
<1>4. CASE Edits
  <2>1. UNCHANGED index /\ nextId' = nextId + 1 /\ \A u \in Uris : live'[u] \in {live[u], None}
    BY <1>4 DEF Edits, indexVars, Typed, StoresOK
  <2> QED BY <1>a, <2>1, AgedStep
<1>5. CASE Analyses
  BY <1>0, <1>5, AgedAnalysed DEF Analyses, At, UriSteps, BufferSteps, indexVars
<1>6. CASE Indexes
  <2>1. m.uri \in Uris /\ live[m.uri] # None /\ UNCHANGED <<live, nextId>>
    BY <1>0, <1>6 DEF Indexes, At, UriSteps, BufferSteps, Typed, MainOK, bufferVars
  <2>2. CASE m.uri \in scope
    BY <1>6, <2>1, <2>2, AgedIndexed DEF Indexes
  <2>3. CASE m.uri \notin scope /\ m.expected # None
    BY <1>6, <2>1, <2>3, AgedRemoved DEF Indexes
  <2>4. CASE m.uri \notin scope /\ m.expected = None
    BY <1>6, <2>1, <2>4, AgedSame DEF Indexes, indexVars
  <2> QED BY <2>2, <2>3, <2>4
<1>7. CASE Closes
  <2>1. UNCHANGED <<index, nextId>> /\ \A u \in Uris : live'[u] \in {live[u], None}
    BY <1>7 DEF Closes, indexVars, Typed, StoresOK
  <2> QED BY <1>a, <2>1, AgedStep
<1>8. CASE Restores
  BY <1>0, <1>8, AgedFile DEF Restores, At, UriSteps, BufferSteps
<1> QED BY <1>1, <1>2, <1>3, <1>4, <1>5, <1>6, <1>7, <1>8 DEF Buffers

LEMMA NextAged == ASSUME Typed, Aged, [Next]_vars PROVE Aged'
<1> DEFINE m == task["main"]
<1>0. m.at \in UriSteps => m.uri \in Uris
  BY MainUri DEF Typed
<1>1. CASE FoldersArrive \/ Applies \/ Invalidates \/ ListsEntered \/ Enters \/ FilesArrive
  BY <1>1, AgedSame DEF FoldersArrive, Applies, Invalidates, Invalidate, ListsEntered, Enters, FilesArrive, bufferVars,
     indexVars
<1>2. CASE Leaves
  <2>1. PICK s \in m.left : IF buffer[s.uri] # None THEN Analysed(s.uri) ELSE UNCHANGED bufferVars
    BY <1>2 DEF Leaves
  <2>2. s.uri \in Uris /\ UNCHANGED index
    BY <1>2, <2>1 DEF Leaves, At, Typed, TasksOK, TaskOK, OverSnapshots, Snapshots, Threads, indexVars
  <2> QED BY <2>1, <2>2, AgedAnalysed, AgedSame DEF bufferVars
<1>3. CASE RemovesLeft
  BY <1>0, <1>3, AgedRemoved DEF RemovesLeft, At, UriSteps, BufferSteps, bufferVars
<1>4. CASE Admits
  <2>1. m.uri \in Uris /\ live[m.uri] # None /\ UNCHANGED <<live, nextId>>
    BY <1>0, <1>4 DEF Admits, At, UriSteps, BufferSteps, Typed, MainOK, bufferVars
  <2> QED BY <1>4, <2>1, AgedIndexed DEF Admits
<1>5. ASSUME NEW t \in Threads, Reconciles(t) PROVE Aged'
  <2>0. task[t].at \in UriSteps => task[t].uri \in Uris
    BY DEF Typed, TasksOK, TaskOK
  <2>1. CASE ListsOpen(t) \/ Scans(t) \/ ListsTracked(t) \/ Prunes(t) \/ Untracks(t) \/ StartsComparing(t)
             \/ Compares(t) \/ TracksFound(t) \/ Syncs(t)
    BY <2>1, AgedSame DEF ListsOpen, Scans, ListsTracked, Prunes, Untracks, StartsComparing, Compares, TracksFound,
       Syncs, bufferVars, indexVars
  <2>2. CASE RemovesPruned(t)
    BY <2>0, <2>2, AgedRemoved DEF RemovesPruned, At, UriSteps, BufferSteps, bufferVars
  <2>3. CASE Replaces(t)
    BY <2>0, <2>3, AgedFile DEF Replaces, At, UriSteps, BufferSteps
  <2> QED BY <1>5, <2>1, <2>2, <2>3 DEF Reconciles
<1>6. CASE RescanArrives \/ Verifies \/ Responds
  BY <1>6, AgedSame DEF RescanArrives, Verifies, Responds, Arrives, CapturesWorkspace, CapturesFolders, Locks, Answers,
     bufferVars, indexVars
<1>7. ASSUME NEW t \in Threads, Publishes(t) PROVE Aged'
  BY <1>7, AgedSame DEF Publishes, Plans, Commits, Pushes, HasPushed, bufferVars, indexVars
<1>8. CASE UNCHANGED vars
  BY <1>8, AgedSame DEF vars, bufferVars, indexVars
<1> QED BY <1>1, <1>2, <1>3, <1>4, <1>5, <1>6, <1>7, <1>8, BuffersAged DEF Next, Folders

-----------------------------------------------------------------------------
(***************************************************************************)
(* Where a step leads.                                                     *)
(***************************************************************************)
LEMMA BuffersTo ==
    ASSUME Typed, Buffers
    PROVE  /\ task'["main"].at \in BufferSteps \cup {"plan", "idle"}
           /\ task'["main"].found \in {task["main"].found, {}}
           /\ task'["main"].op \in {task["main"].op, "none", "open", "change", "close"}
           /\ task'["main"].at = "restored" => task'["main"].uri \in scope
           /\ task'["main"].at = "track" => task["main"].at = "restored" /\ task'["main"].uri = task["main"].uri
           /\ task'["main"].at = "drop" => task'["main"].uri \in Uris /\ OpenArrives(task'["main"].uri)
                                            /\ index[task'["main"].uri] # None
<1> USE DEF BufferSteps, Threads
<1> DEFINE m == task["main"]
<1>0. PICK n : n = task'["main"]
  OBVIOUS
<1>1. m \in Tasks /\ (m.at \in BufferSteps => m.uri \in Uris)
  BY MainUri DEF Typed, TasksOK, UriSteps
<1>2. ASSUME NEW step, Goes("main", step) PROVE n.at = step /\ n.found = m.found /\ n.op = m.op /\ n.uri = m.uri
  BY <1>0, <1>1, <1>2 DEF Goes, Typed, TasksOK, Tasks
<1>3. ASSUME NEW step, Finishes("main", step) PROVE n.at = step /\ n.found = m.found /\ n.op = m.op
  BY <1>0, <1>1, <1>3 DEF Finishes, Leaving, Typed, TasksOK, Tasks
<1>4. ASSUME NEW u \in Uris, OpenArrives(u)
      PROVE  n.op = "open" /\ n.found = {} /\ n.uri = u /\ n.at \in {"drop", "read"} /\ (n.at = "drop" => index[u] # None)
  <2>1. PICK s \in {"drop", "read"} :
          /\ task' = [task EXCEPT !["main"] = [Idle EXCEPT !.op = "open", !.uri = u, !.expected = index[u], !.at = s]]
          /\ s = "drop" => index[u] # None
    BY <1>4 DEF OpenArrives
  <2> QED BY <1>0, <2>1, IdleOK DEF Typed, TasksOK, Tasks
<1>5. ASSUME NEW u \in Uris, NEW kind \in {"change", "close"}, ChangeArrives(u, kind)
      PROVE  n.op = kind /\ n.found = {} /\ n.at = "read"
  BY <1>0, <1>5, IdleOK DEF ChangeArrives, Typed, TasksOK, Tasks
<1>6. CASE \E u \in Uris : OpenArrives(u) \/ \E kind \in {"change", "close"} : ChangeArrives(u, kind)
  BY <1>0, <1>4, <1>5, <1>6
<1>7. CASE ReadsPrevious
  <2>1. PICK s \in {"close", "edit"} : task' = [task EXCEPT !["main"].expected = index[m.uri], !["main"].at = s]
    BY <1>7 DEF ReadsPrevious
  <2>2. n.at = s /\ n.found = m.found /\ n.op = m.op
    BY <1>0, <1>1, <2>1 DEF Typed, TasksOK, Tasks
  <2> QED BY <1>0, <2>2
<1>8. CASE Drops \/ Edits \/ Analyses \/ Closes \/ Unindexes
  <2>1. PICK s \in {"read", "analyse", "index", "restore", "unindex"} : Goes("main", s)
    BY <1>8 DEF Drops, Edits, Analyses, Closes, Unindexes
  <2> QED BY <1>0, <1>2, <2>1
<1>9. CASE Indexes
  <2>1. task' = [task EXCEPT !["main"] = Idle] \/ Finishes("main", "plan")
    BY <1>9 DEF Indexes, Finishes
  <2>2. CASE task' = [task EXCEPT !["main"] = Idle]
    BY <1>0, <2>2, TurnsTo, IdleOK DEF Typed
  <2> QED BY <1>0, <1>3, <2>1, <2>2
<1>10. CASE ReadsFile
  <2>1. CASE Finishes("main", "plan")
    BY <1>0, <1>3, <2>1
  <2>2. CASE m.uri \in scope /\ task' = [task EXCEPT !["main"].expected = index[m.uri], !["main"].at = "restored"]
    BY <1>0, <1>1, <2>2 DEF Typed, TasksOK, Tasks
  <2> QED BY <1>10, <2>1, <2>2 DEF ReadsFile
<1>11. CASE Restores
  <2>1. m.at = "restored" /\ (Finishes("main", "plan") \/ Goes("main", "track"))
    BY <1>11 DEF Restores, At
  <2> QED BY <1>0, <1>2, <1>3, <2>1
<1>12. CASE Tracks
  BY <1>0, <1>3, <1>12 DEF Tracks
<1> QED BY <1>6, <1>7, <1>8, <1>9, <1>10, <1>11, <1>12 DEF Buffers

LEMMA FoldersTo ==
    ASSUME Typed, FolderOps, Folders
    PROVE  /\ task'["main"].at \in FolderSteps /\ task'["main"].op = "folders"
           /\ task'["main"].at = "apply" => FoldersArrive /\ task'["main"].found = {}
<1> USE DEF FolderSteps, Threads
<1> DEFINE m == task["main"]
<1>0. PICK n : n = task'["main"]
  OBVIOUS
<1>1. m \in Tasks /\ (m.at \in FolderSteps => m.op = "folders")
  BY DEF Typed, TasksOK, FolderOps
<1>2. CASE FoldersArrive
  BY <1>0, <1>2, IdleOK DEF FoldersArrive, Typed, TasksOK, Tasks
<1>3. CASE Applies
  BY <1>0, <1>1, <1>3 DEF Applies, Goes, At, Typed, TasksOK, Tasks
<1>4. CASE Invalidates
  BY <1>0, <1>4, IdleOK DEF Invalidates, Typed, TasksOK, Tasks
<1>5. CASE Leaves
  BY <1>0, <1>1, <1>5 DEF Leaves, At, Typed, TasksOK, Tasks
<1>6. CASE RemovesLeft \/ Admits
  <2>1. PICK s \in {"leave", "enter"} : Finishes("main", s) /\ m.at \in FolderSteps
    BY <1>6 DEF RemovesLeft, Admits, At
  <2> QED BY <1>0, <1>1, <2>1 DEF Finishes, Leaving, Typed, TasksOK, Tasks
<1>7. CASE ListsEntered
  BY <1>0, <1>1, <1>7 DEF ListsEntered, At, Typed, TasksOK, Tasks
<1>8. CASE Enters
  <2>1. m.at = "enter" /\ \E u \in m.left :
          \/ task' = [task EXCEPT !["main"] = [m EXCEPT !.left = m.left \ {u}]]
          \/ task' = [task EXCEPT !["main"] = [m EXCEPT !.left = m.left \ {u}, !.uri = u, !.expected = index[u],
                                                        !.at = "admit"]]
    BY <1>8 DEF Enters, At
  <2>2. PICK u : \/ n = [m EXCEPT !.left = m.left \ {u}]
                 \/ n = [m EXCEPT !.left = m.left \ {u}, !.uri = u, !.expected = index[u], !.at = "admit"]
    BY ZenonT(40), <1>0, <2>1, TurnsTo DEF Typed
  <2>3. n.op = m.op /\ n.at \in {m.at, "admit"}
    BY <1>1, <2>2 DEF Tasks
  <2> QED BY <1>0, <1>1, <2>1, <2>3
<1> QED BY <1>2, <1>3, <1>4, <1>5, <1>6, <1>7, <1>8 DEF Folders

LEMMA SyncedTo ==
    ASSUME TasksOK, NEW t \in Threads, NEW changed, task' = Synced(t, changed)
    PROVE  /\ task'[t].at \in {"plan", "idle"} /\ task'[t].found = {} /\ task'[t].op \in {task[t].op, "none"}
           /\ changed \/ task[t].op = "folders" => task'[t].at = "plan"
<1>1. task[t].op \in Ops
  BY DEF TasksOK, Tasks
<1>2. CASE changed \/ task[t].op = "folders"
  BY <1>1, <1>2, IdleOK DEF Synced, TasksOK, Tasks
<1>3. CASE ~(changed \/ task[t].op = "folders")
  BY <1>3, TurnsTo, IdleOK DEF Synced
<1> QED BY <1>2, <1>3

\* What a step of a rescan does to its task.
LEMMA ReconcilesTo ==
    ASSUME Typed, NEW t \in Threads, Reconciles(t)
    PROVE  /\ task[t].at \in SyncSteps \cup {"enter"} /\ task'[t].at \in SyncSteps \cup {"plan", "idle"}
           /\ task'[t].op \in {task[t].op, "none"}
           /\ task'[t].at \in SyncSteps => task'[t].op = task[t].op /\ (task[t].changed => task'[t].changed)
           /\ task'[t].found \subseteq task[t].found \cup scope
           /\ task'[t].at \in {"compare", "replace", "trackFound"} =>
                 IF task[t].at \in {"compare", "replace", "trackFound"} THEN task'[t].left \subseteq task[t].left
                 ELSE task'[t].left = task[t].found
           /\ task'[t].at = "replace" => task[t].at = "compare" /\ task'[t].uri \in task[t].left
           /\ task'[t].at = "trackFound" => task[t].at = "replace" /\ task'[t].uri = task[t].uri
<1> USE DEF SyncSteps
<1> DEFINE m == task[t]
<1>0. PICK n : n = task'[t]
  OBVIOUS
<1>1. m \in Tasks
  BY DEF Typed, TasksOK
<1>2. ASSUME NEW step, Finishes(t, step)
      PROVE  n.at = step /\ n.op = m.op /\ n.changed = m.changed /\ n.found = m.found /\ n.left = m.left
  BY <1>0, <1>1, <1>2 DEF Finishes, Leaving, Typed, TasksOK, Tasks
<1>3. CASE ListsOpen(t)
  <2>1. CASE scope = {}
    BY <1>0, <1>3, <2>1, SyncedTo DEF ListsOpen, At, Typed
  <2>2. CASE scope # {}
    BY <1>0, <1>1, <1>3, <2>2 DEF ListsOpen, At, Typed, TasksOK, Tasks
  <2> QED BY <2>1, <2>2
<1>4. CASE Scans(t)
  BY <1>0, <1>1, <1>4 DEF Scans, At, Typed, TasksOK, Tasks
<1>5. CASE ListsTracked(t)
  BY <1>0, <1>1, <1>5 DEF ListsTracked, At, Typed, TasksOK, Tasks
<1>6. CASE Prunes(t)
  <2>1. m.at = "prune" /\ \E u \in m.left, s \in {"untrack", "pruned"} :
          task' = [task EXCEPT ![t] = [m EXCEPT !.left = m.left \ {u}, !.uri = u, !.expected = index[u], !.at = s]]
    BY <1>6 DEF Prunes, At
  <2> QED BY <1>0, <1>1, <2>1 DEF Typed, TasksOK, Tasks
<1>7. CASE RemovesPruned(t)
  BY <1>0, <1>1, <1>7 DEF RemovesPruned, At, Typed, TasksOK, Tasks
<1>8. CASE Untracks(t)
  BY <1>0, <1>2, <1>8 DEF Untracks, At
<1>9. CASE StartsComparing(t)
  BY <1>0, <1>1, <1>9 DEF StartsComparing, At, Typed, TasksOK, Tasks
<1>10. CASE Compares(t)
  <2>1. m.at = "compare" /\ \E u \in m.left :
          \/ task' = [task EXCEPT ![t] = [m EXCEPT !.left = m.left \ {u}]]
          \/ task' = [task EXCEPT ![t] = [m EXCEPT !.left = m.left \ {u}, !.uri = u,
                                                   !.expected = index[u], !.at = "replace"]]
    BY <1>10 DEF Compares, At
  <2>2. PICK u \in m.left :
          \/ n = [m EXCEPT !.left = m.left \ {u}]
          \/ n = [m EXCEPT !.left = m.left \ {u}, !.uri = u, !.expected = index[u], !.at = "replace"]
    BY <1>0, <2>1, TurnsTo DEF Typed
  <2>3. /\ n.op = m.op /\ n.changed = m.changed /\ n.found = m.found /\ n.left \subseteq m.left
        /\ n.at = m.at \/ (n.at = "replace" /\ n.uri = u)
    <3>1. CASE n = [m EXCEPT !.left = m.left \ {u}]
      BY <1>1, <3>1 DEF Tasks
    <3>2. CASE n = [m EXCEPT !.left = m.left \ {u}, !.uri = u, !.expected = index[u], !.at = "replace"]
      BY <1>1, <3>2 DEF Tasks
    <3> QED BY <2>2, <3>1, <3>2
  <2> QED BY <1>0, <2>1, <2>2, <2>3
<1>11. CASE Replaces(t)
  <2>1. m.at = "replace" /\ (Finishes(t, "compare") \/ Goes(t, "trackFound"))
    BY <1>11 DEF Replaces, At
  <2>2. CASE Goes(t, "trackFound")
    BY <1>0, <1>1, <2>1, <2>2 DEF Goes, Typed, TasksOK, Tasks
  <2> QED BY <1>0, <1>2, <2>1, <2>2
<1>12. CASE TracksFound(t)
  BY <1>0, <1>1, <1>12 DEF TracksFound, Leaving, At, Typed, TasksOK, Tasks
<1>13. CASE Syncs(t)
  BY <1>0, <1>13, SyncedTo DEF Syncs, At, Typed
<1> QED BY <1>3, <1>4, <1>5, <1>6, <1>7, <1>8, <1>9, <1>10, <1>11, <1>12, <1>13 DEF Reconciles

LEMMA PublishesTo ==
    ASSUME Typed, NEW t \in Threads, Publishes(t)
    PROVE  /\ task[t].at \in PublishSteps /\ task'[t].at \in PublishSteps \cup {"idle"}
           /\ task'[t].op \in {task[t].op, "none"} /\ task'[t].found \subseteq task[t].found
<1> USE DEF PublishSteps
<1>0. PICK n : n = task'[t]
  OBVIOUS
<1>1. task[t] \in Tasks
  BY DEF Typed, TasksOK
<1>2. CASE Plans(t)
  BY <1>0, <1>1, <1>2 DEF Plans, At, Typed, TasksOK, Tasks
<1>3. CASE Commits(t)
  <2>1. n = Idle \/ n = [task[t] EXCEPT !.at = "push"]
    BY <1>0, <1>3 DEF Commits, Typed, TasksOK
  <2> QED BY <1>0, <1>1, <1>3, <2>1, IdleOK DEF Commits, At, Tasks
<1>4. CASE Pushes(t)
  BY <1>0, <1>1, <1>4 DEF Pushes, At, Typed, TasksOK, Tasks
<1>5. CASE HasPushed(t)
  BY <1>0, <1>5, IdleOK DEF HasPushed, At, Typed, TasksOK
<1> QED BY <1>2, <1>3, <1>4, <1>5 DEF Publishes

LEMMA RequestsWithin ==
    ASSUME Typed, Within(task["worker"]), RescanArrives \/ Verifies \/ Responds PROVE Within(task'["worker"])
<1> USE DEF Threads
<1>0. PICK n : n = task'["worker"]
  OBVIOUS
<1>1. task["worker"] \in Tasks
  BY DEF Typed, TasksOK
<1>2. n.found \in {task["worker"].found, {}} /\ n.op \in {task["worker"].op, "none", "files", "respond"}
  <2>1. CASE RescanArrives
    <3>1. PICK s : task' = [task EXCEPT !["worker"] = [Idle EXCEPT !.at = "verify", !.expected = s]]
      BY <2>1 DEF RescanArrives
    <3> QED BY <1>0, <3>1, IdleOK DEF Typed, TasksOK, Tasks
  <2>2. CASE Verifies
    <3>1. n = Idle \/ n = [Idle EXCEPT !.op = "files", !.at = "list"]
      BY <1>0, <2>2 DEF Verifies, Typed, TasksOK
    <3>2. [Idle EXCEPT !.op = "files", !.at = "list"].op = "files" /\ [Idle EXCEPT !.op = "files", !.at = "list"].found = {}
      BY IdleOK DEF Tasks
    <3> QED BY <3>1, <3>2, IdleOK
  <2>3. CASE \E u \in Uris : Arrives(u)
    BY <1>0, <2>3, IdleOK DEF Arrives, Typed, TasksOK, Tasks
  <2>4. CASE CapturesWorkspace
    BY <1>0, <1>1, <2>4 DEF CapturesWorkspace, Typed, TasksOK, Tasks
  <2>5. CASE CapturesFolders
    BY <1>0, <1>1, <2>5 DEF CapturesFolders, Typed, TasksOK, Tasks
  <2>6. CASE Locks
    <3>1. PICK s \in {"answer", "lock"} :
            n = Idle \/ n = [task["worker"] EXCEPT !.taken = task["worker"].taken + 1, !.at = s]
      BY <1>0, <2>6 DEF Locks, Typed, TasksOK
    <3>2. CASE n = Idle
      BY <3>2, IdleOK
    <3>3. CASE n = [task["worker"] EXCEPT !.taken = task["worker"].taken + 1, !.at = s]
      BY <1>1, <3>3 DEF Tasks
    <3> QED BY <3>1, <3>2, <3>3
  <2>7. CASE Answers
    BY <1>0, <2>7, IdleOK DEF Answers, Typed, TasksOK
  <2> QED BY <2>1, <2>2, <2>3, <2>4, <2>5, <2>6, <2>7 DEF Responds
<1>3. task["worker"].at \in {"idle", "verify"} \cup AnswerSteps
  BY IdleOK DEF RescanArrives, Verifies, Responds, Arrives, CapturesWorkspace, CapturesFolders, Locks, Answers, At, AnswerSteps
<1>4. n.at \in {"idle", "verify", "list"} \cup AnswerSteps
  <2>1. CASE Verifies
    <3>1. n = Idle \/ n = [Idle EXCEPT !.op = "files", !.at = "list"]
      BY <1>0, <2>1 DEF Verifies, Typed, TasksOK
    <3>2. [Idle EXCEPT !.op = "files", !.at = "list"].at = "list"
      BY IdleOK DEF Tasks
    <3> QED BY <3>1, <3>2, IdleOK
  <2> QED BY <1>0, <2>1, WorkerSteps DEF Typed
<1> QED BY <1>0, <1>2, <1>3, <1>4 DEF Within, AnswerSteps, FolderSteps

-----------------------------------------------------------------------------
(***************************************************************************)
(* Until the folders change nothing outside of them is indexed, and main   *)
(* drops no such entry.                                                    *)
(***************************************************************************)
LEMMA NextFolderOps == ASSUME Typed, FolderOps, [Next]_vars PROVE FolderOps'
<1>1. CASE Buffers
  BY <1>1, BuffersTo DEF FolderOps, BufferSteps, FolderSteps
<1>2. CASE Folders
  BY <1>2, FoldersTo DEF FolderOps
<1>3. CASE FilesArrive
  <2>1. task'["main"].at = "list"
    BY <1>3, IdleOK DEF FilesArrive, Typed, TasksOK, Tasks, Threads
  <2> QED BY <2>1 DEF FolderOps, FolderSteps
<1>4. CASE RescanArrives \/ Verifies \/ Responds
  BY <1>4, RequestsTurn DEF Typed, Turn, Threads, FolderOps
<1>5. ASSUME NEW t \in Threads, Reconciles(t) PROVE FolderOps'
  <2>1. Turn(t)
    BY <1>5, ReconcilesTurn, QuietTurns DEF Typed
  <2> QED BY <1>5, <2>1, ReconcilesTo DEF Turn, Threads, FolderOps, FolderSteps, SyncSteps
<1>6. ASSUME NEW t \in Threads, Publishes(t) PROVE FolderOps'
  <2>1. Turn(t)
    BY <1>6, PublishesTurn DEF Typed
  <2> QED BY <1>6, <2>1, PublishesTo DEF Turn, Threads, FolderOps, FolderSteps, PublishSteps
<1>7. CASE UNCHANGED vars
  BY <1>7 DEF vars, FolderOps
<1> QED BY <1>1, <1>2, <1>3, <1>4, <1>5, <1>6, <1>7 DEF Next

LEMMA ConfinedStep ==
    ASSUME NEW t \in Threads, Confined, \A o \in Threads \ {t} : task'[o] = task[o],
           scopeGeneration = 0 => /\ scope' = scope /\ Within(task'[t])
                                  /\ \A u \in Uris : index'[u] # None => index[u] # None \/ u \in scope,
           scopeGeneration' = 0 => scopeGeneration = 0
    PROVE  Confined'
<1>1. SUFFICES ASSUME scopeGeneration = 0
               PROVE  (\A u \in Uris : index'[u] # None => u \in scope') /\ \A o \in Threads : Within(task[o])'
  BY DEF Confined
<1>2. \A u \in Uris : index'[u] # None => u \in scope'
  BY <1>1 DEF Confined
<1>3. ASSUME NEW o \in Threads PROVE Within(task[o])'
  <2>1. Within(task'[o])
    BY <1>1 DEF Confined
  <2> QED BY <1>1, <2>1 DEF Within
<1> QED BY <1>2, <1>3

LEMMA NextConfined == ASSUME Typed, FolderOps, Confined, [Next]_vars PROVE Confined'
<1>0. scopeGeneration \in Nat
  BY DEF Typed, StoresOK, WorkspaceTypeOK
<1>1. CASE Buffers
  <2> DEFINE m == task["main"]
  <2>1. QuietTurn("main") /\ CountedStep("main")
    BY <1>1, BuffersTurn, BuffersCounted DEF Typed
  <2>2. UNCHANGED scopeVars
    BY <1>1 DEF Buffers, OpenArrives, ChangeArrives, Drops, ReadsPrevious, Edits, Analyses, Indexes, Closes,
       Unindexes, ReadsFile, Restores, Tracks
  <2>3. ASSUME scopeGeneration = 0 PROVE Within(task'["main"])
    <3>1. Within(m) /\ m.at \notin FolderSteps
      BY <1>1, <2>3, IdleOK DEF Confined, Threads, Buffers, OpenArrives, ChangeArrives, Notify, Drops, ReadsPrevious,
         Edits, Analyses, Indexes, Closes, Unindexes, ReadsFile, Restores, Tracks, At, FolderSteps
    <3> QED BY <1>1, <3>1, BuffersTo DEF Within, BufferSteps, FolderSteps
  <2>4. ASSUME scopeGeneration = 0, NEW u \in Uris, index'[u] # None PROVE index[u] # None \/ u \in scope
    <3>0. m.at \in UriSteps => m.uri \in Uris
      BY MainUri DEF Typed
    <3>1. Within(m)
      BY <2>4 DEF Confined, Threads
    <3>2. CASE index' = index
      BY <2>4, <3>2
    <3>3. CASE Drops \/ Unindexes
      <4>1. index' = index \/ index' = [index EXCEPT ![m.uri] = None]
        BY <3>3 DEF Drops, Unindexes, Attempts, Remove, indexVars
      <4> QED BY <2>4, <4>1 DEF Typed, StoresOK, WorkspaceTypeOK
    <3>4. CASE Indexes
      <4>1. m.uri \in Uris /\ live[m.uri] # None
        BY <3>0, <3>4 DEF Indexes, At, UriSteps, BufferSteps, Typed, MainOK
      <4>2. live[m.uri].uri = m.uri
        BY <4>1 DEF Typed, StoresOK
      <4>3. CASE m.uri \in scope
        <5>1. index' = index \/ index' = [index EXCEPT ![m.uri] = live[m.uri]]
          BY <3>4, <4>2, <4>3 DEF Indexes, Attempts, Replace, indexVars
        <5> QED BY <2>4, <4>3, <5>1 DEF Typed, StoresOK, WorkspaceTypeOK
      <4>4. CASE m.uri \notin scope
        <5>1. index' = index \/ index' = [index EXCEPT ![m.uri] = None]
          BY <3>4, <4>4 DEF Indexes, Attempts, Remove, indexVars
        <5> QED BY <2>4, <5>1 DEF Typed, StoresOK, WorkspaceTypeOK
      <4> QED BY <4>3, <4>4
    <3>5. CASE Restores
      <4>1. m.uri \in scope
        BY <3>1, <3>5 DEF Restores, At, Within
      <4>2. index' = index \/ index' = [index EXCEPT ![m.uri] = Fresh(m.uri, 0)]
        BY <3>5 DEF Restores, Attempts, Replace, Fresh, indexVars
      <4> QED BY <2>4, <4>1, <4>2 DEF Typed, StoresOK, WorkspaceTypeOK
    <3>6. index' = index \/ Drops \/ Unindexes \/ Indexes \/ Restores
      BY <1>1 DEF Buffers, OpenArrives, ChangeArrives, ReadsPrevious, Edits, Analyses, Closes, ReadsFile, Tracks, indexVars
    <3> QED BY <3>2, <3>3, <3>4, <3>5, <3>6
  <2> QED BY <2>1, <2>2, <2>3, <2>4, ConfinedStep DEF QuietTurn, scopeVars, Threads
<1>2. CASE Folders
  <2>1. QuietTurn("main") /\ CountedStep("main")
    BY <1>2, FoldersTurn, FoldersCounted DEF Typed
  <2>2. CASE scopeGeneration' = 0
    <3>1. scopeGeneration = 0
      BY <1>0, <2>1, <2>2 DEF CountedStep
    <3>2. task["main"].at \in FolderSteps => task["main"].at = "apply"
      BY <3>1 DEF Confined, Within, Threads
    <3>3. FoldersArrive
      <4>1. ~Applies
        BY <1>0, <2>2, <3>1 DEF Applies, ChangeScope
      <4>2. Folders => FoldersArrive \/ Applies \/ task["main"].at \in FolderSteps \ {"apply"}
        BY DEF Folders, Invalidates, Leaves, RemovesLeft, ListsEntered, Enters, Admits, At, FolderSteps
      <4> QED BY <1>2, <3>2, <4>1, <4>2
    <3>4. UNCHANGED <<indexVars, scopeVars>> /\ task'["main"].at = "apply" /\ task'["main"].found = {}
      BY <1>2, <3>3, FoldersTo, IdleOK DEF FoldersArrive, Typed, TasksOK, Tasks, Threads
    <3>5. Within(task'["main"])
      BY <3>4 DEF Within
    <3> QED BY <2>1, <3>1, <3>4, <3>5, ConfinedStep DEF QuietTurn, scopeVars, indexVars, Threads
  <2>3. CASE scopeGeneration' # 0
    BY <2>3 DEF Confined
  <2> QED BY <2>2, <2>3
<1>3. CASE FilesArrive
  <2>1. task'["main"].at = "list" /\ task'["main"].op = "files" /\ task'["main"].found = {} /\ QuietTurn("main")
    BY <1>3, FoldersTurn, IdleOK DEF FilesArrive, Typed, TasksOK, Tasks, Threads
  <2>2. Within(task'["main"])
    BY <2>1 DEF Within, FolderSteps
  <2> QED BY <1>3, <2>1, <2>2, ConfinedStep DEF QuietTurn, FilesArrive, scopeVars, indexVars, Threads
<1>4. CASE RescanArrives \/ Verifies \/ Responds
  <2>1. Turn("worker") /\ UNCHANGED <<indexVars, scopeVars>>
    BY <1>4, RequestsTurn DEF Typed, RescanArrives, Verifies, Responds, Arrives, CapturesWorkspace, CapturesFolders,
       Locks, Answers
  <2>2. ASSUME scopeGeneration = 0 PROVE Within(task'["worker"])
    <3>1. Within(task["worker"])
      BY <2>2 DEF Confined, Threads
    <3> QED BY <1>4, <3>1, RequestsWithin
  <2> QED BY <2>1, <2>2, ConfinedStep DEF Turn, scopeVars, indexVars, Threads
<1>5. ASSUME NEW t \in Threads, Reconciles(t) PROVE Confined'
  <2>1. QuietTurn(t) /\ UNCHANGED scopeVars
    BY <1>5, ReconcilesTurn DEF Typed, Reconciles, ListsOpen, Scans, ListsTracked, Prunes, RemovesPruned, Untracks,
       StartsComparing, Compares, Replaces, TracksFound, Syncs
  <2>2. ASSUME scopeGeneration = 0 PROVE Within(task'[t])
    <3>1. Within(task[t])
      BY <2>2 DEF Confined
    <3>2. task[t].op # "folders"
      BY <1>5, <3>1, ReconcilesTo DEF Within, SyncSteps
    <3> QED BY <1>5, <3>1, <3>2, ReconcilesTo DEF Within, SyncSteps, FolderSteps
  <2>3. ASSUME scopeGeneration = 0, NEW u \in Uris, index'[u] # None PROVE index[u] # None \/ u \in scope
    <3>1. Within(task[t])
      BY <2>3 DEF Confined
    <3>2. CASE index' = index
      BY <2>3, <3>2
    <3>3. CASE RemovesPruned(t)
      <4>1. index' = index \/ index' = [index EXCEPT ![task[t].uri] = None]
        BY <3>3 DEF RemovesPruned, Attempts, Remove, indexVars
      <4> QED BY <2>3, <4>1 DEF Typed, StoresOK, WorkspaceTypeOK
    <3>4. CASE Replaces(t)
      <4>1. task[t].uri \in scope
        BY <3>1, <3>4 DEF Replaces, At, Within
      <4>2. index' = index \/ index' = [index EXCEPT ![task[t].uri] = Fresh(task[t].uri, 0)]
        BY <3>4 DEF Replaces, Attempts, Replace, Fresh, indexVars
      <4> QED BY <2>3, <4>1, <4>2 DEF Typed, StoresOK, WorkspaceTypeOK
    <3>5. index' = index \/ RemovesPruned(t) \/ Replaces(t)
      BY <1>5 DEF Reconciles, ListsOpen, Scans, ListsTracked, Prunes, Untracks, StartsComparing, Compares,
         TracksFound, Syncs, indexVars
    <3> QED BY <3>2, <3>3, <3>4, <3>5
  <2> QED BY <2>1, <2>2, <2>3, ConfinedStep DEF QuietTurn, scopeVars
<1>6. ASSUME NEW t \in Threads, Publishes(t) PROVE Confined'
  <2>1. Turn(t) /\ UNCHANGED <<indexVars, scopeVars>>
    BY <1>6, PublishesTurn DEF Typed, Publishes, Plans, Commits, Pushes, HasPushed
  <2>2. ASSUME scopeGeneration = 0 PROVE Within(task'[t])
    <3>1. Within(task[t])
      BY <2>2 DEF Confined
    <3> QED BY <1>6, <3>1, PublishesTo DEF Within, PublishSteps, FolderSteps
  <2> QED BY <2>1, <2>2, ConfinedStep DEF Turn, scopeVars, indexVars
<1>7. CASE UNCHANGED vars
  BY <1>7 DEF vars, Confined, Within, scopeVars, indexVars
<1> QED BY <1>1, <1>2, <1>3, <1>4, <1>5, <1>6, <1>7 DEF Next

LEMMA NextDropsScoped ==
    ASSUME Typed, FolderOps, Confined, WorkerRescans, OneAtATime, DropsScoped, Typed', WorkerRescans', [Next]_vars
    PROVE  DropsScoped'
<1> USE DEF Threads
<1>0. Alone' => Alone
  BY DEF Next, Overlaps, Alone, vars
<1>1. scopeGeneration' = 0 => scopeGeneration = 0
  <2>1. scopeGeneration \in Nat /\ scopeGeneration' \in Nat
    BY DEF Typed, StoresOK, WorkspaceTypeOK
  <2>2. CASE Next
    <3>1. PICK t \in Threads : CountedStep(t)
      BY <2>2, EveryTurn
    <3> QED BY <2>1, <3>1 DEF CountedStep
  <2> QED BY <2>2 DEF vars, scopeVars
<1>2. SUFFICES ASSUME Alone' \/ scopeGeneration' = 0, task'["main"].at = "drop" PROVE task'["main"].uri \in scope'
  BY DEF DropsScoped, At
<1>3. CASE task'["main"] = task["main"] /\ scope' = scope
  BY <1>0, <1>1, <1>2, <1>3 DEF DropsScoped, At
<1>4. CASE Buffers
  <2>1. PICK u : u = task'["main"].uri
    OBVIOUS
  <2>2. u \in Uris /\ OpenArrives(u) /\ index[u] # None /\ scope' = scope
    BY <1>2, <1>4, <2>1, BuffersTo DEF OpenArrives, scopeVars
  <2>3. CASE scopeGeneration' = 0
    BY <1>1, <2>1, <2>2, <2>3 DEF Confined
  <2>4. CASE Alone'
    <3>1. task["main"] = Idle /\ task'["main"] # Idle /\ task'["worker"] = task["worker"]
      BY <1>2, <1>4, <2>2, BuffersTurn, IdleOK DEF Typed, QuietTurn, OpenArrives, Notify
    <3>2. task["worker"].op # "files"
      BY <2>4, <3>1 DEF Alone
    <3>3. Quiet("worker") /\ Quiet("main")
      BY <3>1, <3>2, IdleOK DEF Quiet, WorkerRescans, Typed, TasksOK, TaskOK, BufferSteps, FolderSteps, SyncSteps,
         PublishSteps, AnswerSteps
    <3>4. \A v \in Uris : Right(v)
      BY <1>0, <2>4, <3>3 DEF OneAtATime, Good
    <3> QED BY <2>1, <2>2, <3>4 DEF Right, Missing
  <2> QED BY <1>2, <2>3, <2>4
<1>5. CASE Folders
  BY <1>2, <1>5, FoldersTo DEF FolderSteps
<1>6. CASE FilesArrive
  BY <1>2, <1>6, IdleOK DEF FilesArrive, Typed, TasksOK, Tasks
<1>7. CASE RescanArrives \/ Verifies \/ Responds
  <2>1. task'["main"] = task["main"] /\ scope' = scope
    BY <1>7, RequestsTurn DEF Typed, Turn, RescanArrives, Verifies, Responds, Arrives, CapturesWorkspace,
       CapturesFolders, Locks, Answers, scopeVars
  <2> QED BY <1>3, <2>1
<1>8. ASSUME NEW t \in Threads, Reconciles(t) \/ Publishes(t) PROVE task'["main"] = task["main"] /\ scope' = scope
  <2>1. Turn(t) /\ scope' = scope
    BY <1>8, ReconcilesTurn, PublishesTurn, QuietTurns DEF Typed, Reconciles, ListsOpen, Scans, ListsTracked, Prunes,
       RemovesPruned, Untracks, StartsComparing, Compares, Replaces, TracksFound, Syncs, Publishes, Plans, Commits,
       Pushes, HasPushed, scopeVars
  <2>2. t = "main" => task'["main"].at # "drop"
    BY <1>8, ReconcilesTo, PublishesTo DEF SyncSteps, PublishSteps
  <2> QED BY <1>2, <2>1, <2>2 DEF Turn
<1>9. CASE UNCHANGED vars
  BY <1>3, <1>9 DEF vars, scopeVars
<1> QED BY <1>3, <1>4, <1>5, <1>6, <1>7, <1>8, <1>9 DEF Next

-----------------------------------------------------------------------------
(***************************************************************************)
(* What a step of a thread does to what it owes.  It owes a publication    *)
(* when the step is done, or it owed none and nothing has become due.      *)
(***************************************************************************)
Keeps(t) ==
    \/ Owes(t)'
    \/ /\ ~Owes(t)
       /\ UNCHANGED <<index, generation, scope>>
       /\ \A u \in Uris : Awaits(u)' => Awaits(u) /\ live'[u] = live[u] /\ (Covers(t, u) => Covers(t, u)')

Kept == \A u \in Uris : Awaits(u) => \E t \in Threads : Owes(t) \/ Covers(t, u)

LEMMA KeptStep ==
    ASSUME NEW t \in Threads, \A o \in Threads \ {t} : task'[o] = task[o], Kept, Keeps(t) PROVE Kept'
<1>1. SUFFICES ASSUME NEW u \in Uris, Awaits(u)', ~Owes(t)' PROVE \E o \in Threads : Owes(o)' \/ Covers(o, u)'
  BY DEF Kept
<1>2. /\ ~Owes(t) /\ UNCHANGED <<index, generation, scope>>
      /\ Awaits(u) /\ live'[u] = live[u] /\ (Covers(t, u) => Covers(t, u)')
  BY <1>1 DEF Keeps
<1>3. PICK o \in Threads : Owes(o) \/ Covers(o, u)
  BY <1>2 DEF Kept
<1>4. CASE o = t
  BY <1>2, <1>3, <1>4
<1>5. CASE o # t
  <2>1. task'[o] = task[o]
    BY <1>5
  <2>2. Owes(o) => Owes(o)'
    BY <1>2, <2>1 DEF Owes, Refuses
  <2>3. Covers(o, u) => Covers(o, u)'
    BY <1>2, <2>1 DEF Covers, Complete, Indexed
  <2> QED BY <1>3, <2>2, <2>3
<1> QED BY <1>4, <1>5

\* A step that changes nothing that is stored.
LEMMA KeepsSame ==
    ASSUME NEW t \in Threads, UNCHANGED <<index, generation, scope, live, pushed>>, Owes(t) => Owes(t)',
           \A u \in Uris : Covers(t, u) => Covers(t, u)'
    PROVE  Keeps(t)
<1>1. \A u \in Uris : Awaits(u)' => Awaits(u)
  BY DEF Awaits, Indexed
<1> QED BY <1>1 DEF Keeps

LEMMA NotOwing ==
    ASSUME NEW t, task[t].at \in {"idle", "verify"} \cup AnswerSteps PROVE ~Owes(t) /\ \A u \in Uris : ~Covers(t, u)
BY DEF Owes, Covers, AnswerSteps, FolderSteps, SyncSteps

\* New semantics are not those that are indexed.
LEMMA AnalysedAwaits ==
    ASSUME Typed, Aged, UNCHANGED <<index, scope>>, NEW u \in Uris, Analysed(u), NEW v \in Uris, Awaits(v)'
    PROVE  Awaits(v) /\ live'[v] = live[v]
<1>1. PICK s : s = Fresh(u, buffer[u])
  OBVIOUS
<1>2. s.id = nextId /\ live' = [live EXCEPT ![u] = s] /\ pushed' = [pushed EXCEPT ![u] = {}]
  BY <1>1 DEF Analysed, Fresh
<1>3. nextId \in Nat
  BY SessionAssumption DEF Typed, StoresOK
<1>4. v # u
  BY <1>2, <1>3 DEF Awaits, Aged, Typed, StoresOK
<1> QED BY <1>2, <1>4 DEF Awaits, Indexed, Typed, StoresOK

\* A rescan goes on.
LEMMA RescansStay ==
    ASSUME Typed, NEW t \in Threads,
           Scans(t) \/ ListsTracked(t) \/ Prunes(t) \/ Untracks(t) \/ StartsComparing(t) \/ Compares(t)
    PROVE  task'[t].at \in SyncSteps
<1> USE DEF SyncSteps
<1> DEFINE m == task[t]
<1>0. PICK n : n = task'[t]
  OBVIOUS
<1>1. m \in Tasks
  BY DEF Typed, TasksOK
<1>2. CASE Scans(t)
  <2>1. PICK f : task' = [task EXCEPT ![t] = [m EXCEPT !.left = {}, !.found = f, !.at = "tracked"]]
    BY <1>2 DEF Scans
  <2>2. n = [m EXCEPT !.left = {}, !.found = f, !.at = "tracked"]
    BY <1>0, <2>1, TurnsTo DEF Typed
  <2> QED BY <1>0, <1>1, <2>2 DEF Tasks
<1>3. CASE ListsTracked(t)
  BY <1>1, <1>3 DEF ListsTracked, Typed, TasksOK, Tasks
<1>4. CASE Prunes(t)
  <2>1. \E u \in m.left, s \in {"untrack", "pruned"} :
          n = [m EXCEPT !.left = m.left \ {u}, !.uri = u, !.expected = index[u], !.at = s]
    BY <1>0, <1>4, TurnsTo DEF Prunes, Typed, TasksOK
  <2> QED BY <1>0, <1>1, <2>1 DEF Tasks
<1>5. CASE Untracks(t)
  BY <1>5, FinishesAt DEF Untracks, Typed
<1>6. CASE StartsComparing(t)
  BY <1>1, <1>6 DEF StartsComparing, Typed, TasksOK, Tasks
<1>7. CASE Compares(t)
  <2>1. m.at = "compare"
    BY <1>7 DEF Compares, At
  <2>2. \E u \in m.left :
          \/ n = [m EXCEPT !.left = m.left \ {u}]
          \/ n = [m EXCEPT !.left = m.left \ {u}, !.uri = u, !.expected = index[u], !.at = "replace"]
    BY <1>0, <1>7, TurnsTo DEF Compares, Typed, TasksOK
  <2>3. n.at \in {m.at, "replace"}
    <3>1. PICK u \in m.left :
          \/ n = [m EXCEPT !.left = m.left \ {u}]
          \/ n = [m EXCEPT !.left = m.left \ {u}, !.uri = u, !.expected = index[u], !.at = "replace"]
      BY <2>2
    <3>2. CASE n = [m EXCEPT !.left = m.left \ {u}]
      BY <1>1, <3>2 DEF Tasks
    <3>3. CASE n = [m EXCEPT !.left = m.left \ {u}, !.uri = u, !.expected = index[u], !.at = "replace"]
      BY <1>1, <3>3 DEF Tasks
    <3> QED BY <3>1, <3>2, <3>3
  <2> QED BY <1>0, <2>1, <2>3
<1> QED BY <1>2, <1>3, <1>4, <1>5, <1>6, <1>7

LEMMA BuffersKeep ==
    ASSUME Typed, Aged, At("main", "drop") => task["main"].uri \in scope, Buffers PROVE Keeps("main")
<1> USE DEF Threads
<1> DEFINE m == task["main"]
<1>0. PICK n : n = task'["main"]
  OBVIOUS
<1>1. m \in Tasks
  BY DEF Typed, TasksOK
<1>2. PICK u : u = m.uri
  OBVIOUS
<1>3. m.at \in BufferSteps => u \in Uris
  BY <1>2, MainUri DEF Typed, UriSteps
<1>4. ASSUME NEW step, Goes("main", step) PROVE n = [m EXCEPT !.at = step] /\ n.at = step /\ n.op = m.op /\ n.uri = u /\ n.expected = m.expected
  BY <1>0, <1>1, <1>2, <1>4 DEF Goes, Typed, TasksOK, Tasks
<1>5. ASSUME Finishes("main", "plan") PROVE Owes("main")'
  <2>1. task'["main"].at = "plan"
    BY <1>1, <1>5 DEF Finishes, Leaving, Typed, TasksOK, Tasks
  <2> QED BY <2>1 DEF Owes
<1>6. m.at \in BufferSteps => \A v \in Uris : ~Covers("main", v)
  BY DEF Covers, BufferSteps
<1>7. CASE \E v \in Uris : OpenArrives(v) \/ \E kind \in {"change", "close"} : ChangeArrives(v, kind)
  <2>1. m = Idle /\ UNCHANGED <<index, generation, scope, live, pushed>>
    BY <1>7 DEF OpenArrives, ChangeArrives, Notify, indexVars, scopeVars, bufferVars
  <2>2. ~Owes("main") /\ \A v \in Uris : ~Covers("main", v)
    BY <2>1, IdleOK, NotOwing
  <2> QED BY <2>1, <2>2, KeepsSame
<1>8. CASE Drops
  <2>1. n.at = "read" /\ n.uri = u /\ u \in scope /\ scope' = scope
    BY <1>2, <1>4, <1>8 DEF Drops, scopeVars
  <2> QED BY <1>0, <2>1 DEF Keeps, Owes
<1>9. CASE ReadsPrevious
  <2>1. PICK s : s = (IF m.op = "close" THEN "close" ELSE "edit")
    OBVIOUS
  <2>2. task' = [task EXCEPT !["main"].expected = index[u], !["main"].at = s] /\ m.at = "read"
        /\ UNCHANGED <<index, generation, scope, live, pushed>>
    BY <1>2, <1>9, <2>1 DEF ReadsPrevious, At, indexVars, scopeVars, bufferVars
  <2>3. n.at = s /\ n.uri = u /\ n.op = m.op /\ n.expected = index[u]
    BY <1>0, <1>1, <1>2, <2>2 DEF Typed, TasksOK, Tasks
  <2>4. Owes("main") => Owes("main")'
    <3>1. CASE m.op = "close"
      BY <1>0, <2>1, <2>3, <3>1 DEF Owes
    <3>2. CASE m.op # "close"
      <4>1. Owes("main") => u \in scope \/ index[u] # None
        BY <1>2, <2>2, <3>2 DEF Owes, FolderSteps, SyncSteps
      <4>2. n.at = "edit"
        BY <2>1, <2>3, <3>2
      <4> QED BY <1>0, <2>2, <2>3, <4>1, <4>2 DEF Owes, Refuses
    <3> QED BY <3>1, <3>2
  <2> QED BY <1>6, <2>2, <2>4, KeepsSame DEF BufferSteps
<1>10. CASE Edits
  <2>1. m.at = "edit" /\ UNCHANGED <<index, generation, scope>> /\ n.at = "analyse" /\ n.uri = u /\ n.expected = m.expected
    BY <1>4, <1>10 DEF Edits, At, indexVars, scopeVars
  <2>2. u \in Uris /\ live' = [live EXCEPT ![u] = None] /\ \A v \in Uris \ {u} : pushed'[v] = pushed[v]
    BY <1>2, <1>3, <1>10, <2>1 DEF Edits, BufferSteps, Typed, StoresOK
  <2>3. Owes("main") => Owes("main")'
    BY <1>0, <1>2, <2>1 DEF Owes, Refuses, FolderSteps, SyncSteps
  <2>4. ASSUME NEW v \in Uris, Awaits(v)' PROVE Awaits(v) /\ live'[v] = live[v]
    <3>1. v # u
      BY <2>2, <2>4 DEF Awaits, Typed, StoresOK
    <3> QED BY <2>1, <2>2, <2>4, <3>1 DEF Awaits, Indexed, Typed, StoresOK
  <2> QED BY <1>6, <2>1, <2>3, <2>4 DEF Keeps, BufferSteps
<1>11. CASE Analyses
  <2>1. m.at = "analyse" /\ UNCHANGED <<index, generation, scope>> /\ n.at = "index" /\ n.uri = u /\ n.expected = m.expected
    BY <1>4, <1>11 DEF Analyses, At, indexVars, scopeVars
  <2>2. u \in Uris /\ Analysed(u)
    BY <1>2, <1>3, <1>11, <2>1 DEF Analyses, BufferSteps
  <2>3. Owes("main") => Owes("main")'
    BY <1>0, <1>2, <2>1 DEF Owes, Refuses, FolderSteps, SyncSteps
  <2> QED BY <1>6, <2>1, <2>2, <2>3, AnalysedAwaits DEF Keeps, BufferSteps
<1>12. CASE Indexes
  <2>1. m.at = "index" /\ UNCHANGED <<scope, live, pushed>>
    BY <1>12 DEF Indexes, At, scopeVars, bufferVars
  <2>2. CASE Finishes("main", "plan")
    BY <1>5, <2>2 DEF Keeps
  <2>3. CASE ~Finishes("main", "plan")
    <3>1. n = Idle /\ IF u \in scope THEN Refuses(u, m.expected) ELSE m.expected = None
      BY <1>0, <1>2, <1>12, <2>3 DEF Indexes, Finishes, Typed, TasksOK
    <3>2. UNCHANGED <<index, generation>>
      BY <1>2, <1>12, <3>1 DEF Indexes, Attempts, indexVars
    <3>3. ~Owes("main")
      BY <1>2, <2>1, <3>1 DEF Owes, FolderSteps, SyncSteps
    <3> QED BY <1>6, <2>1, <3>2, <3>3, KeepsSame DEF BufferSteps
  <2> QED BY <2>2, <2>3
<1>13. CASE Closes \/ Unindexes
  <2>1. PICK s \in {"restore", "unindex"} : Goes("main", s)
    BY <1>13 DEF Closes, Unindexes
  <2> QED BY <1>0, <1>4, <2>1 DEF Keeps, Owes
<1>14. CASE ReadsFile
  <2>1. CASE task' = [task EXCEPT !["main"].expected = index[m.uri], !["main"].at = "restored"]
    <3>1. n.at = "restored"
      BY <1>0, <1>1, <2>1 DEF Typed, TasksOK, Tasks
    <3> QED BY <1>0, <3>1 DEF Keeps, Owes
  <2> QED BY <1>5, <1>14, <2>1 DEF ReadsFile, Keeps
<1>15. CASE Restores
  <2>1. CASE Goes("main", "track")
    BY <1>0, <1>4, <2>1 DEF Keeps, Owes
  <2> QED BY <1>5, <1>15, <2>1 DEF Restores, Keeps
<1>16. CASE Tracks
  BY <1>5, <1>16 DEF Tracks, Keeps
<1> QED BY <1>7, <1>8, <1>9, <1>10, <1>11, <1>12, <1>13, <1>14, <1>15, <1>16 DEF Buffers

LEMMA FoldersKeep == ASSUME Typed, FolderOps, Folders PROVE Keeps("main")
BY FoldersTo DEF Keeps, Owes

LEMMA FilesKeep == ASSUME Typed, FilesArrive PROVE Keeps("main")
<1>1. task["main"] = Idle /\ UNCHANGED <<index, generation, scope, live, pushed>>
  BY DEF FilesArrive, Notify, indexVars, scopeVars, bufferVars
<1>2. ~Owes("main") /\ \A v \in Uris : ~Covers("main", v)
  BY <1>1, IdleOK, NotOwing
<1> QED BY <1>1, <1>2, KeepsSame DEF Threads

LEMMA RequestsKeep == ASSUME Typed, RescanArrives \/ Verifies \/ Responds PROVE Keeps("worker")
<1>1. UNCHANGED <<index, generation, scope, live, pushed>>
  BY DEF RescanArrives, Verifies, Responds, Arrives, CapturesWorkspace, CapturesFolders, Locks, Answers,
     indexVars, scopeVars, bufferVars
<1>2. task["worker"].at \in {"idle", "verify"} \cup AnswerSteps
  BY IdleOK DEF RescanArrives, Verifies, Responds, Arrives, CapturesWorkspace, CapturesFolders, Locks, Answers, At, AnswerSteps
<1>3. ~Owes("worker") /\ \A v \in Uris : ~Covers("worker", v)
  BY <1>2, NotOwing
<1> QED BY <1>1, <1>3, KeepsSame DEF Threads

LEMMA ReconcilesKeep ==
    ASSUME Typed, FolderOps, NEW t \in Threads, Reconciles(t), ~(ListsOpen(t) /\ scope = {}) PROVE Keeps(t)
<1> DEFINE m == task[t]
<1>0. PICK n : n = task'[t]
  OBVIOUS
<1>1. m \in Tasks /\ m.at \in SyncSteps \cup {"enter"} /\ (m.at \in UriSteps => m.uri \in Uris)
  BY ReconcilesTo DEF Typed, TasksOK, TaskOK
<1>2. UNCHANGED <<scope, live, pushed>>
  BY DEF Reconciles, ListsOpen, Scans, ListsTracked, Prunes, RemovesPruned, Untracks, StartsComparing, Compares,
     Replaces, TracksFound, Syncs, scopeVars, bufferVars
<1>3. \A v \in Uris : ~Covers(t, v)
  BY <1>1 DEF Covers, SyncSteps
<1>4. ASSUME UNCHANGED indexVars, n.at \in SyncSteps, m.at \notin {"enter", "trackFound"} PROVE Keeps(t)
  <2>1. n.op = m.op /\ (m.changed => n.changed)
    BY <1>0, <1>4, ReconcilesTo
  <2>2. Owes(t) => Owes(t)'
    <3>1. Owes(t) => m.op = "folders" \/ m.changed
      BY <1>1, <1>4 DEF Owes, SyncSteps, FolderSteps
    <3> QED BY <1>0, <1>4, <2>1, <3>1 DEF Owes
  <2> QED BY <1>2, <1>3, <1>4, <2>2, KeepsSame DEF indexVars
<1>5. CASE ListsOpen(t)
  <2>1. n.at = "scan" /\ m.at \in {"list", "enter"} /\ n.op = m.op /\ UNCHANGED indexVars
    BY <1>0, <1>1, <1>5 DEF ListsOpen, At, Typed, TasksOK, Tasks
  <2>2. CASE m.at = "enter"
    <3>1. t = "main"
      BY <2>2 DEF Typed, TasksOK, TaskOK, SyncSteps, PublishSteps, AnswerSteps, Threads
    <3>2. m.op = "folders"
      BY <2>2, <3>1 DEF FolderOps, FolderSteps
    <3> QED BY <1>0, <2>1, <3>2 DEF Keeps, Owes, SyncSteps
  <2>3. CASE m.at = "list"
    BY <1>4, <2>1, <2>3 DEF SyncSteps
  <2> QED BY <2>1, <2>2, <2>3
<1>6. CASE Scans(t) \/ ListsTracked(t) \/ Prunes(t) \/ Untracks(t) \/ StartsComparing(t) \/ Compares(t)
  <2>1. UNCHANGED indexVars /\ m.at \in {"scan", "tracked", "prune", "untrack", "compare"}
    BY <1>6 DEF Scans, ListsTracked, Prunes, Untracks, StartsComparing, Compares, At
  <2>2. n.at \in SyncSteps
    BY <1>0, <1>6, RescansStay
  <2> QED BY <1>4, <2>1, <2>2
<1>7. CASE RemovesPruned(t)
  <2> DEFINE refused == Refuses(m.uri, m.expected)
  <2>1. m.uri \in Uris /\ m.at = "pruned"
    BY <1>1, <1>7 DEF RemovesPruned, At, UriSteps
  <2>2. PICK c : c = (m.changed \/ (~refused /\ index[m.uri] # None))
    OBVIOUS
  <2>3. n = [m EXCEPT !.at = "untrack", !.changed = c]
    BY <1>0, <1>7, <2>2, TurnsTo DEF RemovesPruned, Typed
  <2>4. n.at = "untrack" /\ n.changed = c
    BY <1>1, <2>3 DEF Tasks
  <2>5. CASE c
    BY <1>0, <2>4, <2>5 DEF Keeps, Owes, SyncSteps
  <2>6. CASE ~c
    <3>1. UNCHANGED indexVars
      <4>1. CASE refused
        BY <1>7, <4>1 DEF RemovesPruned, Attempts
      <4>2. CASE ~refused
        <5>1. index[m.uri] = None /\ index' = [index EXCEPT ![m.uri] = None] /\ generation' = generation
          BY <1>7, <2>2, <2>6, <4>2 DEF RemovesPruned, Attempts, Remove
        <5> QED BY <2>1, <5>1 DEF indexVars, Typed, StoresOK, WorkspaceTypeOK
      <4> QED BY <4>1, <4>2
    <3> QED BY <1>4, <2>1, <2>4, <3>1 DEF SyncSteps
  <2> QED BY <2>5, <2>6
<1>8. CASE Replaces(t)
  <2>1. CASE Goes(t, "trackFound")
    <3>1. n.at = "trackFound"
      BY <1>0, <2>1, GoesAt DEF Typed
    <3> QED BY <1>0, <3>1 DEF Keeps, Owes, SyncSteps
  <2>2. CASE ~Goes(t, "trackFound")
    <3>1. m.at = "replace" /\ UNCHANGED indexVars /\ Finishes(t, "compare")
      BY <1>8, <2>2 DEF Replaces, At, Attempts
    <3>2. n.at = "compare"
      BY <1>0, <3>1, FinishesAt DEF Typed
    <3> QED BY <1>4, <3>1, <3>2 DEF SyncSteps
  <2> QED BY <2>1, <2>2
<1>9. CASE TracksFound(t)
  <2>1. n.at = "compare" /\ n.changed
    BY <1>0, <1>1, <1>9 DEF TracksFound, Leaving, Typed, TasksOK, Tasks
  <2> QED BY <1>0, <2>1 DEF Keeps, Owes, SyncSteps
<1>10. CASE Syncs(t)
  <2>1. m.at = "compare" /\ UNCHANGED indexVars /\ task' = Synced(t, m.changed)
    BY <1>10 DEF Syncs, At
  <2>2. CASE m.changed \/ m.op = "folders"
    <3>1. n.at = "plan"
      BY <1>0, <2>1, <2>2, SyncedTo DEF Typed
    <3> QED BY <1>0, <3>1 DEF Keeps, Owes
  <2>3. CASE ~(m.changed \/ m.op = "folders")
    <3>1. ~Owes(t)
      BY <2>1, <2>3 DEF Owes, FolderSteps
    <3> QED BY <1>2, <1>3, <2>1, <3>1, KeepsSame DEF indexVars
  <2> QED BY <2>2, <2>3
<1> QED BY <1>5, <1>6, <1>7, <1>8, <1>9, <1>10 DEF Reconciles

\* Every open buffer that awaits its diagnostics is in the plan.
LEMMA PlansKeeps == ASSUME Typed, NEW t \in Threads, Plans(t) PROVE Kept'
<1>0. PICK n : n = task'[t]
  OBVIOUS
<1>1. n.at = "commit" /\ n.capture = Capture /\ n.left = {s \in Indexed : live[s.uri] = s}
  BY <1>0 DEF Plans, Typed, TasksOK, Tasks
<1>2. UNCHANGED <<index, generation, scope, live, pushed>>
  BY DEF Plans, indexVars, scopeVars, bufferVars
<1>3. Complete(n.capture)'
  BY <1>1, <1>2, StoresIndexOK, IndexedFacts DEF Complete, Indexed, Typed
<1>4. ASSUME NEW u \in Uris, Awaits(u)' PROVE Covers(t, u)'
  <2>1. index[u] # None /\ live[u] = index[u] /\ live[u].uri = u
    BY <1>2, <1>4 DEF Awaits, Typed, StoresOK
  <2>2. live[u] \in n.left
    BY <1>1, <2>1 DEF Indexed
  <2> QED BY <1>0, <1>1, <1>2, <1>3, <2>2 DEF Covers
<1> QED BY <1>4 DEF Kept

LEMMA PublishesKeep ==
    ASSUME Typed, Pushing, NEW t \in Threads, Commits(t) \/ Pushes(t) \/ HasPushed(t) PROVE Keeps(t)
<1> DEFINE m == task[t]
<1>0. PICK n : n = task'[t]
  OBVIOUS
<1>1. m \in Tasks /\ m.at \in {"commit", "push"} /\ UNCHANGED <<index, generation, scope, live>>
  BY DEF Commits, Pushes, HasPushed, At, indexVars, scopeVars, bufferVars, Typed, TasksOK
<1>2. ~Owes(t)
  BY <1>1 DEF Owes, FolderSteps, SyncSteps
<1>3. CASE Commits(t)
  <2>1. UNCHANGED pushed /\ m.at = "commit"
    BY <1>3 DEF Commits, bufferVars, At
  <2>2. ASSUME NEW u \in Uris, Covers(t, u) PROVE Covers(t, u)'
    <3>1. Complete(m.capture) /\ live[u] \in m.left
      BY <2>1, <2>2 DEF Covers
    <3>2. n = [m EXCEPT !.at = "push"]
      BY <1>0, <1>3, <3>1 DEF Commits, Typed, TasksOK
    <3>3. n.at = "push" /\ n.left = m.left
      BY <1>1, <3>2 DEF Tasks
    <3> QED BY <1>0, <1>1, <3>1, <3>3 DEF Covers
  <2> QED BY <1>1, <1>2, <2>1, <2>2, KeepsSame
<1>4. CASE Pushes(t)
  <2>1. m.at = "push" /\ m.capture.snapshots = Indexed
    BY <1>4 DEF Pushes, Pushing, At
  <2>2. PICK s \in m.left :
          /\ pushed' = IF live[s.uri] = s THEN [pushed EXCEPT ![s.uri] = m.capture.snapshots] ELSE pushed
          /\ task' = [task EXCEPT ![t].left = m.left \ {s}]
    BY <1>4 DEF Pushes
  <2>3. n.at = "push" /\ n.left = m.left \ {s}
    BY <1>0, <1>1, <2>1, <2>2 DEF Typed, TasksOK, Tasks
  <2>4. ASSUME NEW u \in Uris, Awaits(u)' PROVE Awaits(u) /\ (Covers(t, u) => Covers(t, u)')
    <3>1. u \in scope /\ live[u] # None /\ index[u] = live[u] /\ pushed'[u] # Indexed /\ live[u].uri = u
      BY <1>1, <2>4 DEF Awaits, Indexed, Typed, StoresOK
    <3>2. pushed[u] # Indexed
      BY <2>1, <2>2, <3>1 DEF Typed, StoresOK
    <3>3. live[u] # s
      BY <2>1, <2>2, <3>1 DEF Typed, StoresOK
    <3> QED BY <1>0, <1>1, <2>3, <3>1, <3>2, <3>3 DEF Awaits, Covers
  <2> QED BY <1>1, <1>2, <2>4 DEF Keeps
<1>5. CASE HasPushed(t)
  <2>1. UNCHANGED pushed /\ \A u \in Uris : ~Covers(t, u)
    BY <1>5 DEF HasPushed, bufferVars, Covers
  <2> QED BY <1>1, <1>2, <2>1, KeepsSame
<1> QED BY <1>3, <1>4, <1>5

LEMMA NextPromised ==
    ASSUME Typed, Pushing, Aged, FolderOps, DropsScoped, Promised, Typed', [Next]_vars PROVE Promised'
<1> USE DEF Threads
<1>0. Alone' => Alone
  BY DEF Next, Overlaps, Alone, vars
<1>1. scopeGeneration' = 0 => scopeGeneration = 0
  <2>1. scopeGeneration \in Nat /\ scopeGeneration' \in Nat
    BY DEF Typed, StoresOK, WorkspaceTypeOK
  <2>2. CASE Next
    <3>1. PICK t \in Threads : CountedStep(t)
      BY <2>2, EveryTurn
    <3> QED BY <2>1, <3>1 DEF CountedStep
  <2> QED BY <2>2 DEF vars, scopeVars
<1>2. SUFFICES ASSUME Alone \/ scopeGeneration = 0 PROVE Kept'
  BY <1>0, <1>1 DEF Promised, Kept
<1>3. Kept
  BY <1>2 DEF Promised, Kept
<1>4. CASE Buffers \/ Folders \/ FilesArrive
  <2>1. Keeps("main")
    BY <1>2, <1>4, BuffersKeep, FoldersKeep, FilesKeep DEF DropsScoped
  <2>2. QuietTurn("main")
    BY <1>4, BuffersTurn, FoldersTurn, OthersCounted DEF Typed
  <2> QED BY <1>3, <2>1, <2>2, KeptStep DEF QuietTurn
<1>5. CASE RescanArrives \/ Verifies \/ Responds
  <2>1. Keeps("worker") /\ Turn("worker")
    BY <1>5, RequestsKeep, RequestsTurn DEF Typed
  <2> QED BY <1>3, <2>1, KeptStep DEF Turn
<1>6. ASSUME NEW t \in Threads, Reconciles(t) PROVE Kept'
  <2>1. CASE ListsOpen(t) /\ scope = {}
    BY <2>1 DEF Kept, Awaits, ListsOpen, scopeVars
  <2>2. CASE ~(ListsOpen(t) /\ scope = {})
    <3>1. Keeps(t) /\ QuietTurn(t)
      BY <1>6, <2>2, ReconcilesKeep, ReconcilesTurn DEF Typed
    <3> QED BY <1>3, <3>1, KeptStep DEF QuietTurn
  <2> QED BY <2>1, <2>2
<1>7. ASSUME NEW t \in Threads, Publishes(t) PROVE Kept'
  <2>1. CASE Plans(t)
    BY <2>1, PlansKeeps
  <2>2. CASE Commits(t) \/ Pushes(t) \/ HasPushed(t)
    <3>1. Keeps(t) /\ Turn(t)
      BY <1>7, <2>2, PublishesKeep, PublishesTurn DEF Typed
    <3> QED BY <1>3, <3>1, KeptStep DEF Turn
  <2> QED BY <1>7, <2>1, <2>2 DEF Publishes
<1>8. CASE UNCHANGED vars
  BY <1>3, <1>8 DEF vars, indexVars, scopeVars, bufferVars, Kept, Awaits, Owes, Covers, Refuses, Complete, Indexed
<1> QED BY <1>4, <1>5, <1>6, <1>7, <1>8 DEF Next

LEMMA InitPromised == ASSUME Init PROVE Aged /\ FolderOps /\ Confined /\ DropsScoped /\ Promised
<1> USE DEF Threads
<1>1. \A u \in Uris : index[u] = None /\ live[u] = None
  BY DEF Init, WorkspaceInit
<1>2. \A t \in Threads : task[t] = Idle
  BY DEF Init
<1>3. \A t \in Threads : Within(task[t])
  BY <1>2, IdleOK DEF Within, FolderSteps
<1>4. Aged /\ Confined /\ Promised
  BY <1>1, <1>3 DEF Aged, Confined, Promised, Awaits
<1>5. FolderOps /\ DropsScoped
  BY <1>2, IdleOK DEF FolderOps, DropsScoped, At, FolderSteps
<1> QED BY <1>4, <1>5

\* Diagnostics are planned, committed and pushed in separate steps, given up when the
\* index has moved on meanwhile, while the other thread goes on indexing: when nothing
\* is left to do, what was pushed for every open document rests on the whole of the
\* index as it is then, unless a rescan has overlapped a change of the folders.
THEOREM DiagnosticsAreSettled == Spec => []DiagnosticsSettle
<1> DEFINE I == /\ Typed /\ Paired /\ WorkerRescans /\ OneAtATime /\ Pushing
                /\ Aged /\ FolderOps /\ Confined /\ DropsScoped /\ Promised
<1>1. Init => I
  BY InitTyped, InitOneAtATime, InitPushing, InitPromised
<1>2. I /\ [Next]_vars => I'
  BY NextTyped, NextPaired, NextRescans, NextOneAtATime, NextPushing, NextAged, NextFolderOps, NextConfined,
     NextDropsScoped, NextPromised
<1>3. ASSUME I PROVE DiagnosticsSettle
  <2>1. SUFFICES ASSUME Settled, ~overlapped \/ scopeGeneration = 0, NEW u \in scope, live[u] # None, index[u] = live[u]
                 PROVE  pushed[u] = Indexed
    BY DEF DiagnosticsSettle
  <2>2. \A t \in Threads : ~Owes(t) /\ \A v \in Uris : ~Covers(t, v)
    BY <2>1, IdleOK, NotOwing DEF Settled
  <2>3. Alone \/ scopeGeneration = 0
    BY <2>1, IdleOK DEF Settled, Alone, Threads
  <2>4. u \in Uris
    BY <1>3, <2>1 DEF Typed, StoresOK, WorkspaceTypeOK
  <2> QED BY <1>3, <2>1, <2>2, <2>3, <2>4 DEF Promised, Awaits
<1> QED BY <1>1, <1>2, <1>3, PTL DEF Spec
=============================================================================
