--------------------------- MODULE WorkspaceSession ---------------------------
(***************************************************************************)
(* Who keeps the workspace index (workspace_lsp.py).  The main thread      *)
(* handles notifications: edits of open buffers, changes of the folders,   *)
(* reports about files on disk.  The worker answers requests, and when it  *)
(* finds that the disk has changed it rescans the closed files itself.     *)
(*                                                                         *)
(* Both end with the diagnostics of the whole workspace: captured,         *)
(* computed outside every lock, and pushed while the index is locked, if   *)
(* it is still the one captured.                                           *)
(*                                                                         *)
(* A step is one critical section.  The locks of the snapshot chain are    *)
(* always taken from the documents upwards, and stand here as one, "chain".*)
(***************************************************************************)
EXTENDS WorkspaceIndex, Sequences

CONSTANTS
    MaxNotices,     \* bound: notifications handled by main
    MaxRequests,    \* bound: requests answered by the worker
    Notices,        \* which notifications the client sends
    Orders,         \* the nestings of locks the worker's requests use
    Rescans         \* whether the worker rescans the closed files

AllNotices == {"open", "change", "close", "folders", "files"}

\* semantics and index; documents, index and folders; ...
AllOrders == {<<"chain", "index">>, <<"chain", "index", "folders">>,
              <<"chain", "folders">>, <<"index">>, <<"folders", "index">>}

ASSUME SessionAssumption ==
    /\ MaxId \in Nat
    /\ MaxNotices \in Nat /\ MaxRequests \in Nat
    /\ Notices \subseteq AllNotices
    /\ Orders \subseteq AllOrders
    /\ Rescans \in BOOLEAN

\* "No such thing" is no snapshot and no document.
ASSUME NoneAssumption == None \notin Snapshots /\ None \notin 1..MaxId

VARIABLES
    buffer,     \* buffer[u]: the open document, or None
    live,       \* live[u]: the current entry of the semantic store, or None
    closed,     \* _closed_workspace_uris: the URIs indexed from disk
    pushed,     \* pushed[u]: the snapshots the last diagnostics of u rest on, or None
    nextId,
    task,       \* task[t]: what thread t is doing
    notices,    \* notifications begun so far
    requests,   \* requests begun so far
    moved,      \* what has changed since the request under way captured it
    overlapped  \* whether a rescan of the worker has overlapped a notification

bufferVars == <<buffer, live, pushed, nextId>>
countVars == <<notices, requests>>
vars == <<indexVars, scopeVars, bufferVars, closed, task, countVars, moved, overlapped>>

Threads == {"main", "worker"}

\* "at" is the next step; "uri" and "expected" are what it is about; "left" is
\* what a loop has still to visit, "found" the result of the scan; "capture",
\* "semantic" and "folders" are the evidence of a commit, "order" its locks, of
\* which the first "taken" are held.
Idle == [at |-> "idle", op |-> "none", uri |-> None, expected |-> None,
         left |-> {}, found |-> {}, changed |-> FALSE,
         capture |-> [snapshots |-> {}, generation |-> 0], semantic |-> None,
         folders |-> 0, order |-> <<>>, taken |-> 0]

Steps == {"idle", "drop", "read", "edit", "analyse", "index", "close", "unindex",
          "restore", "restored", "track", "apply", "invalidate", "leave", "removeLeft",
          "enter", "admit", "list", "scan", "tracked", "prune", "pruned",
          "untrack", "compare", "replace", "trackFound", "plan", "commit", "push",
          "verify", "captures", "scopes", "lock", "answer"}

Ops == {"none", "respond"} \cup AllNotices

Tasks == [at : Steps, op : Ops, uri : Uris \cup {None}, expected : Snapshots \cup {None},
          left : SUBSET (Uris \cup Snapshots),
          found : SUBSET Uris, changed : BOOLEAN,
          capture : [snapshots : SUBSET Snapshots, generation : Nat],
          semantic : Snapshots \cup {None}, folders : Nat,
          order : {<<>>} \cup AllOrders, taken : 0..3]

TypeOK ==
    /\ WorkspaceTypeOK
    /\ buffer \in [Uris -> (1..MaxId) \cup {None}]
    /\ live \in [Uris -> Snapshots \cup {None}]
    /\ \A u \in Uris : live[u] # None =>
          live[u].uri = u /\ buffer[u] # None /\ live[u].doc = buffer[u]
    /\ closed \in SUBSET Uris
    /\ pushed \in [Uris -> (SUBSET Snapshots) \cup {None}]
    /\ nextId \in 1..(MaxId + 1)
    /\ task \in [Threads -> Tasks]
    /\ \A t \in Threads : task[t].taken <= Len(task[t].order)
    /\ notices \in 0..MaxNotices /\ requests \in 0..MaxRequests
    /\ moved \in SUBSET {"index", "scope"} /\ overlapped \in BOOLEAN

Init ==
    /\ WorkspaceInit
    /\ buffer = [u \in Uris |-> None]
    /\ live = [u \in Uris |-> None]
    /\ closed = {}
    /\ pushed = [u \in Uris |-> None]
    /\ nextId = 1
    /\ task = [t \in Threads |-> Idle]
    /\ notices = 0 /\ requests = 0
    /\ moved = {} /\ overlapped = FALSE

-----------------------------------------------------------------------------
(***************************************************************************)
(* Locks.  A request holds the first locks of its order; diagnostics are   *)
(* pushed under the lock of the index.  Every other step takes one lock.   *)
(***************************************************************************)
Held(t) ==
    IF task[t].at = "push" THEN {"index"}
    ELSE {task[t].order[i] : i \in 1..task[t].taken}

Free(lock, t) == \A o \in Threads \ {t} : lock \notin Held(o)

\* The lock thread t, holding others, needs next.
Wanted(t) ==
    CASE task[t].at = "push" /\ task[t].left # {} -> {"chain"}
      [] task[t].at = "lock" /\ task[t].taken < Len(task[t].order) ->
            {task[t].order[task[t].taken + 1]}
      [] OTHER -> {}

At(t, step) == task[t].at = step

Goes(t, step) == task' = [task EXCEPT ![t].at = step]

\* The same, done with the URI and all that is known of it.
Leaving(m, step) ==
    [m EXCEPT !.at = step, !.uri = None, !.expected = None]

Finishes(t, step) == task' = [task EXCEPT ![t] = Leaving(task[t], step)]

\* An update of the entry of the URI, or none if it is refused.
Attempts(update, refused) ==
    IF refused THEN UNCHANGED indexVars ELSE update

Fresh(u, doc) == [uri |-> u, doc |-> doc, id |-> nextId]

-----------------------------------------------------------------------------
(***************************************************************************)
(* Open buffers: didOpen, didChange, didClose.                             *)
(***************************************************************************)
Notify(kind) ==
    /\ task["main"] = Idle
    /\ kind \in Notices
    /\ notices < MaxNotices
    /\ notices' = notices + 1

\* Fault: the file stays tracked when its buffer is opened.
OpenArrivesTracked(u) ==
    /\ Notify("open")
    /\ buffer[u] = None
    /\ Free("index", "main")
    /\ task' = [task EXCEPT !["main"] = [Idle EXCEPT !.op = "open", !.uri = u, !.at = "read"]]
    /\ UNCHANGED <<indexVars, scopeVars, bufferVars, closed, requests>>

\* _drop_closed_workspace_identity first: the file is no longer indexed from
\* disk, whatever becomes of the buffer.
OpenArrives(u) ==
    /\ Notify("open")
    /\ buffer[u] = None
    /\ Free("index", "main")
    /\ closed' = closed \ {u}
    /\ task' = [task EXCEPT !["main"] =
          [Idle EXCEPT !.op = "open", !.uri = u, !.expected = index[u],
             !.at = IF u \in closed /\ index[u] # None THEN "drop" ELSE "read"]]
    /\ UNCHANGED <<indexVars, scopeVars, bufferVars, requests>>

Drops ==
    LET m == task["main"]
    IN  /\ At("main", "drop")
        /\ Free("index", "main")
        /\ Attempts(Remove(m.uri, m.expected), Refuses(m.uri, m.expected))
        /\ Goes("main", "read")
        /\ UNCHANGED <<scopeVars, bufferVars, closed, countVars>>

ChangeArrives(u, kind) ==
    /\ kind \in {"change", "close"}
    /\ Notify(kind)
    /\ buffer[u] # None
    /\ task' = [task EXCEPT !["main"] = [Idle EXCEPT !.op = kind, !.uri = u, !.at = "read"]]
    /\ UNCHANGED <<indexVars, scopeVars, bufferVars, closed, requests>>

\* "previous": the entry the notification is about to supersede.
ReadsPrevious ==
    LET m == task["main"]
    IN  /\ At("main", "read")
        /\ Free("index", "main")
        /\ task' = [task EXCEPT !["main"].expected = index[m.uri],
                                !["main"].at = IF m.op = "close" THEN "close" ELSE "edit"]
        /\ UNCHANGED <<indexVars, scopeVars, bufferVars, closed, countVars>>

\* A change withdraws the diagnostics of the document it replaces.
Edits ==
    LET u == task["main"].uri
    IN  /\ At("main", "edit")
        /\ Free("chain", "main")
        /\ nextId <= MaxId
        /\ buffer' = [buffer EXCEPT ![u] = nextId]
        /\ live' = [live EXCEPT ![u] = None]
        /\ IF task["main"].op = "change" THEN pushed' = [pushed EXCEPT ![u] = {}]
           ELSE UNCHANGED pushed
        /\ nextId' = nextId + 1
        /\ Goes("main", "analyse")
        /\ UNCHANGED <<indexVars, scopeVars, closed, countVars>>

\* The adapter publishes the semantics of a document and diagnostics of its own.
Analysed(u) ==
    /\ Free("chain", "main")
    /\ nextId <= MaxId
    /\ live' = [live EXCEPT ![u] = Fresh(u, buffer[u])]
    /\ pushed' = [pushed EXCEPT ![u] = {}]
    /\ nextId' = nextId + 1
    /\ UNCHANGED buffer

Analyses ==
    /\ At("main", "analyse")
    /\ Analysed(task["main"].uri)
    /\ Goes("main", "index")
    /\ UNCHANGED <<indexVars, scopeVars, closed, countVars>>

\* Out of scope, the previous entry goes; in scope, the new one supersedes it,
\* and when that is refused the notification ends without diagnostics.
Indexes ==
    LET m == task["main"]
        u == m.uri
    IN  /\ At("main", "index")
        /\ Free("index", "main") /\ Free("folders", "main")
        /\ IF u \in scope
           THEN /\ Attempts(Replace(live[u], m.expected), Refuses(u, m.expected))
                /\ task' = [task EXCEPT !["main"] =
                      IF Refuses(u, m.expected) THEN Idle ELSE Leaving(m, "plan")]
           ELSE IF m.expected # None
           THEN /\ Attempts(Remove(u, m.expected), Refuses(u, m.expected))
                /\ Finishes("main", "plan")
           ELSE /\ UNCHANGED indexVars
                /\ task' = [task EXCEPT !["main"] = Idle]
        /\ UNCHANGED <<scopeVars, bufferVars, closed, countVars>>

Closes ==
    LET u == task["main"].uri
    IN  /\ At("main", "close")
        /\ Free("chain", "main")
        /\ buffer' = [buffer EXCEPT ![u] = None]
        /\ live' = [live EXCEPT ![u] = None]
        /\ pushed' = [pushed EXCEPT ![u] = None]
        /\ Goes("main", IF task["main"].expected = None THEN "restore" ELSE "unindex")
        /\ UNCHANGED <<indexVars, scopeVars, nextId, closed, countVars>>

Unindexes ==
    LET m == task["main"]
    IN  /\ At("main", "unindex")
        /\ Free("index", "main")
        /\ Attempts(Remove(m.uri, m.expected), Refuses(m.uri, m.expected))
        /\ Goes("main", "restore")
        /\ UNCHANGED <<scopeVars, bufferVars, closed, countVars>>

\* _restore_closed_workspace_file: the content of the disk takes the place of
\* the buffer, if there is a file and it is in scope.
ReadsFile ==
    LET u == task["main"].uri
    IN  /\ At("main", "restore")
        /\ Free("index", "main") /\ Free("folders", "main")
        /\ \/ Finishes("main", "plan")
           \/ /\ u \in scope
              /\ task' = [task EXCEPT !["main"].expected = index[u],
                                      !["main"].at = "restored"]
        /\ UNCHANGED <<indexVars, scopeVars, bufferVars, closed, countVars>>

\* Fault: the restored file is not tracked.
RestoresUntracked ==
    LET m == task["main"]
    IN  /\ At("main", "restored")
        /\ Free("index", "main")
        /\ nextId <= MaxId
        /\ nextId' = nextId + 1
        /\ Attempts(Replace(Fresh(m.uri, 0), m.expected), Refuses(m.uri, m.expected))
        /\ Finishes("main", "plan")
        /\ UNCHANGED <<scopeVars, buffer, live, pushed, closed, countVars>>

Restores ==
    LET m == task["main"]
    IN  /\ At("main", "restored")
        /\ Free("index", "main")
        /\ nextId <= MaxId
        /\ nextId' = nextId + 1
        /\ Attempts(Replace(Fresh(m.uri, 0), m.expected), Refuses(m.uri, m.expected))
        /\ IF Refuses(m.uri, m.expected) THEN Finishes("main", "plan")
           ELSE Goes("main", "track")
        /\ UNCHANGED <<scopeVars, buffer, live, pushed, closed, countVars>>

Tracks ==
    /\ At("main", "track")
    /\ closed' = closed \cup {task["main"].uri}
    /\ Finishes("main", "plan")
    /\ UNCHANGED <<indexVars, scopeVars, bufferVars, countVars>>

Buffers ==
    \/ \E u \in Uris : \/ OpenArrives(u)
                       \/ \E kind \in {"change", "close"} : ChangeArrives(u, kind)
    \/ Drops \/ ReadsPrevious \/ Edits \/ Analyses \/ Indexes
    \/ Closes \/ Unindexes \/ ReadsFile \/ Restores \/ Tracks

-----------------------------------------------------------------------------
(***************************************************************************)
(* _handle_workspace_folder_change.  What left the scope leaves the index, *)
(* its open buffers keeping diagnostics of their own; the open buffers     *)
(* that entered are indexed; then the files are rescanned.                 *)
(***************************************************************************)
FoldersArrive ==
    /\ Notify("folders")
    /\ Free("index", "main")
    /\ task' = [task EXCEPT !["main"] =
          [Idle EXCEPT !.op = "folders", !.at = "apply", !.capture = Capture]]
    /\ UNCHANGED <<indexVars, scopeVars, bufferVars, closed, requests>>

Applies ==
    /\ At("main", "apply")
    /\ Free("folders", "main")
    /\ \E s \in SUBSET Uris : ChangeScope(s)
    /\ Goes("main", "invalidate")
    /\ UNCHANGED <<indexVars, bufferVars, closed, countVars>>

Invalidates ==
    LET m == task["main"]
    IN  /\ At("main", "invalidate")
        /\ Free("index", "main")
        /\ Invalidate
        /\ task' = [task EXCEPT !["main"] =
              [Idle EXCEPT !.op = "folders", !.at = "leave",
                 !.left = {s \in m.capture.snapshots : s.uri \notin scope}]]
        /\ UNCHANGED <<scopeVars, bufferVars, closed, countVars>>

\* A snapshot that left the scope; the buffer of its URI is analysed again.
Leaves ==
    /\ At("main", "leave")
    /\ \E s \in task["main"].left :
          /\ task' = [task EXCEPT !["main"] =
                [task["main"] EXCEPT !.expected = s, !.uri = s.uri,
                                     !.left = task["main"].left \ {s}, !.at = "removeLeft"]]
          /\ IF buffer[s.uri] # None THEN Analysed(s.uri) ELSE UNCHANGED bufferVars
    /\ UNCHANGED <<indexVars, scopeVars, closed, countVars>>

RemovesLeft ==
    LET m == task["main"]
    IN  /\ At("main", "removeLeft")
        /\ Free("index", "main")
        /\ Attempts(Remove(m.uri, m.expected), Refuses(m.uri, m.expected))
        /\ Finishes("main", "leave")
        /\ UNCHANGED <<scopeVars, bufferVars, closed, countVars>>

ListsEntered ==
    /\ At("main", "leave")
    /\ task["main"].left = {}
    /\ Free("chain", "main")
    /\ task' = [task EXCEPT !["main"].left = {u \in scope : buffer[u] # None},
                            !["main"].at = "enter"]
    /\ UNCHANGED <<indexVars, scopeVars, bufferVars, closed, countVars>>

Enters ==
    LET m == task["main"]
    IN  /\ At("main", "enter")
        /\ Free("index", "main")
        /\ \E u \in m.left :
              task' = [task EXCEPT !["main"] =
                 IF live[u] = None \/ index[u] = live[u]
                 THEN [m EXCEPT !.left = m.left \ {u}]
                 ELSE [m EXCEPT !.left = m.left \ {u}, !.uri = u, !.expected = index[u],
                                !.at = "admit"]]
        /\ UNCHANGED <<indexVars, scopeVars, bufferVars, closed, countVars>>

Admits ==
    LET m == task["main"]
    IN  /\ At("main", "admit")
        /\ Free("index", "main")
        /\ Attempts(Replace(live[m.uri], m.expected), Refuses(m.uri, m.expected))
        /\ Finishes("main", "enter")
        /\ UNCHANGED <<scopeVars, bufferVars, closed, countVars>>

Folders ==
    \/ FoldersArrive \/ Applies \/ Invalidates \/ Leaves \/ RemovesLeft
    \/ ListsEntered \/ Enters \/ Admits

-----------------------------------------------------------------------------
(***************************************************************************)
(* _sync_closed_workspace_files, by either thread: the open buffers are    *)
(* listed, the disk is scanned without them, and the index is brought into *)
(* line one URI after the other.  There is nothing to do without folders.  *)
(***************************************************************************)
FilesArrive ==
    /\ Notify("files")
    /\ task' = [task EXCEPT !["main"] = [Idle EXCEPT !.op = "files", !.at = "list"]]
    /\ UNCHANGED <<indexVars, scopeVars, bufferVars, closed, requests>>

\* The snapshot is not that of an open buffer.  It is outdated unless it is of a
\* tracked file that still has the same content, and the disk may have changed.
Outdated(s) == ~(buffer[s.uri] # None /\ buffer[s.uri] = s.doc)

\* The worker captures what its answer will rest on, and verifies it before it
\* publishes.  Of what it captured, "expected" is what it will find outdated, if it
\* does: then it rescans, and answers with an error.
RescanArrives ==
    /\ Rescans
    /\ task["worker"] = Idle
    /\ requests < MaxRequests
    /\ requests' = requests + 1
    /\ Free("index", "worker")
    /\ \E s \in Indexed :
          task' = [task EXCEPT !["worker"] = [Idle EXCEPT !.at = "verify", !.expected = s]]
    /\ UNCHANGED <<indexVars, scopeVars, bufferVars, closed, notices>>

Verifies ==
    LET s == task["worker"].expected
    IN  /\ At("worker", "verify")
        /\ Free("chain", "worker")
        /\ \/ /\ Outdated(s)
              /\ task' = [task EXCEPT !["worker"] = [Idle EXCEPT !.op = "files", !.at = "list"]]
           \/ /\ Outdated(s) => s.uri \in closed
              /\ task' = [task EXCEPT !["worker"] = Idle]
        /\ UNCHANGED <<indexVars, scopeVars, bufferVars, closed, countVars>>

\* Fault: the diagnostics of the workspace are left to the next notification.
SyncedSilently(t, changed) ==
    IF task[t].op = "folders"
    THEN [task EXCEPT ![t] = [Idle EXCEPT !.op = task[t].op, !.at = "plan"]]
    ELSE [task EXCEPT ![t] = Idle]

\* Where a thread goes when the index has been brought into line.
Synced(t, changed) ==
    IF changed \/ task[t].op = "folders"
    THEN [task EXCEPT ![t] = [Idle EXCEPT !.op = task[t].op, !.at = "plan"]]
    ELSE [task EXCEPT ![t] = Idle]

ListsOpen(t) ==
    /\ \/ At(t, "list")
       \/ At(t, "enter") /\ task[t].left = {}
    /\ Free("chain", t) /\ Free("folders", t)
    /\ task' = IF scope = {} THEN Synced(t, FALSE)
               ELSE [task EXCEPT ![t].left = {u \in Uris : buffer[u] # None},
                                 ![t].at = "scan"]
    /\ UNCHANGED <<indexVars, scopeVars, bufferVars, closed, countVars>>

\* The disk is not the server's: any files may be found, whatever was found before.
Scans(t) ==
    /\ At(t, "scan")
    /\ \E found \in SUBSET (scope \ task[t].left) :
          task' = [task EXCEPT ![t] = [task[t] EXCEPT !.left = {}, !.found = found,
                                                      !.at = "tracked"]]
    /\ UNCHANGED <<indexVars, scopeVars, bufferVars, closed, countVars>>

ListsTracked(t) ==
    /\ At(t, "tracked")
    /\ task' = [task EXCEPT ![t].left = closed \ task[t].found, ![t].at = "prune"]
    /\ UNCHANGED <<indexVars, scopeVars, bufferVars, closed, countVars>>

\* A file that is tracked and was not found.
Prunes(t) ==
    /\ At(t, "prune")
    /\ Free("index", t)
    /\ \E u \in task[t].left :
          task' = [task EXCEPT ![t] =
             [task[t] EXCEPT !.left = task[t].left \ {u}, !.uri = u, !.expected = index[u],
                             !.at = IF index[u] = None THEN "untrack" ELSE "pruned"]]
    /\ UNCHANGED <<indexVars, scopeVars, bufferVars, closed, countVars>>

RemovesPruned(t) ==
    LET m == task[t]
        refused == Refuses(m.uri, m.expected)
    IN  /\ At(t, "pruned")
        /\ Free("index", t)
        /\ Attempts(Remove(m.uri, m.expected), refused)
        /\ task' = [task EXCEPT ![t] =
              [m EXCEPT !.at = "untrack",
                        !.changed = m.changed \/ (~refused /\ index[m.uri] # None)]]
        /\ UNCHANGED <<scopeVars, bufferVars, closed, countVars>>

Untracks(t) ==
    /\ At(t, "untrack")
    /\ closed' = closed \ {task[t].uri}
    /\ Finishes(t, "prune")
    /\ UNCHANGED <<indexVars, scopeVars, bufferVars, countVars>>

StartsComparing(t) ==
    /\ At(t, "prune")
    /\ task[t].left = {}
    /\ task' = [task EXCEPT ![t] =
          [task[t] EXCEPT !.left = task[t].found, !.found = {}, !.at = "compare"]]
    /\ UNCHANGED <<indexVars, scopeVars, bufferVars, closed, countVars>>

\* A file that was found, with the same content as the entry of its URI or another:
\* nothing is done if it is tracked with the same.
Compares(t) ==
    LET m == task[t]
    IN  /\ At(t, "compare")
        /\ Free("index", t)
        /\ \E u \in m.left, same \in BOOLEAN :
              LET entry == index[u]
                  known == u \in closed /\ entry # None /\ same
              IN  task' = [task EXCEPT ![t] =
                     IF known THEN [m EXCEPT !.left = m.left \ {u}]
                     ELSE [m EXCEPT !.left = m.left \ {u}, !.uri = u,
                                    !.expected = entry, !.at = "replace"]]
        /\ UNCHANGED <<indexVars, scopeVars, bufferVars, closed, countVars>>

Replaces(t) ==
    LET m == task[t]
        refused == Refuses(m.uri, m.expected)
    IN  /\ At(t, "replace")
        /\ Free("index", t)
        /\ nextId <= MaxId
        /\ nextId' = nextId + 1
        /\ Attempts(Replace(Fresh(m.uri, 0), m.expected), refused)
        /\ IF refused THEN Finishes(t, "compare") ELSE Goes(t, "trackFound")
        /\ UNCHANGED <<scopeVars, buffer, live, pushed, closed, countVars>>

TracksFound(t) ==
    /\ At(t, "trackFound")
    /\ closed' = closed \cup {task[t].uri}
    /\ task' = [task EXCEPT ![t] = [Leaving(task[t], "compare") EXCEPT !.changed = TRUE]]
    /\ UNCHANGED <<indexVars, scopeVars, bufferVars, countVars>>

Syncs(t) ==
    /\ At(t, "compare")
    /\ task[t].left = {}
    /\ task' = Synced(t, task[t].changed)
    /\ UNCHANGED <<indexVars, scopeVars, bufferVars, closed, countVars>>

Reconciles(t) ==
    \/ ListsOpen(t) \/ Scans(t) \/ ListsTracked(t)
    \/ Prunes(t) \/ RemovesPruned(t) \/ Untracks(t) \/ StartsComparing(t)
    \/ Compares(t) \/ Replaces(t) \/ TracksFound(t) \/ Syncs(t)

-----------------------------------------------------------------------------
(***************************************************************************)
(* _publish_workspace_diagnostics.  Diagnostics are computed for every     *)
(* indexed snapshot of an open buffer, from all that is indexed.           *)
(***************************************************************************)
Plans(t) ==
    /\ At(t, "plan")
    /\ Free("index", t)
    /\ task' = [task EXCEPT ![t].capture = Capture, ![t].at = "commit",
                            ![t].left = {s \in Indexed : live[s.uri] = s}]
    /\ UNCHANGED <<indexVars, scopeVars, bufferVars, closed, countVars>>

Commits(t) ==
    /\ At(t, "commit")
    /\ Free("index", t)
    /\ task' = [task EXCEPT ![t] =
          IF Complete(task[t].capture) THEN [task[t] EXCEPT !.at = "push"] ELSE Idle]
    /\ UNCHANGED <<indexVars, scopeVars, bufferVars, closed, countVars>>

\* publish_diagnostics gives up on a snapshot that is no longer current.
Pushes(t) ==
    /\ At(t, "push")
    /\ Free("chain", t)
    /\ \E s \in task[t].left :
          /\ pushed' = IF live[s.uri] = s
                       THEN [pushed EXCEPT ![s.uri] = task[t].capture.snapshots]
                       ELSE pushed
          /\ task' = [task EXCEPT ![t].left = task[t].left \ {s}]
    /\ UNCHANGED <<indexVars, scopeVars, buffer, live, nextId, closed, countVars>>

HasPushed(t) ==
    /\ At(t, "push")
    /\ task[t].left = {}
    /\ task' = [task EXCEPT ![t] = Idle]
    /\ UNCHANGED <<indexVars, scopeVars, bufferVars, closed, countVars>>

Publishes(t) == Plans(t) \/ Commits(t) \/ Pushes(t) \/ HasPushed(t)

-----------------------------------------------------------------------------
(***************************************************************************)
(* A request: the semantics of a URI, the workspace and the folders are    *)
(* captured one after the other; the answer is committed under the locks   *)
(* of all that it rests on, taken in the order of its handler.             *)
(***************************************************************************)
Arrives(u) ==
    /\ Orders # {}
    /\ task["worker"] = Idle
    /\ requests < MaxRequests
    /\ requests' = requests + 1
    /\ live[u] # None
    /\ Free("chain", "worker")
    /\ task' = [task EXCEPT !["worker"] =
          [Idle EXCEPT !.op = "respond", !.at = "captures", !.semantic = live[u]]]
    /\ UNCHANGED <<indexVars, scopeVars, bufferVars, closed, notices>>

CapturesWorkspace ==
    /\ At("worker", "captures")
    /\ Free("index", "worker")
    /\ task' = [task EXCEPT !["worker"].capture = Capture, !["worker"].at = "scopes"]
    /\ UNCHANGED <<indexVars, scopeVars, bufferVars, closed, countVars>>

CapturesFolders ==
    /\ At("worker", "scopes")
    /\ Free("folders", "worker")
    /\ \E order \in Orders :
          task' = [task EXCEPT !["worker"] =
             [task["worker"] EXCEPT !.folders = scopeGeneration, !.order = order, !.at = "lock"]]
    /\ UNCHANGED <<indexVars, scopeVars, bufferVars, closed, countVars>>

Agrees(lock, m) ==
    \/ lock = "chain" /\ live[m.semantic.uri] = m.semantic
    \/ lock = "index" /\ Complete(m.capture)
    \/ lock = "folders" /\ ScopeCurrent(m.folders)

Locks ==
    LET m == task["worker"]
        lock == m.order[m.taken + 1]
    IN  /\ At("worker", "lock")
        /\ m.taken < Len(m.order)
        /\ Free(lock, "worker")
        /\ task' = [task EXCEPT !["worker"] =
              IF ~Agrees(lock, m) THEN Idle
              ELSE [m EXCEPT !.taken = m.taken + 1,
                             !.at = IF m.taken + 1 = Len(m.order) THEN "answer" ELSE "lock"]]
        /\ UNCHANGED <<indexVars, scopeVars, bufferVars, closed, countVars>>

Answers ==
    /\ At("worker", "answer")
    /\ task' = [task EXCEPT !["worker"] = Idle]
    /\ UNCHANGED <<indexVars, scopeVars, bufferVars, closed, countVars>>

Responds ==
    \/ \E u \in Uris : Arrives(u)
    \/ CapturesWorkspace \/ CapturesFolders \/ Locks \/ Answers

-----------------------------------------------------------------------------
\* What has changed since the request being answered captured it.  A change of
\* the folders is one of the workspace from its invalidation on.
Moves ==
    LET moves(x) ==
          CASE x = "index" -> \/ index' # index
                              \/ At("main", "invalidate") /\ generation' # generation
            [] x = "scope" -> scope' # scope
        capturedIn(x) ==
          CASE x = "index" -> {"scopes", "lock", "answer"}
            [] x = "scope" -> {"lock", "answer"}
    IN  moved' = {x \in {"index", "scope"} :
                     /\ task["worker"].at \in capturedIn(x)
                     /\ (x \in moved \/ moves(x))}

Overlaps ==
    overlapped' = (overlapped \/ (task["worker"].op = "files" /\ task["main"] # Idle))

Next ==
    /\ \/ Buffers \/ Folders \/ FilesArrive \/ RescanArrives \/ Verifies \/ Responds
       \/ \E t \in Threads : Reconciles(t) \/ Publishes(t)
    /\ Moves /\ Overlaps

Spec == Init /\ [][Next]_vars

-----------------------------------------------------------------------------
(***************************************************************************)
(* Properties.                                                             *)
(***************************************************************************)
Settled == \A t \in Threads : task[t] = Idle

\* Between notifications the index has, of every open buffer in the workspace,
\* the current semantics, and never takes the file for it, as long as no rescan by
\* the worker overlaps a notification: whatever either thread does alone.
OpenBufferWinsAlone ==
    Settled /\ ~overlapped => \A u \in scope :
        live[u] # None => index[u] = live[u] /\ u \notin closed

\* Between notifications the entries computed from files are those tracked as
\* such: a closed file can be found, refreshed and dropped.  As above, this is
\* about notifications and rescans that do not overlap.
ClosedFilesTracked ==
    Settled /\ ~overlapped => \A u \in Uris :
        /\ index[u] # None => u \in scope
        /\ u \in scope => (u \in closed <=> index[u] # None /\ Detached(index[u]))

\* An open document of the workspace is indexed by its buffer, not by its file.
OpenBufferWins ==
    Settled => \A u \in scope : live[u] # None => index[u] = live[u]

\* Between notifications the diagnostics last pushed for an open buffer of the
\* workspace rest on all that is indexed, whichever threads have published.  A rescan
\* that overlaps a change of the folders can index and track a file outside of them;
\* the notification that opens it withdraws the entry and publishes nothing.
DiagnosticsSettle ==
    Settled /\ (~overlapped \/ scopeGeneration = 0) => \A u \in scope :
        live[u] # None /\ index[u] = live[u] => pushed[u] = Indexed

\* Workspace diagnostics are only pushed while they rest on all that is indexed.
PushedFromCurrentIndex ==
    [][\A u \in Uris : pushed'[u] \notin {pushed[u], None, {}} =>
          pushed'[u] = Indexed]_vars

\* While a request is answered nothing it rests on differs from what it has
\* captured, nor has done so since: its semantics are current, the index has not
\* changed, and no folder was added or removed and changed back.
AnswersUnmoved ==
    At("worker", "answer") =>
        LET m == task["worker"]
        IN  /\ "chain" \in Held("worker") => live[m.semantic.uri] = m.semantic
            /\ "index" \in Held("worker") => "index" \notin moved
            /\ "folders" \in Held("worker") => "scope" \notin moved

\* The two threads never wait for each other.
NoMutualWait ==
    ~(/\ Wanted("main") \cap Held("worker") # {}
      /\ Wanted("worker") \cap Held("main") # {})

=============================================================================
