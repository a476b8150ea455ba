---------------------------- MODULE FileOperations ----------------------------
(***************************************************************************)
(* File operations (workspace_lsp.py, workspace_files.py): the requests by *)
(* which a client asks before it creates, deletes or renames files, and    *)
(* the notifications that change what they rest on.  The worker captures   *)
(* buffers, index, tracked files and the disk, one after the other, and    *)
(* checks all of it again inside the locks of the documents and of the     *)
(* index; main opens, edits, closes and renames documents in steps, and    *)
(* the disk changes at will.  A rescan of the closed files is one step     *)
(* here (WorkspaceSession takes it apart), and the folders stand still.    *)
(***************************************************************************)
EXTENDS Integers, Sequences, Functions

CONSTANTS
  Importer, Source, Destination,   \* files of one directory; the first imports the second
  Operations,                      \* the file operations asked about
  Arrivals,                        \* bound: notifications
  DiskChanges,                     \* bound: changes of the disk
  Openable                         \* files that may be opened

Files == {Importer, Source, Destination}

ASSUME FilesAssumption ==
  Importer # Source /\ Importer # Destination /\ Source # Destination

\* An operation is about at least one file: without any, both preflights return at once.
ASSUME OperationsAssumption ==
  \A op \in Operations :
    op \in [k : {"create", "delete", "rename"}, files : Seq(Files), leaving : SUBSET Files]
    /\ op.files # <<>>

ASSUME OpenableAssumption == Openable \subseteq Files

VARIABLES
  buffer,           \* buffer[f]: the open document, its identity and text
  entry,            \* entry[f]: the document of the snapshot in the index
  changes,          \* the generation of the index
  tracked,          \* _closed_workspace_uris
  disk,             \* disk[f]: the text on disk, NoText where there is none
  directory,        \* the parent: whether it is writable, and its metadata
  minted,           \* identities and texts so far
  notification,     \* the notification main is handling
  arrived, diskChanged,
  preflight,        \* the request the worker is executing
  possible,         \* at some instant of the request, the operation was possible
  fitting           \* at some instant, the importer was closed with the text to be edited

fileStores == <<buffer, entry, changes, tracked>>
filesystem == <<disk, directory, diskChanged>>
fileVars == <<fileStores, filesystem, minted, notification, arrived, preflight, possible, fitting>>

NoText == 0
Absent == [id |-> 0, text |-> NoText]
Detached(text) == [id |-> 0, text |-> text]       \* the document of _detached_nova_snapshot
NotHandling == [k |-> "nothing"]

\* An operation: its kind, its files, and those of them that are moved or deleted; the
\* others are to be made.
Affected(op) == Range(op.files)
Targets(op) == Affected(op) \ op.leaving

\* What the two preflights make sure of, as it is in truth.
Possible(op, buffers, texts, parent) ==
  /\ parent.writable
  /\ \A f \in Targets(op) : buffers[f] = Absent /\ texts[f] = NoText

(***************************************************************************)
(* The disk.                                                               *)
(***************************************************************************)
Touched == [directory EXCEPT !.stamp = minted']

DiskMoves ==
  /\ diskChanged < DiskChanges /\ diskChanged' = diskChanged + 1
  /\ minted' = minted + 1
  /\ UNCHANGED <<fileStores, notification, arrived, preflight>>

Writes ==
  /\ DiskMoves
  /\ \E f \in Files : disk[f] # NoText /\ disk' = [disk EXCEPT ![f] = minted']
  /\ UNCHANGED directory

Creates ==
  /\ DiskMoves
  /\ \E f \in Files : disk[f] = NoText /\ disk' = [disk EXCEPT ![f] = minted']
  /\ directory' = Touched

Deletes ==
  /\ DiskMoves
  /\ \E f \in Files : disk[f] # NoText /\ disk' = [disk EXCEPT ![f] = NoText]
  /\ directory' = Touched

Moves ==
  /\ DiskMoves
  /\ \E f, g \in Files :
       /\ f # g /\ disk[f] # NoText
       /\ disk' = [disk EXCEPT ![f] = NoText, ![g] = disk[f]]
  /\ directory' = Touched

Permits ==
  /\ DiskMoves
  /\ directory' = [writable |-> ~directory.writable, stamp |-> minted']
  /\ UNCHANGED disk

(***************************************************************************)
(* Main: notifications.                                                    *)
(***************************************************************************)
\* Between its commit and its answer the worker holds both locks.
Publishing == preflight.at \in {"checks", "owned", "closed", "checks again", "answers"}
Free == ~Publishing

Arrive(n) ==
  /\ notification = NotHandling
  /\ arrived < Arrivals /\ arrived' = arrived + 1
  /\ notification' = n

FileNotice(f, k) == [k |-> k, f |-> f, previous |-> entry[f], read |-> NoText]
Goes(k) == notification' = [notification EXCEPT !.k = k]
Ends == notification' = NotHandling
MainOnly == UNCHANGED <<filesystem, preflight>>

\* didOpen: _drop_closed_workspace_identity, documents.open, workspace_symbols.replace.
BufferOpens ==
  /\ \E f \in Openable :
       /\ buffer[f] = Absent
       /\ Arrive(FileNotice(f, IF f \in tracked THEN "drop" ELSE "edit"))
  /\ tracked' = tracked \ {notification'.f}
  /\ UNCHANGED <<buffer, entry, changes, minted>> /\ MainOnly

DropsEntry ==
  /\ notification.k = "drop" /\ Free
  /\ entry' = [entry EXCEPT ![notification.f] = Absent]
  /\ changes' = changes + (IF entry[notification.f] = Absent THEN 0 ELSE 1)
  /\ notification' = [notification EXCEPT !.k = "edit", !.previous = Absent]
  /\ UNCHANGED <<buffer, tracked, minted, arrived>> /\ MainOnly

BufferChanges ==
  /\ \E f \in Files : buffer[f] # Absent /\ Arrive(FileNotice(f, "edit"))
  /\ UNCHANGED <<fileStores, minted>> /\ MainOnly

EditsBuffer ==
  /\ notification.k = "edit" /\ Free
  /\ minted' = minted + 1
  /\ buffer' = [buffer EXCEPT ![notification.f] = [id |-> minted', text |-> minted']]
  /\ Goes("index")
  /\ UNCHANGED <<entry, changes, tracked, arrived>> /\ MainOnly

IndexesBuffer ==
  /\ notification.k = "index" /\ Free
  /\ IF entry[notification.f] = notification.previous
     THEN /\ entry' = [entry EXCEPT ![notification.f] = buffer[notification.f]]
          /\ changes' = changes + 1
     ELSE UNCHANGED <<entry, changes>>
  /\ Ends
  /\ UNCHANGED <<buffer, tracked, minted, arrived>> /\ MainOnly

\* didClose: documents.close, workspace_symbols.remove, _restore_closed_workspace_file.
BufferCloses ==
  /\ \E f \in Files : buffer[f] # Absent /\ Arrive(FileNotice(f, "close"))
  /\ UNCHANGED <<fileStores, minted>> /\ MainOnly

ClosesBuffer ==
  /\ notification.k = "close" /\ Free
  /\ buffer' = [buffer EXCEPT ![notification.f] = Absent]
  /\ Goes("remove")
  /\ UNCHANGED <<entry, changes, tracked, minted, arrived>> /\ MainOnly

RemovesEntry ==
  /\ notification.k = "remove" /\ Free
  /\ IF entry[notification.f] = notification.previous
     THEN /\ entry' = [entry EXCEPT ![notification.f] = Absent]
          /\ changes' = changes + (IF notification.previous = Absent THEN 0 ELSE 1)
     ELSE UNCHANGED <<entry, changes>>
  /\ Goes("read")
  /\ UNCHANGED <<buffer, tracked, minted, arrived>> /\ MainOnly

RereadsFile ==
  /\ notification.k = "read"
  /\ IF disk[notification.f] = NoText THEN Ends
     ELSE notification' = [notification EXCEPT !.k = "restore", !.read = disk[notification.f]]
  /\ UNCHANGED <<fileStores, minted, arrived>> /\ MainOnly

RestoresEntry ==
  /\ notification.k = "restore" /\ Free
  /\ entry' = [entry EXCEPT ![notification.f] = Detached(notification.read)]
  /\ changes' = changes + 1
  /\ Goes("track")
  /\ UNCHANGED <<buffer, tracked, minted, arrived>> /\ MainOnly

TracksFile ==
  /\ notification.k = "track"
  /\ tracked' = tracked \cup {notification.f}
  /\ Ends
  /\ UNCHANGED <<buffer, entry, changes, minted, arrived>> /\ MainOnly

\* _refresh_closed_workspace_files, of the files that are not open: those found take
\* their entry from the disk, and those that were tracked and are gone lose it.
Rescanned ==
  LET closed == {f \in Files : buffer[f] = Absent}
      found == {f \in closed : disk[f] # NoText}
      gone == tracked \ found IN
  /\ entry' = [f \in Files |-> IF f \in found THEN Detached(disk[f])
                               ELSE IF f \in gone THEN Absent ELSE entry[f]]
  /\ tracked' = found
  /\ changes' = changes + (IF entry' = entry THEN 0 ELSE 1)

\* A watched file, created files or deleted files.
FilesReported ==
  /\ Arrive([k |-> "rescan"])
  /\ UNCHANGED <<fileStores, minted>> /\ MainOnly

\* didRename of the source: documents.rename_many, the entries, and a rescan.  Nothing
\* happens when the destination is open.
RenamesReported ==
  /\ Arrive(FileNotice(Source, "moved")) /\ Free
  /\ buffer[Source] # Absent /\ buffer[Destination] = Absent
  /\ minted' = minted + 1
  /\ buffer' = [buffer EXCEPT ![Source] = Absent,
                              ![Destination] = [id |-> minted', text |-> buffer[Source].text]]
  /\ UNCHANGED <<entry, changes, tracked>> /\ MainOnly

\* Nothing open is renamed: the destination may still be new on disk.
RenamesClosed ==
  /\ Arrive(FileNotice(Source, "rescan"))
  /\ buffer[Source] = Absent
  /\ UNCHANGED <<fileStores, minted>> /\ MainOnly

RemovesMoved ==
  /\ notification.k = "moved" /\ Free
  /\ entry' = [entry EXCEPT ![Source] = Absent]
  /\ changes' = changes + (IF entry[Source] = Absent THEN 0 ELSE 1)
  /\ Goes("moving")
  /\ UNCHANGED <<buffer, tracked, minted, arrived>> /\ MainOnly

IndexesMoved ==
  /\ notification.k = "moving" /\ Free
  /\ entry' = [entry EXCEPT ![Destination] = buffer[Destination]]
  /\ changes' = changes + 1
  /\ Goes("rescan")
  /\ UNCHANGED <<buffer, tracked, minted, arrived>> /\ MainOnly

Rescans ==
  /\ notification.k = "rescan" /\ Free /\ Rescanned
  /\ Ends
  /\ UNCHANGED <<buffer, minted, arrived>> /\ MainOnly

(***************************************************************************)
(* The worker: the preflights.                                             *)
(***************************************************************************)
NoPreflight == [at |-> "none"]

WorkerOnly == UNCHANGED <<fileStores, filesystem, minted, notification, arrived>>
At(stage) == preflight.at = stage
Then(stage) == preflight' = [preflight EXCEPT !.at = stage] /\ WorkerOnly

\* willCreate and willDelete read the documents first, willRename the index.
Asked ==
  /\ preflight = NoPreflight /\ notification = NotHandling
  /\ \E op \in Operations :
       preflight' = [at |-> IF op.k = "rename" THEN "index" ELSE "documents",
                     op |-> op, n |-> 1, guarded |-> Affected(op),
                     documents |-> <<>>, entries |-> <<>>, generation |-> 0,
                     closed |-> {}, paths |-> <<>>, parents |-> <<>>,
                     edited |-> FALSE, answer |-> "none"]
  /\ WorkerOnly

IsRename == preflight.op.k = "rename"

\* documents.snapshots(), of the affected files.
ReadsDocuments ==
  /\ At("documents")
  /\ preflight' = [preflight EXCEPT !.at = IF IsRename THEN "importers" ELSE "index",
                                    !.documents = [f \in Affected(preflight.op) |-> buffer[f]]]
  /\ WorkerOnly

\* The importer's path to a file that moves changes, unless both stay where they are.
Rewrites(op, entries) ==
  /\ op.k = "rename" /\ entries[Importer] # Absent /\ entries[Source] # Absent
  /\ Source \in op.leaving

ReadsIndex ==
  /\ At("index")
  /\ LET edited == Rewrites(preflight.op, entry) IN
     preflight' = [preflight EXCEPT !.at = IF IsRename THEN "documents" ELSE "tracked",
                                    !.entries = entry, !.generation = changes,
                                    !.edited = edited,
                                    !.guarded = @ \cup (IF edited THEN {Importer} ELSE {})]
  /\ WorkerOnly

\* _nova_import_rename_changes: no path leads from the importer to where the file goes.
CannotRewrite ==
  /\ At("documents") /\ preflight.edited
  /\ preflight' = [preflight EXCEPT !.at = "done", !.answer = "refused"]
  /\ WorkerOnly

\* An importer that is open is guarded by the document its snapshot is of.
ReadsImporter ==
  /\ At("importers")
  /\ preflight' = [preflight EXCEPT !.at = "tracked",
       !.documents = IF preflight.edited /\ buffer[Importer] # Absent
                     THEN [f \in DOMAIN @ \cup {Importer} |->
                             IF f = Importer THEN preflight.entries[f] ELSE @[f]]
                     ELSE @]
  /\ WorkerOnly

ReadsTracked ==
  /\ At("tracked")
  /\ preflight' = [preflight EXCEPT !.at = "probes", !.closed = tracked \cap preflight.guarded]
  /\ WorkerOnly

\* probe_local_workspace_path and probe_local_workspace_mutation, file by file for a
\* rename, and otherwise the paths before their parents.
Count == Len(preflight.op.files)
ProbesPath(i) == IF IsRename THEN i % 2 = 1 ELSE i <= Count
Probed(i) ==
  preflight.op.files[IF IsRename THEN (i + 1) \div 2 ELSE IF i <= Count THEN i ELSE i - Count]

Probes ==
  /\ At("probes")
  /\ preflight' = [preflight EXCEPT
       !.paths = IF ProbesPath(preflight.n) THEN Append(@, disk[Probed(preflight.n)]) ELSE @,
       !.parents = IF ProbesPath(preflight.n) THEN @ ELSE Append(@, directory),
       !.n = IF @ = 2 * Count THEN 1 ELSE @ + 1,
       !.at = IF preflight.n = 2 * Count THEN "starts" ELSE @]
  /\ WorkerOnly

\* Fault: a file that is still tracked is taken to be what it was.
StillTracked(f) ==
  LET captured == preflight.entries[f] IN
  captured = Absent \/ buffer[f] = captured \/ f \in tracked

\* _closed_workspace_snapshots_current
StillOnDisk(f) ==
  LET captured == preflight.entries[f] IN
  \/ captured = Absent \/ buffer[f] = captured
  \/ f \in tracked /\ disk[f] = captured.text
ClosedCurrent == \A f \in preflight.closed : StillOnDisk(f)

\* Outdated evidence: the closed files are rescanned before the answer.
Modified ==
  /\ preflight' = [preflight EXCEPT !.at = "done", !.answer = "modified"]
  /\ Rescanned
  /\ UNCHANGED <<buffer, filesystem, minted, notification, arrived>>

Starts == At("starts") /\ ClosedCurrent /\ Then("commits")
FindsOutdated == At("starts") /\ ~ClosedCurrent /\ Modified

Cancelled ==
  /\ preflight.at \in {"starts", "answers"}
  /\ preflight' = [preflight EXCEPT !.at = "done", !.answer = "cancelled"]
  /\ WorkerOnly

\* The three nested commits: the open documents among the guarded files are those
\* captured, and the index is the one captured.
Captured(f) == IF f \in DOMAIN preflight.documents THEN preflight.documents[f] ELSE Absent
Unmoved ==
  /\ \A f \in preflight.guarded : buffer[f] = Captured(f)
  /\ changes = preflight.generation

Commits == At("commits") /\ Unmoved /\ Then("checks")
CommitFails ==
  /\ At("commits") /\ ~Unmoved
  /\ preflight' = [preflight EXCEPT !.at = "done", !.answer = "modified"]
  /\ WorkerOnly

\* Fault: a file that was missing has no metadata to compare.
PathCurrentIfPresent(i) ==
  preflight.paths[i] = NoText \/ disk[preflight.op.files[i]] = preflight.paths[i]

\* publish(): the evidence is read again, paths before parents, before and after the
\* operation is validated.
PathCurrent(i) == disk[preflight.op.files[i]] = preflight.paths[i]
ParentCurrent(i) == directory = preflight.parents[i]
EvidenceCurrent(n) == IF n <= Count THEN PathCurrent(n) ELSE ParentCurrent(n - Count)

Rechecks(before, after) ==
  /\ At(before)
  /\ IF ~EvidenceCurrent(preflight.n) THEN Modified
     ELSE /\ preflight' = [preflight EXCEPT !.n = IF @ = 2 * Count THEN 1 ELSE @ + 1,
                                            !.at = IF preflight.n = 2 * Count THEN after ELSE @]
          /\ WorkerOnly

Checks == Rechecks("checks", "owned")
ChecksAgain == Rechecks("checks again", "answers")

\* _validate_workspace_file_preflight and _validate_closed_workspace_rename_preflight
Valid ==
  /\ \A i \in DOMAIN preflight.op.files : preflight.parents[i].writable
  /\ \A i \in DOMAIN preflight.op.files :
       LET f == preflight.op.files[i] IN
       f \in Targets(preflight.op) =>
         Captured(f) = Absent /\ f \notin preflight.closed /\ preflight.paths[i] = NoText

Validates ==
  /\ At("owned")
  /\ IF ~(preflight.closed \subseteq tracked) THEN Modified
     ELSE IF Valid THEN Then("closed")
     ELSE preflight' = [preflight EXCEPT !.at = "done", !.answer = "refused"] /\ WorkerOnly

RereadsClosed ==
  /\ At("closed")
  /\ IF ClosedCurrent THEN Then("checks again") ELSE Modified

\* The edits carry the version of an open document, and null otherwise.
AnswersPreflight ==
  /\ At("answers")
  /\ preflight' = [preflight EXCEPT !.at = "done",
       !.answer = IF ~preflight.edited THEN "approved"
                  ELSE IF buffer[Importer].id # 0 /\ buffer[Importer] = preflight.entries[Importer]
                       THEN "edits of the buffer" ELSE "edits of the file"]
  /\ WorkerOnly

(***************************************************************************)
(* Specification.                                                          *)
(***************************************************************************)
FileInit ==
  /\ \E present \in SUBSET Files, open \in SUBSET Openable :
       /\ buffer = [f \in Files |-> IF f \in open THEN [id |-> 2, text |-> 2] ELSE Absent]
       /\ disk = [f \in Files |-> IF f \in present THEN 1 ELSE NoText]
       /\ entry = [f \in Files |-> IF f \in open THEN buffer[f]
                                  ELSE IF f \in present THEN Detached(1) ELSE Absent]
       /\ tracked = present \ open
  /\ directory = [writable |-> TRUE, stamp |-> 0]
  /\ changes = 0 /\ minted = 2 /\ arrived = 0 /\ diskChanged = 0
  /\ notification = NotHandling /\ preflight = NoPreflight
  /\ possible = FALSE /\ fitting = FALSE

FilesOnDisk == Writes \/ Creates \/ Deletes \/ Moves \/ Permits
FilesOnMain ==
  \/ BufferOpens \/ DropsEntry \/ BufferChanges \/ EditsBuffer \/ IndexesBuffer
  \/ BufferCloses \/ ClosesBuffer \/ RemovesEntry \/ RereadsFile \/ RestoresEntry \/ TracksFile
  \/ FilesReported \/ RenamesReported \/ RenamesClosed \/ RemovesMoved \/ IndexesMoved \/ Rescans
FilesOnWorker ==
  \/ Asked \/ ReadsDocuments \/ ReadsIndex \/ CannotRewrite \/ ReadsImporter \/ ReadsTracked
  \/ Probes \/ Starts \/ FindsOutdated \/ Cancelled \/ Commits \/ CommitFails
  \/ Checks \/ Validates \/ RereadsClosed \/ ChecksAgain \/ AnswersPreflight

\* What was so at some instant of the request.
Records ==
  /\ possible' = (preflight' # NoPreflight
                   /\ (possible \/ Possible(preflight'.op, buffer', disk', directory')))
  /\ fitting' = (preflight' # NoPreflight
                  /\ (fitting \/ /\ preflight'.edited /\ buffer'[Importer] = Absent
                                 /\ disk'[Importer] = preflight'.entries[Importer].text))

\* A behaviour ends with the answer of its request.
FileNext == preflight.at # "done" /\ (FilesOnDisk \/ FilesOnMain \/ FilesOnWorker) /\ Records

FileSpec == FileInit /\ [][FileNext]_fileVars

(***************************************************************************)
(* Properties.                                                             *)
(***************************************************************************)
Approved == preflight # NoPreflight
            /\ preflight.answer \in {"approved", "edits of the buffer", "edits of the file"}

\* The disk, the directory and the buffers are read one after the other while all of
\* them change; yet an operation is approved only if, at one instant of the request,
\* the directory was writable and every file to be made was neither open nor on disk.
ApprovedWhenPossible == Approved => possible

\* Edits of a closed file that was tracked when the request looked are of the text the
\* file had at some instant while no buffer of it was open.
TrackedEditsFit ==
  Approved /\ preflight.answer = "edits of the file" /\ Importer \in preflight.closed => fitting

\* "Closed importer text is reread ... before publication" (docs/workspace-file-renames.md:7):
\* the same of all edits without a version.
EditsFitTheirFiles == Approved /\ preflight.answer = "edits of the file" => fitting

\* "An open document always wins over a disk snapshot" (docs/closed-workspace-index.md:9):
\* when main is done with a notification, every open document is in the index.
OpenBuffersIndexed ==
  notification = NotHandling => \A f \in Files : buffer[f] # Absent => entry[f] = buffer[f]
===============================================================================
