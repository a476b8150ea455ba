------------------------- MODULE FileOperationsProofs -------------------------
(***************************************************************************)
(* Theorems about FileOperations, for every set of operations, any number  *)
(* of notifications and any number of changes of the disk.                 *)
(*                                                                         *)
(* The disk has no lock.  What makes the preflights right all the same is  *)
(* that every creation, deletion and move leaves a trace in the directory  *)
(* (Stamped): when the directory is found to be what it was, a file that   *)
(* was missing at any time since is still missing (PathsHold), so that     *)
(* everything looked at one after the other was so together (WasPossible). *)
(***************************************************************************)
EXTENDS FileOperations, SequenceTheorems, TLAPS

Documents == [id : Nat, text : Nat]
Directories == [writable : BOOLEAN, stamp : Nat]
Captures == UNION {[S -> Documents] : S \in SUBSET Files}
Stages == {"none", "documents", "index", "importers", "tracked", "probes", "starts",
           "commits", "checks", "owned", "closed", "checks again", "answers", "done"}
AnswerKinds == {"none", "refused", "modified", "cancelled",
            "approved", "edits of the buffer", "edits of the file"}

Requests ==
  [at : Stages, op : Operations, n : Nat, guarded : SUBSET Files, documents : Captures,
   entries : Captures, generation : Nat, closed : SUBSET Files, paths : Seq(Nat),
   parents : Seq(Directories), edited : BOOLEAN, answer : AnswerKinds]

Notices ==
  [k : {"drop", "edit", "index", "close", "remove", "read", "restore", "track",
        "moved", "moving", "rescan"},
   f : Files, previous : Documents, read : Nat]

StateTypes ==
  /\ buffer \in [Files -> Documents]
  /\ entry \in [Files -> Documents]
  /\ changes \in Nat
  /\ tracked \in SUBSET Files
  /\ disk \in [Files -> Nat]
  /\ directory \in Directories
  /\ minted \in Nat
  /\ notification \in {NotHandling, [k |-> "rescan"]} \cup Notices
  /\ \/ preflight = NoPreflight
     \/ /\ preflight \in Requests /\ preflight.at # "none"
        /\ preflight.edited => preflight.entries \in [Files -> Documents]

FileTypes == StateTypes /\ possible \in BOOLEAN /\ fitting \in BOOLEAN

\* Only an open document has an identity.
ClosedIsAbsent == \A f \in Files : buffer[f].id = 0 => buffer[f] = Absent

\* Until a rescan by the worker, which is the last step of its request, a tracked file is
\* not open, unless it is what an open one was renamed to.
TrackedClosed ==
  preflight.at # "done" =>
    /\ \A f \in tracked : f # Destination => buffer[f] = Absent
    /\ notification.k \in {"drop", "edit"} /\ notification.f # Destination
         => notification.f \notin tracked
    /\ notification.k \in {"remove", "read", "restore", "track"}
         => buffer[notification.f] = Absent

\* A directory that has changed since it was read never looks like that again.
Stamped ==
  /\ directory.stamp <= minted
  /\ preflight # NoPreflight =>
       \A i \in DOMAIN preflight.parents :
         /\ preflight.parents[i].stamp <= directory.stamp
         /\ preflight.parents[i].stamp = directory.stamp => preflight.parents[i] = directory

Probed1 == preflight.parents # <<>>

\* How far the probes and the checks of the evidence are.
Progress ==
  preflight # NoPreflight =>
    /\ Affected(preflight.op) \subseteq preflight.guarded
    /\ preflight.at \in {"documents", "index", "importers", "tracked"} => preflight.n = 1
    /\ At("probes") =>
         /\ preflight.n \in 1 .. 2 * Count
         /\ IsRename /\ preflight.n > 2 => Probed1
         /\ ~IsRename /\ preflight.n > Count + 1 => Probed1
    /\ At("starts") \/ At("commits") => Probed1 /\ preflight.n = 1
    /\ Publishing => Probed1 /\ preflight.n \in 1 .. 2 * Count
    /\ At("owned") \/ At("closed") => preflight.n = 1

\* Inside the locks, the buffers are those that were captured.
Locked == Publishing => \A f \in preflight.guarded : buffer[f] = Captured(f)

Unchanged == directory = preflight.parents[1]

\* A file found missing is missing as long as the directory is what it was.
PathsHold ==
  Publishing => \A i \in 1 .. Count :
    (At("checks") => i < preflight.n) /\ preflight.paths[i] = NoText /\ Unchanged
      => disk[preflight.op.files[i]] = NoText

\* Once all paths are checked, what is found valid was possible, unless the directory has
\* changed; once the first parent is checked as well, it has not.
WasPossible ==
  /\ Publishing /\ (At("checks") => preflight.n > Count) /\ Valid => possible \/ ~Unchanged
  /\ Publishing /\ (At("checks") => preflight.n > Count + 1) /\ Valid => possible
  /\ preflight.at \in {"closed", "checks again", "answers"} => Valid

\* Once the closed files are reread, an importer among them had the captured text.
WasFitting ==
  /\ preflight # NoPreflight /\ preflight.edited => preflight.entries[Importer] # Absent
  /\ preflight.at \in {"checks again", "answers"} /\ preflight.edited
     /\ Importer \in preflight.closed
       => fitting \/ (buffer[Importer] = preflight.entries[Importer] /\ buffer[Importer].id # 0)

AnswersHold ==
  /\ preflight # NoPreflight /\ ~At("done") => preflight.answer = "none"
  /\ ApprovedWhenPossible /\ TrackedEditsFit

FileInv ==
  /\ FileTypes /\ ClosedIsAbsent /\ TrackedClosed /\ Stamped /\ Progress
  /\ Locked /\ PathsHold /\ WasPossible /\ WasFitting /\ AnswersHold

-----------------------------------------------------------------------------
(***************************************************************************)
(* Types.                                                                  *)
(***************************************************************************)

\* The files of an operation are files, and there is one.
LEMMA OperationFacts ==
    ASSUME NEW op \in Operations
    PROVE  /\ op.files \in Seq(Files) /\ Len(op.files) \in Nat /\ Len(op.files) >= 1
           /\ DOMAIN op.files = 1 .. Len(op.files)
           /\ Affected(op) \subseteq Files /\ Targets(op) \subseteq Affected(op)
           /\ \A i \in 1 .. Len(op.files) : op.files[i] \in Files /\ op.files[i] \in Affected(op)
<1>1. op.files \in Seq(Files) /\ op.files # <<>>
  BY OperationsAssumption
<1>2. /\ Len(op.files) \in Nat /\ Len(op.files) >= 1
      /\ DOMAIN op.files = 1 .. Len(op.files)
  BY <1>1, EmptySeq, LenProperties
<1>3. \A i \in 1 .. Len(op.files) : op.files[i] \in Files
  BY <1>1, ElementOfSeq
<1> QED BY <1>1, <1>2, <1>3 DEF Affected, Targets, Range

\* The fields of a request, and what it keeps when it moves on to another stage.
LEMMA RequestFields ==
    ASSUME NEW r \in Requests, NEW s \in Stages, NEW a \in AnswerKinds
    PROVE  /\ [r EXCEPT !.at = s] \in Requests
           /\ [r EXCEPT !.at = s, !.answer = a] \in Requests
BY DEF Requests

LEMMA InitTypes == FileInit => FileTypes
<1> SUFFICES ASSUME FileInit PROVE FileTypes
  OBVIOUS
<1>1. PICK present \in SUBSET Files, open \in SUBSET Openable :
        /\ buffer = [f \in Files |-> IF f \in open THEN [id |-> 2, text |-> 2] ELSE Absent]
        /\ disk = [f \in Files |-> IF f \in present THEN 1 ELSE NoText]
        /\ entry = [f \in Files |-> IF f \in open THEN buffer[f]
                                   ELSE IF f \in present THEN Detached(1) ELSE Absent]
        /\ tracked = present \ open
  BY DEF FileInit
<1>2. buffer \in [Files -> Documents] /\ disk \in [Files -> Nat]
  BY <1>1 DEF Documents, Absent, NoText
<1>3. entry \in [Files -> Documents]
  BY <1>1, <1>2 DEF Documents, Absent, NoText, Detached
<1> QED BY <1>1, <1>2, <1>3 DEF FileInit, FileTypes, StateTypes, Directories

\* Every step of the disk keeps the types.
LEMMA DiskTypes ==
    ASSUME StateTypes, FilesOnDisk
    PROVE  StateTypes'
<1>1. /\ minted' \in Nat /\ minted' = minted + 1
      /\ UNCHANGED <<buffer, entry, changes, tracked, notification, preflight>>
  BY DEF FilesOnDisk, Writes, Creates, Deletes, Moves, Permits, DiskMoves, StateTypes, fileStores
<1>2. disk' \in [Files -> Nat]
  BY <1>1 DEF FilesOnDisk, Writes, Creates, Deletes, Moves, Permits, StateTypes, NoText
<1>3. directory' \in Directories
  <2>1. directory' \in {directory, Touched, [writable |-> ~directory.writable, stamp |-> minted']}
    BY DEF FilesOnDisk, Writes, Creates, Deletes, Moves, Permits
  <2>2. directory \in Directories /\ (~directory.writable) \in BOOLEAN
    BY DEF StateTypes
  <2>3. Touched \in Directories
    BY <1>1, <2>2 DEF Touched, Directories
  <2>4. [writable |-> ~directory.writable, stamp |-> minted'] \in Directories
    BY <1>1, <2>2 DEF Directories
  <2> QED BY <2>1, <2>2, <2>3, <2>4
<1> QED BY <1>1, <1>2, <1>3 DEF StateTypes

\* What a rescan stores.
LEMMA RescanTypes ==
    ASSUME StateTypes, Rescanned
    PROVE  entry' \in [Files -> Documents] /\ changes' \in Nat /\ tracked' \in SUBSET Files
BY DEF StateTypes, Rescanned, Detached, Absent, NoText, Documents

\* A notice is one of a file unless main is idle or about to rescan.
LEMMA NoticeFacts ==
    /\ \A f \in Files, k \in {"drop", "edit", "close", "moved", "rescan"} :
          StateTypes => FileNotice(f, k) \in Notices
    /\ StateTypes /\ notification.k \notin {"nothing", "rescan"} => notification \in Notices
    /\ Source \in Files /\ Destination \in Files /\ Importer \in Files /\ Absent \in Documents
<1>1. Source \in Files /\ Destination \in Files /\ Importer \in Files /\ Absent \in Documents
  BY DEF Files, Absent, NoText, Documents
<1>2. ASSUME StateTypes, notification.k \notin {"nothing", "rescan"} PROVE notification \in Notices
  BY <1>2 DEF StateTypes, NotHandling
<1>3. ASSUME StateTypes, NEW f \in Files, NEW k \in {"drop", "edit", "close", "moved", "rescan"}
      PROVE FileNotice(f, k) \in Notices
  BY <1>3 DEF FileNotice, Notices, NoText, StateTypes
<1> QED BY <1>1, <1>2, <1>3

\* Every step of main keeps the types.
LEMMA MainTypes ==
    ASSUME StateTypes, FilesOnMain
    PROVE  StateTypes'
<1> USE NoticeFacts DEF MainOnly, filesystem, fileStores
<1>1. CASE BufferOpens
  <2>1. PICK f \in Openable : notification' = FileNotice(f, IF f \in tracked THEN "drop" ELSE "edit")
    BY <1>1 DEF BufferOpens, Arrive
  <2>2. notification' \in Notices
    BY <2>1, OpenableAssumption
  <2> QED BY <1>1, <2>2 DEF BufferOpens, StateTypes
<1>2. CASE DropsEntry
  <2>1. notification' \in Notices
    BY <1>2 DEF DropsEntry, Notices
  <2>2. changes' \in Nat
    BY <1>2 DEF DropsEntry, StateTypes
  <2> QED BY <1>2, <2>1, <2>2 DEF DropsEntry, StateTypes
<1>3. CASE BufferChanges
  BY <1>3 DEF BufferChanges, StateTypes, Arrive
<1>4. CASE EditsBuffer
  <2>1. notification' \in Notices
    BY <1>4 DEF EditsBuffer, Notices, Goes
  <2>2. minted' \in Nat /\ [id |-> minted', text |-> minted'] \in Documents
    BY <1>4 DEF EditsBuffer, StateTypes, Documents
  <2> QED BY <1>4, <2>1, <2>2 DEF EditsBuffer, StateTypes
<1>5. CASE IndexesBuffer
  BY <1>5 DEF IndexesBuffer, StateTypes, Notices, Ends
<1>6. CASE BufferCloses
  BY <1>6 DEF BufferCloses, StateTypes, Arrive
<1>7. CASE ClosesBuffer
  BY <1>7 DEF ClosesBuffer, StateTypes, Notices, Goes
<1>8. CASE RemovesEntry
  BY <1>8 DEF RemovesEntry, StateTypes, Notices, Goes
<1>9. CASE RereadsFile
  <2>1. notification \in Notices /\ disk[notification.f] \in Nat
    BY <1>9 DEF RereadsFile, StateTypes, Notices
  <2>2. notification' \in Notices \/ notification' = NotHandling
    BY <1>9, <2>1 DEF RereadsFile, Notices, Ends
  <2> QED BY <1>9, <2>2 DEF RereadsFile, StateTypes
<1>10. CASE RestoresEntry
  <2>1. notification' \in Notices
    BY <1>10 DEF RestoresEntry, Notices, Goes
  <2>2. Detached(notification.read) \in Documents /\ changes' \in Nat
    BY <1>10 DEF RestoresEntry, StateTypes, Notices, Detached, Documents
  <2> QED BY <1>10, <2>1, <2>2 DEF RestoresEntry, StateTypes
<1>11. CASE TracksFile
  BY <1>11 DEF TracksFile, StateTypes, Notices, Ends
<1>12. CASE FilesReported
  BY <1>12 DEF FilesReported, StateTypes, Arrive
<1>13. CASE RenamesReported
  <2>1. notification' \in Notices
    BY <1>13 DEF RenamesReported, Arrive
  <2>2. minted' \in Nat /\ [id |-> minted', text |-> buffer[Source].text] \in Documents
    BY <1>13 DEF RenamesReported, StateTypes, Documents
  <2> QED BY <1>13, <2>1, <2>2 DEF RenamesReported, StateTypes
<1>14. CASE RenamesClosed
  BY <1>14 DEF RenamesClosed, StateTypes, Arrive
<1>15. CASE RemovesMoved
  BY <1>15 DEF RemovesMoved, StateTypes, Notices, Goes
<1>16. CASE IndexesMoved
  BY <1>16 DEF IndexesMoved, StateTypes, Notices, Goes
<1>17. CASE Rescans
  BY <1>17, RescanTypes DEF Rescans, StateTypes, Ends
<1> QED
  BY <1>1, <1>2, <1>3, <1>4, <1>5, <1>6, <1>7, <1>8, <1>9, <1>10, <1>11, <1>12, <1>13, <1>14,
     <1>15, <1>16, <1>17 DEF FilesOnMain

\* While a request is under way, the preflight is a request.
LEMMA UnderWay ==
    ASSUME StateTypes, preflight # NoPreflight
    PROVE  /\ preflight \in Requests /\ preflight.at # "none" /\ preflight.op \in Operations
           /\ preflight.edited => preflight.entries \in [Files -> Documents]
BY DEF StateTypes, Requests

LEMMA NoneUnderWay ==
    ASSUME StateTypes, preflight.at # "none"
    PROVE  preflight # NoPreflight
BY DEF StateTypes, NoPreflight

\* What is read for a preflight before the evidence is.
LEMMA AskedTypes ==
    ASSUME StateTypes, Asked
    PROVE  StateTypes'
<1>1. PICK op \in Operations :
       preflight' = [at |-> IF op.k = "rename" THEN "index" ELSE "documents",
                     op |-> op, n |-> 1, guarded |-> Affected(op),
                     documents |-> <<>>, entries |-> <<>>, generation |-> 0,
                     closed |-> {}, paths |-> <<>>, parents |-> <<>>,
                     edited |-> FALSE, answer |-> "none"]
  BY DEF Asked
<1>2. <<>> \in Captures
  <2>1. <<>> \in Seq(Documents)
    BY EmptySeq
  <2>2. <<>> \in [{} -> Documents]
    BY <2>1, EmptySeq, LenProperties
  <2> QED BY <2>2 DEF Captures
<1>3. <<>> \in Seq(Nat) /\ <<>> \in Seq(Directories) /\ Affected(op) \subseteq Files
  BY EmptySeq, OperationFacts
<1>4. preflight' \in Requests /\ preflight'.at # "none" /\ ~preflight'.edited
  BY <1>1, <1>2, <1>3 DEF Requests, Stages, AnswerKinds
<1> QED
  BY <1>4 DEF Asked, WorkerOnly, fileStores, filesystem, StateTypes

LEMMA WholeIsCapture == [Files -> Documents] \subseteq Captures
BY DEF Captures

LEMMA ReadsTypes ==
    ASSUME StateTypes, ReadsDocuments \/ ReadsIndex \/ ReadsImporter \/ ReadsTracked
    PROVE  StateTypes'
<1>1. preflight \in Requests /\ preflight # NoPreflight
  BY UnderWay, NoneUnderWay DEF ReadsDocuments, ReadsIndex, ReadsImporter, ReadsTracked, At
<1>2. CASE ReadsDocuments
  <2>1. Affected(preflight.op) \subseteq Files
    BY <1>1, OperationFacts DEF Requests
  <2>2. [f \in Affected(preflight.op) |-> buffer[f]] \in Captures
    BY <2>1 DEF StateTypes, Captures
  <2>3. /\ preflight' \in Requests /\ preflight'.at # "none"
        /\ preflight'.edited = preflight.edited /\ preflight'.entries = preflight.entries
    BY <1>1, <1>2, <2>2 DEF ReadsDocuments, Requests, Stages
  <2> QED
    BY <1>1, <1>2, <2>3, UnderWay DEF ReadsDocuments, WorkerOnly, fileStores, filesystem, StateTypes
<1>3. CASE ReadsIndex
  <2>1. preflight.op.k = "rename" => Rewrites(preflight.op, entry) \in BOOLEAN
    BY DEF Rewrites
  <2>2. Rewrites(preflight.op, entry) \in BOOLEAN
    BY DEF Rewrites
  <2>3. /\ preflight.guarded \cup (IF Rewrites(preflight.op, entry) THEN {Importer} ELSE {})
              \in SUBSET Files
        /\ entry \in Captures /\ changes \in Nat /\ entry \in [Files -> Documents]
    BY <1>1, NoticeFacts, WholeIsCapture DEF StateTypes, Requests
  <2>4. /\ preflight' \in Requests /\ preflight'.at # "none" /\ preflight'.entries = entry
    BY <1>1, <1>3, <2>2, <2>3 DEF ReadsIndex, Requests, Stages
  <2> QED
    BY <1>3, <2>3, <2>4 DEF ReadsIndex, WorkerOnly, fileStores, filesystem, StateTypes
<1>4. CASE ReadsImporter
  <2>1. ASSUME preflight.edited
        PROVE  [f \in DOMAIN preflight.documents \cup {Importer} |->
                 IF f = Importer THEN preflight.entries[f] ELSE preflight.documents[f]] \in Captures
    <3>1. preflight.entries[Importer] \in Documents
      BY <1>1, <2>1, UnderWay, NoticeFacts
    <3>2. PICK S \in SUBSET Files : preflight.documents \in [S -> Documents]
      BY <1>1 DEF Requests, Captures
    <3>3. S \cup {Importer} \in SUBSET Files
      BY NoticeFacts
    <3>4. DOMAIN preflight.documents = S /\ \A f \in S : preflight.documents[f] \in Documents
      BY <3>2
    <3>5. [f \in S \cup {Importer} |->
            IF f = Importer THEN preflight.entries[f] ELSE preflight.documents[f]]
            \in [S \cup {Importer} -> Documents]
      BY <3>1, <3>4
    <3>6. [S \cup {Importer} -> Documents] \subseteq Captures
      BY <3>3 DEF Captures
    <3> QED BY <3>4, <3>5, <3>6
  <2>2. /\ preflight' \in Requests /\ preflight'.at # "none"
        /\ preflight'.edited = preflight.edited /\ preflight'.entries = preflight.entries
    BY <1>1, <1>4, <2>1 DEF ReadsImporter, Requests, Stages
  <2> QED
    BY <1>1, <1>4, <2>2, UnderWay DEF ReadsImporter, WorkerOnly, fileStores, filesystem, StateTypes
<1>5. CASE ReadsTracked
  <2>1. tracked \cap preflight.guarded \in SUBSET Files
    BY DEF StateTypes
  <2>2. /\ preflight' \in Requests /\ preflight'.at # "none"
        /\ preflight'.edited = preflight.edited /\ preflight'.entries = preflight.entries
    BY <1>1, <1>5, <2>1 DEF ReadsTracked, Requests, Stages
  <2> QED
    BY <1>1, <1>5, <2>2, UnderWay DEF ReadsTracked, WorkerOnly, fileStores, filesystem, StateTypes
<1> QED BY <1>2, <1>3, <1>4, <1>5

\* Which file is probed, and that every probe is of a file of the operation.
LEMMA ProbedFacts ==
    ASSUME StateTypes, preflight # NoPreflight, NEW i \in 1 .. 2 * Count, ProbesPath(i)
    PROVE  Probed(i) \in Files
<1>1. /\ preflight.op \in Operations /\ Count \in Nat /\ Count >= 1
      /\ \A j \in 1 .. Count : preflight.op.files[j] \in Files
  BY UnderWay, OperationFacts DEF Count
<1>2. CASE IsRename
  <2>1. (i + 1) \div 2 \in 1 .. Count
    BY <1>1
  <2> QED BY <1>1, <1>2, <2>1 DEF Probed
<1>3. CASE ~IsRename
  BY <1>1, <1>3 DEF ProbesPath, Probed
<1> QED BY <1>2, <1>3

\* The steps of the worker that only take the request to another stage: what the request
\* has captured stays, and so does the world, but for the rescan of the last step.
Decides ==
  \/ CannotRewrite \/ Starts \/ FindsOutdated \/ Cancelled \/ Commits \/ CommitFails
  \/ Checks \/ Validates \/ RereadsClosed \/ ChecksAgain \/ AnswersPreflight

Kept ==
  /\ preflight'.op = preflight.op /\ preflight'.guarded = preflight.guarded
  /\ preflight'.documents = preflight.documents /\ preflight'.entries = preflight.entries
  /\ preflight'.closed = preflight.closed /\ preflight'.paths = preflight.paths
  /\ preflight'.parents = preflight.parents /\ preflight'.edited = preflight.edited

LEMMA ModifiedFacts ==
    ASSUME StateTypes, preflight # NoPreflight, Modified
    PROVE  /\ preflight' \in Requests /\ preflight'.at = "done" /\ preflight'.answer = "modified"
           /\ Kept /\ UNCHANGED <<buffer, disk, directory, minted, notification>>
<1>1. preflight \in Requests
  BY UnderWay
<1> QED BY <1>1 DEF Modified, Requests, Stages, AnswerKinds, Kept, filesystem

LEMMA ThenFacts ==
    ASSUME StateTypes, preflight # NoPreflight, NEW s \in Stages, Then(s)
    PROVE  /\ preflight' \in Requests /\ preflight'.at = s /\ preflight'.n = preflight.n
           /\ preflight'.answer = preflight.answer
           /\ Kept /\ UNCHANGED <<fileStores, filesystem, minted, notification>>
<1>1. preflight \in Requests
  BY UnderWay
<1> QED BY <1>1 DEF Then, Requests, Kept, WorkerOnly

LEMMA RechecksFacts ==
    ASSUME StateTypes, preflight # NoPreflight, NEW b \in Stages, NEW a \in Stages \ {"none"},
           Rechecks(b, a), EvidenceCurrent(preflight.n)
    PROVE  /\ preflight' \in Requests /\ preflight'.answer = preflight.answer
           /\ preflight.n = 2 * Count => preflight'.n = 1 /\ preflight'.at = a
           /\ preflight.n # 2 * Count => preflight'.n = preflight.n + 1 /\ preflight'.at = b
           /\ Kept /\ UNCHANGED <<fileStores, filesystem, minted, notification>>
<1>1. preflight \in Requests /\ preflight.at = b
  BY UnderWay DEF Rechecks, At
<1>2. /\ preflight' = [preflight EXCEPT !.n = IF preflight.n = 2 * Count THEN 1 ELSE preflight.n + 1,
                                     !.at = IF preflight.n = 2 * Count THEN a ELSE preflight.at]
      /\ WorkerOnly
  BY DEF Rechecks
<1>3. (IF preflight.n = 2 * Count THEN 1 ELSE preflight.n + 1) \in Nat
  BY <1>1 DEF Requests
<1> QED BY <1>1, <1>2, <1>3 DEF Requests, Kept, WorkerOnly

LEMMA DecidesFacts ==
    ASSUME StateTypes, Decides
    PROVE  /\ preflight # NoPreflight /\ preflight \in Requests
           /\ preflight' \in Requests /\ preflight'.at # "none"
           /\ Kept /\ UNCHANGED <<buffer, disk, directory, minted, notification>>
           /\ \/ preflight'.at = "done" /\ Rescanned
              \/ UNCHANGED <<entry, changes, tracked>>
<1> DEFINE Goal ==
           /\ preflight # NoPreflight /\ preflight \in Requests
           /\ preflight' \in Requests /\ preflight'.at # "none"
           /\ Kept /\ UNCHANGED <<buffer, disk, directory, minted, notification>>
           /\ \/ preflight'.at = "done" /\ Rescanned
              \/ UNCHANGED <<entry, changes, tracked>>
<1>1. preflight # NoPreflight /\ preflight \in Requests
  <2>1. preflight.at # "none"
    BY DEF Decides, CannotRewrite, Starts, FindsOutdated, Cancelled, Commits, CommitFails,
           Checks, Validates, RereadsClosed, ChecksAgain, AnswersPreflight, Rechecks, At
  <2> QED BY <2>1, UnderWay, NoneUnderWay
<1>2. ASSUME NEW s \in Stages \ {"none"}, Then(s) PROVE Goal
  BY <1>1, <1>2, ThenFacts DEF fileStores, filesystem
<1>3. ASSUME Modified PROVE Goal
  BY <1>1, <1>3, ModifiedFacts DEF Modified
<1>4. ASSUME NEW a \in AnswerKinds, WorkerOnly,
             preflight' = [preflight EXCEPT !.at = "done", !.answer = a]
      PROVE  Goal
  BY <1>1, <1>4 DEF WorkerOnly, fileStores, filesystem, Requests, Stages, Kept
<1>5. ASSUME NEW b \in Stages \ {"none"}, NEW a \in Stages \ {"none"}, Rechecks(b, a)
      PROVE  Goal
  <2>1. CASE ~EvidenceCurrent(preflight.n)
    BY <1>3, <1>5, <2>1 DEF Rechecks
  <2>2. CASE EvidenceCurrent(preflight.n)
    BY <1>1, <1>5, <2>2, RechecksFacts DEF fileStores, filesystem
  <2> QED BY <2>1, <2>2
<1>6. /\ {"commits", "checks", "owned", "closed", "checks again", "answers"} \subseteq Stages \ {"none"}
      /\ {"refused", "cancelled", "modified", "approved", "edits of the buffer", "edits of the file"}
           \subseteq AnswerKinds
  BY DEF Stages, AnswerKinds
<1> SUFFICES Goal
  OBVIOUS
<1> HIDE DEF Goal
<1>7. CASE CannotRewrite \/ Cancelled \/ CommitFails
  BY <1>4, <1>6, <1>7 DEF CannotRewrite, Cancelled, CommitFails
<1>8. CASE Starts \/ Commits
  BY <1>2, <1>6, <1>8 DEF Starts, Commits
<1>9. CASE FindsOutdated
  BY <1>3, <1>9 DEF FindsOutdated
<1>10. CASE Checks \/ ChecksAgain
  BY <1>5, <1>6, <1>10 DEF Checks, ChecksAgain
<1>11. CASE Validates
  BY <1>2, <1>3, <1>4, <1>6, <1>11 DEF Validates
<1>12. CASE RereadsClosed
  BY <1>2, <1>3, <1>6, <1>12 DEF RereadsClosed
<1>13. CASE AnswersPreflight
  BY <1>4, <1>6, <1>13 DEF AnswersPreflight
<1> QED
  BY <1>7, <1>8, <1>9, <1>10, <1>11, <1>12, <1>13 DEF Decides

\* A probe adds the path or the directory it finds.
LEMMA ProbesFacts ==
    ASSUME StateTypes, Probes, preflight.n \in 1 .. 2 * Count
    PROVE  /\ preflight # NoPreflight /\ preflight \in Requests /\ preflight.at = "probes"
           /\ preflight' \in Requests
           /\ preflight'.op = preflight.op /\ preflight'.guarded = preflight.guarded
           /\ preflight'.documents = preflight.documents /\ preflight'.entries = preflight.entries
           /\ preflight'.closed = preflight.closed /\ preflight'.edited = preflight.edited
           /\ preflight'.answer = preflight.answer
           /\ preflight'.parents = IF ProbesPath(preflight.n) THEN preflight.parents
                                   ELSE Append(preflight.parents, directory)
           /\ preflight.n = 2 * Count => preflight'.n = 1 /\ preflight'.at = "starts"
           /\ preflight.n # 2 * Count => preflight'.n = preflight.n + 1 /\ preflight'.at = "probes"
           /\ UNCHANGED <<fileStores, filesystem, minted, notification>>
<1>1. preflight # NoPreflight /\ preflight \in Requests /\ preflight.at = "probes"
  BY UnderWay, NoneUnderWay DEF Probes, At
<1> DEFINE paths == IF ProbesPath(preflight.n) THEN Append(preflight.paths, disk[Probed(preflight.n)])
                    ELSE preflight.paths
           parents == IF ProbesPath(preflight.n) THEN preflight.parents
                      ELSE Append(preflight.parents, directory)
           n == IF preflight.n = 2 * Count THEN 1 ELSE preflight.n + 1
           at == IF preflight.n = 2 * Count THEN "starts" ELSE preflight.at
<1>2. preflight' = [preflight EXCEPT !.paths = paths, !.parents = parents, !.n = n, !.at = at]
  BY DEF Probes
<1>3. paths \in Seq(Nat)
  <2>1. CASE ProbesPath(preflight.n)
    <3>1. disk[Probed(preflight.n)] \in Nat
      BY <1>1, <2>1, ProbedFacts DEF StateTypes
    <3>2. preflight.paths \in Seq(Nat)
      BY <1>1 DEF Requests
    <3> QED BY <2>1, <3>1, <3>2, AppendProperties
  <2>2. CASE ~ProbesPath(preflight.n)
    BY <1>1, <2>2 DEF Requests
  <2> QED BY <2>1, <2>2
<1>4. parents \in Seq(Directories)
  <2>1. preflight.parents \in Seq(Directories) /\ directory \in Directories
    BY <1>1 DEF Requests, StateTypes
  <2> QED BY <2>1, AppendProperties
<1>5. n \in Nat /\ at \in Stages
  <2>1. preflight.n \in Nat
    BY <1>1 DEF Requests
  <2>2. preflight.n + 1 \in Nat /\ {"starts", "probes"} \subseteq Stages
    BY <2>1 DEF Stages
  <2> QED BY <1>1, <2>2
<1> HIDE DEF paths, parents, n, at
<1>6. /\ preflight' \in Requests
      /\ preflight'.op = preflight.op /\ preflight'.guarded = preflight.guarded
      /\ preflight'.documents = preflight.documents /\ preflight'.entries = preflight.entries
      /\ preflight'.closed = preflight.closed /\ preflight'.edited = preflight.edited
      /\ preflight'.answer = preflight.answer
      /\ preflight'.parents = parents /\ preflight'.n = n /\ preflight'.at = at
  BY <1>1, <1>2, <1>3, <1>4, <1>5 DEF Requests
<1>7. UNCHANGED <<fileStores, filesystem, minted, notification>>
  BY DEF Probes, WorkerOnly
<1> QED BY <1>1, <1>6, <1>7 DEF parents, n, at

\* Every step of the worker keeps the types.
LEMMA WorkerTypes ==
    ASSUME StateTypes, Progress, FilesOnWorker
    PROVE  StateTypes'
<1>1. CASE Asked
  BY <1>1, AskedTypes
<1>2. CASE ReadsDocuments \/ ReadsIndex \/ ReadsImporter \/ ReadsTracked
  BY <1>2, ReadsTypes
<1>3. CASE Probes
  <2>1. preflight.n \in 1 .. 2 * Count
    BY <1>3, NoneUnderWay DEF Progress, Probes, At
  <2>2. /\ preflight' \in Requests /\ preflight'.at # "none"
        /\ preflight'.edited = preflight.edited /\ preflight'.entries = preflight.entries
        /\ UNCHANGED <<fileStores, filesystem, minted, notification>>
    BY <1>3, <2>1, ProbesFacts
  <2>3. preflight.edited => preflight.entries \in [Files -> Documents]
    BY <1>3, UnderWay, NoneUnderWay DEF Probes, At
  <2> QED BY <2>2, <2>3 DEF StateTypes, fileStores, filesystem
<1>4. CASE Decides
  <2>1. /\ preflight # NoPreflight /\ preflight' \in Requests /\ preflight'.at # "none"
        /\ preflight'.edited = preflight.edited /\ preflight'.entries = preflight.entries
        /\ UNCHANGED <<buffer, disk, directory, minted, notification>>
    BY <1>4, DecidesFacts DEF Kept
  <2>2. entry' \in [Files -> Documents] /\ changes' \in Nat /\ tracked' \in SUBSET Files
    BY <1>4, DecidesFacts, RescanTypes DEF StateTypes
  <2>3. preflight.edited => preflight.entries \in [Files -> Documents]
    BY <2>1, UnderWay
  <2> QED BY <2>1, <2>2, <2>3 DEF StateTypes
<1> QED BY <1>1, <1>2, <1>3, <1>4 DEF FilesOnWorker, Decides

\* Every step keeps the types.
LEMMA TypesStep ==
    ASSUME FileTypes, Progress, [FileNext]_fileVars
    PROVE  FileTypes'
<1>1. CASE FileNext
  <2>1. StateTypes'
    BY <1>1, DiskTypes, MainTypes, WorkerTypes DEF FileNext, FileTypes
  <2>2. possible' \in BOOLEAN /\ fitting' \in BOOLEAN
    BY <1>1 DEF FileNext, Records
  <2> QED BY <2>1, <2>2 DEF FileTypes
<1>2. CASE UNCHANGED fileVars
  BY <1>2 DEF fileVars, fileStores, filesystem, FileTypes, StateTypes
<1> QED BY <1>1, <1>2

-----------------------------------------------------------------------------
(***************************************************************************)
(* Buffers and locks.                                                      *)
(***************************************************************************)

\* Buffers change only while the worker holds no lock, one document at a time, or in a
\* rename; a new document has an identity.
LEMMA BufferSteps ==
    ASSUME StateTypes, [FileNext]_fileVars
    PROVE  \/ UNCHANGED buffer
           \/ /\ Free /\ UNCHANGED preflight
              /\ \/ EditsBuffer \/ ClosesBuffer \/ RenamesReported
<1>1. CASE FilesOnDisk
  BY <1>1 DEF FilesOnDisk, Writes, Creates, Deletes, Moves, Permits, DiskMoves, fileStores
<1>2. CASE FilesOnMain
  <2>1. CASE EditsBuffer \/ ClosesBuffer \/ RenamesReported
    BY <2>1 DEF EditsBuffer, ClosesBuffer, RenamesReported, MainOnly
  <2>2. CASE ~(EditsBuffer \/ ClosesBuffer \/ RenamesReported)
    BY <1>2, <2>2 DEF FilesOnMain, BufferOpens, DropsEntry, BufferChanges, IndexesBuffer,
       BufferCloses, RemovesEntry, RereadsFile, RestoresEntry, TracksFile, FilesReported,
       RenamesClosed, RemovesMoved, IndexesMoved, Rescans, fileStores
  <2> QED BY <2>1, <2>2
<1>3. CASE FilesOnWorker
  <2>1. CASE Decides
    BY <2>1, DecidesFacts
  <2>2. CASE ~Decides
    BY <1>3, <2>2 DEF FilesOnWorker, Decides, Asked, ReadsDocuments, ReadsIndex, ReadsImporter,
       ReadsTracked, Probes, WorkerOnly, fileStores
  <2> QED BY <2>1, <2>2
<1>4. CASE UNCHANGED fileVars
  BY <1>4 DEF fileVars, fileStores
<1> QED BY <1>1, <1>2, <1>3, <1>4 DEF FileNext

LEMMA ClosedIsAbsentStep ==
    ASSUME StateTypes, ClosedIsAbsent, [FileNext]_fileVars
    PROVE  ClosedIsAbsent'
<1>1. CASE UNCHANGED buffer
  BY <1>1 DEF ClosedIsAbsent
<1>2. CASE EditsBuffer
  BY <1>2 DEF EditsBuffer, ClosedIsAbsent, StateTypes
<1>3. CASE ClosesBuffer
  BY <1>3 DEF ClosesBuffer, ClosedIsAbsent, StateTypes
<1>4. CASE RenamesReported
  BY <1>4 DEF RenamesReported, ClosedIsAbsent, StateTypes
<1> QED BY <1>1, <1>2, <1>3, <1>4, BufferSteps

\* What the worker has captured stays until its request ends; main and the disk leave the
\* request alone.
LEMMA RequestSteps ==
    ASSUME StateTypes, [FileNext]_fileVars
    PROVE  \/ UNCHANGED preflight
           \/ Asked \/ ReadsDocuments \/ ReadsIndex \/ ReadsImporter \/ ReadsTracked
           \/ Probes
           \/ Decides
<1>1. CASE FilesOnDisk
  BY <1>1 DEF FilesOnDisk, Writes, Creates, Deletes, Moves, Permits, DiskMoves
<1>2. CASE FilesOnMain
  BY <1>2 DEF FilesOnMain, BufferOpens, DropsEntry, BufferChanges, IndexesBuffer,
       BufferCloses, RemovesEntry, RereadsFile, RestoresEntry, TracksFile, FilesReported,
       RenamesClosed, RemovesMoved, IndexesMoved, Rescans, EditsBuffer, ClosesBuffer,
       RenamesReported, MainOnly
<1>3. CASE FilesOnWorker
  BY <1>3 DEF FilesOnWorker, Decides
<1>4. CASE UNCHANGED fileVars
  BY <1>4 DEF fileVars
<1> QED BY <1>1, <1>2, <1>3, <1>4 DEF FileNext

LEMMA KeptFacts ==
    ASSUME Kept \/ UNCHANGED preflight
    PROVE  /\ Count' = Count /\ IsRename' = IsRename /\ Valid' = Valid
           /\ Probed1' = Probed1
           /\ \A f \in Files : Captured(f)' = Captured(f)
BY DEF Kept, Count, IsRename, Valid, Captured, Probed1

\* What main does to a document it has taken out of the tracked files.
LEMMA TrackedClosedMain ==
    ASSUME StateTypes, TrackedClosed, preflight.at # "done", FilesOnMain
    PROVE  TrackedClosed'
<1> USE NoticeFacts, FilesAssumption DEF TrackedClosed, MainOnly
<1>1. CASE BufferOpens
  <2>1. PICK f \in Openable :
          /\ buffer[f] = Absent
          /\ notification' = FileNotice(f, IF f \in tracked THEN "drop" ELSE "edit")
    BY <1>1 DEF BufferOpens, Arrive
  <2>2. notification'.k \in {"drop", "edit"} /\ notification'.f = f
    BY <2>1 DEF FileNotice
  <2> QED BY <1>1, <2>2 DEF BufferOpens
<1>2. CASE DropsEntry
  <2>1. notification'.k = "edit" /\ notification'.f = notification.f
    BY <1>2 DEF DropsEntry, Notices
  <2> QED BY <1>2, <2>1 DEF DropsEntry
<1>3. CASE BufferChanges \/ BufferCloses
  <2>1. PICK f \in Files, k \in {"edit", "close"} :
          buffer[f] # Absent /\ notification' = FileNotice(f, k)
    BY <1>3 DEF BufferChanges, BufferCloses, Arrive
  <2>2. notification'.k \in {"edit", "close"} /\ notification'.f = f
    BY <2>1 DEF FileNotice
  <2> QED BY <1>3, <2>1, <2>2 DEF BufferChanges, BufferCloses, fileStores
<1>4. CASE EditsBuffer
  <2>1. notification'.k = "index" /\ notification'.f = notification.f
    BY <1>4 DEF EditsBuffer, Notices, Goes
  <2>2. \A f \in Files : f # notification.f => buffer'[f] = buffer[f]
    BY <1>4 DEF EditsBuffer, StateTypes
  <2> QED BY <1>4, <2>1, <2>2 DEF EditsBuffer, StateTypes
<1>5. CASE IndexesBuffer
  BY <1>5 DEF IndexesBuffer, Ends, NotHandling
<1>6. CASE ClosesBuffer
  <2>1. notification'.k = "remove" /\ notification'.f = notification.f /\ notification.f \in Files
    BY <1>6 DEF ClosesBuffer, Notices, Goes
  <2>2. \A f \in Files : buffer'[f] = IF f = notification.f THEN Absent ELSE buffer[f]
    BY <1>6 DEF ClosesBuffer, StateTypes
  <2> QED BY <1>6, <2>1, <2>2 DEF ClosesBuffer, StateTypes
<1>7. CASE RemovesEntry
  <2>1. notification'.k = "read" /\ notification'.f = notification.f
    BY <1>7 DEF RemovesEntry, Notices, Goes
  <2> QED BY <1>7, <2>1 DEF RemovesEntry
<1>8. CASE RereadsFile
  <2>1. \/ notification' = NotHandling
        \/ notification'.k = "restore" /\ notification'.f = notification.f
    BY <1>8 DEF RereadsFile, Notices, Ends
  <2> QED BY <1>8, <2>1 DEF RereadsFile, fileStores, NotHandling
<1>9. CASE RestoresEntry
  <2>1. notification'.k = "track" /\ notification'.f = notification.f
    BY <1>9 DEF RestoresEntry, Notices, Goes
  <2> QED BY <1>9, <2>1 DEF RestoresEntry
<1>10. CASE TracksFile
  BY <1>10 DEF TracksFile, Ends, NotHandling
<1>11. CASE FilesReported
  BY <1>11 DEF FilesReported, Arrive, fileStores
<1>12. CASE RenamesReported
  <2>1. notification'.k = "moved"
    BY <1>12 DEF RenamesReported, Arrive, FileNotice
  <2>2. \A f \in Files : f # Destination => buffer'[f] = IF f = Source THEN Absent ELSE buffer[f]
    BY <1>12 DEF RenamesReported, StateTypes
  <2> QED BY <1>12, <2>1, <2>2 DEF RenamesReported, StateTypes
<1>13. CASE RenamesClosed
  <2>1. notification'.k = "rescan"
    BY <1>13 DEF RenamesClosed, Arrive, FileNotice
  <2> QED BY <1>13, <2>1 DEF RenamesClosed, fileStores
<1>14. CASE RemovesMoved
  <2>1. notification'.k = "moving"
    BY <1>14 DEF RemovesMoved, Notices, Goes
  <2> QED BY <1>14, <2>1 DEF RemovesMoved
<1>15. CASE IndexesMoved
  <2>1. notification'.k = "rescan"
    BY <1>15 DEF IndexesMoved, Notices, Goes
  <2> QED BY <1>15, <2>1 DEF IndexesMoved
<1>16. CASE Rescans
  BY <1>16 DEF Rescans, Rescanned, Ends, NotHandling
<1> QED
  BY <1>1, <1>2, <1>3, <1>4, <1>5, <1>6, <1>7, <1>8, <1>9, <1>10, <1>11, <1>12, <1>13, <1>14,
     <1>15, <1>16 DEF FilesOnMain

LEMMA TrackedClosedStep ==
    ASSUME StateTypes, TrackedClosed, [FileNext]_fileVars
    PROVE  TrackedClosed'
<1>1. CASE FilesOnDisk
  BY <1>1 DEF FilesOnDisk, Writes, Creates, Deletes, Moves, Permits, DiskMoves, TrackedClosed,
     fileStores
<1>2. CASE FileNext /\ FilesOnMain
  BY <1>2, TrackedClosedMain DEF FileNext
<1>3. CASE FileNext /\ FilesOnWorker
  <2>1. preflight.at # "done"
    BY <1>3 DEF FileNext
  <2>2. \/ preflight'.at = "done"
        \/ UNCHANGED <<buffer, tracked, notification>>
    <3>1. CASE Decides
      BY <3>1, DecidesFacts
    <3>2. CASE ~Decides
      BY <1>3, <3>2 DEF FilesOnWorker, Decides, Asked, ReadsDocuments, ReadsIndex, ReadsImporter,
         ReadsTracked, Probes, WorkerOnly, fileStores
    <3> QED BY <3>1, <3>2
  <2> QED BY <2>1, <2>2 DEF TrackedClosed
<1>4. CASE UNCHANGED fileVars
  BY <1>4 DEF fileVars, fileStores, TrackedClosed
<1> QED BY <1>1, <1>2, <1>3, <1>4 DEF FileNext

\* Before the evidence, the request reads without a lock.
LEMMA ReadsFacts ==
    ASSUME StateTypes, ReadsDocuments \/ ReadsIndex \/ ReadsImporter \/ ReadsTracked
    PROVE  /\ preflight # NoPreflight
           /\ preflight.at \in {"documents", "index", "importers", "tracked"}
           /\ preflight'.at \in {"documents", "index", "importers", "tracked", "probes"}
           /\ preflight'.op = preflight.op /\ preflight'.n = preflight.n
           /\ preflight'.parents = preflight.parents /\ preflight'.answer = preflight.answer
           /\ preflight.guarded \subseteq preflight'.guarded
           /\ UNCHANGED <<fileStores, filesystem, minted, notification>>
<1>1. /\ preflight \in Requests /\ preflight # NoPreflight
      /\ preflight.at \in {"documents", "index", "importers", "tracked"}
  BY UnderWay, NoneUnderWay DEF ReadsDocuments, ReadsIndex, ReadsImporter, ReadsTracked, At
<1>2. CASE ReadsDocuments
  BY <1>1, <1>2 DEF ReadsDocuments, Requests, WorkerOnly
<1>3. CASE ReadsIndex
  BY <1>1, <1>3 DEF ReadsIndex, Requests, WorkerOnly
<1>4. CASE ReadsImporter
  BY <1>1, <1>4 DEF ReadsImporter, Requests, WorkerOnly
<1>5. CASE ReadsTracked
  BY <1>1, <1>5 DEF ReadsTracked, Requests, WorkerOnly
<1> QED BY <1>1, <1>2, <1>3, <1>4, <1>5

\* Up to the commit, no answer is near; ProbesFacts asks for where the probes are.
LEMMA NotYetPublishing ==
    ASSUME StateTypes, Progress,
           Asked \/ ReadsDocuments \/ ReadsIndex \/ ReadsImporter \/ ReadsTracked \/ Probes
    PROVE  /\ ~Publishing' /\ preflight'.at \notin {"none", "commits", "done"}
           /\ UNCHANGED <<fileStores, filesystem, minted, notification>>
<1>1. CASE Asked
  <2>1. preflight'.at \in {"index", "documents"}
    BY <1>1 DEF Asked
  <2> QED BY <1>1, <2>1 DEF Asked, WorkerOnly, Publishing
<1>2. CASE ReadsDocuments \/ ReadsIndex \/ ReadsImporter \/ ReadsTracked
  BY <1>2, ReadsFacts DEF Publishing
<1>3. CASE Probes
  <2>1. preflight.n \in 1 .. 2 * Count
    BY <1>3, NoneUnderWay DEF Progress, Probes, At
  <2>2. preflight'.at \in {"probes", "starts"}
    BY <1>3, <2>1, ProbesFacts
  <2> QED BY <1>3, <2>1, <2>2, ProbesFacts DEF Publishing
<1> QED BY <1>1, <1>2, <1>3

\* The order of the stages, from the evidence to the answer.
LEMMA DecidesStages ==
    ASSUME StateTypes, Decides
    PROVE  \/ /\ preflight'.at = "done"
              /\ AnswersPreflight \/ preflight'.answer \in {"refused", "modified", "cancelled"}
           \/ /\ preflight'.answer = preflight.answer
              /\ \/ /\ Starts /\ preflight.at = "starts" /\ preflight'.at = "commits"
                    /\ preflight'.n = preflight.n
                 \/ /\ Commits /\ preflight.at = "commits" /\ preflight'.at = "checks"
                    /\ preflight'.n = preflight.n
                 \/ /\ Checks /\ preflight.at = "checks" /\ EvidenceCurrent(preflight.n)
                    /\ preflight.n = 2 * Count => preflight'.n = 1 /\ preflight'.at = "owned"
                    /\ preflight.n # 2 * Count
                         => preflight'.n = preflight.n + 1 /\ preflight'.at = "checks"
                 \/ /\ Validates /\ Valid /\ preflight.at = "owned" /\ preflight'.at = "closed"
                    /\ preflight'.n = preflight.n
                 \/ /\ RereadsClosed /\ ClosedCurrent /\ preflight.at = "closed"
                    /\ preflight'.at = "checks again" /\ preflight'.n = preflight.n
                 \/ /\ ChecksAgain /\ preflight.at = "checks again"
                    /\ preflight.n = 2 * Count => preflight'.n = 1 /\ preflight'.at = "answers"
                    /\ preflight.n # 2 * Count
                         => preflight'.n = preflight.n + 1 /\ preflight'.at = "checks again"
<1>1. preflight \in Requests /\ preflight # NoPreflight
  BY DecidesFacts
<1>2. CASE CannotRewrite \/ Cancelled \/ CommitFails \/ AnswersPreflight
  BY <1>1, <1>2 DEF CannotRewrite, Cancelled, CommitFails, AnswersPreflight, Requests
<1>3. CASE Starts
  BY <1>1, <1>3, ThenFacts DEF Starts, Stages, At
<1>4. CASE Modified
  BY <1>1, <1>4, ModifiedFacts
<1>5. CASE Commits
  BY <1>1, <1>5, ThenFacts DEF Commits, Stages, At
<1>6. CASE Checks /\ ~Modified
  <2>1. EvidenceCurrent(preflight.n) /\ preflight.at = "checks"
    BY <1>6 DEF Checks, Rechecks, At
  <2>2. "checks" \in Stages /\ "owned" \in Stages \ {"none"}
    BY DEF Stages
  <2> QED BY <1>1, <1>6, <2>1, <2>2, RechecksFacts DEF Checks
<1>7. CASE Validates /\ ~Modified
  <2>1. CASE Valid
    BY <1>1, <1>7, <2>1, ThenFacts DEF Validates, Stages, At
  <2>2. CASE ~Valid
    <3>1. preflight' = [preflight EXCEPT !.at = "done", !.answer = "refused"]
      BY <1>7, <2>2 DEF Validates
    <3> QED BY <1>1, <3>1 DEF Requests
  <2> QED BY <2>1, <2>2
<1>8. CASE RereadsClosed /\ ~Modified
  BY <1>1, <1>8, ThenFacts DEF RereadsClosed, Stages, At
<1>9. CASE ChecksAgain /\ ~Modified
  <2>1. EvidenceCurrent(preflight.n) /\ preflight.at = "checks again"
    BY <1>9 DEF ChecksAgain, Rechecks, At
  <2>2. "checks again" \in Stages /\ "answers" \in Stages \ {"none"}
    BY DEF Stages
  <2> QED BY <1>1, <1>9, <2>1, <2>2, RechecksFacts DEF ChecksAgain
<1>10. CASE FindsOutdated
  BY <1>4, <1>10 DEF FindsOutdated
<1> QED
  BY <1>2, <1>3, <1>4, <1>5, <1>6, <1>7, <1>8, <1>9, <1>10 DEF Decides

\* The locks are taken by a commit.
LEMMA Entering ==
    ASSUME StateTypes, Decides, Publishing'
    PROVE  Publishing \/ Commits
BY DecidesStages DEF Publishing

\* Inside the locks, the guarded buffers stay.
LEMMA LockedStep ==
    ASSUME StateTypes, Progress, Locked, [FileNext]_fileVars
    PROVE  Locked'
<1>1. CASE UNCHANGED preflight
  <2>1. CASE UNCHANGED buffer
    BY <1>1, <2>1 DEF Locked, Publishing, Captured
  <2>2. CASE Free
    BY <1>1, <2>2 DEF Locked, Publishing, Free
  <2> QED BY <2>1, <2>2, BufferSteps
<1>2. CASE Asked \/ ReadsDocuments \/ ReadsIndex \/ ReadsImporter \/ ReadsTracked \/ Probes
  BY <1>2, NotYetPublishing DEF Locked
<1>3. CASE Decides
  <2>1. Kept /\ UNCHANGED buffer
    BY <1>3, DecidesFacts
  <2>2. Publishing' => \A f \in preflight.guarded : buffer[f] = Captured(f)
    BY <1>3, Entering DEF Locked, Commits, Unmoved
  <2> QED BY <2>1, <2>2 DEF Locked, Kept, Captured
<1> QED BY <1>1, <1>2, <1>3, RequestSteps

-----------------------------------------------------------------------------
(***************************************************************************)
(* The directory, and how far the evidence is read.                        *)
(***************************************************************************)

\* The disk changes by itself; a directory that changes has a new stamp, and no file
\* appears without a change of the directory.
LEMMA DiskSteps ==
    ASSUME StateTypes, [FileNext]_fileVars
    PROVE  /\ minted' \in Nat /\ minted' >= minted
           /\ \/ UNCHANGED <<disk, directory>>
              \/ /\ UNCHANGED preflight
                 /\ \/ directory' = directory /\ \A f \in Files : disk[f] = NoText => disk'[f] = NoText
                    \/ directory'.stamp = minted' /\ minted' = minted + 1
<1>1. CASE FilesOnDisk
  <2>1. /\ minted' = minted + 1 /\ UNCHANGED preflight /\ minted' \in Nat
    BY <1>1 DEF FilesOnDisk, Writes, Creates, Deletes, Moves, Permits, DiskMoves, StateTypes
  <2>2. CASE Writes
    BY <2>1, <2>2 DEF Writes, StateTypes
  <2>3. CASE Permits
    BY <2>1, <2>3 DEF Permits, StateTypes
  <2>4. CASE Creates \/ Deletes \/ Moves
    <3>1. directory' = Touched /\ directory \in Directories
      BY <2>4 DEF Creates, Deletes, Moves, StateTypes
    <3>2. directory'.stamp = minted'
      BY <3>1 DEF Touched, Directories
    <3> QED BY <2>1, <3>2 DEF StateTypes
  <2> QED BY <1>1, <2>2, <2>3, <2>4 DEF FilesOnDisk
<1>2. CASE FilesOnMain
  <2>1. UNCHANGED <<disk, directory>>
    BY <1>2 DEF FilesOnMain, BufferOpens, DropsEntry, BufferChanges, IndexesBuffer,
       BufferCloses, RemovesEntry, RereadsFile, RestoresEntry, TracksFile, FilesReported,
       RenamesClosed, RemovesMoved, IndexesMoved, Rescans, EditsBuffer, ClosesBuffer,
       RenamesReported, MainOnly, filesystem
  <2>2. minted' = minted \/ minted' = minted + 1
    BY <1>2 DEF FilesOnMain, BufferOpens, DropsEntry, BufferChanges, IndexesBuffer,
       BufferCloses, RemovesEntry, RereadsFile, RestoresEntry, TracksFile, FilesReported,
       RenamesClosed, RemovesMoved, IndexesMoved, Rescans, EditsBuffer, ClosesBuffer,
       RenamesReported
  <2> QED BY <2>1, <2>2 DEF StateTypes
<1>3. CASE FilesOnWorker
  <2>1. UNCHANGED <<disk, directory, minted>>
    <3>1. CASE Decides
      BY <3>1, DecidesFacts
    <3>2. CASE ~Decides
      BY <1>3, <3>2 DEF FilesOnWorker, Decides, Asked, ReadsDocuments, ReadsIndex, ReadsImporter,
         ReadsTracked, Probes, WorkerOnly, filesystem
    <3> QED BY <3>1, <3>2
  <2> QED BY <2>1 DEF StateTypes
<1>4. CASE UNCHANGED fileVars
  BY <1>4 DEF fileVars, filesystem, StateTypes
<1> QED BY <1>1, <1>2, <1>3, <1>4 DEF FileNext

\* Where the directory is read, it is the one there is.
LEMMA StampedStep ==
    ASSUME StateTypes, Stamped, Progress, [FileNext]_fileVars
    PROVE  Stamped'
<1> USE DEF Stamped
<1>1. directory \in Directories /\ minted \in Nat /\ directory.stamp \in Nat
  BY DEF StateTypes, Directories
<1>2. preflight # NoPreflight =>
        /\ preflight.parents \in Seq(Directories)
        /\ \A i \in DOMAIN preflight.parents : preflight.parents[i].stamp \in Nat
  <2> SUFFICES ASSUME preflight # NoPreflight
      PROVE  /\ preflight.parents \in Seq(Directories)
             /\ \A i \in DOMAIN preflight.parents : preflight.parents[i].stamp \in Nat
    OBVIOUS
  <2>1. preflight.parents \in Seq(Directories)
    BY UnderWay DEF Requests
  <2>2. \A i \in DOMAIN preflight.parents : preflight.parents[i] \in Directories
    BY <2>1, LenProperties, ElementOfSeq
  <2>3. \A d \in Directories : d.stamp \in Nat
    BY DEF Directories
  <2> QED BY <2>1, <2>2, <2>3
<1>3. CASE UNCHANGED preflight /\ directory' = directory
  BY <1>1, <1>3, DiskSteps
<1>4. CASE UNCHANGED preflight /\ directory'.stamp = minted' /\ minted' = minted + 1
  BY <1>1, <1>2, <1>4
<1>5. ASSUME UNCHANGED <<directory, minted>>, preflight'.parents = preflight.parents, preflight # NoPreflight
      PROVE  Stamped'
  BY <1>1, <1>5
<1>6. CASE Asked
  <2>1. preflight'.parents = <<>> /\ UNCHANGED <<directory, minted>>
    BY <1>6 DEF Asked, WorkerOnly, filesystem
  <2>2. DOMAIN <<>> = {}
    BY EmptySeq, LenProperties
  <2> QED BY <2>1, <2>2
<1>7. CASE ReadsDocuments \/ ReadsIndex \/ ReadsImporter \/ ReadsTracked
  BY <1>5, <1>7, ReadsFacts DEF filesystem
<1>8. CASE Decides
  BY <1>5, <1>8, DecidesFacts DEF Kept
<1>9. CASE Probes
  <2>1. preflight # NoPreflight /\ preflight.n \in 1 .. 2 * Count
    BY <1>9, NoneUnderWay DEF Progress, Probes, At
  <2>2. /\ UNCHANGED <<directory, minted>>
        /\ \/ preflight'.parents = preflight.parents
           \/ preflight'.parents = Append(preflight.parents, directory)
    BY <1>9, <2>1, ProbesFacts DEF filesystem
  <2>3. CASE preflight'.parents = Append(preflight.parents, directory)
    <3>1. /\ preflight'.parents \in Seq(Directories)
          /\ Len(preflight'.parents) = Len(preflight.parents) + 1 /\ Len(preflight.parents) \in Nat
          /\ \A i \in 1 .. Len(preflight.parents) : preflight'.parents[i] = preflight.parents[i]
          /\ preflight'.parents[Len(preflight.parents) + 1] = directory
      BY <1>1, <1>2, <2>1, <2>3, AppendProperties, LenProperties
    <3>2. /\ DOMAIN preflight'.parents = 1 .. Len(preflight.parents) + 1
          /\ DOMAIN preflight.parents = 1 .. Len(preflight.parents)
      BY <1>2, <2>1, <3>1, LenProperties
    <3>3. \A i \in DOMAIN preflight'.parents :
            \/ i \in DOMAIN preflight.parents /\ preflight'.parents[i] = preflight.parents[i]
            \/ preflight'.parents[i] = directory
      BY <3>1, <3>2
    <3> QED BY <1>1, <2>1, <2>2, <3>3
  <2>4. CASE preflight'.parents = preflight.parents
    BY <1>5, <2>1, <2>2, <2>4
  <2> QED BY <2>2, <2>3, <2>4
<1>10. CASE ~(UNCHANGED preflight)
  BY <1>6, <1>7, <1>8, <1>9, <1>10, RequestSteps
<1> QED BY <1>3, <1>4, <1>10, DiskSteps

\* The evidence is read in order, the parents last.
LEMMA ProgressStep ==
    ASSUME StateTypes, Progress, [FileNext]_fileVars
    PROVE  Progress'
<1>1. CASE UNCHANGED preflight
  BY <1>1 DEF Progress, Probed1, Publishing, Count, IsRename, Affected, At
<1>2. CASE Asked
  <2>1. PICK op \in Operations :
          /\ preflight'.op = op /\ preflight'.guarded = Affected(op)
          /\ preflight'.at \in {"index", "documents"} /\ preflight'.n = 1
    BY <1>2 DEF Asked
  <2> QED BY <2>1 DEF Progress, Publishing, At
<1>3. CASE ReadsDocuments \/ ReadsIndex \/ ReadsImporter \/ ReadsTracked
  <2>1. preflight # NoPreflight /\ preflight.n = 1 /\ preflight'.n = 1
    BY <1>3, ReadsFacts DEF Progress
  <2>2. Count \in Nat /\ Count >= 1 /\ Count' = Count
    BY <1>3, <2>1, ReadsFacts, UnderWay, OperationFacts DEF Count
  <2>3. Affected(preflight'.op) \subseteq preflight'.guarded
    BY <1>3, <2>1, ReadsFacts DEF Progress
  <2>4. preflight'.at \in {"documents", "index", "importers", "tracked", "probes"}
    BY <1>3, ReadsFacts
  <2>5. preflight'.n \in 1 .. 2 * Count' /\ ~(preflight'.n > 2) /\ ~(preflight'.n > Count' + 1)
    BY <2>1, <2>2
  <2> QED BY <2>1, <2>3, <2>4, <2>5 DEF Progress, Publishing, At
<1>4. CASE Probes
  <2>1. /\ preflight # NoPreflight /\ preflight.n \in 1 .. 2 * Count /\ preflight.at = "probes"
        /\ IsRename /\ preflight.n > 2 => Probed1
        /\ ~IsRename /\ preflight.n > Count + 1 => Probed1
        /\ Affected(preflight.op) \subseteq preflight.guarded
    BY <1>4, NoneUnderWay DEF Progress, Probes, At
  <2>2. /\ Count \in Nat /\ Count >= 1 /\ Count' = Count /\ IsRename' = IsRename
        /\ preflight.n \in Nat
    BY <1>4, <2>1, ProbesFacts, UnderWay, OperationFacts DEF Count, IsRename, Requests
  <2>3. ~ProbesPath(preflight.n) => Probed1'
    <3>1. preflight.parents \in Seq(Directories) /\ directory \in Directories
      BY <2>1, UnderWay DEF Requests, StateTypes
    <3>2. Append(preflight.parents, directory) # <<>>
      BY <3>1, AppendProperties
    <3> QED BY <1>4, <2>1, <3>2, ProbesFacts DEF Probed1
  <2>4. Probed1 => Probed1'
    BY <1>4, <2>1, <2>3, ProbesFacts DEF Probed1
  <2>5. IsRename /\ preflight.n >= 2 => Probed1'
    <3>1. CASE preflight.n = 2
      <4>1. 2 % 2 = 0
        OBVIOUS
      <4> QED BY <2>3, <3>1, <4>1 DEF ProbesPath
    <3> QED BY <2>1, <2>2, <2>4, <3>1
  <2>6. ~IsRename /\ preflight.n >= Count + 1 => Probed1'
    <3>1. CASE preflight.n = Count + 1
      BY <2>2, <2>3, <3>1 DEF ProbesPath
    <3> QED BY <2>1, <2>2, <2>4, <3>1
  <2>7. Affected(preflight'.op) \subseteq preflight'.guarded
    BY <1>4, <2>1, ProbesFacts
  <2>8. CASE preflight.n = 2 * Count
    <3>1. preflight'.n = 1 /\ preflight'.at = "starts"
      BY <1>4, <2>1, <2>8, ProbesFacts
    <3>2. Probed1'
      BY <2>2, <2>5, <2>6, <2>8
    <3> QED BY <2>7, <3>1, <3>2 DEF Progress, Publishing, At
  <2>9. CASE preflight.n # 2 * Count
    <3>1. preflight'.n = preflight.n + 1 /\ preflight'.at = "probes"
      BY <1>4, <2>1, <2>9, ProbesFacts
    <3>2. preflight'.n \in 1 .. 2 * Count'
      BY <2>1, <2>2, <2>9, <3>1
    <3>3. /\ IsRename' /\ preflight'.n > 2 => Probed1'
          /\ ~IsRename' /\ preflight'.n > Count' + 1 => Probed1'
      BY <2>2, <2>5, <2>6, <3>1
    <3> QED BY <2>7, <3>1, <3>2, <3>3 DEF Progress, Publishing, At
  <2> QED BY <2>8, <2>9
<1>5. CASE Decides
  <2>1. /\ preflight # NoPreflight /\ Count \in Nat /\ Count >= 1
        /\ Affected(preflight.op) \subseteq preflight.guarded
    BY <1>5, DecidesFacts, UnderWay, OperationFacts DEF Count, Progress
  <2>2. /\ Count' = Count /\ Probed1' = Probed1
        /\ Affected(preflight'.op) \subseteq preflight'.guarded
    BY <1>5, <2>1, DecidesFacts, KeptFacts DEF Kept
  <2>3. CASE preflight'.at = "done"
    BY <2>2, <2>3 DEF Progress, Publishing, At
  <2>4. CASE preflight'.at # "done"
    <3>1. preflight.n \in 1 .. 2 * Count /\ preflight.n \in Nat /\ Probed1
      <4>1. preflight.at \in {"starts", "commits", "checks", "owned", "closed", "checks again"}
        BY <1>5, <2>4, DecidesStages
      <4>2. CASE preflight.at \in {"starts", "commits"}
        BY <2>1, <4>2 DEF Progress, At
      <4>3. CASE Publishing
        BY <2>1, <4>3, UnderWay DEF Progress, Requests
      <4> QED BY <4>1, <4>2, <4>3 DEF Publishing
    <3>2. preflight'.n \in 1 .. 2 * Count'
      <4>1. \/ preflight'.n = preflight.n \/ preflight'.n = 1
            \/ preflight.n # 2 * Count /\ preflight'.n = preflight.n + 1
        BY <1>5, <2>4, DecidesStages
      <4> QED BY <2>1, <2>2, <3>1, <4>1
    <3>3. /\ preflight'.at \in {"commits", "checks", "owned", "closed", "checks again", "answers"}
          /\ preflight'.at \in {"commits", "owned", "closed"} => preflight'.n = 1
      BY <1>5, <2>1, <2>4, DecidesStages DEF Progress, Publishing, At
    <3> QED BY <2>2, <3>1, <3>2, <3>3 DEF Progress, At
  <2> QED BY <2>3, <2>4
<1> QED BY <1>1, <1>2, <1>3, <1>4, <1>5, RequestSteps

-----------------------------------------------------------------------------
(***************************************************************************)
(* What is approved was possible.                                          *)
(***************************************************************************)

\* If the directory looks as it did when it was read first, it has not changed, and no
\* file has appeared in it.
LEMMA StillUnchanged ==
    ASSUME StateTypes, Stamped, [FileNext]_fileVars, preflight # NoPreflight, Probed1,
           preflight'.parents = preflight.parents, Unchanged'
    PROVE  /\ Unchanged /\ directory' = directory
           /\ \A f \in Files : disk[f] = NoText => disk'[f] = NoText
<1>1. preflight.parents \in Seq(Directories)
  BY UnderWay DEF Requests
<1>2. 1 \in DOMAIN preflight.parents /\ preflight.parents[1] \in Directories
  BY <1>1, EmptySeq, LenProperties, ElementOfSeq DEF Probed1
<1>3. preflight.parents[1].stamp <= minted
  <2>1. preflight.parents[1].stamp \in Nat /\ directory.stamp \in Nat /\ minted \in Nat
    BY <1>2 DEF Directories, StateTypes
  <2> QED BY <1>2, <2>1 DEF Stamped
<1>4. ~(directory'.stamp = minted' /\ minted' = minted + 1)
  <2>1. preflight.parents[1].stamp \in Nat /\ minted \in Nat
    BY <1>2 DEF Directories, StateTypes
  <2> QED BY <1>3, <2>1 DEF Unchanged
<1> QED BY <1>4, DiskSteps DEF Unchanged

LEMMA PathsHoldStep ==
    ASSUME StateTypes, Stamped, Progress, PathsHold, [FileNext]_fileVars
    PROVE  PathsHold'
<1>1. CASE UNCHANGED preflight
  <2> SUFFICES ASSUME Publishing, NEW i \in 1 .. Count, At("checks") => i < preflight.n,
                      preflight.paths[i] = NoText, Unchanged'
               PROVE  disk'[preflight.op.files[i]] = NoText
    BY <1>1 DEF PathsHold, Publishing, Count, At
  <2>1. preflight # NoPreflight /\ Probed1
    BY NoneUnderWay DEF Publishing, Progress
  <2>2. Unchanged /\ \A f \in Files : disk[f] = NoText => disk'[f] = NoText
    BY <1>1, <2>1, StillUnchanged
  <2>3. preflight.op.files[i] \in Files
    BY <2>1, UnderWay, OperationFacts DEF Count
  <2> QED BY <2>2, <2>3 DEF PathsHold
<1>2. CASE Asked \/ ReadsDocuments \/ ReadsIndex \/ ReadsImporter \/ ReadsTracked \/ Probes
  BY <1>2, NotYetPublishing DEF PathsHold
<1>3. CASE Decides
  <2>1. Kept /\ UNCHANGED <<disk, directory>> /\ Count' = Count /\ preflight # NoPreflight
    BY <1>3, DecidesFacts, KeptFacts
  <2>2. Count \in Nat /\ Count >= 1 /\ preflight.n \in Nat
    BY <2>1, UnderWay, OperationFacts DEF Count, Requests
  <2> SUFFICES ASSUME Publishing', NEW i \in 1 .. Count, At("checks")' => i < preflight'.n,
                      preflight.paths[i] = NoText, Unchanged
               PROVE  disk[preflight.op.files[i]] = NoText
    BY <2>1 DEF PathsHold, Kept, Unchanged
  <2>3. CASE preflight.at = "commits"
    <3>1. preflight.n = 1
      BY <2>1, <2>3 DEF Progress, At
    <3>2. preflight'.at = "checks" /\ preflight'.n = 1
      BY <1>3, <2>3, <3>1, DecidesStages DEF Publishing
    <3> QED BY <3>2 DEF At
  <2>4. CASE preflight.at = "checks"
    <3>1. /\ EvidenceCurrent(preflight.n)
          /\ preflight.n # 2 * Count => preflight'.n = preflight.n + 1 /\ preflight'.at = "checks"
      <4>1. preflight'.at # "done"
        BY DEF Publishing
      <4> HIDE DEF Publishing
      <4> QED BY <1>3, <2>4, <4>1, DecidesStages
    <3>2. i < preflight.n \/ i = preflight.n
      BY <2>2, <3>1 DEF At
    <3>3. CASE i < preflight.n
      BY <2>4, <3>3 DEF PathsHold, Publishing, At
    <3>4. CASE i = preflight.n
      <4>1. PathCurrent(i)
        BY <2>2, <3>1, <3>4 DEF EvidenceCurrent
      <4> QED BY <4>1 DEF PathCurrent
    <3> QED BY <3>2, <3>3, <3>4
  <2>5. CASE Publishing /\ preflight.at # "checks"
    BY <2>5 DEF PathsHold, At
  <2>6. Publishing \/ preflight.at = "commits"
    BY <1>3, DecidesStages DEF Publishing
  <2> QED BY <2>3, <2>4, <2>5, <2>6
<1> QED BY <1>1, <1>2, <1>3, RequestSteps

\* What is found valid is possible, as long as all that was captured is so.
LEMMA ValidIsPossible ==
    ASSUME StateTypes, Progress, Locked, Publishing, Valid, Unchanged,
           \A i \in 1 .. Count :
             preflight.paths[i] = NoText => disk[preflight.op.files[i]] = NoText
    PROVE  Possible(preflight.op, buffer, disk, directory)
<1>1. preflight # NoPreflight
  BY NoneUnderWay DEF Publishing
<1>2. /\ preflight.op \in Operations /\ Count \in Nat /\ Count >= 1
      /\ DOMAIN preflight.op.files = 1 .. Count
      /\ Affected(preflight.op) \subseteq preflight.guarded
      /\ Targets(preflight.op) \subseteq Affected(preflight.op)
  BY <1>1, UnderWay, OperationFacts DEF Count, Progress
<1>3. directory.writable
  BY <1>2 DEF Valid, Unchanged
<1>4. ASSUME NEW f \in Targets(preflight.op)
      PROVE  buffer[f] = Absent /\ disk[f] = NoText
  <2>1. PICK i \in DOMAIN preflight.op.files : preflight.op.files[i] = f
    BY <1>2, <1>4 DEF Affected, Range
  <2>2. Captured(f) = Absent /\ preflight.paths[i] = NoText
    BY <1>4, <2>1 DEF Valid
  <2> QED BY <1>2, <1>4, <2>1, <2>2 DEF Locked
<1> QED BY <1>3, <1>4 DEF Possible

\* What the history variables record at a step of the request.
LEMMA RecordsFacts ==
    ASSUME FileTypes, FileNext, preflight' # NoPreflight
    PROVE  /\ possible => possible'
           /\ fitting => fitting'
           /\ Possible(preflight'.op, buffer', disk', directory') => possible'
           /\ preflight'.edited /\ buffer'[Importer] = Absent
                /\ disk'[Importer] = preflight'.entries[Importer].text => fitting'
BY DEF FileNext, Records

LEMMA WasPossibleStep ==
    ASSUME FileInv, [FileNext]_fileVars
    PROVE  WasPossible'
<1> USE DEF FileInv, FileTypes
<1>1. CASE UNCHANGED preflight
  <2> SUFFICES ASSUME Publishing PROVE WasPossible'
    BY <1>1 DEF WasPossible, Publishing
  <2>1. preflight # NoPreflight /\ preflight' # NoPreflight /\ Probed1
    BY <1>1, NoneUnderWay DEF Publishing, Progress
  <2>2. possible => possible'
    <3>1. CASE FileNext
      BY <2>1, <3>1, RecordsFacts
    <3>2. CASE UNCHANGED fileVars
      BY <3>2 DEF fileVars
    <3> QED BY <3>1, <3>2
  <2>3. Unchanged' => Unchanged
    BY <1>1, <2>1, StillUnchanged
  <2>4. Valid' = Valid /\ Count' = Count
    BY <1>1, KeptFacts
  <2> QED BY <1>1, <2>2, <2>3, <2>4 DEF WasPossible, Publishing, At
<1>2. CASE Asked \/ ReadsDocuments \/ ReadsIndex \/ ReadsImporter \/ ReadsTracked \/ Probes
  BY <1>2, NotYetPublishing DEF WasPossible, Publishing
<1>3. CASE FileNext /\ Decides
  <2> SUFFICES ASSUME Publishing' PROVE WasPossible'
    BY DEF WasPossible, Publishing
  <2>1. /\ Kept /\ UNCHANGED <<buffer, disk, directory>> /\ Count' = Count /\ Valid' = Valid
        /\ preflight # NoPreflight /\ preflight' # NoPreflight
    <3>1. preflight' # NoPreflight
      BY <1>3, DecidesFacts DEF NoPreflight
    <3> QED BY <1>3, <3>1, DecidesFacts, KeptFacts
  <2>2. Count \in Nat /\ Count >= 1 /\ preflight.n \in Nat
    BY <2>1, UnderWay, OperationFacts DEF Count, Requests
  <2>3. possible => possible'
    BY <1>3, <2>1, RecordsFacts
  <2>4. Unchanged' = Unchanged
    BY <2>1 DEF Unchanged, Kept
  <2>5. Possible(preflight.op, buffer, disk, directory) => possible'
    BY <1>3, <2>1, RecordsFacts DEF Kept
  <2>6. CASE preflight.at = "commits"
    <3>1. preflight.n = 1
      BY <2>1, <2>6 DEF Progress, At
    <3>2. preflight'.at = "checks" /\ preflight'.n = 1
      BY <1>3, <2>6, <3>1, DecidesStages DEF Publishing
    <3>3. ~(preflight'.n > Count') /\ ~(preflight'.n > Count' + 1)
      BY <2>1, <2>2, <3>2
    <3> QED BY <3>2, <3>3 DEF WasPossible, At
  <2>7. CASE preflight.at = "checks"
    <3>1. preflight'.at # "done"
      BY DEF Publishing
    <3>2. /\ EvidenceCurrent(preflight.n)
          /\ preflight.n = 2 * Count => preflight'.at = "owned"
          /\ preflight.n # 2 * Count => preflight'.at = "checks" /\ preflight'.n = preflight.n + 1
      <4> HIDE DEF FileInv
      <4> QED BY <1>3, <2>7, <3>1, DecidesStages DEF FileInv
    <3>3. preflight.n > Count /\ Valid => possible \/ ~Unchanged
      BY <2>7 DEF WasPossible, Publishing, At
    <3>4. preflight.n > Count + 1 /\ Valid => possible
      BY <2>7 DEF WasPossible, Publishing, At
    <3>5. preflight.n = Count + 1 => Unchanged
      BY <2>2, <3>2 DEF EvidenceCurrent, ParentCurrent, Unchanged
    <3>6. preflight.n > Count /\ Valid => possible'
      BY <2>2, <2>3, <3>3, <3>4, <3>5
    <3>7. preflight.n = Count /\ Valid /\ Unchanged => possible'
      <4> SUFFICES ASSUME preflight.n = Count, Valid, Unchanged PROVE possible'
        OBVIOUS
      <4>1. \A i \in 1 .. Count : preflight.paths[i] = NoText => disk[preflight.op.files[i]] = NoText
        <5> SUFFICES ASSUME NEW i \in 1 .. Count, preflight.paths[i] = NoText
                     PROVE  disk[preflight.op.files[i]] = NoText
          OBVIOUS
        <5>1. CASE i < preflight.n
          BY <2>7, <5>1 DEF PathsHold, Publishing, At
        <5>2. CASE i = preflight.n
          BY <2>2, <3>2, <5>2 DEF EvidenceCurrent, PathCurrent
        <5> QED BY <2>2, <5>1, <5>2
      <4>2. Possible(preflight.op, buffer, disk, directory)
        BY <2>7, <4>1, ValidIsPossible DEF Publishing
      <4> QED BY <2>5, <4>2
    <3>8. CASE preflight.n = 2 * Count
      <4>1. preflight.n > Count /\ preflight'.at = "owned"
        BY <2>2, <3>2, <3>8
      <4> QED BY <2>1, <3>6, <4>1 DEF WasPossible
    <3>9. CASE preflight.n # 2 * Count
      <4>1. preflight'.at = "checks" /\ preflight'.n = preflight.n + 1
        BY <3>2, <3>9
      <4>2. /\ preflight'.n > Count' => preflight.n > Count \/ preflight.n = Count
            /\ preflight'.n > Count' + 1 => preflight.n > Count
        BY <2>1, <2>2, <4>1
      <4> QED BY <2>1, <2>4, <3>6, <3>7, <4>1, <4>2 DEF WasPossible, At
    <3> QED BY <3>8, <3>9
  <2>8. CASE Publishing /\ preflight.at # "checks"
    <3>1. Valid => possible
      BY <2>8 DEF WasPossible, At
    <3>2. preflight'.at \in {"closed", "checks again", "answers"} => Valid
      <4>1. preflight'.at # "done"
        BY DEF Publishing
      <4> HIDE DEF FileInv
      <4> QED BY <1>3, <2>8, <4>1, DecidesStages DEF WasPossible, FileInv
    <3> QED BY <2>1, <2>3, <3>1, <3>2 DEF WasPossible
  <2>9. Publishing \/ preflight.at = "commits"
    BY <1>3, DecidesStages DEF Publishing
  <2> QED BY <2>6, <2>7, <2>8, <2>9
<1> QED BY <1>1, <1>2, <1>3, RequestSteps DEF fileVars

\* A request has edits only where the importer was in the index.
LEMMA EditedStep ==
    ASSUME StateTypes, Progress, [FileNext]_fileVars,
           preflight # NoPreflight /\ preflight.edited => preflight.entries[Importer] # Absent,
           preflight' # NoPreflight, preflight'.edited
    PROVE  preflight'.entries[Importer] # Absent
<1>1. CASE UNCHANGED preflight
  BY <1>1
<1>2. CASE Asked
  BY <1>2 DEF Asked
<1>3. CASE ReadsIndex
  <2>1. preflight \in Requests
    BY <1>3, UnderWay, NoneUnderWay DEF ReadsIndex, At
  <2>2. preflight'.entries = entry /\ preflight'.edited = Rewrites(preflight.op, entry)
    BY <1>3, <2>1 DEF ReadsIndex, Requests
  <2> QED BY <2>2 DEF Rewrites
<1>4. CASE ReadsDocuments \/ ReadsImporter \/ ReadsTracked
  <2>1. preflight \in Requests /\ preflight # NoPreflight
    BY <1>4, UnderWay, NoneUnderWay DEF ReadsDocuments, ReadsImporter, ReadsTracked, At
  <2>2. preflight'.entries = preflight.entries /\ preflight'.edited = preflight.edited
    BY <1>4, <2>1 DEF ReadsDocuments, ReadsImporter, ReadsTracked, Requests
  <2> QED BY <2>1, <2>2
<1>5. CASE Probes
  <2>1. preflight # NoPreflight /\ preflight.n \in 1 .. 2 * Count
    BY <1>5, NoneUnderWay DEF Progress, Probes, At
  <2> QED BY <1>5, <2>1, ProbesFacts
<1>6. CASE Decides
  BY <1>6, DecidesFacts DEF Kept
<1> QED BY <1>1, <1>2, <1>3, <1>4, <1>5, <1>6, RequestSteps

LEMMA WasFittingStep ==
    ASSUME FileInv, [FileNext]_fileVars
    PROVE  WasFitting'
<1> USE DEF FileInv, FileTypes
<1> DEFINE Fits == fitting \/ (buffer[Importer] = preflight.entries[Importer] /\ buffer[Importer].id # 0)
           Late == preflight.at \in {"checks again", "answers"} /\ preflight.edited
                   /\ Importer \in preflight.closed
<1>1. preflight' # NoPreflight /\ preflight'.edited => preflight'.entries[Importer] # Absent
  BY EditedStep DEF WasFitting
<1>2. Late => Fits
  BY DEF WasFitting
<1> SUFFICES Late' => Fits'
  BY <1>1 DEF WasFitting
<1>3. CASE UNCHANGED preflight
  <2> SUFFICES ASSUME Late PROVE Fits'
    BY <1>3
  <2>1. preflight # NoPreflight /\ preflight' # NoPreflight
    BY <1>3, NoneUnderWay
  <2>2. fitting => fitting'
    <3>1. CASE FileNext
      BY <2>1, <3>1, RecordsFacts
    <3>2. CASE UNCHANGED fileVars
      BY <3>2 DEF fileVars
    <3> QED BY <3>1, <3>2
  <2>3. UNCHANGED buffer
    BY BufferSteps DEF Free, Publishing
  <2> QED BY <1>2, <1>3, <2>2, <2>3
<1>4. CASE Asked \/ ReadsDocuments \/ ReadsIndex \/ ReadsImporter \/ ReadsTracked \/ Probes
  BY <1>4, NotYetPublishing DEF Publishing
<1>5. CASE FileNext /\ Decides
  <2>1. /\ Kept /\ UNCHANGED <<buffer, disk>>
        /\ preflight # NoPreflight /\ preflight' # NoPreflight
    <3>1. preflight' # NoPreflight
      BY <1>5, DecidesFacts DEF NoPreflight
    <3> QED BY <1>5, <3>1, DecidesFacts
  <2>2. fitting => fitting'
    BY <1>5, <2>1, RecordsFacts
  <2> SUFFICES ASSUME Late' PROVE Fits'
    OBVIOUS
  <2>3. preflight.edited /\ Importer \in preflight.closed
    BY <2>1 DEF Kept
  <2>4. CASE preflight.at \in {"checks again", "answers"}
    <3>1. Fits
      BY <1>2, <2>3, <2>4
    <3> QED BY <2>1, <2>2, <3>1 DEF Kept
  <2>5. CASE preflight.at \notin {"checks again", "answers"}
    <3>1. ClosedCurrent /\ preflight.at = "closed"
      <4>1. preflight'.at \in {"checks again", "answers"}
        OBVIOUS
      <4> HIDE DEF FileInv
      <4> QED BY <1>5, <2>5, <4>1, DecidesStages DEF FileInv
    <3>2. StillOnDisk(Importer) /\ preflight.entries[Importer] # Absent
      BY <2>1, <2>3, <3>1 DEF ClosedCurrent, WasFitting
    <3>3. CASE buffer[Importer] = preflight.entries[Importer]
      <4>1. buffer[Importer].id # 0
        BY <3>2, <3>3, NoticeFacts DEF ClosedIsAbsent
      <4> QED BY <2>1, <3>3, <4>1 DEF Kept
    <3>4. CASE Importer \in tracked /\ disk[Importer] = preflight.entries[Importer].text
      <4>1. buffer[Importer] = Absent
        BY <3>1, <3>4, FilesAssumption DEF TrackedClosed
      <4>2. fitting'
        BY <1>5, <2>1, <2>3, <3>4, <4>1, RecordsFacts DEF Kept
      <4> QED BY <4>2
    <3> QED BY <3>2, <3>3, <3>4 DEF StillOnDisk
  <2> QED BY <2>4, <2>5
<1> QED BY <1>3, <1>4, <1>5, RequestSteps DEF fileVars

\* An answer is given once, at the end, by what the evidence has shown.
LEMMA AnswersHoldStep ==
    ASSUME FileInv, [FileNext]_fileVars
    PROVE  AnswersHold'
<1> USE DEF FileInv, FileTypes
<1>1. CASE UNCHANGED fileVars
  BY <1>1 DEF fileVars, AnswersHold, ApprovedWhenPossible, TrackedEditsFit, Approved, At
<1>2. CASE FileNext /\ preflight'.answer \notin {"approved", "edits of the buffer", "edits of the file"}
                    /\ (preflight' # NoPreflight /\ preflight'.at # "done" => preflight'.answer = "none")
  BY <1>2 DEF AnswersHold, ApprovedWhenPossible, TrackedEditsFit, Approved, At
<1>3. CASE FileNext /\ UNCHANGED preflight
  <2>1. preflight # NoPreflight => preflight.answer = "none" /\ preflight.at # "done"
    BY <1>3 DEF FileNext, AnswersHold, At
  <2> QED BY <1>3, <2>1 DEF AnswersHold, ApprovedWhenPossible, TrackedEditsFit, Approved, At
<1>4. CASE FileNext /\ Asked
  <2>1. preflight'.answer = "none"
    BY <1>4 DEF Asked
  <2> QED BY <1>2, <1>4, <2>1
<1>5. CASE FileNext /\ (ReadsDocuments \/ ReadsIndex \/ ReadsImporter \/ ReadsTracked)
  <2>1. preflight'.answer = "none"
    BY <1>5, ReadsFacts DEF AnswersHold, At
  <2> QED BY <1>2, <1>5, <2>1
<1>6. CASE FileNext /\ Probes
  <2>1. preflight # NoPreflight /\ preflight.n \in 1 .. 2 * Count /\ preflight.at = "probes"
    BY <1>6, NoneUnderWay DEF Progress, Probes, At
  <2>2. preflight'.answer = "none"
    BY <1>6, <2>1, ProbesFacts DEF AnswersHold, At
  <2> QED BY <1>2, <1>6, <2>2
<1>7. CASE FileNext /\ Decides /\ ~AnswersPreflight
  <2>1. preflight # NoPreflight /\ preflight.answer = "none"
    BY <1>7, DecidesFacts DEF FileNext, AnswersHold, At
  <2>2. \/ preflight'.at = "done" /\ preflight'.answer \in {"refused", "modified", "cancelled"}
        \/ preflight'.answer = "none"
    <3> HIDE DEF FileInv
    <3> QED BY <1>7, <2>1, DecidesStages DEF FileInv
  <2> QED BY <1>2, <1>7, <2>2
<1>8. CASE FileNext /\ AnswersPreflight
  <2>1. /\ preflight # NoPreflight /\ preflight \in Requests /\ preflight' \in Requests
        /\ preflight'.at # "none" /\ Kept /\ UNCHANGED buffer
    BY <1>8, DecidesFacts DEF Decides
  <2>2. preflight' # NoPreflight
    BY <2>1 DEF NoPreflight
  <2>3. preflight.at = "answers"
    BY <1>8 DEF AnswersPreflight, At
  <2>4. possible'
    <3>1. possible
      BY <2>3 DEF WasPossible, Publishing, At
    <3> QED BY <1>8, <2>2, <3>1, RecordsFacts
  <2>5. preflight'.answer = "edits of the file" =>
          preflight.edited /\ ~(buffer[Importer].id # 0 /\ buffer[Importer] = preflight.entries[Importer])
    BY <1>8, <2>1 DEF AnswersPreflight, Requests
  <2>6. preflight'.answer = "edits of the file" /\ Importer \in preflight'.closed => fitting'
    <3> SUFFICES ASSUME preflight'.answer = "edits of the file", Importer \in preflight.closed
                 PROVE  fitting'
      BY <2>1 DEF Kept
    <3>1. fitting
      BY <2>1, <2>3, <2>5 DEF WasFitting
    <3> QED BY <1>8, <2>2, <3>1, RecordsFacts
  <2>7. preflight'.at = "done"
    BY <1>8, <2>1 DEF AnswersPreflight, Requests
  <2> QED BY <2>4, <2>6, <2>7 DEF AnswersHold, ApprovedWhenPossible, TrackedEditsFit, Approved, At
<1> QED BY <1>1, <1>3, <1>4, <1>5, <1>6, <1>7, <1>8, RequestSteps DEF fileVars, Decides

-----------------------------------------------------------------------------
(***************************************************************************)
(* The theorems.                                                           *)
(***************************************************************************)

\* At first no request is under way, and no open file is tracked.
LEMMA InitFileInv == FileInit => FileInv
<1> SUFFICES ASSUME FileInit PROVE FileInv
  OBVIOUS
<1>1. FileTypes
  BY InitTypes
<1>2. PICK present \in SUBSET Files, open \in SUBSET Openable :
        /\ buffer = [f \in Files |-> IF f \in open THEN [id |-> 2, text |-> 2] ELSE Absent]
        /\ tracked = present \ open
  BY DEF FileInit
<1>3. /\ directory = [writable |-> TRUE, stamp |-> 0] /\ minted = 2 /\ notification.k = "nothing"
      /\ preflight = NoPreflight /\ preflight.at = "none"
  BY DEF FileInit, NoPreflight, NotHandling
<1>4. ClosedIsAbsent
  BY <1>2 DEF ClosedIsAbsent
<1>5. TrackedClosed
  BY <1>2, <1>3 DEF TrackedClosed
<1>6. Stamped
  BY <1>3 DEF Stamped
<1>7. Progress /\ Locked /\ PathsHold /\ WasPossible /\ WasFitting
  BY <1>3 DEF Progress, Locked, PathsHold, WasPossible, WasFitting, Publishing
<1>8. AnswersHold
  BY <1>3 DEF AnswersHold, ApprovedWhenPossible, TrackedEditsFit, Approved
<1> QED BY <1>1, <1>4, <1>5, <1>6, <1>7, <1>8 DEF FileInv

\* Every step keeps the inductive invariant.
LEMMA FileInvStep == FileInv /\ [FileNext]_fileVars => FileInv'
<1> SUFFICES ASSUME FileInv, [FileNext]_fileVars PROVE FileInv'
  OBVIOUS
<1>1. FileTypes' /\ ClosedIsAbsent' /\ TrackedClosed' /\ Stamped' /\ Progress'
  BY TypesStep, ClosedIsAbsentStep, TrackedClosedStep, StampedStep, ProgressStep
  DEF FileInv, FileTypes
<1>2. Locked' /\ PathsHold'
  BY LockedStep, PathsHoldStep DEF FileInv, FileTypes
<1>3. WasPossible' /\ WasFitting' /\ AnswersHold'
  BY WasPossibleStep, WasFittingStep, AnswersHoldStep
<1> QED BY <1>1, <1>2, <1>3 DEF FileInv

\* In every behaviour of the preflights, of main's notifications and of the disk, the
\* inductive invariant holds, and with it the types.
THEOREM FilesKeepInvariant == FileSpec => []FileInv
BY InitFileInv, FileInvStep, PTL DEF FileSpec

\* An operation that willCreate, willDelete or willRename approves was possible at one
\* instant of the request, with every buffer, every file and the directory taken together,
\* although they are read one after the other while all of them change.
THEOREM ApprovalIsRight == FileSpec => []ApprovedWhenPossible
<1>1. FileInv => ApprovedWhenPossible
  BY DEF FileInv, AnswersHold
<1> QED BY <1>1, FilesKeepInvariant, PTL

\* Edits without a version, of an importer that was among the tracked closed files, are
\* of the text it had at some instant of the request while no buffer of it was open.
THEOREM TrackedEditsAreRight == FileSpec => []TrackedEditsFit
<1>1. FileInv => TrackedEditsFit
  BY DEF FileInv, AnswersHold
<1> QED BY <1>1, FilesKeepInvariant, PTL
=============================================================================
