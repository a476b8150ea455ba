---------------------------- MODULE PullDiagnostics ----------------------------
(***************************************************************************)
(* Pull diagnostics (pull_diagnostics.py): reports of one open document,   *)
(* of one closed file and of the whole workspace, with their result ids,   *)
(* related documents, partial results and progress, and the refreshes that *)
(* tell the client to pull again.  The worker computes a report while main *)
(* handles notifications: documents, semantics, index and diagnostics are  *)
(* replaced one after the other.                                           *)
(***************************************************************************)
EXTENDS Integers, Sequences, FiniteSets, Functions

CONSTANTS
  Uris,         \* two Nova sources
  Spans,        \* where the declaration of a text is
  Starts,       \* the sets of documents that may be open and handled when a behaviour
                \* starts
  Messages      \* bound: notifications and requests a client sends that pulls
                \* documents, and one that pulls the workspace

ASSUME UrisAssumption == IsFiniteSet(Uris) /\ Cardinality(Uris) = 2 /\ Uris \cap {"workspace", "none"} = {}
ASSUME StartsAssumption == Starts \subseteq SUBSET Uris

VARIABLES
  asked,        \* what the client pulls: "document" or "workspace"
  wanted,       \* documents open in the client
  dirty,        \* documents the client is about to pull
  shown,        \* shown[u]: the last report of the document
  sent, wire, replies,
  doc,          \* doc[u]: the open document's text
  semantics,    \* semantics[u]: the text the stored semantics are of
  index,        \* index[u]: the text indexed, of the document or of the closed file
  generation,   \* of the index
  diagnostics,  \* diagnostics[u]: what is stored for the document
  scope, scopeGeneration,    \* URIs in the workspace folders
  made,         \* texts and diagnostics made so far, for identities
  main,         \* the notification being handled
  refresh,      \* the pending workspace/diagnostic/refresh
  queue, job,   \* requests dispatched, and the one being executed
  progress      \* $/progress of that request: begin, partial, end

client == <<asked, wanted, dirty, shown, sent>>
stores == <<doc, semantics, index, generation, diagnostics, scope, scopeGeneration, made>>
pullVars == <<client, wire, replies, stores, main, refresh, queue, job, progress>>

NoText == [id |-> 0, span |-> 0, link |-> FALSE]
\* A text: its identity, where its declaration is, and whether it is ambiguous with
\* the other source, so that its diagnostics refer to the declaration there.
Texts(id) == [id : {id}, span : Spans, link : BOOLEAN]
Other(u) == CHOOSE v \in Uris : v # u
Id == made + 1

NoReport == [id |-> <<>>, items |-> <<>>]

\* Diagnostics: the text they are of, when they were made, and the related location.
Stored(text, at, related) == [of |-> text.id, at |-> at, related |-> related]
NoDiagnostics == Stored(NoText, 0, <<>>)

\* The location in the other source; one in a closed file has no semantics to guard
\* unless the primary is closed as well.
Related(u, guarded) ==
  LET v == Other(u) IN
  IF index[u].link /\ index[v] # NoText
  THEN <<[target |-> IF guarded THEN index[v].id ELSE 0, span |-> index[v].span]>>
  ELSE <<>>

Semantics(u) == IF semantics[u] = doc[u] THEN doc[u] ELSE NoText

\* DiagnosticStore.get: nothing while a semantic parent is not current.
Diagnosed(u) ==
  LET d == diagnostics[u] IN
  IF /\ Semantics(u) # NoText /\ d.of = doc[u].id
     /\ \A r \in Range(d.related) : r.target # 0 => Semantics(Other(u)).id = r.target
  THEN d ELSE NoDiagnostics

\* _diagnostic_result_id: the text, and the offsets of the related location.
SpansOf(d) == [i \in DOMAIN d.related |-> d.related[i].span]
Report(text, d) == [id |-> <<text.id>> \o SpansOf(d), items |-> SpansOf(d)]

(***************************************************************************)
(* The client.                                                             *)
(***************************************************************************)
Sends(m) == sent < Messages[asked] /\ UNCHANGED asked /\ sent' = sent + 1 /\ wire' = Append(wire, m)
ServerUnchanged == UNCHANGED <<replies, stores, main, refresh, queue, job, progress>>

Opens ==
  \E u \in Uris \ wanted :
    /\ Sends([k |-> "text", u |-> u])
    /\ wanted' = wanted \cup {u} /\ dirty' = dirty \cup {u} /\ UNCHANGED shown /\ ServerUnchanged

Edits ==
  \E u \in wanted :
    /\ Sends([k |-> "text", u |-> u])
    /\ dirty' = dirty \cup {u} /\ UNCHANGED <<wanted, shown>> /\ ServerUnchanged

Closes ==
  \E u \in wanted :
    /\ Sends([k |-> "close", u |-> u])
    /\ wanted' = wanted \ {u} /\ dirty' = dirty \ {u} /\ UNCHANGED shown /\ ServerUnchanged

FilesChange ==
  \E u \in Uris : Sends([k |-> "file", u |-> u]) /\ UNCHANGED <<wanted, dirty, shown>> /\ ServerUnchanged

FoldersChange ==
  \E u \in Uris : Sends([k |-> "folder", u |-> u]) /\ UNCHANGED <<wanted, dirty, shown>> /\ ServerUnchanged

InFlight(u) ==
  \/ \E i \in DOMAIN queue : queue[i].u = u
  \/ \E i \in DOMAIN replies : replies[i].u = u
  \/ job.at # "idle" /\ job.u = u

\* A client waits for the answer before it pulls the document again: what is called
\* unchanged is then what it shows.
Unanswered(u) == InFlight(u) \/ \E i \in DOMAIN wire : wire[i].k = "pull" /\ wire[i].u = u

Pulls ==
  \E u \in dirty :
    /\ asked = "document" /\ ~Unanswered(u)
    /\ Sends([k |-> "pull", u |-> u, base |-> shown[u]])
    /\ dirty' = dirty \ {u} /\ UNCHANGED <<wanted, shown>> /\ ServerUnchanged

PullsClosed ==
  \E u \in Uris \ wanted :
    /\ asked = "document" /\ ~Unanswered(u)
    /\ Sends([k |-> "pull", u |-> u, base |-> NoReport])
    /\ UNCHANGED <<wanted, dirty, shown>> /\ ServerUnchanged

PullsWorkspace ==
  /\ asked = "workspace"
  /\ Sends([k |-> "workspace", u |-> "workspace", base |-> NoReport])
  /\ UNCHANGED <<wanted, dirty, shown>> /\ ServerUnchanged

Receives ==
  /\ replies # <<>> /\ replies' = Tail(replies)
  /\ LET r == Head(replies) IN
     /\ shown' = IF r.k = "full" THEN [shown EXCEPT ![r.u] = r.report] ELSE shown
     /\ dirty' = IF r.k = "error" /\ r.u \in wanted THEN dirty \cup {r.u} ELSE dirty
  /\ UNCHANGED <<asked, wanted, sent, wire, stores, main, refresh, queue, job, progress>>

Refreshes ==
  /\ refresh = "sent" /\ refresh' = "acknowledged"
  /\ wire' = Append(wire, [k |-> "refreshed"])
  /\ dirty' = wanted
  /\ UNCHANGED <<asked, wanted, shown, sent, replies, stores, main, queue, job, progress>>

\* A running request is cancelled.
Cancels ==
  /\ job.at # "idle" /\ ~job.cancelled /\ sent < Messages[asked] /\ sent' = sent + 1
  /\ job' = [job EXCEPT !.cancelled = TRUE]
  /\ UNCHANGED <<asked, wanted, dirty, shown, wire, replies, stores, main, refresh, queue, progress>>

(***************************************************************************)
(* Main.                                                                   *)
(***************************************************************************)
OnMain == UNCHANGED <<client, replies, job, progress>>
Waiting == [at |-> "idle", u |-> "none", before |-> 0, others |-> FALSE, todo |-> {}]
Handling(step, u, others) ==
  [at |-> step, u |-> u, before |-> generation, others |-> others, todo |-> {}]
Reads(m) == main = Waiting /\ wire # <<>> /\ Head(wire) = m /\ wire' = Tail(wire)
OthersIndexed(u) == \E v \in Uris \ {u} : index[v] # NoText

Dispatches ==
  /\ main = Waiting /\ wire # <<>> /\ wire' = Tail(wire)
  /\ Head(wire).k \in {"pull", "workspace"} /\ queue' = Append(queue, Head(wire))
  /\ OnMain /\ UNCHANGED <<stores, main, refresh>>

RefreshCompleted ==
  /\ main = Waiting /\ wire # <<>> /\ wire' = Tail(wire)
  /\ Head(wire).k = "refreshed" /\ refresh' = "none"
  /\ OnMain /\ UNCHANGED <<stores, main, queue>>

\* Open or change: the document is replaced and its diagnostics are discarded.
TextArrives ==
  \E u \in Uris, t \in Texts(Id) :
    /\ Reads([k |-> "text", u |-> u])
    /\ doc' = [doc EXCEPT ![u] = t] /\ made' = Id
    /\ diagnostics' = [diagnostics EXCEPT ![u] = NoDiagnostics]
    /\ main' = Handling("analysing", u, OthersIndexed(u))
    /\ OnMain /\ UNCHANGED <<semantics, index, generation, scope, scopeGeneration, refresh, queue>>

Analyses ==
  /\ main.at = "analysing"
  /\ semantics' = [semantics EXCEPT ![main.u] = doc[main.u]] /\ made' = Id
  /\ diagnostics' = [diagnostics EXCEPT ![main.u] = Stored(doc[main.u], Id, <<>>)]
  /\ main' = [main EXCEPT !.at = "indexing"]
  /\ OnMain /\ UNCHANGED <<wire, doc, index, generation, scope, scopeGeneration, refresh, queue>>

Publishing == [main EXCEPT !.at = "publishing", !.todo = Uris]
Indexed(u, t) ==
  /\ index' = [index EXCEPT ![u] = t]
  /\ generation' = IF index[u] = t THEN generation ELSE generation + 1

\* A document outside the folders keeps its own diagnostics and is not indexed.
Indexes ==
  /\ main.at = "indexing"
  /\ IF main.u \in scope
     THEN Indexed(main.u, doc[main.u]) /\ main' = Publishing
     ELSE UNCHANGED <<index, generation>> /\ main' = Waiting
  /\ OnMain /\ UNCHANGED <<wire, doc, semantics, diagnostics, scope, scopeGeneration, made, refresh, queue>>

\* The closed document gives way to the file on disk, if there is one.
DocumentCloses ==
  \E u \in Uris :
    /\ Reads([k |-> "close", u |-> u])
    /\ doc' = [doc EXCEPT ![u] = NoText]
    /\ diagnostics' = [diagnostics EXCEPT ![u] = NoDiagnostics]
    /\ main' = Handling("restoring", u, OthersIndexed(u))
    /\ OnMain /\ UNCHANGED <<semantics, index, generation, scope, scopeGeneration, made, refresh, queue>>

FileArrives ==
  \E u \in Uris :
    /\ Reads([k |-> "file", u |-> u])
    /\ main' = IF doc[u] = NoText THEN Handling("restoring", u, TRUE) ELSE Waiting
    /\ OnMain /\ UNCHANGED <<stores, refresh, queue>>

Restores ==
  /\ main.at = "restoring"
  /\ IF main.u \in scope
     THEN \E t \in Texts(Id) \cup {NoText} : Indexed(main.u, t) /\ made' = Id
     ELSE UNCHANGED <<index, generation, made>>
  /\ main' = Publishing
  /\ OnMain /\ UNCHANGED <<wire, doc, semantics, diagnostics, scope, scopeGeneration, refresh, queue>>

FolderArrives ==
  \E u \in Uris :
    /\ Reads([k |-> "folder", u |-> u])
    /\ scope' = IF u \in scope THEN scope \ {u} ELSE scope \cup {u}
    /\ scopeGeneration' = scopeGeneration + 1
    /\ main' = Handling("scoping", u, TRUE)
    /\ OnMain /\ UNCHANGED <<doc, semantics, index, generation, diagnostics, made, refresh, queue>>

\* A document that leaves is analysed anew and its entry removed; one that enters is
\* indexed; a closed file follows.
Scopes ==
  /\ main.at = "scoping"
  /\ made' = Id
  /\ LET u == main.u IN
     IF u \in scope
     THEN /\ \E t \in IF doc[u] = NoText THEN Texts(Id) \cup {NoText} ELSE {doc[u]} : Indexed(u, t)
          /\ UNCHANGED diagnostics
     ELSE /\ Indexed(u, NoText)
          /\ diagnostics' = IF doc[u] = NoText THEN diagnostics
                            ELSE [diagnostics EXCEPT ![u] = Stored(doc[u], Id, <<>>)]
  /\ main' = Publishing
  /\ OnMain /\ UNCHANGED <<wire, doc, semantics, scope, scopeGeneration, refresh, queue>>

\* _publish_workspace_diagnostics holds the index meanwhile, and stores the
\* diagnostics of one document after the other.
PublishesNext ==
  /\ main.at = "publishing" /\ main.todo # {}
  /\ \E u \in main.todo :
       /\ main' = [main EXCEPT !.todo = main.todo \ {u}]
       /\ IF index[u] # NoText /\ diagnostics[u].of = index[u].id
          THEN diagnostics' = [diagnostics EXCEPT ![u] =
                                 Stored(index[u], Id, Related(u, doc[Other(u)] # NoText))] /\ made' = Id
          ELSE UNCHANGED <<diagnostics, made>>
  /\ OnMain /\ UNCHANGED <<wire, doc, semantics, index, generation, scope, scopeGeneration, refresh, queue>>

\* Fault: a change of a document asks for no refresh.
MustRefreshScope == main.others /\ doc[main.u] = NoText /\ main.before # generation /\ refresh = "none"

\* _queue_diagnostic_refresh, unless one is pending: after a change of the index,
\* when there are other documents.
MustRefresh == main.others /\ main.before # generation /\ refresh = "none"

EndsChange ==
  /\ main.at = "publishing" /\ main.todo = {}
  /\ refresh' = IF MustRefresh THEN "sent" ELSE refresh
  /\ main' = Waiting
  /\ OnMain /\ UNCHANGED <<wire, stores, queue>>

(***************************************************************************)
(* The worker.                                                             *)
(***************************************************************************)
Idle ==
  [at |-> "idle", u |-> "none", base |-> NoReport, text |-> NoText, cancelled |-> FALSE,
   read |-> NoDiagnostics, other |-> NoDiagnostics, related |-> <<>>, open |-> NoText,
   seen |-> <<>>, todo |-> {}, reports |-> <<>>]
OnWorker == UNCHANGED <<client, wire, stores, main, refresh>>

\* Fault: only a result ends what was begun.
EndedResult(p) == p
Ended(p) == IF "begin" \in Range(p) THEN Append(p, "end") ELSE p

Goes(next) == job' = next /\ UNCHANGED <<replies, progress, queue>>
\* A request that is refused says so; what it had begun is ended.
Fails ==
  /\ replies' = Append(replies, [k |-> "error", u |-> job.u])
  /\ job' = Idle
  /\ progress' = Ended(progress)
  /\ UNCHANGED queue
Answers(r) == replies' = Append(replies, r) /\ job' = Idle /\ UNCHANGED queue

\* The identity of the document, for the checkpoints of document requests.
Takes ==
  /\ job.at = "idle" /\ queue # <<>> /\ queue' = Tail(queue)
  /\ LET m == Head(queue) IN
     job' = [Idle EXCEPT !.at = IF m.k = "workspace" THEN "capturing"
                                ELSE IF doc[m.u] = NoText THEN "capturing closed" ELSE "diagnostics",
                         !.u = m.u, !.base = m.base,
                         !.text = IF m.k = "workspace" THEN NoText ELSE doc[m.u]]
  /\ progress' = <<>>
  /\ OnWorker /\ UNCHANGED replies

Stops == job.cancelled \/ doc[job.u] # job.text

ReadsDiagnostics ==
  /\ job.at = "diagnostics"
  /\ IF Stops THEN Fails
     ELSE Goes([job EXCEPT !.at = "related", !.read = Diagnosed(job.u)])
  /\ OnWorker

\* The related document must be the one the diagnostics were made of.
ReadsRelated ==
  /\ job.at = "related"
  /\ LET v == Other(job.u) IN
     IF job.read.related = <<>> \/ job.read.related[1].target = 0
     THEN Goes([job EXCEPT !.at = "commit"])
     ELSE IF doc[v].id # job.read.related[1].target THEN Fails
     ELSE Goes([job EXCEPT !.at = "commit", !.other = Diagnosed(v)])
  /\ OnWorker

\* Each still stored, and its semantic parents current.
StillStored(u, d) == d # NoDiagnostics => Diagnosed(u) = d
\* The primary and the documents its diagnostics refer to.
PullCurrentDocuments(j) ==
  /\ doc[j.u] = j.text
  /\ \A r \in Range(j.read.related) : r.target # 0 => doc[Other(j.u)].id = r.target
PullCurrent(j) ==
  /\ PullCurrentDocuments(j)
  /\ StillStored(j.u, j.read) /\ StillStored(Other(j.u), j.other)

\* _diagnostic_report, and the reports of related documents as partial results.
AnswersPull ==
  /\ job.at = "commit"
  /\ IF Stops \/ ~PullCurrent(job) THEN Fails
     ELSE LET report == Report(job.text, job.read) IN
          /\ Answers([k |-> IF job.base.id = report.id THEN "unchanged" ELSE "full",
                       u |-> job.u, report |-> report])
          /\ progress' \in {<<>>} \cup (IF job.read.related = <<>> THEN {} ELSE {<<"partial">>})
  /\ OnWorker

\* Folders, then documents, then the index, with the reports of its closed files.
Captured ==
  [scope |-> scope, scopeGeneration |-> scopeGeneration,
   documents |-> {u \in scope : doc[u] # NoText},
   texts |-> doc, generation |-> generation, index |-> index]

CapturesClosed ==
  /\ job.at = "capturing closed"
  /\ IF job.cancelled \/ job.u \notin scope \/ index[job.u] = NoText \/ doc[job.u] # NoText THEN Fails
     ELSE Goes([job EXCEPT !.at = "closed", !.seen = Captured, !.related = Related(job.u, TRUE)])
  /\ OnWorker

\* A related open document is guarded with its diagnostics, a closed file by the index.
ReadsClosedRelated ==
  /\ job.at = "closed"
  /\ LET v == Other(job.u) IN
     IF job.related = <<>> THEN Goes([job EXCEPT !.at = "commit closed"])
     ELSE IF doc[v].id = job.related[1].target
     THEN Goes([job EXCEPT !.at = "commit closed", !.open = doc[v], !.other = Diagnosed(v)])
     ELSE IF v \in job.seen.documents THEN Fails
     ELSE Goes([job EXCEPT !.at = "commit closed"])
  /\ OnWorker

AnswersClosed ==
  /\ job.at = "commit closed" /\ main.at # "publishing"
  /\ IF \/ job.cancelled
        \/ job.seen.scopeGeneration # scopeGeneration \/ job.seen.generation # generation
        \/ job.open # NoText /\ doc[Other(job.u)] # job.open
        \/ ~StillStored(Other(job.u), job.other)
     THEN Fails
     ELSE /\ Answers([k |-> "closed", u |-> job.u, related |-> job.related])
          /\ progress' \in {<<>>} \cup (IF job.related = <<>> THEN {} ELSE {<<"partial">>})
  /\ OnWorker

CapturesWorkspace ==
  /\ job.at = "capturing"
  /\ IF job.cancelled THEN Fails
     ELSE /\ job' = [job EXCEPT !.at = "reporting", !.seen = Captured, !.todo = Captured.documents]
          /\ progress' \in {<<>>, <<"begin">>}
          /\ UNCHANGED <<replies, queue>>
  /\ OnWorker

ReportsNext ==
  /\ job.at = "reporting" /\ job.todo # {}
  /\ \E u \in job.todo :
       IF job.cancelled THEN Fails
       ELSE Goes([job EXCEPT !.todo = job.todo \ {u},
                                   !.reports = [w \in DOMAIN job.reports \cup {u} |->
                                                  IF w = u THEN Diagnosed(u) ELSE job.reports[w]]])
  /\ OnWorker

\* Fault: documents are compared one by one, not as the whole set of the folders.
WorkspaceCurrentSubset(j) ==
  /\ j.seen.scopeGeneration = scopeGeneration /\ j.seen.generation = generation
  /\ \A u \in j.seen.documents : doc[u] = j.seen.texts[u] /\ StillStored(u, j.reports[u])

WorkspaceCurrent(j) ==
  /\ WorkspaceCurrentSubset(j)
  /\ j.seen.documents = {u \in scope : doc[u] # NoText}

AnswersWorkspace ==
  /\ job.at = "reporting" /\ job.todo = {} /\ main.at # "publishing"
  /\ IF job.cancelled \/ ~WorkspaceCurrent(job) THEN Fails
     ELSE /\ Answers([k |-> "workspace", u |-> job.u])
          /\ \E partial \in BOOLEAN :
               progress' = progress \o (IF partial THEN <<"partial">> ELSE <<>>)
                             \o (IF progress = <<>> THEN <<>> ELSE <<"end">>)
  /\ OnWorker

PullInit ==
  /\ asked \in DOMAIN Messages
  /\ wanted \in Starts /\ dirty = wanted /\ sent = Cardinality(wanted)
  /\ shown = [u \in Uris |-> NoReport]
  /\ wire = <<>> /\ replies = <<>> /\ queue = <<>>
  /\ made = 2 * Cardinality(Uris)
  /\ LET first == CHOOSE n \in [Uris -> 1..Cardinality(Uris)] : IsInjective(n) IN
     doc \in {d \in [Uris -> UNION {Texts(first[u]) : u \in Uris} \cup {NoText}] :
               \A u \in Uris : IF u \in wanted THEN d[u] \in Texts(first[u]) ELSE d[u] = NoText}
  /\ semantics = doc /\ index = doc /\ generation = 0
  /\ diagnostics = [u \in Uris |->
       IF u \in wanted THEN Stored(doc[u], made, Related(u, TRUE)) ELSE NoDiagnostics]
  /\ scope = Uris /\ scopeGeneration = 0
  /\ main = Waiting /\ refresh = "none" /\ job = Idle /\ progress = <<>>

PullNext ==
  \/ Opens \/ Edits \/ Closes \/ FilesChange \/ FoldersChange
  \/ Pulls \/ PullsClosed \/ PullsWorkspace \/ Receives \/ Refreshes \/ Cancels
  \/ Dispatches \/ RefreshCompleted
  \/ TextArrives \/ Analyses \/ Indexes \/ DocumentCloses \/ FileArrives \/ Restores
  \/ FolderArrives \/ Scopes \/ PublishesNext \/ EndsChange
  \/ Takes \/ ReadsDiagnostics \/ ReadsRelated \/ AnswersPull
  \/ CapturesClosed \/ ReadsClosedRelated \/ AnswersClosed \/ CapturesWorkspace \/ ReportsNext \/ AnswersWorkspace

PullSpec == PullInit /\ [][PullNext]_pullVars

(***************************************************************************)
(* Properties.                                                             *)
(***************************************************************************)
\* When nothing is under way, an open document's last report is what its diagnostics
\* are now (but for the lines of locations elsewhere, which result ids do not cover and
\* the reports here leave out): a report computed while another notification was being
\* handled, an unchanged one, or one refused is followed by a refresh or a new pull
\* (pull_diagnostics.py:91-131, 133-217).
PullsSettle ==
  main = Waiting /\ wire = <<>> /\ refresh = "none" =>
    \A u \in wanted \ dirty :
      ~InFlight(u) => shown[u] = Report(doc[u], Diagnosed(u))

\* A workspace report has the open documents and the closed files of the folders as
\* they are together, and the locations it and a closed file's report refer to are in
\* texts that are indexed or open then (commit_matching_if_current,
\* commit_snapshots_if_current and commit_all_if_current, nested).
OfOneWorkspace ==
  Len(replies') > Len(replies) =>
    LET r == replies'[Len(replies')]
        given == IF r.k = "closed" THEN Range(r.related)
                 ELSE IF r.k = "workspace"
                 THEN UNION {Range(job.reports[u].related) : u \in job.seen.documents} ELSE {}
    IN /\ \A d \in given : d.target # 0 => d.target \in {index[u].id : u \in Uris}
       /\ r.k = "workspace" =>
            \A u \in scope : doc[u] # NoText =>
              u \in DOMAIN job.reports /\ job.reports[u].of \in {0, doc[u].id}

ReportsOneWorkspace == [][OfOneWorkspace]_pullVars

\* Progress that begins ends once, last, however the request ends; partial results
\* are sent only with a result (pull_diagnostics.py:479-667).
ProgressPaired ==
  job.at = "idle" =>
    /\ "begin" \in Range(progress) <=> "end" \in Range(progress)
    /\ \A i \in DOMAIN progress :
         (progress[i] = "begin" => i = 1) /\ (progress[i] = "end" => i = Len(progress))
    /\ "partial" \in Range(progress) /\ replies # <<>> => replies[Len(replies)].k # "error"
=============================================================================
