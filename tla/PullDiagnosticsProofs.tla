------------------------- MODULE PullDiagnosticsProofs -------------------------
(***************************************************************************)
(* Proofs about PullDiagnostics: progress that begins ends, a workspace    *)
(* report is of one workspace, and a client that waits for its answers     *)
(* ends up showing what is stored.                                         *)
(***************************************************************************)
EXTENDS PullDiagnostics, SequenceTheorems, FiniteSetTheorems, TLAPS

(***************************************************************************)
(* Types.                                                                  *)
(***************************************************************************)
Spot == Spans \cup {0}
Text == [id : Nat, span : Spot, link : BOOLEAN]
Location == [target : Nat, span : Spot]
Locations == {<<>>} \cup {<<l>> : l \in Location}
Diagnostic == [of : Nat, at : Nat, related : Locations]
Narrow(n) == [id |-> <<n>>, items |-> <<>>]
Wide(n, s) == [id |-> <<n, s>>, items |-> <<s>>]
Reports == {NoReport} \cup {Narrow(n) : n \in Nat} \cup {Wide(n, s) : n \in Nat, s \in Spot}
NoteKinds == {"text", "close", "file", "folder"}
Notes == [k : NoteKinds, u : Uris]
PullRequests == [k : {"pull"}, u : Uris, base : Reports]
WorkspaceRequests == [k : {"workspace"}, u : {"workspace"}, base : {NoReport}]
Requests == PullRequests \cup WorkspaceRequests
Acknowledged == [k |-> "refreshed"]
Message == Notes \cup Requests \cup {Acknowledged}
Refusals == [k : {"error"}, u : Uris \cup {"workspace"}]
DocumentReports == [k : {"unchanged", "full"}, u : Uris, report : Reports]
ClosedReports == [k : {"closed"}, u : Uris, related : Locations]
WorkspaceReports == [k : {"workspace"}, u : {"workspace"}]
Reply == Refusals \cup DocumentReports \cup ClosedReports \cup WorkspaceReports
Steps == {"idle", "analysing", "indexing", "restoring", "scoping", "publishing"}
Work == [at : Steps, u : Uris \cup {"none"}, before : Nat, others : BOOLEAN, todo : SUBSET Uris]
View == [scope : SUBSET Uris, scopeGeneration : Nat, documents : SUBSET Uris,
         texts : [Uris -> Text], generation : Nat, index : [Uris -> Text]]
Given == UNION {[S -> Diagnostic] : S \in SUBSET Uris}
DocumentStages == {"diagnostics", "related", "commit"}
ClosedStages == {"capturing closed", "closed", "commit closed"}
WorkspaceStages == {"capturing", "reporting"}
Stages == {"idle"} \cup DocumentStages \cup ClosedStages \cup WorkspaceStages
Jobs == [at : Stages, u : Uris \cup {"none", "workspace"}, base : Reports, text : Text,
         cancelled : BOOLEAN, read : Diagnostic, other : Diagnostic, related : Locations,
         open : Text, seen : {<<>>} \cup View, todo : SUBSET Uris, reports : Given]
Marks == {"begin", "partial", "end"}

ClientTyped ==
  /\ asked \in DOMAIN Messages
  /\ wanted \in SUBSET Uris /\ dirty \in SUBSET wanted
  /\ shown \in [Uris -> Reports]
  /\ wire \in Seq(Message) /\ replies \in Seq(Reply)
  /\ refresh \in {"none", "sent", "acknowledged"}

StoresTyped ==
  /\ doc \in [Uris -> Text] /\ semantics \in [Uris -> Text] /\ index \in [Uris -> Text]
  /\ generation \in Nat /\ scopeGeneration \in Nat /\ made \in Nat
  /\ diagnostics \in [Uris -> Diagnostic]
  /\ scope \in SUBSET Uris

MainTyped ==
  /\ main \in Work
  /\ main.at = "idle" => main = Waiting
  /\ main.at # "idle" => main.u \in Uris

WorkerTyped ==
  /\ queue \in Seq(Requests)
  /\ job \in Jobs
  /\ job.at = "idle" => job = Idle
  /\ job.at \in DocumentStages \cup ClosedStages => job.u \in Uris
  /\ job.at \in WorkspaceStages => job.u = "workspace"
  /\ job.at \in {"closed", "commit closed", "reporting"} => job.seen \in View
  /\ progress \in Seq(Marks)

Typed == ClientTyped /\ StoresTyped /\ MainTyped /\ WorkerTyped

(***************************************************************************)
(* Progress: what the request being executed, or else the last one, has    *)
(* reported.                                                               *)
(***************************************************************************)
Paired ==
  /\ job.at \notin {"idle", "reporting"} => progress = <<>>
  /\ job.at = "reporting" => progress \in {<<>>, <<"begin">>}
  /\ job.at = "idle" =>
       /\ progress \in {<<>>, <<"partial">>, <<"begin", "end">>, <<"begin", "partial", "end">>}
       /\ "partial" \in Range(progress) /\ replies # <<>> => replies[Len(replies)].k # "error"

(***************************************************************************)
(* The stores while main replaces one after the other.                     *)
(***************************************************************************)
BeingIndexed(v) == main.at \in {"analysing", "indexing"} /\ main.u = v
BeingScoped(v) == main.at = "scoping" /\ main.u = v

\* Identities tell texts from nothing, and those to come are new.
Fresh ==
  \A v \in Uris :
    /\ doc[v].id = 0 => doc[v] = NoText
    /\ index[v].id = 0 => index[v] = NoText
    /\ doc[v].id <= made /\ index[v].id <= made

Opened ==
  \A v \in Uris :
    /\ doc[v] = NoText => diagnostics[v] = NoDiagnostics
    /\ doc[v] # NoText /\ ~(main.at = "analysing" /\ main.u = v) =>
         semantics[v] = doc[v] /\ diagnostics[v].of = doc[v].id
    /\ main.at = "analysing" /\ main.u = v => diagnostics[v] = NoDiagnostics
    /\ BeingIndexed(v) => doc[v] # NoText /\ index[v] # doc[v] /\ diagnostics[v].related = <<>>
    /\ main.at = "restoring" /\ main.u = v => doc[v] = NoText

\* The index has the open documents of the folders.
Held ==
  \A v \in Uris :
    /\ v \notin scope /\ ~BeingScoped(v) => index[v] = NoText
    /\ doc[v] # NoText /\ v \in scope /\ ~BeingScoped(v) /\ ~BeingIndexed(v) => index[v] = doc[v]
    /\ doc[v] # NoText /\ BeingScoped(v) => index[v] = IF v \in scope THEN NoText ELSE doc[v]

Generations ==
  /\ main.at # "idle" => main.before <= generation
  /\ main.at \notin {"idle", "publishing"} => main.before = generation
  /\ main.at # "idle" /\ ~main.others => \A v \in Uris \ {main.u} : index[v] = NoText
  /\ main.at = "scoping" => main.others

\* The related location of v that follows from an index.
Points(texts, v, guarded) ==
  IF texts[v].link /\ texts[Other(v)] # NoText
  THEN <<[target |-> IF guarded THEN texts[Other(v)].id ELSE 0, span |-> texts[Other(v)].span]>>
  ELSE <<>>

\* What is stored for v need not be published again.
Published(v) == main.at = "publishing" => v \notin main.todo \/ main.before = generation \/ ~main.others
\* Diagnostics refer to what is indexed, unless they are about to be published.
Pointed ==
  \A v \in Uris :
    /\ diagnostics[v].related # <<>> => index[v] # NoText /\ diagnostics[v].of = index[v].id
    /\ doc[v] # NoText /\ Published(v) /\ ~BeingIndexed(v) =>
         \E g \in BOOLEAN : diagnostics[v].related = Points(index, v, g)
    /\ doc[v] # NoText /\ Published(v) /\ main.at \in {"idle", "scoping", "publishing"} =>
         diagnostics[v].related = Points(index, v, doc[Other(v)] # NoText)

Stores == Fresh /\ Opened /\ Held /\ Generations /\ Pointed

(***************************************************************************)
(* What a report of the workspace or of a closed file has captured.        *)
(***************************************************************************)
Seen ==
  /\ job.at \in {"closed", "commit closed", "reporting"} =>
       job.seen.generation <= generation /\ (job.seen.generation = generation => job.seen.index = index)
  /\ job.at \in {"closed", "commit closed"} =>
       \A i \in DOMAIN job.related : \E v \in Uris : job.related[i].target = job.seen.index[v].id
  /\ job.at # "reporting" => job.reports = <<>>
  /\ job.at = "reporting" => DOMAIN job.reports = job.seen.documents \ job.todo /\ job.todo \subseteq job.seen.documents

(***************************************************************************)
(* A refresh the client is going to be asked for.                          *)
(***************************************************************************)
Changing ==
  /\ main.at # "idle" /\ main.others
  /\ \/ main.before # generation
     \/ main.at \in {"analysing", "indexing"} /\ main.u \in scope
     \/ main.at = "restoring" /\ main.u \in scope /\ index[main.u] # NoText
RefreshComes == refresh = "sent" \/ Changing

Due(v) ==
  IF index[v].link /\ index[Other(v)] # NoText
  THEN Wide(doc[v].id, index[Other(v)].span) ELSE Narrow(doc[v].id)

(***************************************************************************)
(* What is on the wire.                                                    *)
(***************************************************************************)
Has(s, A) == \E i \in DOMAIN s : s[i] \in A
Each(s, A) == \A i \in DOMAIN s : s[i] \in A
AtMostOne(s, A) == \A i, j \in DOMAIN s : s[i] \in A /\ s[j] \in A => i = j
Followed(s, A, B) == \A i \in DOMAIN s : s[i] \in A => \E j \in DOMAIN s : j > i /\ s[j] \in B

TextsOf(u) == {[k |-> "text", u |-> u]}
ClosesOf(u) == {[k |-> "close", u |-> u]}
PullsOf(u) == [k : {"pull"}, u : {u}, base : Reports]
RepliesOf(u) == {r \in Reply : r.u = u}
\* What makes the client pull the document again.
Stirs(u) == TextsOf(u) \cup ClosesOf(u) \cup {Acknowledged}

Mirrored ==
  /\ \A u \in wanted : Followed(wire, ClosesOf(u), TextsOf(u)) /\ (Has(wire, TextsOf(u)) \/ doc[u] # NoText)
  /\ \A u \in wanted \ dirty : Followed(wire, Stirs(u), PullsOf(u))
  /\ Has(wire, {Acknowledged}) <=> refresh = "acknowledged"
  /\ AtMostOne(wire, {Acknowledged})

\* A document has one pull under way.
OneOutstanding ==
  \A u \in Uris :
    /\ AtMostOne(wire, PullsOf(u)) /\ AtMostOne(queue, PullsOf(u)) /\ AtMostOne(replies, RepliesOf(u))
    /\ Has(wire, PullsOf(u)) => ~Has(queue, PullsOf(u)) /\ job.u # u /\ ~Has(replies, RepliesOf(u))
    /\ Has(queue, PullsOf(u)) => job.u # u /\ ~Has(replies, RepliesOf(u))
    /\ job.u = u => ~Has(replies, RepliesOf(u))

\* Its base is what the client shows.
Comparable == {m \in Message : m.k = "pull" => m.base \in {shown[m.u], NoReport}}
Based ==
  /\ Each(wire, Comparable) /\ Each(queue, Comparable)
  /\ job.u \in Uris => job.base \in {shown[job.u], NoReport}

\* A document is being pulled; what is on its way for it is right.
UnderWay(u) == Has(queue, PullsOf(u)) \/ Has(replies, RepliesOf(u)) \/ job.u = u
Right(u) ==
  {r \in Reply : r.u = u /\ r.k # "error" =>
     /\ r.k \in {"unchanged", "full"}
     /\ r.k = "unchanged" => shown[u] = r.report
     /\ r.report = Due(u) \/ RefreshComes}

\* What holds of a document the client does not mean to pull: its answer is on the way,
\* or it shows what is due, unless a refresh comes.
Follows(u) ==
  /\ ~BeingIndexed(u)
  /\ job.u = u =>
       /\ job.at \in DocumentStages /\ job.text = doc[u]
       /\ job.at \in {"related", "commit"} /\ job.read = NoDiagnostics => RefreshComes
  /\ Each(replies, Right(u))
  /\ ~UnderWay(u) => shown[u] = Due(u) \/ RefreshComes

Served == \A u \in wanted \ dirty : ~Has(wire, PullsOf(u)) => Follows(u)

IInv == Typed /\ Paired /\ Stores /\ Seen /\ Mirrored /\ OneOutstanding /\ Based /\ Served

(***************************************************************************)
(* The operators of the model.                                             *)
(***************************************************************************)
LEMMA OtherIsTheOther ==
  ASSUME NEW u \in Uris
  PROVE  Other(u) \in Uris /\ Other(u) # u /\ \A w \in Uris : w # u => w = Other(u)
<1>1. IsFiniteSet(Uris \ {u}) /\ Cardinality(Uris \ {u}) = 1
  BY UrisAssumption, FS_RemoveElement
<1>2. PICK v : Uris \ {u} = {v}
  BY <1>1, FS_Singleton
<1> QED
  BY <1>2 DEF Other

LEMMA NothingTyped ==
  /\ NoText \in Text /\ NoReport \in Reports /\ NoDiagnostics \in Diagnostic
  /\ NoDiagnostics = [of |-> 0, at |-> 0, related |-> <<>>]
  BY DEF NoText, Text, Spot, NoReport, Reports, NoDiagnostics, Stored, Diagnostic, Locations

LEMMA NothingGiven == <<>> \in Given /\ DOMAIN <<>> = {}
<1>1. <<>> \in [{} -> Diagnostic]
  OBVIOUS
<1> QED
  BY <1>1 DEF Given

LEMMA IdleTyped == Idle \in Jobs
<1>1. Idle.seen = <<>> /\ Idle.reports = <<>>
  BY DEF Idle
<1> QED
  BY NothingTyped, NothingGiven DEF Idle, Jobs, Stages, Locations

LEMMA WaitingTyped == Waiting \in Work
  BY DEF Waiting, Work, Steps

LEMMA TextsTyped ==
  ASSUME NEW n \in Nat, n # 0, NEW t \in Texts(n)
  PROVE  t \in Text /\ t.id = n /\ t # NoText
  BY DEF Texts, Text, Spot, NoText

LEMMA RelatedTyped ==
  ASSUME StoresTyped, NEW u \in Uris, NEW guarded \in BOOLEAN
  PROVE  /\ Related(u, guarded) \in Locations
         /\ index[u].link /\ index[Other(u)] # NoText =>
              Related(u, guarded) = <<[target |-> IF guarded THEN index[Other(u)].id ELSE 0, span |-> index[Other(u)].span]>>
         /\ ~(index[u].link /\ index[Other(u)] # NoText) => Related(u, guarded) = <<>>
<1>1. Other(u) \in Uris
  BY OtherIsTheOther
<1>2. index[Other(u)] \in Text
  BY <1>1 DEF StoresTyped
<1>3. [target |-> IF guarded THEN index[Other(u)].id ELSE 0, span |-> index[Other(u)].span] \in Location
  BY <1>2 DEF Text, Location
<1> QED
  BY <1>3 DEF Related, Locations

LEMMA StoredTyped ==
  ASSUME NEW t \in Text, NEW n \in Nat, NEW r \in Locations
  PROVE  Stored(t, n, r) \in Diagnostic /\ Stored(t, n, r) = [of |-> t.id, at |-> n, related |-> r]
  BY DEF Stored, Text, Diagnostic

LEMMA DiagnosedTyped ==
  ASSUME StoresTyped, NEW u \in Uris
  PROVE  Diagnosed(u) \in {diagnostics[u], NoDiagnostics} /\ Diagnosed(u) \in Diagnostic
  BY NothingTyped DEF Diagnosed, StoresTyped

LEMMA PairAppended ==
  ASSUME NEW a, NEW b, NEW S, a \in S, b \in S
  PROVE  Append(<<a>>, b) = <<a, b>>
<1>1. <<a>> \in Seq(S) /\ <<a, b>> \in Seq(S) /\ Len(<<a, b>>) = 2
  OBVIOUS
<1>2. Append(<<a>>, b) \in Seq(S) /\ Len(Append(<<a>>, b)) = 2
  BY <1>1
<1>3. Append(<<a>>, b)[1] = a /\ Append(<<a>>, b)[2] = b
  BY <1>1
<1>4. <<a, b>>[1] = a /\ <<a, b>>[2] = b
  OBVIOUS
<1>5. \A i \in 1 .. Len(Append(<<a>>, b)) : Append(<<a>>, b)[i] = <<a, b>>[i]
  <2> DEFINE s == Append(<<a>>, b)
  <2> DEFINE t == <<a, b>>
  <2>1. Len(s) = 2 /\ s[1] = t[1] /\ s[2] = t[2]
    BY <1>2, <1>3, <1>4
  <2> HIDE DEF s, t
  <2>2. \A i \in 1 .. Len(s) : s[i] = t[i]
    BY <2>1
  <2> QED
    BY <2>2 DEF s, t
<1>6. Len(Append(<<a>>, b)) = Len(<<a, b>>)
  BY <1>1, <1>2
<1> QED
  BY <1>1, <1>2, <1>5, <1>6, SeqEqual, Zenon

LEMMA ReportTyped ==
  ASSUME NEW t \in Text, NEW d \in Diagnostic
  PROVE  /\ Report(t, d) \in Reports
         /\ d.related = <<>> => Report(t, d) = Narrow(t.id)
         /\ \A l \in Location : d.related = <<l>> => Report(t, d) = Wide(t.id, l.span)
<1>1. CASE d.related = <<>>
  <2>1. SpansOf(d) = <<>>
    BY <1>1 DEF SpansOf
  <2>2. Report(t, d) = Narrow(t.id)
    BY <2>1 DEF Report, Narrow
  <2> QED
    BY <1>1, <2>2 DEF Reports, Text
<1>2. CASE \E l \in Location : d.related = <<l>>
  <2>1. PICK l \in Location : d.related = <<l>>
    BY <1>2
  <2>2. DOMAIN d.related = 1..1 /\ d.related[1] = l
    BY <2>1
  <2>3. SpansOf(d) = [i \in 1..1 |-> l.span]
    BY <2>1, <2>2 DEF SpansOf
  <2>4. SpansOf(d) = <<l.span>>
    BY <2>3
  <2>5. <<t.id>> \o <<l.span>> = <<t.id, l.span>>
    <3>1. <<t.id>> \in Seq({t.id, l.span}) /\ <<l.span>> \in Seq({t.id, l.span})
      OBVIOUS
    <3>2. <<t.id>> \o <<l.span>> = Append(<<t.id>>, l.span)
      BY <3>1, AppendIsConcat
    <3>3. Append(<<t.id>>, l.span) = <<t.id, l.span>>
      <4>1. t.id \in {t.id, l.span} /\ l.span \in {t.id, l.span}
        OBVIOUS
      <4> QED
        BY <4>1, PairAppended, Zenon
    <3> QED
      BY <3>2, <3>3, Zenon
  <2>6. Report(t, d) = Wide(t.id, l.span)
    BY <2>4, <2>5 DEF Report, Wide
  <2> QED
    BY <2>1, <2>2, <2>6 DEF Reports, Text, Location
<1> QED
  BY <1>1, <1>2 DEF Diagnostic, Locations

\* Reports with the same identity are the same.
LEMMA IdentityTells ==
  ASSUME NEW r \in Reports, NEW s \in Reports, r.id = s.id
  PROVE  r = s
<1>1. \A n, m \in Nat, a, b \in Spot :
        /\ <<>> # <<n>> /\ <<>> # <<n, a>> /\ <<n>> # <<m, a>>
        /\ <<n>> = <<m>> => n = m
        /\ <<n, a>> = <<m, b>> => n = m /\ a = b
  OBVIOUS
<1> QED
  BY <1>1 DEF Reports, NoReport, Narrow, Wide

(***************************************************************************)
(* Types are kept.                                                         *)
(***************************************************************************)
LEMMA MessagesTyped ==
  /\ \A u \in Uris : /\ [k |-> "text", u |-> u] \in Message /\ [k |-> "close", u |-> u] \in Message
                     /\ [k |-> "file", u |-> u] \in Message /\ [k |-> "folder", u |-> u] \in Message
                     /\ \A r \in Reports : [k |-> "pull", u |-> u, base |-> r] \in PullRequests
  /\ [k |-> "workspace", u |-> "workspace", base |-> NoReport] \in WorkspaceRequests
  /\ Requests \subseteq Message /\ Acknowledged \in Message
  BY DEF Message, Notes, NoteKinds, Requests, PullRequests, WorkspaceRequests

LEMMA RequestsAreAsked ==
  ASSUME NEW m \in Message
  PROVE  /\ m.k \in {"pull", "workspace"} <=> m \in Requests
         /\ m \in Requests => \/ m.k = "pull" /\ m \in PullRequests /\ m.u \in Uris
                              \/ m.k = "workspace" /\ m \in WorkspaceRequests /\ m.u = "workspace"
         /\ m.k = "refreshed" <=> m = Acknowledged
<1>1. CASE m \in Notes
  BY <1>1 DEF Notes, NoteKinds, Requests, PullRequests, WorkspaceRequests, Acknowledged
<1>2. CASE m \in PullRequests
  BY <1>2 DEF Requests, PullRequests, WorkspaceRequests, Acknowledged
<1>3. CASE m \in WorkspaceRequests
  BY <1>3 DEF Requests, PullRequests, WorkspaceRequests, Acknowledged
<1>4. CASE m = Acknowledged
  BY <1>4 DEF Requests, PullRequests, WorkspaceRequests, Acknowledged
<1> QED
  BY <1>1, <1>2, <1>3, <1>4 DEF Message, Requests

LEMMA RepliesTyped ==
  ASSUME NEW u \in Uris \cup {"workspace"}
  PROVE  /\ [k |-> "error", u |-> u] \in Reply
         /\ \A v \in Uris, r \in Reports : /\ [k |-> "unchanged", u |-> v, report |-> r] \in Reply
                                           /\ [k |-> "full", u |-> v, report |-> r] \in Reply
         /\ \A v \in Uris, l \in Locations : [k |-> "closed", u |-> v, related |-> l] \in Reply
         /\ [k |-> "workspace", u |-> "workspace"] \in Reply
  BY DEF Reply, Refusals, DocumentReports, ClosedReports, WorkspaceReports

LEMMA ReplyForms ==
  ASSUME NEW r \in Reply
  PROVE  /\ r.k \in {"full", "unchanged"} => r \in DocumentReports /\ r.u \in Uris /\ r.report \in Reports
         /\ r.k \in {"error", "full", "unchanged", "closed", "workspace"}
<1>1. CASE r \in Refusals
  BY <1>1 DEF Refusals
<1>2. CASE r \in DocumentReports
  BY <1>2 DEF DocumentReports
<1>3. CASE r \in ClosedReports
  BY <1>3 DEF ClosedReports
<1>4. CASE r \in WorkspaceReports
  BY <1>4 DEF WorkspaceReports
<1> QED
  BY <1>1, <1>2, <1>3, <1>4 DEF Reply

LEMMA TailTyped ==
  ASSUME NEW S, NEW s \in Seq(S), s # <<>>
  PROVE  Head(s) \in S /\ Tail(s) \in Seq(S)
  OBVIOUS

LEMMA AppendTyped ==
  ASSUME NEW S, NEW s \in Seq(S), NEW e \in S
  PROVE  Append(s, e) \in Seq(S)
  OBVIOUS

\* What the client does.
ClientStep ==
  \/ Opens \/ Edits \/ Closes \/ FilesChange \/ FoldersChange
  \/ Pulls \/ PullsClosed \/ PullsWorkspace \/ Receives \/ Refreshes \/ Cancels
MainStep ==
  \/ Dispatches \/ RefreshCompleted
  \/ TextArrives \/ Analyses \/ Indexes \/ DocumentCloses \/ FileArrives \/ Restores
  \/ FolderArrives \/ Scopes \/ PublishesNext \/ EndsChange
WorkerStep ==
  \/ Takes \/ ReadsDiagnostics \/ ReadsRelated \/ AnswersPull
  \/ CapturesClosed \/ ReadsClosedRelated \/ AnswersClosed \/ CapturesWorkspace \/ ReportsNext \/ AnswersWorkspace

LEMMA ClientStepTyped ==
  ASSUME Typed, ClientStep
  PROVE  Typed'
<1> USE MessagesTyped DEF Typed, ClientTyped
<1>1. ASSUME Opens PROVE ClientTyped'
  <2>1. PICK u \in Uris : wire' = Append(wire, [k |-> "text", u |-> u])
    BY <1>1 DEF Opens, Sends
  <2>2. wire' \in Seq(Message)
    BY <2>1, AppendTyped
  <2> QED
    BY <1>1, <2>2 DEF Opens, Sends, ServerUnchanged
<1>2. ASSUME Edits PROVE ClientTyped'
  <2>1. PICK u \in Uris : wire' = Append(wire, [k |-> "text", u |-> u])
    BY <1>2 DEF Edits, Sends
  <2>2. wire' \in Seq(Message)
    BY <2>1, AppendTyped
  <2> QED
    BY <1>2, <2>2 DEF Edits, Sends, ServerUnchanged
<1>3. ASSUME Closes PROVE ClientTyped'
  <2>1. PICK u \in Uris : wire' = Append(wire, [k |-> "close", u |-> u])
    BY <1>3 DEF Closes, Sends
  <2>2. wire' \in Seq(Message)
    BY <2>1, AppendTyped
  <2> QED
    BY <1>3, <2>2 DEF Closes, Sends, ServerUnchanged
<1>4. ASSUME FilesChange PROVE ClientTyped'
  <2>1. PICK u \in Uris : wire' = Append(wire, [k |-> "file", u |-> u])
    BY <1>4 DEF FilesChange, Sends
  <2>2. wire' \in Seq(Message)
    BY <2>1, AppendTyped
  <2> QED
    BY <1>4, <2>2 DEF FilesChange, Sends, ServerUnchanged
<1>5. ASSUME FoldersChange PROVE ClientTyped'
  <2>1. PICK u \in Uris : wire' = Append(wire, [k |-> "folder", u |-> u])
    BY <1>5 DEF FoldersChange, Sends
  <2>2. wire' \in Seq(Message)
    BY <2>1, AppendTyped
  <2> QED
    BY <1>5, <2>2 DEF FoldersChange, Sends, ServerUnchanged
<1>6. ASSUME Pulls PROVE ClientTyped'
  <2>1. PICK u \in Uris : wire' = Append(wire, [k |-> "pull", u |-> u, base |-> shown[u]])
    BY <1>6 DEF Pulls, Sends
  <2>2. wire' \in Seq(Message)
    BY <2>1, AppendTyped DEF Requests
  <2> QED
    BY <1>6, <2>2 DEF Pulls, Sends, ServerUnchanged
<1>7. ASSUME PullsClosed PROVE ClientTyped'
  <2>1. PICK u \in Uris : wire' = Append(wire, [k |-> "pull", u |-> u, base |-> NoReport])
    BY <1>7 DEF PullsClosed, Sends
  <2>2. wire' \in Seq(Message)
    BY <2>1, AppendTyped, NothingTyped DEF Requests
  <2> QED
    BY <1>7, <2>2 DEF PullsClosed, Sends, ServerUnchanged
<1>8. ASSUME PullsWorkspace PROVE ClientTyped'
  <2>1. wire' = Append(wire, [k |-> "workspace", u |-> "workspace", base |-> NoReport])
    BY <1>8 DEF PullsWorkspace, Sends
  <2>2. wire' \in Seq(Message)
    BY <2>1, AppendTyped DEF Requests
  <2> QED
    BY <1>8, <2>2 DEF PullsWorkspace, Sends, ServerUnchanged
<1>9. ASSUME Receives PROVE ClientTyped'
  <2> DEFINE r == Head(replies)
  <2>1. r \in Reply /\ replies' \in Seq(Reply)
    BY <1>9, TailTyped DEF Receives
  <2>2. shown' \in [Uris -> Reports]
    BY <1>9, <2>1, ReplyForms DEF Receives
  <2>3. dirty' \in SUBSET wanted
    BY <1>9 DEF Receives
  <2> QED
    BY <1>9, <2>1, <2>2, <2>3 DEF Receives
<1>10. ASSUME Refreshes PROVE ClientTyped'
  BY <1>10 DEF Refreshes, Acknowledged
<1>11. ASSUME Cancels PROVE ClientTyped'
  BY <1>11 DEF Cancels
<1>12. UNCHANGED <<stores, main, queue, progress>>
  BY DEF ClientStep, Opens, Edits, Closes, FilesChange, FoldersChange, Pulls, PullsClosed, PullsWorkspace,
         Receives, Refreshes, Cancels, ServerUnchanged
<1>13. StoresTyped' /\ MainTyped'
  BY <1>12 DEF stores, StoresTyped, MainTyped, Waiting
<1>14. WorkerTyped'
  <2>1. job' \in Jobs /\ (job' = job \/ (job.at # "idle" /\ job' = [job EXCEPT !.cancelled = TRUE]))
    BY DEF ClientStep, Opens, Edits, Closes, FilesChange, FoldersChange, Pulls, PullsClosed, PullsWorkspace,
           Receives, Refreshes, Cancels, ServerUnchanged, WorkerTyped, Jobs
  <2>2. job'.at = job.at /\ job'.u = job.u /\ job'.seen = job.seen
    BY <2>1 DEF WorkerTyped, Jobs
  <2>3. job'.at = "idle" => job' = Idle
    BY <2>1, <2>2 DEF WorkerTyped
  <2> QED
    BY <1>12, <2>1, <2>2, <2>3 DEF WorkerTyped, Idle, NoDiagnostics, Stored
<1> QED
  BY <1>1, <1>2, <1>3, <1>4, <1>5, <1>6, <1>7, <1>8, <1>9, <1>10, <1>11, <1>13, <1>14 DEF ClientStep

\* What is typed when main has handled a step: the rest is not its own.
LEMMA MainFrame ==
  ASSUME Typed, OnMain, wire' \in Seq(Message), queue' \in Seq(Requests),
         refresh' \in {"none", "sent", "acknowledged"}
  PROVE  ClientTyped' /\ WorkerTyped'
  BY DEF Typed, ClientTyped, WorkerTyped, OnMain, client, Idle, NoDiagnostics, Stored

LEMMA ReadsTyped ==
  ASSUME Typed, NEW m, Reads(m)
  PROVE  wire' \in Seq(Message) /\ main = Waiting
  BY TailTyped DEF Reads, Typed, ClientTyped

LEMMA MainIs ==
  ASSUME Typed
  PROVE  /\ generation \in Nat /\ made \in Nat /\ Id \in Nat /\ Id # 0
         /\ \A step \in Steps \ {"idle"}, u \in Uris, others \in BOOLEAN :
              /\ Handling(step, u, others) \in Work
              /\ Handling(step, u, others).at = step /\ Handling(step, u, others).u = u
              /\ Handling(step, u, others).before = generation /\ Handling(step, u, others).others = others
         /\ Waiting \in Work /\ Waiting.at = "idle"
         /\ main.at # "idle" =>
              /\ main.u \in Uris
              /\ Publishing \in Work /\ Publishing.at = "publishing" /\ Publishing.u = main.u
              /\ Publishing.before = main.before /\ Publishing.others = main.others /\ Publishing.todo = Uris
<1>1. generation \in Nat /\ made \in Nat /\ Id \in Nat /\ Id # 0
  BY DEF Typed, StoresTyped, Id
<1>2. ASSUME NEW step \in Steps \ {"idle"}, NEW u \in Uris, NEW others \in BOOLEAN
      PROVE  /\ Handling(step, u, others) \in Work
             /\ Handling(step, u, others).at = step /\ Handling(step, u, others).u = u
             /\ Handling(step, u, others).before = generation /\ Handling(step, u, others).others = others
  BY <1>1 DEF Handling, Work
<1>3. ASSUME main.at # "idle"
      PROVE  /\ main.u \in Uris
             /\ Publishing \in Work /\ Publishing.at = "publishing" /\ Publishing.u = main.u
             /\ Publishing.before = main.before /\ Publishing.others = main.others /\ Publishing.todo = Uris
  BY <1>3 DEF Typed, MainTyped, Work, Steps, Publishing
<1> QED
  BY <1>1, <1>2, <1>3, WaitingTyped DEF Waiting

LEMMA IndexedTyped ==
  ASSUME Typed, NEW u \in Uris, NEW t \in Text, Indexed(u, t)
  PROVE  index' \in [Uris -> Text] /\ generation' \in Nat
  BY DEF Typed, StoresTyped, Indexed

LEMMA MainStepTyped ==
  ASSUME Typed, MainStep
  PROVE  Typed'
<1> USE MainIs
<1> USE DEF Typed
<1>1. ASSUME Dispatches PROVE Typed'
  <2>1. Head(wire) \in Message /\ wire' \in Seq(Message)
    BY <1>1, TailTyped DEF Dispatches, ClientTyped
  <2>2. queue' \in Seq(Requests)
    BY <1>1, <2>1, RequestsAreAsked, AppendTyped DEF Dispatches, WorkerTyped
  <2>3. UNCHANGED <<stores, main, refresh>> /\ OnMain
    BY <1>1 DEF Dispatches
  <2>4. ClientTyped' /\ WorkerTyped'
    BY <2>1, <2>2, <2>3, MainFrame DEF ClientTyped
  <2> QED
    BY <2>3, <2>4 DEF stores, StoresTyped, MainTyped, Waiting
<1>2. ASSUME RefreshCompleted PROVE Typed'
  <2>1. wire' \in Seq(Message)
    BY <1>2, TailTyped DEF RefreshCompleted, ClientTyped
  <2>3. UNCHANGED <<stores, main, queue>> /\ OnMain /\ refresh' = "none"
    BY <1>2 DEF RefreshCompleted
  <2>4. ClientTyped' /\ WorkerTyped'
    BY <2>1, <2>3, MainFrame DEF WorkerTyped
  <2> QED
    BY <2>3, <2>4 DEF stores, StoresTyped, MainTyped, Waiting
<1>3. ASSUME TextArrives PROVE Typed'
  <2>1. PICK u \in Uris, t \in Texts(Id) :
          /\ Reads([k |-> "text", u |-> u])
          /\ doc' = [doc EXCEPT ![u] = t] /\ made' = Id
          /\ diagnostics' = [diagnostics EXCEPT ![u] = NoDiagnostics]
          /\ main' = Handling("analysing", u, OthersIndexed(u))
          /\ OnMain /\ UNCHANGED <<semantics, index, generation, scope, scopeGeneration, refresh, queue>>
    BY <1>3 DEF TextArrives
  <2>2. ClientTyped' /\ WorkerTyped'
    <3>1. wire' \in Seq(Message)
      BY <2>1, ReadsTyped, Zenon
    <3> QED
      BY <2>1, <3>1, MainFrame DEF ClientTyped, WorkerTyped
  <2>3. t \in Text
    BY TextsTyped
  <2>4. StoresTyped'
    BY <2>1, <2>3, NothingTyped DEF StoresTyped
  <2>5. MainTyped'
    <3>1. OthersIndexed(u) \in BOOLEAN
      BY DEF OthersIndexed
    <3> QED
      BY <2>1, <3>1 DEF MainTyped, Steps
  <2> QED
    BY <2>2, <2>4, <2>5
<1>4. ASSUME Analyses PROVE Typed'
  <2>1. ClientTyped' /\ WorkerTyped'
    BY <1>4, MainFrame DEF Analyses, ClientTyped, WorkerTyped
  <2>2. main.u \in Uris /\ main.at # "idle"
    BY <1>4 DEF Analyses
  <2>3. StoresTyped'
    <3>1. Stored(doc[main.u], Id, <<>>) \in Diagnostic
      BY <2>2, StoredTyped DEF StoresTyped, Locations
    <3> QED
      BY <1>4, <2>2, <3>1 DEF Analyses, StoresTyped
  <2>4. MainTyped'
    BY <1>4, <2>2 DEF Analyses, MainTyped, Work, Steps
  <2> QED
    BY <2>1, <2>3, <2>4
<1>5. ASSUME Indexes PROVE Typed'
  <2>1. ClientTyped' /\ WorkerTyped'
    BY <1>5, MainFrame DEF Indexes, ClientTyped, WorkerTyped
  <2>2. main.u \in Uris /\ main.at # "idle"
    BY <1>5 DEF Indexes
  <2>3. StoresTyped'
    <3>1. CASE Indexed(main.u, doc[main.u])
      BY <1>5, <2>2, <3>1, IndexedTyped DEF Indexes, StoresTyped
    <3>2. CASE UNCHANGED <<index, generation>>
      BY <1>5, <3>2 DEF Indexes, StoresTyped
    <3> QED
      BY <1>5, <3>1, <3>2 DEF Indexes
  <2>4. MainTyped'
    BY <1>5, <2>2 DEF Indexes, MainTyped
  <2> QED
    BY <2>1, <2>3, <2>4
<1>6. ASSUME DocumentCloses PROVE Typed'
  <2>1. PICK u \in Uris :
          /\ Reads([k |-> "close", u |-> u])
          /\ doc' = [doc EXCEPT ![u] = NoText]
          /\ diagnostics' = [diagnostics EXCEPT ![u] = NoDiagnostics]
          /\ main' = Handling("restoring", u, OthersIndexed(u))
          /\ OnMain /\ UNCHANGED <<semantics, index, generation, scope, scopeGeneration, made, refresh, queue>>
    BY <1>6 DEF DocumentCloses
  <2>2. ClientTyped' /\ WorkerTyped'
    <3>1. wire' \in Seq(Message)
      BY <2>1, ReadsTyped, Zenon
    <3> QED
      BY <2>1, <3>1, MainFrame DEF ClientTyped, WorkerTyped
  <2>4. StoresTyped'
    BY <2>1, NothingTyped DEF StoresTyped
  <2>5. MainTyped'
    <3>1. OthersIndexed(u) \in BOOLEAN
      BY DEF OthersIndexed
    <3> QED
      BY <2>1, <3>1 DEF MainTyped, Steps
  <2> QED
    BY <2>2, <2>4, <2>5
<1>7. ASSUME FileArrives PROVE Typed'
  <2>1. PICK u \in Uris :
          /\ Reads([k |-> "file", u |-> u])
          /\ main' = IF doc[u] = NoText THEN Handling("restoring", u, TRUE) ELSE Waiting
          /\ OnMain /\ UNCHANGED <<stores, refresh, queue>>
    BY <1>7 DEF FileArrives
  <2>2. ClientTyped' /\ WorkerTyped'
    <3>1. wire' \in Seq(Message)
      BY <2>1, ReadsTyped, Zenon
    <3> QED
      BY <2>1, <3>1, MainFrame DEF ClientTyped, WorkerTyped
  <2>4. StoresTyped'
    BY <2>1 DEF stores, StoresTyped
  <2>5. MainTyped'
    <3>1. /\ Handling("restoring", u, TRUE) \in Work /\ Handling("restoring", u, TRUE).at = "restoring"
          /\ Handling("restoring", u, TRUE).u = u
      <4>1. "restoring" \in Steps \ {"idle"} /\ TRUE \in BOOLEAN
        BY DEF Steps
      <4> QED
        BY <4>1, Zenon
    <3> QED
      BY <2>1, <3>1 DEF MainTyped
  <2> QED
    BY <2>2, <2>4, <2>5
<1>8. ASSUME Restores PROVE Typed'
  <2>1. ClientTyped' /\ WorkerTyped'
    BY <1>8, MainFrame DEF Restores, ClientTyped, WorkerTyped
  <2>2. main.u \in Uris /\ main.at # "idle"
    BY <1>8 DEF Restores
  <2>3. StoresTyped'
    <3>1. CASE \E t \in Texts(Id) \cup {NoText} : Indexed(main.u, t) /\ made' = Id
      <4>1. PICK t \in Texts(Id) \cup {NoText} : Indexed(main.u, t) /\ made' = Id
        BY <3>1
      <4>2. t \in Text
        BY TextsTyped, NothingTyped
      <4> QED
        BY <1>8, <2>2, <4>1, <4>2, IndexedTyped DEF Restores, StoresTyped
    <3>2. CASE UNCHANGED <<index, generation, made>>
      BY <1>8, <3>2 DEF Restores, StoresTyped
    <3> QED
      BY <1>8, <3>1, <3>2 DEF Restores
  <2>4. MainTyped'
    BY <1>8, <2>2 DEF Restores, MainTyped
  <2> QED
    BY <2>1, <2>3, <2>4
<1>9. ASSUME FolderArrives PROVE Typed'
  <2>1. PICK u \in Uris :
          /\ Reads([k |-> "folder", u |-> u])
          /\ scope' = IF u \in scope THEN scope \ {u} ELSE scope \cup {u}
          /\ scopeGeneration' = scopeGeneration + 1
          /\ main' = Handling("scoping", u, TRUE)
          /\ OnMain /\ UNCHANGED <<doc, semantics, index, generation, diagnostics, made, refresh, queue>>
    BY <1>9 DEF FolderArrives
  <2>2. ClientTyped' /\ WorkerTyped'
    <3>1. wire' \in Seq(Message)
      BY <2>1, ReadsTyped, Zenon
    <3> QED
      BY <2>1, <3>1, MainFrame DEF ClientTyped, WorkerTyped
  <2>4. StoresTyped'
    BY <2>1 DEF StoresTyped
  <2>5. MainTyped'
    <3>1. /\ Handling("scoping", u, TRUE) \in Work /\ Handling("scoping", u, TRUE).at = "scoping"
          /\ Handling("scoping", u, TRUE).u = u
      <4>1. "scoping" \in Steps \ {"idle"} /\ TRUE \in BOOLEAN
        BY DEF Steps
      <4> QED
        BY <4>1, Zenon
    <3> QED
      BY <2>1, <3>1 DEF MainTyped
  <2> QED
    BY <2>2, <2>4, <2>5
<1>10. ASSUME Scopes PROVE Typed'
  <2>1. ClientTyped' /\ WorkerTyped'
    BY <1>10, MainFrame DEF Scopes, ClientTyped, WorkerTyped
  <2>2. main.u \in Uris /\ main.at # "idle"
    BY <1>10 DEF Scopes
  <2>3. PICK t \in Text : Indexed(main.u, t)
    BY <1>10, <2>2, TextsTyped, NothingTyped DEF Scopes, StoresTyped
  <2>4. diagnostics' \in [Uris -> Diagnostic]
    <3>1. Stored(doc[main.u], Id, <<>>) \in Diagnostic
      BY <2>2, StoredTyped DEF StoresTyped, Locations
    <3> QED
      BY <1>10, <2>2, <3>1 DEF Scopes, StoresTyped
  <2>5. StoresTyped'
    BY <1>10, <2>2, <2>3, <2>4, IndexedTyped DEF Scopes, StoresTyped
  <2>6. MainTyped'
    BY <1>10, <2>2 DEF Scopes, MainTyped
  <2> QED
    BY <2>1, <2>5, <2>6
<1>11. ASSUME PublishesNext PROVE Typed'
  <2>1. ClientTyped' /\ WorkerTyped'
    BY <1>11, MainFrame DEF PublishesNext, ClientTyped, WorkerTyped
  <2>2. PICK u \in main.todo :
          /\ main' = [main EXCEPT !.todo = main.todo \ {u}]
          /\ \/ UNCHANGED <<diagnostics, made>>
             \/ diagnostics' = [diagnostics EXCEPT ![u] =
                                  Stored(index[u], Id, Related(u, doc[Other(u)] # NoText))] /\ made' = Id
    BY <1>11 DEF PublishesNext
  <2>3. u \in Uris /\ main.u \in Uris
    BY <1>11 DEF PublishesNext, MainTyped, Work
  <2>4. StoresTyped'
    <3>1. Stored(index[u], Id, Related(u, doc[Other(u)] # NoText)) \in Diagnostic
      BY <2>3, StoredTyped, RelatedTyped DEF StoresTyped
    <3> QED
      BY <1>11, <2>2, <2>3, <3>1 DEF PublishesNext, StoresTyped
  <2>5. MainTyped'
    BY <1>11, <2>2, <2>3 DEF PublishesNext, MainTyped, Work
  <2> QED
    BY <2>1, <2>4, <2>5
<1>12. ASSUME EndsChange PROVE Typed'
  <2>1. ClientTyped' /\ WorkerTyped'
    BY <1>12, MainFrame DEF EndsChange, ClientTyped, WorkerTyped
  <2>2. StoresTyped' /\ MainTyped'
    BY <1>12 DEF EndsChange, stores, StoresTyped, MainTyped, Waiting
  <2> QED
    BY <2>1, <2>2
<1> QED
  BY <1>1, <1>2, <1>3, <1>4, <1>5, <1>6, <1>7, <1>8, <1>9, <1>10, <1>11, <1>12 DEF MainStep

LEMMA WorkerFrame ==
  ASSUME Typed, OnWorker, replies' \in Seq(Reply), WorkerTyped'
  PROVE  Typed'
  BY DEF Typed, OnWorker, client, stores, ClientTyped, StoresTyped, MainTyped, Waiting

LEMMA EndedTyped ==
  ASSUME NEW p \in Seq(Marks)
  PROVE  Ended(p) \in Seq(Marks)
  BY DEF Ended, Marks

LEMMA FailsTyped ==
  ASSUME Typed, job.at # "idle", OnWorker, Fails
  PROVE  Typed'
<1>1. job.u \in Uris \cup {"workspace"}
  BY DEF Typed, WorkerTyped, Jobs, Stages
<1>2. replies' \in Seq(Reply)
  BY <1>1, RepliesTyped, AppendTyped DEF Fails, Typed, ClientTyped
<1>3. WorkerTyped'
  BY IdleTyped, EndedTyped DEF Fails, Typed, WorkerTyped, Idle, DocumentStages, ClosedStages, WorkspaceStages, NoDiagnostics, Stored
<1> QED
  BY <1>2, <1>3, WorkerFrame

LEMMA GoesTyped ==
  ASSUME Typed, NEW next \in Jobs, next.at # "idle", next.u = job.u, OnWorker, Goes(next),
         next.at \in DocumentStages \cup ClosedStages => next.u \in Uris,
         next.at \in WorkspaceStages => next.u = "workspace",
         next.at \in {"closed", "commit closed", "reporting"} => next.seen \in View
  PROVE  Typed'
<1>1. WorkerTyped'
  BY DEF Goes, Typed, WorkerTyped
<1> QED
  BY <1>1, WorkerFrame DEF Goes, Typed, ClientTyped

LEMMA AnswersTyped ==
  ASSUME Typed, NEW r \in Reply, OnWorker, Answers(r), progress' \in Seq(Marks)
  PROVE  Typed'
<1>1. replies' \in Seq(Reply)
  BY AppendTyped DEF Answers, Typed, ClientTyped
<1>2. WorkerTyped'
  BY IdleTyped DEF Answers, Typed, WorkerTyped, Idle, DocumentStages, ClosedStages, WorkspaceStages, NoDiagnostics, Stored
<1> QED
  BY <1>1, <1>2, WorkerFrame

LEMMA CapturedTyped ==
  ASSUME Typed
  PROVE  Captured \in View /\ Captured.generation = generation /\ Captured.index = index
         /\ Captured.documents \in SUBSET Uris
  BY DEF Typed, StoresTyped, Captured, View

LEMMA ProgressMarks ==
  /\ <<>> \in Seq(Marks) /\ <<"begin">> \in Seq(Marks) /\ <<"partial">> \in Seq(Marks) /\ <<"end">> \in Seq(Marks)
  /\ \A p, q \in Seq(Marks) : p \o q \in Seq(Marks)
<1>1. "begin" \in Marks /\ "partial" \in Marks /\ "end" \in Marks
  BY DEF Marks
<1> QED
  BY <1>1

LEMMA WorkerStepTyped ==
  ASSUME Typed, WorkerStep
  PROVE  Typed'
<1> USE DEF Typed
<1>0. OnWorker
  BY DEF WorkerStep, Takes, ReadsDiagnostics, ReadsRelated, AnswersPull, CapturesClosed,
         ReadsClosedRelated, AnswersClosed, CapturesWorkspace, ReportsNext, AnswersWorkspace
<1>1. ASSUME Takes PROVE Typed'
  <2> DEFINE m == Head(queue)
  <2>1. m \in Requests /\ queue' \in Seq(Requests)
    BY <1>1, TailTyped DEF Takes, WorkerTyped
  <2>2. /\ m.u \in Uris \cup {"workspace"} /\ m.base \in Reports
        /\ m.k = "workspace" => m.u = "workspace"
        /\ m.k # "workspace" => m.u \in Uris
    BY <2>1, NothingTyped DEF Requests, PullRequests, WorkspaceRequests
  <2> HIDE DEF m
  <2>3. PICK at \in Stages, t \in Text :
          /\ job' = [Idle EXCEPT !.at = at, !.u = m.u, !.base = m.base, !.text = t]
          /\ at = IF m.k = "workspace" THEN "capturing" ELSE IF doc[m.u] = NoText THEN "capturing closed" ELSE "diagnostics"
    <3>1. m.k = "workspace" \/ doc[m.u] \in Text
      BY <2>2 DEF StoresTyped
    <3> DEFINE at == IF m.k = "workspace" THEN "capturing" ELSE IF doc[m.u] = NoText THEN "capturing closed" ELSE "diagnostics"
    <3> DEFINE t == IF m.k = "workspace" THEN NoText ELSE doc[m.u]
    <3>2. at \in Stages /\ t \in Text
      BY <3>1, NothingTyped DEF Stages, DocumentStages, ClosedStages, WorkspaceStages
    <3>3. job' = [Idle EXCEPT !.at = at, !.u = m.u, !.base = m.base, !.text = t]
      BY <1>1 DEF Takes, m
    <3> QED
      BY <3>2, <3>3
  <2>4. job' \in Jobs /\ job'.at = at /\ job'.u = m.u
    BY <2>2, <2>3, IdleTyped DEF Jobs
  <2>5. at # "idle" /\ at \notin {"closed", "commit closed", "reporting"}
        /\ (at \in DocumentStages \cup ClosedStages => m.k # "workspace")
        /\ (at \in WorkspaceStages => m.k = "workspace")
    BY <2>3 DEF DocumentStages, ClosedStages, WorkspaceStages
  <2>6. WorkerTyped'
    BY <1>1, <2>1, <2>2, <2>4, <2>5, ProgressMarks DEF Takes, WorkerTyped
  <2> QED
    BY <1>0, <1>1, <2>6, WorkerFrame DEF Takes, ClientTyped
<1>2. ASSUME ReadsDiagnostics PROVE Typed'
  <2>1. job.u \in Uris /\ job.at # "idle"
    BY <1>2 DEF ReadsDiagnostics, WorkerTyped, DocumentStages
  <2>2. CASE Fails
    BY <1>0, <2>1, <2>2, FailsTyped
  <2>3. CASE Goes([job EXCEPT !.at = "related", !.read = Diagnosed(job.u)])
    <3> DEFINE next == [job EXCEPT !.at = "related", !.read = Diagnosed(job.u)]
    <3>1. next \in Jobs /\ next.at = "related" /\ next.u = job.u
      BY <2>1, DiagnosedTyped DEF WorkerTyped, Jobs, Stages, DocumentStages
    <3> QED
      BY <1>0, <2>1, <2>3, <3>1, GoesTyped DEF WorkspaceStages
  <2> QED
    BY <1>2, <2>2, <2>3 DEF ReadsDiagnostics
<1>3. ASSUME ReadsRelated PROVE Typed'
  <2>1. job.u \in Uris /\ job.at # "idle"
    BY <1>3 DEF ReadsRelated, WorkerTyped, DocumentStages
  <2>2. CASE Fails
    BY <1>0, <2>1, <2>2, FailsTyped
  <2>3. CASE \E d \in Diagnostic : Goes([job EXCEPT !.at = "commit", !.other = d])
    <3>0. PICK d \in Diagnostic : Goes([job EXCEPT !.at = "commit", !.other = d])
      BY <2>3
    <3> DEFINE next == [job EXCEPT !.at = "commit", !.other = d]
    <3>1. next \in Jobs /\ next.at = "commit" /\ next.u = job.u
      BY <2>1 DEF WorkerTyped, Jobs, Stages, DocumentStages
    <3> QED
      BY <1>0, <2>1, <3>0, <3>1, GoesTyped DEF WorkspaceStages
  <2>4. CASE Goes([job EXCEPT !.at = "commit"])
    <3> DEFINE next == [job EXCEPT !.at = "commit"]
    <3>1. next \in Jobs /\ next.at = "commit" /\ next.u = job.u
      BY <2>1 DEF WorkerTyped, Jobs, Stages, DocumentStages
    <3> QED
      BY <1>0, <2>1, <2>4, <3>1, GoesTyped DEF WorkspaceStages
  <2>5. Diagnosed(Other(job.u)) \in Diagnostic
    BY <2>1, DiagnosedTyped, OtherIsTheOther
  <2> QED
    BY <1>3, <2>2, <2>3, <2>4, <2>5 DEF ReadsRelated
<1>4. ASSUME AnswersPull PROVE Typed'
  <2>1. job.u \in Uris /\ job.at # "idle"
    BY <1>4 DEF AnswersPull, WorkerTyped, DocumentStages
  <2>2. CASE Fails
    BY <1>0, <2>1, <2>2, FailsTyped
  <2>3. CASE ~Fails
    <3>1. Report(job.text, job.read) \in Reports
      BY ReportTyped DEF WorkerTyped, Jobs
    <3>2. PICK r \in Reply : Answers(r)
      BY <1>4, <2>1, <2>3, <3>1, RepliesTyped DEF AnswersPull
    <3>3. progress' \in Seq(Marks)
      BY <1>4, <2>3, ProgressMarks DEF AnswersPull
    <3> QED
      BY <1>0, <3>2, <3>3, AnswersTyped
  <2> QED
    BY <2>2, <2>3
<1>5. ASSUME CapturesClosed PROVE Typed'
  <2>1. job.u \in Uris /\ job.at # "idle"
    BY <1>5 DEF CapturesClosed, WorkerTyped, ClosedStages
  <2>2. CASE Fails
    BY <1>0, <2>1, <2>2, FailsTyped
  <2>3. CASE Goes([job EXCEPT !.at = "closed", !.seen = Captured, !.related = Related(job.u, TRUE)])
    <3> DEFINE next == [job EXCEPT !.at = "closed", !.seen = Captured, !.related = Related(job.u, TRUE)]
    <3>1. Captured \in View /\ Related(job.u, TRUE) \in Locations
      BY <2>1, CapturedTyped, RelatedTyped
    <3>2. next \in Jobs /\ next.at = "closed" /\ next.u = job.u /\ next.seen = Captured
      BY <2>1, <3>1 DEF WorkerTyped, Jobs, Stages, ClosedStages
    <3> QED
      BY <1>0, <2>1, <2>3, <3>1, <3>2, GoesTyped DEF WorkspaceStages
  <2> QED
    BY <1>5, <2>2, <2>3 DEF CapturesClosed
<1>6. ASSUME ReadsClosedRelated PROVE Typed'
  <2>1. job.u \in Uris /\ job.at = "closed" /\ job.seen \in View
    BY <1>6 DEF ReadsClosedRelated, WorkerTyped, ClosedStages
  <2>2. CASE Fails
    BY <1>0, <2>1, <2>2, FailsTyped
  <2>3. CASE \E t \in Text, d \in Diagnostic : Goes([job EXCEPT !.at = "commit closed", !.open = t, !.other = d])
    <3>0. PICK t \in Text, d \in Diagnostic : Goes([job EXCEPT !.at = "commit closed", !.open = t, !.other = d])
      BY <2>3
    <3> DEFINE next == [job EXCEPT !.at = "commit closed", !.open = t, !.other = d]
    <3>1. next \in Jobs /\ next.at = "commit closed" /\ next.u = job.u /\ next.seen = job.seen
      BY <2>1 DEF WorkerTyped, Jobs, Stages, ClosedStages
    <3> QED
      BY <1>0, <2>1, <3>0, <3>1, GoesTyped DEF WorkspaceStages
  <2>4. CASE Goes([job EXCEPT !.at = "commit closed"])
    <3> DEFINE next == [job EXCEPT !.at = "commit closed"]
    <3>1. next \in Jobs /\ next.at = "commit closed" /\ next.u = job.u /\ next.seen = job.seen
      BY <2>1 DEF WorkerTyped, Jobs, Stages, ClosedStages
    <3> QED
      BY <1>0, <2>1, <2>4, <3>1, GoesTyped DEF WorkspaceStages
  <2>5. Diagnosed(Other(job.u)) \in Diagnostic /\ doc[Other(job.u)] \in Text
    BY <2>1, DiagnosedTyped, OtherIsTheOther DEF StoresTyped
  <2> QED
    BY <1>6, <2>2, <2>3, <2>4, <2>5 DEF ReadsClosedRelated
<1>7. ASSUME AnswersClosed PROVE Typed'
  <2>1. job.u \in Uris /\ job.at # "idle" /\ job.related \in Locations
    BY <1>7 DEF AnswersClosed, WorkerTyped, ClosedStages, Jobs
  <2>2. CASE Fails
    BY <1>0, <2>1, <2>2, FailsTyped
  <2>3. CASE ~Fails
    <3>2. PICK r \in Reply : Answers(r)
      BY <1>7, <2>1, <2>3, RepliesTyped DEF AnswersClosed
    <3>3. progress' \in Seq(Marks)
      BY <1>7, <2>3, ProgressMarks DEF AnswersClosed
    <3> QED
      BY <1>0, <3>2, <3>3, AnswersTyped
  <2> QED
    BY <2>2, <2>3
<1>8. ASSUME CapturesWorkspace PROVE Typed'
  <2>1. job.u = "workspace" /\ job.at # "idle"
    BY <1>8 DEF CapturesWorkspace, WorkerTyped, WorkspaceStages
  <2>2. CASE Fails
    BY <1>0, <2>1, <2>2, FailsTyped
  <2>3. CASE ~Fails
    <3>1. /\ job' = [job EXCEPT !.at = "reporting", !.seen = Captured, !.todo = Captured.documents]
          /\ progress' \in {<<>>, <<"begin">>} /\ UNCHANGED <<replies, queue>>
      BY <1>8, <2>3 DEF CapturesWorkspace
    <3>2. Captured \in View /\ Captured.documents \in SUBSET Uris
      BY CapturedTyped
    <3>3. job' \in Jobs /\ job'.at = "reporting" /\ job'.u = "workspace" /\ job'.seen = Captured
      BY <2>1, <3>1, <3>2 DEF WorkerTyped, Jobs, Stages, WorkspaceStages
    <3>4. progress' \in Seq(Marks)
      BY <3>1, ProgressMarks
    <3>5. WorkerTyped'
      BY <3>1, <3>2, <3>3, <3>4 DEF WorkerTyped, DocumentStages, ClosedStages
    <3> QED
      BY <1>0, <3>1, <3>5, WorkerFrame DEF ClientTyped
  <2> QED
    BY <2>2, <2>3
<1>9. ASSUME ReportsNext PROVE Typed'
  <2>1. job.u = "workspace" /\ job.at = "reporting" /\ job.seen \in View
    BY <1>9 DEF ReportsNext, WorkerTyped, WorkspaceStages
  <2>2. CASE Fails
    BY <1>0, <2>1, <2>2, FailsTyped
  <2>3. ASSUME NEW u \in job.todo,
               Goes([job EXCEPT !.todo = job.todo \ {u},
                                !.reports = [w \in DOMAIN job.reports \cup {u} |->
                                               IF w = u THEN Diagnosed(u) ELSE job.reports[w]]])
        PROVE  Typed'
    <3> DEFINE given == [w \in DOMAIN job.reports \cup {u} |-> IF w = u THEN Diagnosed(u) ELSE job.reports[w]]
    <3> DEFINE next == [job EXCEPT !.todo = job.todo \ {u}, !.reports = given]
    <3>1. u \in Uris
      BY DEF WorkerTyped, Jobs
    <3>2. Diagnosed(u) \in Diagnostic
      BY <3>1, DiagnosedTyped
    <3>3. PICK S \in SUBSET Uris : job.reports \in [S -> Diagnostic]
      BY DEF WorkerTyped, Jobs, Given
    <3>4. given \in [S \cup {u} -> Diagnostic]
      BY <3>2, <3>3
    <3>5. given \in Given
      BY <3>1, <3>4 DEF Given
    <3> HIDE DEF given
    <3>6. next \in Jobs /\ next.at = "reporting" /\ next.u = job.u /\ next.seen = job.seen
      BY <2>1, <3>5 DEF WorkerTyped, Jobs
    <3>7. Goes(next)
      BY <2>3 DEF given
    <3> QED
      BY <1>0, <2>1, <3>6, <3>7, GoesTyped DEF DocumentStages, ClosedStages
  <2> QED
    BY <1>9, <2>2, <2>3 DEF ReportsNext
<1>10. ASSUME AnswersWorkspace PROVE Typed'
  <2>1. job.u = "workspace" /\ job.at # "idle"
    BY <1>10 DEF AnswersWorkspace, WorkerTyped, WorkspaceStages
  <2>2. CASE Fails
    BY <1>0, <2>1, <2>2, FailsTyped
  <2>3. CASE ~Fails
    <3>2. PICK r \in Reply : Answers(r)
      BY <1>10, <2>1, <2>3, RepliesTyped DEF AnswersWorkspace
    <3>3. progress' \in Seq(Marks)
      <4>1. PICK p \in {<<>>, <<"partial">>}, e \in {<<>>, <<"end">>} : progress' = progress \o p \o e
        BY <1>10, <2>3 DEF AnswersWorkspace
      <4>2. p \in Seq(Marks) /\ e \in Seq(Marks) /\ progress \in Seq(Marks)
        BY ProgressMarks DEF WorkerTyped
      <4> HIDE DEF Typed
      <4>3. progress \o p \in Seq(Marks)
        BY <4>2, ProgressMarks, Zenon
      <4> QED
        BY <4>1, <4>2, <4>3, ProgressMarks, Zenon
    <3> QED
      BY <1>0, <3>2, <3>3, AnswersTyped
  <2> QED
    BY <2>2, <2>3
<1> QED
  BY <1>1, <1>2, <1>3, <1>4, <1>5, <1>6, <1>7, <1>8, <1>9, <1>10 DEF WorkerStep

LEMMA FirstTexts ==
  LET first == CHOOSE n \in [Uris -> 1..Cardinality(Uris)] : IsInjective(n)
  IN  \A u \in Uris : first[u] \in 1..2
<1> DEFINE Numbers == {n \in [Uris -> 1..Cardinality(Uris)] : IsInjective(n)}
<1>1. Cardinality(Uris) = 2
  BY UrisAssumption
<1>2. PICK a \in Uris : TRUE
  BY <1>1, UrisAssumption, FS_EmptySet
<1>3. [u \in Uris |-> IF u = a THEN 1 ELSE 2] \in Numbers
  BY <1>1, <1>2, OtherIsTheOther DEF IsInjective
<1>4. (CHOOSE n \in [Uris -> 1..Cardinality(Uris)] : IsInjective(n)) \in Numbers
  BY <1>3
<1> QED
  BY <1>1, <1>4

LEMMA InitTyped ==
  ASSUME PullInit
  PROVE  /\ Typed
         /\ doc = index /\ doc = semantics /\ made = 4 /\ generation = 0 /\ scope = Uris
         /\ \A u \in Uris : /\ doc[u] = NoText <=> u \notin wanted
                            /\ u \in wanted => doc[u].id \in {1, 2}
                            /\ diagnostics[u] = IF u \in wanted THEN Stored(doc[u], made, Related(u, TRUE)) ELSE NoDiagnostics
         /\ wanted = dirty
<1> DEFINE first == CHOOSE n \in [Uris -> 1..Cardinality(Uris)] : IsInjective(n)
<1>1. \A u \in Uris : first[u] \in 1..2
  BY FirstTexts
<1>2. /\ doc \in [Uris -> UNION {Texts(first[u]) : u \in Uris} \cup {NoText}]
      /\ \A u \in Uris : IF u \in wanted THEN doc[u] \in Texts(first[u]) ELSE doc[u] = NoText
  BY DEF PullInit
<1> HIDE DEF first
<1>3. \A u \in Uris : doc[u] \in Text /\ (doc[u] = NoText <=> u \notin wanted) /\ (u \in wanted => doc[u].id \in {1, 2})
  <2> TAKE u \in Uris
  <2>1. CASE u \in wanted
    <3>1. first[u] \in Nat /\ first[u] # 0 /\ first[u] \in {1, 2}
      BY <1>1
    <3>2. doc[u] \in Texts(first[u])
      BY <1>2, <2>1
    <3>3. doc[u] \in Text /\ doc[u].id = first[u] /\ doc[u] # NoText
      BY <3>1, <3>2, TextsTyped
    <3> QED
      BY <2>1, <3>1, <3>3
  <2>2. CASE u \notin wanted
    BY <1>2, <2>2, NothingTyped
  <2> QED
    BY <2>1, <2>2
<1>4. doc \in [Uris -> Text]
  BY <1>2, <1>3
<1>5. Cardinality(Uris) = 2
  BY UrisAssumption
<1>6. /\ asked \in DOMAIN Messages /\ wanted \in Starts /\ dirty = wanted
      /\ shown = [u \in Uris |-> NoReport]
      /\ wire = <<>> /\ replies = <<>> /\ queue = <<>> /\ made = 4
      /\ semantics = doc /\ index = doc /\ generation = 0
      /\ scope = Uris /\ scopeGeneration = 0
      /\ main = Waiting /\ refresh = "none" /\ job = Idle /\ progress = <<>>
  BY <1>5 DEF PullInit
<1>7. diagnostics = [u \in Uris |-> IF u \in wanted THEN Stored(doc[u], made, Related(u, TRUE)) ELSE NoDiagnostics]
  BY DEF PullInit
<1>8. \A u \in Uris : Related(u, TRUE) \in Locations
  <2> TAKE u \in Uris
  <2>1. Other(u) \in Uris /\ index[Other(u)] \in Text
    BY <1>4, <1>6, OtherIsTheOther
  <2> QED
    BY <2>1 DEF Related, Locations, Location, Text
<1>9. \A u \in Uris : Stored(doc[u], made, Related(u, TRUE)) \in Diagnostic
  BY <1>3, <1>6, <1>8, StoredTyped
<1>10. diagnostics \in [Uris -> Diagnostic]
  BY <1>7, <1>9, NothingTyped
<1>11. StoresTyped
  BY <1>4, <1>6, <1>10 DEF StoresTyped
<1>12. ClientTyped
  BY <1>6, NothingTyped, StartsAssumption DEF ClientTyped
<1>13. MainTyped
  BY <1>6, WaitingTyped DEF MainTyped, Waiting
<1>14. WorkerTyped
  BY <1>6, IdleTyped DEF WorkerTyped, Idle, DocumentStages, ClosedStages, WorkspaceStages
<1> QED
  BY <1>3, <1>6, <1>7, <1>11, <1>12, <1>13, <1>14 DEF Typed

(***************************************************************************)
(* Progress.                                                               *)
(***************************************************************************)
LEMMA InRanges ==
  /\ Range(<<>>) = {} /\ Range(<<"partial">>) = {"partial"} /\ Range(<<"begin">>) = {"begin"}
  /\ Range(<<"begin", "end">>) = {"begin", "end"}
  /\ Range(<<"begin", "partial", "end">>) = {"begin", "partial", "end"}
  BY DEF Range

LEMMA EndedOnce ==
  /\ Ended(<<>>) = <<>> /\ Ended(<<"begin">>) = <<"begin", "end">>
<1>1. Append(<<"begin">>, "end") = <<"begin", "end">>
  <2>1. "begin" \in Marks /\ "end" \in Marks
    BY DEF Marks
  <2> QED
    BY <2>1, PairAppended, Zenon
<1> QED
  BY <1>1, InRanges DEF Ended

LEMMA MarksConcatenate ==
  /\ <<>> \o <<>> = <<>> /\ <<"begin">> \o <<>> = <<"begin">>
  /\ <<>> \o <<"partial">> = <<"partial">> /\ <<"partial">> \o <<>> = <<"partial">>
  /\ <<"begin">> \o <<"partial">> = <<"begin", "partial">>
  /\ <<"begin">> \o <<"end">> = <<"begin", "end">>
  /\ <<"begin", "partial">> \o <<"end">> = <<"begin", "partial", "end">>
<1>1. "begin" \in Marks /\ "partial" \in Marks /\ "end" \in Marks
  BY DEF Marks
<1>2. \A p \in Seq(Marks) : p \o <<>> = p /\ <<>> \o p = p
  BY ConcatEmptySeq
<1>3. \A p \in Seq(Marks), m \in Marks : p \o <<m>> = Append(p, m)
  BY AppendIsConcat
<1>4. Append(<<"begin">>, "partial") = <<"begin", "partial">> /\ Append(<<"begin">>, "end") = <<"begin", "end">>
  BY <1>1, PairAppended, Zenon
<1>5. Append(<<"begin", "partial">>, "end") = <<"begin", "partial", "end">>
  <2> DEFINE s == Append(<<"begin", "partial">>, "end")
  <2> DEFINE t == <<"begin", "partial", "end">>
  <2>1. <<"begin", "partial">> \in Seq(Marks) /\ t \in Seq(Marks) /\ Len(t) = 3
    BY <1>1
  <2>2. s \in Seq(Marks) /\ Len(s) = 3
    BY <1>1, <2>1
  <2>3. s[1] = "begin" /\ s[2] = "partial" /\ s[3] = "end"
    BY <1>1, <2>1
  <2>4. t[1] = "begin" /\ t[2] = "partial" /\ t[3] = "end"
    OBVIOUS
  <2> HIDE DEF s, t
  <2>5. \A i \in 1 .. Len(s) : s[i] = t[i]
    BY <2>2, <2>3, <2>4
  <2>6. s = t
    BY <2>1, <2>2, <2>5, SeqEqual
  <2> QED
    BY <2>6 DEF s, t
<1>6. <<"begin", "partial">> \in Seq(Marks)
  BY <1>1
<1> QED
  BY <1>1, <1>2, <1>3, <1>4, <1>5, <1>6, ProgressMarks, Zenon

LEMMA FailsPaired ==
  ASSUME Typed, Paired, job.at # "idle", Fails
  PROVE  Paired'
<1>1. job' = Idle /\ job'.at = "idle"
  BY DEF Fails, Idle
<1>2. progress \in {<<>>, <<"begin">>}
  BY DEF Paired
<1>3. progress' \in {<<>>, <<"begin", "end">>}
  BY <1>2, EndedOnce DEF Fails
<1>4. "partial" \notin Range(progress')
  BY <1>3, InRanges
<1> QED
  BY <1>1, <1>3, <1>4 DEF Paired

LEMMA AnswersPaired ==
  ASSUME Typed, Typed', Paired, NEW r, r.k # "error", Answers(r),
         progress' \in {<<>>, <<"partial">>, <<"begin", "end">>, <<"begin", "partial", "end">>}
  PROVE  Paired'
<1>1. job'.at = "idle"
  BY DEF Answers, Idle
<1>2. replies \in Seq(Reply) /\ replies' = Append(replies, r)
  BY DEF Answers, Typed, ClientTyped
<1>3. replies'[Len(replies')] = r
  BY <1>2
<1> QED
  BY <1>1, <1>3 DEF Paired

LEMMA PairedStep ==
  ASSUME Typed, Typed', Paired, [PullNext]_pullVars
  PROVE  Paired'
<1>1. ASSUME UNCHANGED <<job, progress, replies>> PROVE Paired'
  BY <1>1 DEF Paired
<1>2. ASSUME Receives PROVE Paired'
  <2>1. UNCHANGED <<job, progress>> /\ replies # <<>> /\ replies' = Tail(replies)
    BY <1>2 DEF Receives
  <2>2. replies' # <<>> => replies'[Len(replies')] = replies[Len(replies)]
    BY <2>1 DEF Typed, ClientTyped
  <2> QED
    BY <2>1, <2>2 DEF Paired
<1>3. ASSUME Cancels PROVE Paired'
  <2>1. job'.at = job.at
    BY <1>3 DEF Cancels, Typed, WorkerTyped, Jobs
  <2> QED
    BY <1>3, <2>1 DEF Cancels, Paired
<1>4. ASSUME Takes PROVE Paired'
  <2>1. progress' = <<>> /\ UNCHANGED replies /\ job'.at # "reporting"
    <3>1. Idle.at = "idle" /\ DOMAIN Idle = DOMAIN [Idle EXCEPT !.at = "x"]
      BY DEF Idle
    <3> QED
      BY <1>4 DEF Takes, Idle
  <2> QED
    BY <2>1, InRanges DEF Paired
<1>5. ASSUME job.at # "idle", NEW next, Goes(next), next.at # "idle", job.at = "reporting" <=> next.at = "reporting"
      PROVE  Paired'
  BY <1>5 DEF Paired, Goes
<1>6. ASSUME ReadsDiagnostics PROVE Paired'
  <2>1. CASE Fails
    BY <1>6, <2>1, FailsPaired DEF ReadsDiagnostics
  <2>2. CASE Goes([job EXCEPT !.at = "related", !.read = Diagnosed(job.u)])
    <3>1. [job EXCEPT !.at = "related", !.read = Diagnosed(job.u)].at = "related"
      BY DEF Typed, WorkerTyped, Jobs
    <3> QED
      BY <1>5, <1>6, <2>2, <3>1 DEF ReadsDiagnostics
  <2> QED
    BY <1>6, <2>1, <2>2 DEF ReadsDiagnostics
<1>7. ASSUME ReadsRelated PROVE Paired'
  <2>1. CASE Fails
    BY <1>7, <2>1, FailsPaired DEF ReadsRelated
  <2>2. CASE Goes([job EXCEPT !.at = "commit", !.other = Diagnosed(Other(job.u))])
    <3>1. [job EXCEPT !.at = "commit", !.other = Diagnosed(Other(job.u))].at = "commit"
      BY DEF Typed, WorkerTyped, Jobs
    <3> QED
      BY <1>5, <1>7, <2>2, <3>1 DEF ReadsRelated
  <2>3. CASE Goes([job EXCEPT !.at = "commit"])
    <3>1. [job EXCEPT !.at = "commit"].at = "commit"
      BY DEF Typed, WorkerTyped, Jobs
    <3> QED
      BY <1>5, <1>7, <2>3, <3>1 DEF ReadsRelated
  <2> QED
    BY <1>7, <2>1, <2>2, <2>3 DEF ReadsRelated
<1>8. ASSUME AnswersPull PROVE Paired'
  <2>1. CASE Fails
    BY <1>8, <2>1, FailsPaired DEF AnswersPull
  <2>2. CASE ~Fails
    <3>1. PICK k \in {"unchanged", "full"} : Answers([k |-> k, u |-> job.u, report |-> Report(job.text, job.read)])
      BY <1>8, <2>2 DEF AnswersPull
    <3>2. progress' \in {<<>>, <<"partial">>}
      BY <1>8, <2>2 DEF AnswersPull
    <3> QED
      BY <3>1, <3>2, AnswersPaired
  <2> QED
    BY <2>1, <2>2
<1>9. ASSUME CapturesClosed PROVE Paired'
  <2>1. CASE Fails
    BY <1>9, <2>1, FailsPaired DEF CapturesClosed
  <2>2. CASE Goes([job EXCEPT !.at = "closed", !.seen = Captured, !.related = Related(job.u, TRUE)])
    <3>1. [job EXCEPT !.at = "closed", !.seen = Captured, !.related = Related(job.u, TRUE)].at = "closed"
      BY DEF Typed, WorkerTyped, Jobs
    <3> QED
      BY <1>5, <1>9, <2>2, <3>1 DEF CapturesClosed
  <2> QED
    BY <1>9, <2>1, <2>2 DEF CapturesClosed
<1>10. ASSUME ReadsClosedRelated PROVE Paired'
  <2> DEFINE v == Other(job.u)
  <2>1. CASE Fails
    BY <1>10, <2>1, FailsPaired DEF ReadsClosedRelated
  <2>2. CASE Goes([job EXCEPT !.at = "commit closed", !.open = doc[v], !.other = Diagnosed(v)])
    <3>1. [job EXCEPT !.at = "commit closed", !.open = doc[v], !.other = Diagnosed(v)].at = "commit closed"
      BY DEF Typed, WorkerTyped, Jobs
    <3> QED
      BY <1>5, <1>10, <2>2, <3>1 DEF ReadsClosedRelated
  <2>3. CASE Goes([job EXCEPT !.at = "commit closed"])
    <3>1. [job EXCEPT !.at = "commit closed"].at = "commit closed"
      BY DEF Typed, WorkerTyped, Jobs
    <3> QED
      BY <1>5, <1>10, <2>3, <3>1 DEF ReadsClosedRelated
  <2> QED
    BY <1>10, <2>1, <2>2, <2>3 DEF ReadsClosedRelated
<1>11. ASSUME AnswersClosed PROVE Paired'
  <2>1. CASE Fails
    BY <1>11, <2>1, FailsPaired DEF AnswersClosed
  <2>2. CASE ~Fails
    <3>1. Answers([k |-> "closed", u |-> job.u, related |-> job.related])
      BY <1>11, <2>2 DEF AnswersClosed
    <3>2. progress' \in {<<>>, <<"partial">>}
      BY <1>11, <2>2 DEF AnswersClosed
    <3> QED
      BY <3>1, <3>2, AnswersPaired
  <2> QED
    BY <2>1, <2>2
<1>12. ASSUME CapturesWorkspace PROVE Paired'
  <2>1. CASE Fails
    BY <1>12, <2>1, FailsPaired DEF CapturesWorkspace
  <2>2. CASE ~Fails
    <3>1. job'.at = "reporting" /\ progress' \in {<<>>, <<"begin">>}
      BY <1>12, <2>2 DEF CapturesWorkspace, Typed, WorkerTyped, Jobs
    <3> QED
      BY <3>1 DEF Paired
  <2> QED
    BY <2>1, <2>2
<1>13. ASSUME ReportsNext PROVE Paired'
  <2>1. CASE Fails
    BY <1>13, <2>1, FailsPaired DEF ReportsNext
  <2>2. CASE ~Fails
    <3>1. PICK S, d : Goes([job EXCEPT !.todo = S, !.reports = d])
      BY <1>13, <2>2 DEF ReportsNext
    <3>2. [job EXCEPT !.todo = S, !.reports = d].at = job.at
      BY DEF Typed, WorkerTyped, Jobs
    <3> QED
      BY <1>5, <1>13, <3>1, <3>2 DEF ReportsNext
  <2> QED
    BY <2>1, <2>2
<1>14. ASSUME AnswersWorkspace PROVE Paired'
  <2>1. CASE Fails
    BY <1>14, <2>1, FailsPaired DEF AnswersWorkspace
  <2>2. CASE ~Fails
    <3>1. Answers([k |-> "workspace", u |-> job.u])
      BY <1>14, <2>2 DEF AnswersWorkspace
    <3>2. progress \in {<<>>, <<"begin">>}
      BY <1>14 DEF AnswersWorkspace, Paired
    <3>3. progress' \in {<<>>, <<"partial">>, <<"begin", "end">>, <<"begin", "partial", "end">>}
      <4>1. PICK partial \in BOOLEAN :
              progress' = progress \o (IF partial THEN <<"partial">> ELSE <<>>)
                                   \o (IF progress = <<>> THEN <<>> ELSE <<"end">>)
        BY <1>14, <2>2 DEF AnswersWorkspace
      <4>2. /\ <<>> \o <<>> = <<>> /\ <<"begin">> \o <<>> = <<"begin">>
            /\ <<>> \o <<"partial">> = <<"partial">> /\ <<"partial">> \o <<>> = <<"partial">>
            /\ <<"begin">> \o <<"partial">> = <<"begin", "partial">>
            /\ <<"begin">> \o <<"end">> = <<"begin", "end">>
            /\ <<"begin", "partial">> \o <<"end">> = <<"begin", "partial", "end">>
        BY MarksConcatenate
      <4>3. <<"begin">> # <<>>
        OBVIOUS
      <4> QED
        BY <3>2, <4>1, <4>2, <4>3, Zenon
    <3> QED
      BY <3>1, <3>3, AnswersPaired
  <2> QED
    BY <2>1, <2>2
<1> QED
  BY <1>1, <1>2, <1>3, <1>4, <1>6, <1>7, <1>8, <1>9, <1>10, <1>11, <1>12, <1>13, <1>14
  DEF PullNext, pullVars, Opens, Edits, Closes, FilesChange, FoldersChange, Pulls, PullsClosed, PullsWorkspace, Refreshes,
      ServerUnchanged, Dispatches, RefreshCompleted, TextArrives, Analyses, Indexes, DocumentCloses, FileArrives,
      Restores, FolderArrives, Scopes, PublishesNext, EndsChange, OnMain

LEMMA PairedIsWell ==
  ASSUME Paired
  PROVE  ProgressPaired
<1> SUFFICES ASSUME job.at = "idle" PROVE ProgressPaired
  BY DEF ProgressPaired
<1>1. progress \in {<<>>, <<"partial">>, <<"begin", "end">>, <<"begin", "partial", "end">>}
  BY DEF Paired
<1>2. "begin" \in Range(progress) <=> "end" \in Range(progress)
  BY <1>1, InRanges
<1>3. \A i \in DOMAIN progress : (progress[i] = "begin" => i = 1) /\ (progress[i] = "end" => i = Len(progress))
  <2>1. CASE progress = <<>>
    BY <2>1
  <2>2. CASE progress = <<"partial">>
    <3>1. DOMAIN progress = {1} /\ progress[1] = "partial"
      BY <2>2
    <3> QED
      BY <3>1
  <2>3. CASE progress = <<"begin", "end">>
    <3>1. DOMAIN progress = {1, 2} /\ Len(progress) = 2 /\ progress[1] = "begin" /\ progress[2] = "end"
      BY <2>3
    <3> QED
      BY <3>1
  <2>4. CASE progress = <<"begin", "partial", "end">>
    <3>1. /\ DOMAIN progress = {1, 2, 3} /\ Len(progress) = 3
          /\ progress[1] = "begin" /\ progress[2] = "partial" /\ progress[3] = "end"
      BY <2>4
    <3> QED
      BY <3>1
  <2> QED
    BY <1>1, <2>1, <2>2, <2>3, <2>4
<1> QED
  BY <1>2, <1>3 DEF Paired, ProgressPaired

(***************************************************************************)
(* The stores.                                                             *)
(***************************************************************************)
LEMMA PointsAt ==
  ASSUME NEW texts \in [Uris -> Text], NEW v \in Uris, NEW g
  PROVE  /\ Points(texts, v, g) \in Locations
         /\ texts[v] = NoText \/ texts[Other(v)] = NoText => Points(texts, v, g) = <<>>
<1>1. texts[Other(v)] \in Text
  BY OtherIsTheOther
<1>2. [target |-> IF g THEN texts[Other(v)].id ELSE 0, span |-> texts[Other(v)].span] \in Location
  BY <1>1 DEF Text, Location
<1> QED
  BY <1>2 DEF Points, Locations, NoText

LEMMA RelatedPoints ==
  ASSUME NEW v \in Uris, NEW g \in BOOLEAN
  PROVE  Related(v, g) = Points(index, v, g)
  BY DEF Related, Points

LEMMA StoresFrame ==
  ASSUME Stores, UNCHANGED <<stores, main>>
  PROVE  Stores'
  BY DEF Stores, Fresh, Opened, Held, Generations, Pointed, Published, BeingIndexed, BeingScoped, stores

LEMMA IndexedIs ==
  ASSUME StoresTyped, NEW u \in Uris, NEW t \in Text, Indexed(u, t)
  PROVE  /\ index' = [index EXCEPT ![u] = t] /\ index'[u] = t
         /\ \A v \in Uris \ {u} : index'[v] = index[v]
         /\ index[u] = t => index' = index /\ generation' = generation
         /\ index[u] # t => generation' = generation + 1
  BY DEF Indexed, StoresTyped

\* Nothing refers to a document that was not and is not indexed.
LEMMA TextArrivesStores ==
  ASSUME Typed, Typed', Stores, TextArrives
  PROVE  Stores'
<1>1. PICK u \in Uris, t \in Texts(Id) :
        /\ Reads([k |-> "text", u |-> u])
        /\ doc' = [doc EXCEPT ![u] = t] /\ made' = Id
        /\ diagnostics' = [diagnostics EXCEPT ![u] = NoDiagnostics]
        /\ main' = Handling("analysing", u, OthersIndexed(u))
        /\ UNCHANGED <<semantics, index, generation, scope>>
  BY DEF TextArrives
<1>2. t \in Text /\ t.id = made + 1 /\ t # NoText /\ made \in Nat /\ generation \in Nat
  BY MainIs, TextsTyped DEF Id
<1>3. main.at = "idle"
  BY <1>1 DEF Reads, Waiting
<1>4. main'.at = "analysing" /\ main'.u = u /\ main'.before = generation /\ main'.others = OthersIndexed(u)
  BY <1>1 DEF Handling
<1>5. doc'[u] = t /\ diagnostics'[u] = NoDiagnostics /\ NoDiagnostics.related = <<>>
      /\ \A v \in Uris \ {u} : doc'[v] = doc[v] /\ diagnostics'[v] = diagnostics[v]
  BY <1>1, NothingTyped DEF Typed, StoresTyped
<1>6. \A v \in Uris : index[v] \in Text /\ doc[v] \in Text
  BY DEF Typed, StoresTyped
<1>7. Fresh'
  BY <1>1, <1>2, <1>5, <1>6 DEF Stores, Fresh, Text, Id
<1>8. Opened'
  <2>1. index[u] # t
    BY <1>2, <1>6 DEF Stores, Fresh, Text
  <2> QED
    BY <1>1, <1>2, <1>3, <1>4, <1>5, <2>1 DEF Stores, Opened, BeingIndexed
<1>9. Held'
  BY <1>1, <1>3, <1>4, <1>5 DEF Stores, Held, BeingIndexed, BeingScoped
<1>10. Generations'
  <2>1. ~main'.others => ~OthersIndexed(u)
    BY <1>4, Zenon
  <2>2. ~main'.others => \A v \in Uris \ {u} : index[v] = NoText
    BY <2>1 DEF OthersIndexed
  <2>3. main'.before = generation' /\ main'.u = u /\ main'.at # "scoping" /\ index' = index /\ generation' \in Nat
    BY <1>1, <1>2, <1>4
  <2> QED
    BY <2>2, <2>3 DEF Generations
<1>11. Pointed'
  BY <1>1, <1>3, <1>4, <1>5 DEF Stores, Pointed, Published, BeingIndexed
<1> QED
  BY <1>7, <1>8, <1>9, <1>10, <1>11 DEF Stores

LEMMA AnalysesStores ==
  ASSUME Typed, Typed', Stores, Analyses
  PROVE  Stores'
<1>1. PICK u \in Uris : u = main.u
  BY DEF Analyses, Typed, MainTyped
<1>2. made \in Nat /\ made' = made + 1
  BY MainIs DEF Analyses, Id
<1>3. main'.at = "indexing" /\ main'.u = u /\ main'.before = main.before /\ main'.others = main.others
  BY <1>1 DEF Analyses, Typed, MainTyped, Work
<1>4. main.at = "analysing" /\ UNCHANGED <<doc, index, generation, scope>>
  BY DEF Analyses
<1>5. /\ semantics'[u] = doc[u]
      /\ diagnostics'[u].of = doc[u].id /\ diagnostics'[u].related = <<>>
      /\ \A v \in Uris \ {u} : semantics'[v] = semantics[v] /\ diagnostics'[v] = diagnostics[v]
  BY <1>1, StoredTyped DEF Analyses, Typed, StoresTyped, Stored
<1>6. \A v \in Uris : index[v] \in Text /\ doc[v] \in Text
  BY DEF Typed, StoresTyped
<1>7. Fresh'
  BY <1>2, <1>4, <1>6 DEF Stores, Fresh, Text
<1>8. Opened'
  BY <1>1, <1>3, <1>4, <1>5 DEF Stores, Opened, BeingIndexed
<1>9. Held'
  BY <1>1, <1>3, <1>4 DEF Stores, Held, BeingIndexed, BeingScoped
<1>10. Generations'
  BY <1>1, <1>3, <1>4 DEF Stores, Generations
<1>11. Pointed'
  BY <1>1, <1>3, <1>4, <1>5 DEF Stores, Pointed, Published, BeingIndexed
<1> QED
  BY <1>7, <1>8, <1>9, <1>10, <1>11 DEF Stores

LEMMA IndexesStores ==
  ASSUME Typed, Typed', Stores, Indexes
  PROVE  Stores'
<1>1. PICK u \in Uris : u = main.u
  BY DEF Indexes, Typed, MainTyped
<1>2. main.at = "indexing" /\ UNCHANGED <<doc, semantics, diagnostics, scope, made>>
  BY DEF Indexes
<1>3. doc[u] # NoText /\ semantics[u] = doc[u] /\ diagnostics[u].of = doc[u].id /\ diagnostics[u].related = <<>>
      /\ index[u] # doc[u]
  BY <1>1, <1>2 DEF Stores, Opened, BeingIndexed
<1>4. \A v \in Uris : index[v] \in Text /\ doc[v] \in Text
  BY DEF Typed, StoresTyped
<1>5. generation \in Nat /\ main.before = generation
  BY <1>2, MainIs DEF Stores, Generations
<1>6. index \in [Uris -> Text] /\ index' \in [Uris -> Text]
  BY DEF Typed, StoresTyped
<1>7. CASE u \in scope
  <2>1. Indexed(u, doc[u]) /\ main' = Publishing
    BY <1>1, <1>7 DEF Indexes
  <2>2. main'.at = "publishing" /\ main'.u = u /\ main'.before = generation /\ main'.others = main.others /\ main'.todo = Uris
    BY <1>1, <1>2, <1>5, <2>1, MainIs
  <2>3. /\ index'[u] = doc[u] /\ \A v \in Uris \ {u} : index'[v] = index[v]
        /\ generation' = generation + 1
    BY <1>3, <1>4, <2>1, IndexedIs DEF Typed
  <2>4. Fresh'
    BY <1>2, <1>4, <2>3 DEF Stores, Fresh
  <2>5. Opened'
    BY <1>1, <1>2, <1>3, <2>2 DEF Stores, Opened, BeingIndexed
  <2>6. Held'
    BY <1>1, <1>2, <1>7, <2>2, <2>3 DEF Stores, Held, BeingIndexed, BeingScoped
  <2>7. Generations'
    BY <1>1, <1>2, <1>5, <2>2, <2>3 DEF Stores, Generations
  <2>8. Pointed'
    <3> SUFFICES ASSUME NEW v \in Uris
                 PROVE  /\ diagnostics[v].related # <<>> => index'[v] # NoText /\ diagnostics[v].of = index'[v].id
                        /\ ~main.others => /\ diagnostics[v].related = <<>>
                                           /\ Points(index', v, TRUE) = <<>>
                                           /\ Points(index', v, doc[Other(v)] # NoText) = <<>>
      <4>1. main'.before # generation'
        BY <1>5, <2>2, <2>3
      <4> QED
        BY <1>2, <2>2, <4>1 DEF Pointed, Published, BeingIndexed
    <3>1. diagnostics[v].related # <<>> => index'[v] # NoText /\ diagnostics[v].of = index'[v].id
      BY <1>3, <2>3 DEF Stores, Pointed
    <3>2. ASSUME ~main.others PROVE \A w \in Uris \ {u} : index'[w] = NoText
      BY <1>1, <1>2, <2>3, <3>2 DEF Stores, Generations
    <3>3. CASE v = u
      <4>1. diagnostics[v].related = <<>>
        BY <1>3, <3>3
      <4>2. ~main.others => index'[Other(v)] = NoText
        BY <3>2, <3>3, OtherIsTheOther
      <4> QED
        BY <1>6, <3>1, <4>1, <4>2, PointsAt
    <3>4. CASE v # u
      BY <1>6, <3>1, <3>2, <3>4, PointsAt
    <3> QED
      BY <3>3, <3>4
  <2> QED
    BY <2>4, <2>5, <2>6, <2>7, <2>8 DEF Stores
<1>8. CASE u \notin scope
  <2>1. UNCHANGED <<index, generation>> /\ main' = Waiting /\ main'.at = "idle"
    BY <1>1, <1>8 DEF Indexes, Waiting
  <2>2. index[u] = NoText
    BY <1>1, <1>2, <1>8 DEF Stores, Held, BeingScoped
  <2>4. Fresh'
    BY <1>2, <2>1 DEF Stores, Fresh
  <2>5. Opened'
    BY <1>1, <1>2, <1>3, <2>1 DEF Stores, Opened, BeingIndexed
  <2>6. Held'
    BY <1>1, <1>2, <1>8, <2>1 DEF Stores, Held, BeingIndexed, BeingScoped
  <2>7. Generations'
    BY <2>1 DEF Generations
  <2>8. Pointed'
    <3> SUFFICES ASSUME NEW v \in Uris
                 PROVE  /\ diagnostics[v].related # <<>> => index[v] # NoText /\ diagnostics[v].of = index[v].id
                        /\ doc[v] # NoText => /\ diagnostics[v].related = <<>>
                                              /\ Points(index, v, TRUE) = <<>>
                                              /\ Points(index, v, doc[Other(v)] # NoText) = <<>>
      BY <1>2, <2>1 DEF Pointed, Published, BeingIndexed
    <3>1. diagnostics[v].related # <<>> => index[v] # NoText /\ diagnostics[v].of = index[v].id
      BY DEF Stores, Pointed
    <3>2. \A g : Points(index, v, g) = <<>>
      BY <1>6, <2>2, PointsAt, OtherIsTheOther
    <3>3. doc[v] # NoText /\ v # u => \E g \in BOOLEAN : diagnostics[v].related = Points(index, v, g)
      BY <1>1, <1>2 DEF Stores, Pointed, Published, BeingIndexed
    <3> QED
      BY <1>3, <3>1, <3>2, <3>3
  <2> QED
    BY <2>4, <2>5, <2>6, <2>7, <2>8 DEF Stores
<1> QED
  BY <1>7, <1>8

LEMMA DocumentClosesStores ==
  ASSUME Typed, Typed', Stores, DocumentCloses
  PROVE  Stores'
<1>1. PICK u \in Uris :
        /\ Reads([k |-> "close", u |-> u])
        /\ doc' = [doc EXCEPT ![u] = NoText]
        /\ diagnostics' = [diagnostics EXCEPT ![u] = NoDiagnostics]
        /\ main' = Handling("restoring", u, OthersIndexed(u))
        /\ UNCHANGED <<semantics, index, generation, scope, made>>
  BY DEF DocumentCloses
<1>2. main.at = "idle" /\ generation \in Nat /\ made \in Nat
  BY <1>1, MainIs DEF Reads, Waiting
<1>4. main'.at = "restoring" /\ main'.u = u /\ main'.before = generation /\ main'.others = OthersIndexed(u)
  BY <1>1 DEF Handling
<1>5. doc'[u] = NoText /\ diagnostics'[u] = NoDiagnostics /\ NoDiagnostics.related = <<>>
      /\ \A v \in Uris \ {u} : doc'[v] = doc[v] /\ diagnostics'[v] = diagnostics[v]
  BY <1>1, NothingTyped DEF Typed, StoresTyped
<1>7. Fresh'
  BY <1>1, <1>2, <1>5 DEF Stores, Fresh, NoText
<1>8. Opened'
  BY <1>1, <1>2, <1>4, <1>5 DEF Stores, Opened, BeingIndexed
<1>9. Held'
  BY <1>1, <1>2, <1>4, <1>5 DEF Stores, Held, BeingIndexed, BeingScoped
<1>10. Generations'
  <2>1. ~main'.others => ~OthersIndexed(u)
    BY <1>4, Zenon
  <2>2. ~main'.others => \A v \in Uris \ {u} : index[v] = NoText
    BY <2>1 DEF OthersIndexed
  <2>3. main'.before = generation' /\ main'.u = u /\ main'.at # "scoping" /\ index' = index /\ generation' \in Nat
    BY <1>1, <1>2, <1>4
  <2> QED
    BY <2>2, <2>3 DEF Generations
<1>11. Pointed'
  BY <1>1, <1>2, <1>4, <1>5 DEF Stores, Pointed, Published, BeingIndexed
<1> QED
  BY <1>7, <1>8, <1>9, <1>10, <1>11 DEF Stores

LEMMA FileArrivesStores ==
  ASSUME Typed, Typed', Stores, FileArrives
  PROVE  Stores'
<1>1. PICK u \in Uris :
        /\ Reads([k |-> "file", u |-> u])
        /\ main' = IF doc[u] = NoText THEN Handling("restoring", u, TRUE) ELSE Waiting
        /\ UNCHANGED stores
  BY DEF FileArrives
<1>2. main.at = "idle" /\ main = Waiting /\ generation \in Nat
  BY <1>1, MainIs DEF Reads, Waiting
<1>3. CASE doc[u] # NoText
  BY <1>1, <1>2, <1>3, StoresFrame
<1>4. CASE doc[u] = NoText
  <2>1. main'.at = "restoring" /\ main'.u = u /\ main'.before = generation /\ main'.others
    BY <1>1, <1>4 DEF Handling
  <2>2. Fresh' /\ Opened'
    BY <1>1, <1>2, <1>4, <2>1 DEF Stores, Fresh, Opened, BeingIndexed, stores
  <2>3. Held'
    BY <1>1, <1>2, <1>4, <2>1 DEF Stores, Held, BeingIndexed, BeingScoped, stores
  <2>5. Generations'
    <3>1. generation' = generation /\ generation <= generation
      BY <1>1, <1>2 DEF stores
    <3> QED
      BY <2>1, <3>1 DEF Generations
  <2>4. Pointed'
    BY <1>1, <1>2, <2>1 DEF Stores, Pointed, Published, BeingIndexed, stores
  <2> QED
    BY <2>2, <2>3, <2>4, <2>5 DEF Stores
<1> QED
  BY <1>3, <1>4

LEMMA RestoresStores ==
  ASSUME Typed, Typed', Stores, Restores
  PROVE  Stores'
<1>1. PICK u \in Uris : u = main.u
  BY DEF Restores, Typed, MainTyped
<1>2. main.at = "restoring" /\ main' = Publishing /\ UNCHANGED <<doc, semantics, diagnostics, scope>>
  BY DEF Restores
<1>3. doc[u] = NoText /\ diagnostics[u] = NoDiagnostics /\ diagnostics[u].related = <<>>
  BY <1>1, <1>2, NothingTyped DEF Stores, Opened
<1>4. generation \in Nat /\ main.before = generation /\ made \in Nat
  BY <1>2, MainIs DEF Stores, Generations
<1>5. main'.at = "publishing" /\ main'.u = u /\ main'.before = generation /\ main'.others = main.others /\ main'.todo = Uris
  BY <1>1, <1>2, <1>4, MainIs
<1>6. index \in [Uris -> Text] /\ index' \in [Uris -> Text] /\ \A v \in Uris : doc[v] \in Text /\ index[v] \in Text
  BY DEF Typed, StoresTyped
<1>7. \/ /\ u \in scope
         /\ \E t \in Text : /\ index'[u] = t /\ (t = NoText \/ t.id = made + 1)
                            /\ index[u] = t => index' = index /\ generation' = generation
                            /\ index[u] # t => generation' = generation + 1
         /\ made' = made + 1
         /\ \A v \in Uris \ {u} : index'[v] = index[v]
      \/ u \notin scope /\ UNCHANGED <<index, generation, made>>
  <2>1. CASE u \in scope
    <3>1. PICK t \in Texts(Id) \cup {NoText} : Indexed(u, t) /\ made' = made + 1
      BY <1>1, <2>1 DEF Restores, Id
    <3>2. t \in Text /\ (t = NoText \/ t.id = made + 1)
      BY <1>4, TextsTyped, NothingTyped DEF Id
    <3>3. /\ index'[u] = t
          /\ \A v \in Uris \ {u} : index'[v] = index[v]
          /\ index[u] = t => index' = index /\ generation' = generation
          /\ index[u] # t => generation' = generation + 1
      BY <3>1, <3>2, IndexedIs DEF Typed
    <3> QED
      BY <2>1, <3>1, <3>2, <3>3
  <2>2. CASE u \notin scope
    BY <1>1, <2>2 DEF Restores
  <2> QED
    BY <2>1, <2>2
<1>8. /\ \A v \in Uris \ {u} : index'[v] = index[v]
      /\ generation <= generation' /\ made <= made'
      /\ index'[u] = index[u] \/ index'[u] = NoText \/ index'[u].id = made'
      /\ index'[u].id <= made'
      /\ generation' = generation => index' = index /\ index[u] = NoText
  <2>1. index[u].id <= made /\ index[u].id \in Nat
    BY <1>6 DEF Stores, Fresh, Text
  <2>2. CASE u \notin scope
    <3>1. index[u] = NoText
      BY <1>2, <2>2 DEF Stores, Held, BeingScoped
    <3> QED
      BY <1>4, <1>7, <2>1, <2>2, <3>1
  <2>3. CASE u \in scope
    <3>1. PICK t \in Text : /\ index'[u] = t /\ (t = NoText \/ t.id = made + 1)
                            /\ index[u] = t => index' = index /\ generation' = generation
                            /\ index[u] # t => generation' = generation + 1
      BY <1>7, <2>3
    <3>2. NoText.id = 0
      BY DEF NoText
    <3> QED
      BY <1>4, <1>7, <2>1, <2>3, <3>1, <3>2
  <2> QED
    BY <2>2, <2>3
<1>9. Fresh'
  <2>1. \A v \in Uris : doc[v].id \in Nat /\ index[v].id \in Nat /\ index'[v].id \in Nat
    BY <1>6 DEF Text
  <2>2. made' \in Nat /\ (index'[u] = index[u] \/ index'[u] = NoText \/ index'[u].id # 0)
    BY <1>4, <1>7, <1>8
  <2> QED
    BY <1>2, <1>4, <1>8, <2>1, <2>2 DEF Stores, Fresh
<1>10. Opened'
  BY <1>1, <1>2, <1>3, <1>5 DEF Stores, Opened, BeingIndexed
<1>11. Held'
  <2>1. u \notin scope => index'[u] = NoText
    BY <1>2, <1>7 DEF Stores, Held, BeingScoped
  <2> QED
    BY <1>2, <1>3, <1>5, <1>8, <2>1 DEF Stores, Held, BeingIndexed, BeingScoped
<1>12. Generations'
  BY <1>1, <1>2, <1>4, <1>5, <1>8 DEF Stores, Generations
<1>13. Pointed'
  <2> SUFFICES ASSUME NEW v \in Uris
               PROVE  /\ diagnostics[v].related # <<>> => index'[v] # NoText /\ diagnostics[v].of = index'[v].id
                      /\ doc[v] # NoText /\ (generation = generation' \/ ~main.others) =>
                           /\ diagnostics[v].related = <<>>
                           /\ Points(index', v, TRUE) = <<>>
                           /\ Points(index', v, doc[Other(v)] # NoText) = <<>>
    BY <1>2, <1>5 DEF Pointed, Published, BeingIndexed
  <2>1. diagnostics[v].related # <<>> => v # u /\ index'[v] # NoText /\ diagnostics[v].of = index'[v].id
    BY <1>3, <1>8 DEF Stores, Pointed
  <2>2. SUFFICES ASSUME doc[v] # NoText, generation = generation' \/ ~main.others
                 PROVE  diagnostics[v].related = <<>> /\ (index'[v] = NoText \/ index'[Other(v)] = NoText)
    BY <1>6, <2>1, PointsAt
  <2>3. v # u /\ u = Other(v)
    BY <1>3, <2>2, OtherIsTheOther
  <2>4. CASE generation = generation'
    <3>1. index[u] = NoText /\ index' = index
      BY <1>8, <2>4
    <3>2. PICK g \in BOOLEAN : diagnostics[v].related = Points(index, v, g)
      BY <1>1, <1>2, <2>2 DEF Stores, Pointed, Published, BeingIndexed
    <3>3. Points(index, v, g) = <<>>
      BY <1>6, <2>3, <3>1, PointsAt
    <3> QED
      BY <2>3, <3>1, <3>2, <3>3
  <2>5. CASE ~main.others
    <3>1. index[v] = NoText
      BY <1>1, <1>2, <2>3, <2>5 DEF Stores, Generations
    <3> QED
      BY <1>8, <2>1, <2>3, <3>1
  <2> QED
    BY <2>2, <2>4, <2>5
<1> QED
  BY <1>9, <1>10, <1>11, <1>12, <1>13 DEF Stores

LEMMA FolderArrivesStores ==
  ASSUME Typed, Typed', Stores, FolderArrives
  PROVE  Stores'
<1>1. PICK u \in Uris :
        /\ Reads([k |-> "folder", u |-> u])
        /\ scope' = IF u \in scope THEN scope \ {u} ELSE scope \cup {u}
        /\ main' = Handling("scoping", u, TRUE)
        /\ UNCHANGED <<doc, semantics, index, generation, diagnostics, made>>
  BY DEF FolderArrives
<1>2. main.at = "idle" /\ generation \in Nat /\ generation' = generation /\ generation <= generation
  BY <1>1, MainIs DEF Reads, Waiting
<1>3. main'.at = "scoping" /\ main'.u = u /\ main'.before = generation /\ main'.others
  BY <1>1 DEF Handling
<1>4. Fresh'
  BY <1>1 DEF Stores, Fresh
<1>5. Opened'
  BY <1>1, <1>2, <1>3 DEF Stores, Opened, BeingIndexed
<1>6. Held'
  BY <1>1, <1>2, <1>3 DEF Stores, Held, BeingIndexed, BeingScoped
<1>7. Generations'
  BY <1>2, <1>3 DEF Generations
<1>8. Pointed'
  BY <1>1, <1>2, <1>3 DEF Stores, Pointed, Published, BeingIndexed
<1> QED
  BY <1>4, <1>5, <1>6, <1>7, <1>8 DEF Stores

LEMMA ScopesStores ==
  ASSUME Typed, Typed', Stores, Scopes
  PROVE  Stores'
<1>1. PICK u \in Uris : u = main.u
  BY DEF Scopes, Typed, MainTyped
<1>2. main.at = "scoping" /\ main' = Publishing /\ UNCHANGED <<doc, semantics, scope>> /\ made' = made + 1
  BY DEF Scopes, Id
<1>4. generation \in Nat /\ main.before = generation /\ made \in Nat /\ main.others
  BY <1>2, MainIs DEF Stores, Generations
<1>5. main'.at = "publishing" /\ main'.u = u /\ main'.before = generation /\ main'.others /\ main'.todo = Uris
  BY <1>1, <1>2, <1>4, MainIs
<1>6. index \in [Uris -> Text] /\ index' \in [Uris -> Text] /\ \A v \in Uris : doc[v] \in Text /\ index[v] \in Text
  BY DEF Typed, StoresTyped
<1>7. PICK t \in Text : /\ Indexed(u, t)
                        /\ u \notin scope => t = NoText
                        /\ u \in scope /\ doc[u] # NoText => t = doc[u]
                        /\ u \in scope /\ doc[u] = NoText => t = NoText \/ t.id = made + 1
  <2>1. CASE u \notin scope
    BY <1>1, <2>1, NothingTyped DEF Scopes
  <2>2. CASE u \in scope /\ doc[u] # NoText
    BY <1>1, <1>6, <2>2 DEF Scopes
  <2>3. CASE u \in scope /\ doc[u] = NoText
    <3>1. PICK t \in Texts(Id) \cup {NoText} : Indexed(u, t)
      BY <1>1, <2>3 DEF Scopes
    <3>2. t \in Text /\ (t = NoText \/ t.id = made + 1)
      BY <1>4, TextsTyped, NothingTyped DEF Id
    <3> QED
      BY <2>3, <3>1, <3>2
  <2> QED
    BY <2>1, <2>2, <2>3
<1>8. /\ index'[u] = t
      /\ \A v \in Uris \ {u} : index'[v] = index[v]
      /\ index[u] = t => index' = index /\ generation' = generation
      /\ index[u] # t => generation' = generation + 1
  BY <1>7, IndexedIs DEF Typed
<1>9. /\ \A v \in Uris \ {u} : diagnostics'[v] = diagnostics[v]
      /\ u \in scope \/ doc[u] = NoText => diagnostics'[u] = diagnostics[u]
      /\ u \notin scope /\ doc[u] # NoText => diagnostics'[u].of = doc[u].id /\ diagnostics'[u].related = <<>>
  <2>1. CASE u \in scope \/ doc[u] = NoText
    BY <1>1, <2>1 DEF Scopes
  <2>2. CASE u \notin scope /\ doc[u] # NoText
    <3>1. diagnostics' = [diagnostics EXCEPT ![u] = Stored(doc[u], Id, <<>>)]
      BY <1>1, <2>2 DEF Scopes
    <3> QED
      BY <2>2, <3>1 DEF Typed, StoresTyped, Stored
  <2> QED
    BY <2>1, <2>2
<1>10. doc[u] # NoText => index[u] = IF u \in scope THEN NoText ELSE doc[u]
  BY <1>1, <1>2 DEF Stores, Held, BeingScoped
<1>11. doc[u] # NoText => semantics[u] = doc[u] /\ diagnostics[u].of = doc[u].id
  BY <1>1, <1>2 DEF Stores, Opened
<1>12. doc[u] = NoText => diagnostics[u] = NoDiagnostics /\ diagnostics[u].related = <<>>
  BY NothingTyped DEF Stores, Opened
<1>13. Fresh'
  <2>1. \A v \in Uris : doc[v].id \in Nat /\ index[v].id \in Nat /\ doc[v].id <= made /\ index[v].id <= made
    BY <1>6 DEF Stores, Fresh, Text
  <2>2. t.id \in Nat /\ t.id <= made + 1 /\ (t.id = 0 => t = NoText)
    <3>1. CASE t = NoText
      BY <1>4, <3>1 DEF NoText
    <3>2. CASE t = doc[u]
      BY <1>4, <2>1, <3>2 DEF Stores, Fresh
    <3>3. CASE t.id = made + 1
      BY <1>4, <3>3
    <3> QED
      BY <1>7, <3>1, <3>2, <3>3
  <2> QED
    BY <1>2, <1>4, <1>8, <2>1, <2>2 DEF Stores, Fresh
<1>14. Opened'
  BY <1>1, <1>2, <1>5, <1>9, <1>11 DEF Stores, Opened, BeingIndexed
<1>15. Held'
  BY <1>1, <1>2, <1>5, <1>7, <1>8 DEF Stores, Held, BeingIndexed, BeingScoped
<1>16. Generations'
  BY <1>4, <1>5, <1>8 DEF Generations
<1>17. Pointed'
  <2>1. ASSUME NEW v \in Uris, diagnostics'[v].related # <<>>
        PROVE  v # u /\ index'[v] # NoText /\ diagnostics'[v].of = index'[v].id
    <3>1. v # u
      BY <1>9, <1>10, <1>12, <2>1 DEF Stores, Pointed
    <3> QED
      BY <1>8, <1>9, <2>1, <3>1 DEF Stores, Pointed
  <2>2. ASSUME NEW v \in Uris, doc[v] # NoText, generation' = generation
        PROVE  diagnostics'[v].related = Points(index', v, doc[Other(v)] # NoText)
    <3>1. index[u] = t /\ index' = index
      BY <1>4, <1>8, <2>2
    <3>2. doc[u] = NoText
      <4>1. CASE u \in scope
        BY <1>7, <1>10, <3>1, <4>1
      <4>2. CASE u \notin scope
        BY <1>7, <1>10, <3>1, <4>2
      <4> QED
        BY <4>1, <4>2
    <3>3. diagnostics'[v] = diagnostics[v]
      BY <1>9, <2>2, <3>2
    <3> QED
      BY <1>2, <2>2, <3>1, <3>3 DEF Stores, Pointed, Published
  <2>3. ASSUME NEW v \in Uris, Published(v)' PROVE generation' = generation
    BY <1>5, <2>3 DEF Published
  <2>4. \A v \in Uris : (doc[Other(v)] # NoText) \in BOOLEAN
    OBVIOUS
  <2> QED
    BY <1>2, <2>1, <2>2, <2>3, <2>4 DEF Pointed
<1> QED
  BY <1>13, <1>14, <1>15, <1>16, <1>17 DEF Stores

LEMMA PublishesNextStores ==
  ASSUME Typed, Typed', Stores, PublishesNext
  PROVE  Stores'
<1>1. PICK u \in main.todo :
        /\ main' = [main EXCEPT !.todo = main.todo \ {u}]
        /\ IF index[u] # NoText /\ diagnostics[u].of = index[u].id
           THEN diagnostics' = [diagnostics EXCEPT ![u] =
                                  Stored(index[u], Id, Related(u, doc[Other(u)] # NoText))] /\ made' = Id
           ELSE UNCHANGED <<diagnostics, made>>
  BY DEF PublishesNext
<1>2. main.at = "publishing" /\ UNCHANGED <<doc, semantics, index, generation, scope>>
  BY DEF PublishesNext
<1>3. u \in Uris
  BY DEF Typed, MainTyped, Work
<1>4. main'.at = "publishing" /\ main'.u = main.u /\ main'.before = main.before /\ main'.others = main.others
      /\ main'.todo = main.todo \ {u}
  BY <1>1, <1>2 DEF Typed, MainTyped, Work
<1>5. made \in Nat /\ made <= made' /\ made' \in Nat
  BY <1>1, MainIs DEF Id
<1>6. \A v \in Uris : index[v] \in Text /\ doc[v] \in Text
  BY DEF Typed, StoresTyped
<1>7. /\ \A v \in Uris \ {u} : diagnostics'[v] = diagnostics[v]
      /\ index[u] # NoText /\ diagnostics[u].of = index[u].id =>
           /\ doc[u] # NoText
           /\ diagnostics'[u].of = diagnostics[u].of
           /\ diagnostics'[u].related = Points(index, u, doc[Other(u)] # NoText)
      /\ ~(index[u] # NoText /\ diagnostics[u].of = index[u].id) => diagnostics'[u] = diagnostics[u]
  <2>1. CASE index[u] # NoText /\ diagnostics[u].of = index[u].id
    <3>1. diagnostics' = [diagnostics EXCEPT ![u] = Stored(index[u], Id, Related(u, doc[Other(u)] # NoText))]
      BY <1>1, <2>1
    <3>2. Related(u, doc[Other(u)] # NoText) = Points(index, u, doc[Other(u)] # NoText)
      BY DEF Related, Points
    <3>3. diagnostics[u].of # 0
      BY <1>3, <2>1 DEF Stores, Fresh
    <3>4. doc[u] # NoText
      BY <1>3, <3>3, NothingTyped DEF Stores, Opened
    <3> QED
      BY <1>3, <2>1, <3>1, <3>2, <3>4 DEF Typed, StoresTyped, Stored
  <2>2. CASE ~(index[u] # NoText /\ diagnostics[u].of = index[u].id)
    BY <1>1, <2>2
  <2> QED
    BY <2>1, <2>2
<1>8. Fresh'
  <2>1. \A v \in Uris : index[v].id \in Nat /\ doc[v].id \in Nat
    BY <1>6 DEF Text
  <2> QED
    BY <1>2, <1>5, <2>1 DEF Stores, Fresh
<1>9. Opened'
  BY <1>2, <1>3, <1>4, <1>7 DEF Stores, Opened, BeingIndexed
<1>10. Held'
  BY <1>2, <1>4 DEF Stores, Held, BeingIndexed, BeingScoped
<1>11. Generations'
  BY <1>2, <1>4 DEF Stores, Generations
<1>12. Pointed'
  <2>1. ASSUME NEW v \in Uris, diagnostics'[v].related # <<>>
        PROVE  index[v] # NoText /\ diagnostics'[v].of = index[v].id
    BY <1>7, <2>1 DEF Stores, Pointed
  <2>2. ASSUME NEW v \in Uris, Published(v)', doc[v] # NoText
        PROVE  diagnostics'[v].related = Points(index, v, doc[Other(v)] # NoText)
    <3>1. CASE v # u
      <4>1. Published(v)
        BY <1>2, <1>4, <2>2, <3>1 DEF Published
      <4>2. diagnostics[v].related = Points(index, v, doc[Other(v)] # NoText)
        BY <1>2, <2>2, <4>1 DEF Stores, Pointed
      <4> QED
        BY <1>7, <3>1, <4>2
    <3>2. CASE v = u
      <4>1. CASE index[u] # NoText /\ diagnostics[u].of = index[u].id
        BY <1>7, <3>2, <4>1
      <4>2. CASE ~(index[u] # NoText /\ diagnostics[u].of = index[u].id)
        <5>1. diagnostics[u].of = doc[u].id
          BY <1>2, <2>2, <3>2 DEF Stores, Opened
        <5>2. index[u] = NoText
          BY <1>2, <1>3, <2>2, <3>2, <4>2, <5>1 DEF Stores, Held, BeingIndexed, BeingScoped
        <5>3. diagnostics'[u].related = <<>>
          BY <1>3, <1>7, <4>2, <5>2 DEF Stores, Pointed
        <5>4. index \in [Uris -> Text]
          BY DEF Typed, StoresTyped
        <5> QED
          BY <3>2, <5>2, <5>3, <5>4, PointsAt
      <4> QED
        BY <4>1, <4>2
    <3> QED
      BY <3>1, <3>2
  <2>4. \A v \in Uris : (doc[Other(v)] # NoText) \in BOOLEAN
    OBVIOUS
  <2> QED
    BY <1>2, <2>1, <2>2, <2>4 DEF Pointed
<1> QED
  BY <1>8, <1>9, <1>10, <1>11, <1>12 DEF Stores

LEMMA EndsChangeStores ==
  ASSUME Typed, Typed', Stores, EndsChange
  PROVE  Stores'
<1>1. main.at = "publishing" /\ main.todo = {} /\ main'.at = "idle" /\ UNCHANGED stores
  BY DEF EndsChange, Waiting
<1>2. Fresh' /\ Opened'
  BY <1>1 DEF Stores, Fresh, Opened, BeingIndexed, stores
<1>3. Held' /\ Generations'
  BY <1>1 DEF Stores, Held, Generations, BeingIndexed, BeingScoped, stores
<1>4. Pointed'
  BY <1>1 DEF Stores, Pointed, Published, BeingIndexed, stores
<1> QED
  BY <1>2, <1>3, <1>4 DEF Stores

LEMMA StoresStep ==
  ASSUME Typed, Typed', Stores, [PullNext]_pullVars
  PROVE  Stores'
<1>1. ASSUME MainStep PROVE Stores'
  BY <1>1, StoresFrame, TextArrivesStores, AnalysesStores, IndexesStores, DocumentClosesStores, FileArrivesStores,
     RestoresStores, FolderArrivesStores, ScopesStores, PublishesNextStores, EndsChangeStores
  DEF MainStep, Dispatches, RefreshCompleted
<1>2. ASSUME ClientStep PROVE Stores'
  BY <1>2, StoresFrame
  DEF ClientStep, Opens, Edits, Closes, FilesChange, FoldersChange, Pulls, PullsClosed, PullsWorkspace, Receives,
      Refreshes, Cancels, ServerUnchanged
<1>3. ASSUME WorkerStep PROVE Stores'
  BY <1>3, StoresFrame
  DEF WorkerStep, Takes, ReadsDiagnostics, ReadsRelated, AnswersPull, CapturesClosed, ReadsClosedRelated,
      AnswersClosed, CapturesWorkspace, ReportsNext, AnswersWorkspace, OnWorker
<1>4. ASSUME UNCHANGED pullVars PROVE Stores'
  BY <1>4, StoresFrame DEF pullVars
<1> QED
  BY <1>1, <1>2, <1>3, <1>4 DEF PullNext, ClientStep, MainStep, WorkerStep

(***************************************************************************)
(* What a report has captured.                                             *)
(***************************************************************************)
LEMMA GenerationMoves ==
  ASSUME Typed, [PullNext]_pullVars
  PROVE  generation <= generation' /\ (generation' = generation => index' = index)
<1>0. generation \in Nat /\ generation <= generation
  BY DEF Typed, StoresTyped
<1>1. ASSUME NEW u, NEW t, Indexed(u, t)
      PROVE  generation <= generation' /\ (generation' = generation => index' = index)
  <2>1. CASE index[u] = t
    <3>1. index \in [Uris -> Text]
      BY DEF Typed, StoresTyped
    <3> QED
      BY <1>0, <1>1, <2>1, <3>1 DEF Indexed
  <2>2. CASE index[u] # t
    BY <1>0, <1>1, <2>2 DEF Indexed
  <2> QED
    BY <2>1, <2>2
<1>2. CASE UNCHANGED <<generation, index>>
  BY <1>0, <1>2
<1>3. CASE Indexes
  BY <1>1, <1>2, <1>3 DEF Indexes
<1>4. CASE Restores
  BY <1>1, <1>2, <1>4 DEF Restores
<1>5. CASE Scopes
  BY <1>1, <1>5 DEF Scopes
<1> QED
  BY <1>2, <1>3, <1>4, <1>5
  DEF PullNext, pullVars, stores, Opens, Edits, Closes, FilesChange, FoldersChange, Pulls, PullsClosed, PullsWorkspace,
      Receives, Refreshes, Cancels, ServerUnchanged, Dispatches, RefreshCompleted, TextArrives, Analyses,
      DocumentCloses, FileArrives, FolderArrives, PublishesNext, EndsChange, Takes, ReadsDiagnostics, ReadsRelated,
      AnswersPull, CapturesClosed, ReadsClosedRelated, AnswersClosed, CapturesWorkspace, ReportsNext, AnswersWorkspace,
      OnWorker

\* What was captured at the same generation is the index still.
LEMMA SeenFrame ==
  ASSUME Typed, Typed', Seen, [PullNext]_pullVars,
         UNCHANGED <<job.at, job.seen, job.related, job.todo, job.reports>>
  PROVE  Seen'
<1>1. generation <= generation' /\ (generation' = generation => index' = index)
  BY GenerationMoves
<1>2. generation \in Nat /\ generation' \in Nat
  BY DEF Typed, StoresTyped
<1>3. job.at \in {"closed", "commit closed", "reporting"} => job.seen.generation \in Nat
  BY DEF Typed, WorkerTyped, View
<1> DEFINE watching == job.at \in {"closed", "commit closed", "reporting"}
<1>4. ASSUME watching
      PROVE  job.seen.generation <= generation' /\ (job.seen.generation = generation' => job.seen.index = index')
  <2>1. /\ job.seen.generation <= generation
        /\ job.seen.generation = generation => job.seen.index = index
    BY <1>4 DEF Seen
  <2> DEFINE n == job.seen.generation
  <2>4. n \in Nat /\ n <= generation
    BY <1>3, <1>4, <2>1
  <2> HIDE DEF n
  <2>5. n <= generation' /\ (n = generation' => generation = generation')
    BY <1>1, <1>2, <2>4
  <2>2. job.seen.generation <= generation'
    BY <2>5 DEF n
  <2>3. job.seen.generation = generation' => generation = generation'
    BY <2>5 DEF n
  <2> QED
    BY <1>1, <2>1, <2>2, <2>3
<1> QED
  BY <1>4 DEF Seen

LEMMA SeenIdle ==
  ASSUME Typed', job'.at \notin {"closed", "commit closed", "reporting"}, job'.reports = <<>>
  PROVE  Seen'
  BY DEF Seen

LEMMA SeenStep ==
  ASSUME Typed, Typed', Seen, [PullNext]_pullVars
  PROVE  Seen'
<1>0. job \in Jobs
  BY DEF Typed, WorkerTyped
<1>1. ASSUME UNCHANGED job PROVE Seen'
  BY <1>1, SeenFrame
<1>2. ASSUME Cancels PROVE Seen'
  <2>1. job' = [job EXCEPT !.cancelled = TRUE]
    BY <1>2 DEF Cancels
  <2>2. UNCHANGED <<job.at, job.seen, job.related, job.todo, job.reports>>
    BY <1>0, <2>1 DEF Jobs
  <2> QED
    BY <2>2, SeenFrame
<1>3. ASSUME job' = Idle PROVE Seen'
  BY <1>3, SeenIdle DEF Idle
<1>4. ASSUME Fails PROVE Seen'
  BY <1>3, <1>4 DEF Fails
<1>5. ASSUME NEW r, Answers(r) PROVE Seen'
  BY <1>3, <1>5 DEF Answers
<1>6. ASSUME Takes PROVE Seen'
  <2>1. job' = [Idle EXCEPT !.at = job'.at, !.u = job'.u, !.base = job'.base, !.text = job'.text]
        /\ job'.at \in {"capturing", "capturing closed", "diagnostics"}
    BY <1>6 DEF Takes, Idle
  <2>2. job'.at \in {"capturing", "capturing closed", "diagnostics"} /\ job'.reports = <<>>
    BY <2>1 DEF Idle
  <2> QED
    BY <2>2, SeenIdle
<1>7. ASSUME ReadsDiagnostics, ~Fails PROVE Seen'
  <2>1. job' = [job EXCEPT !.at = "related", !.read = Diagnosed(job.u)]
    BY <1>7 DEF ReadsDiagnostics, Goes
  <2>2. job'.at = "related" /\ job'.reports = job.reports
    BY <1>0, <2>1 DEF Jobs
  <2> QED
    BY <1>7, <2>2, SeenIdle DEF Seen, ReadsDiagnostics
<1>8. ASSUME ReadsRelated, ~Fails PROVE Seen'
  <2>1. job'.at = "commit" /\ job'.reports = job.reports
    BY <1>0, <1>8 DEF ReadsRelated, Goes, Jobs
  <2> QED
    BY <1>8, <2>1, SeenIdle DEF Seen, ReadsRelated
<1>9. ASSUME CapturesClosed, ~Fails PROVE Seen'
  <2>1. job' = [job EXCEPT !.at = "closed", !.seen = Captured, !.related = Related(job.u, TRUE)]
    BY <1>9 DEF CapturesClosed, Goes
  <2>2. job'.at = "closed" /\ job'.reports = job.reports /\ job'.seen = Captured /\ job'.related = Related(job.u, TRUE)
    BY <1>0, <2>1 DEF Jobs
  <2>3. job.u \in Uris /\ job.at = "capturing closed"
    BY <1>9 DEF CapturesClosed, Typed, WorkerTyped, ClosedStages
  <2>4. UNCHANGED <<generation, index>> /\ generation \in Nat
    BY <1>9 DEF CapturesClosed, OnWorker, stores, Typed, StoresTyped
  <2>5. \A i \in DOMAIN job'.related : \E v \in Uris : job'.related[i].target = index[v].id
    <3>1. Other(job.u) \in Uris
      BY <2>3, OtherIsTheOther
    <3>2. CASE Related(job.u, TRUE) = <<>>
      <4>1. job'.related = <<>> /\ DOMAIN <<>> = {}
        BY <2>2, <3>2, NothingGiven
      <4> QED
        BY <4>1
    <3>3. CASE Related(job.u, TRUE) # <<>>
      <4>1. Related(job.u, TRUE) = <<[target |-> index[Other(job.u)].id, span |-> index[Other(job.u)].span]>>
        BY <3>3 DEF Related
      <4> DEFINE l == [target |-> index[Other(job.u)].id, span |-> index[Other(job.u)].span]
      <4>2. l.target = index[Other(job.u)].id /\ job'.related = <<l>>
        BY <2>2, <4>1
      <4> HIDE DEF l
      <4>3. \A i \in DOMAIN <<l>> : <<l>>[i] = l
        OBVIOUS
      <4>4. \A i \in DOMAIN job'.related : job'.related[i] = l
        BY <4>2, <4>3
      <4> QED
        BY <3>1, <4>2, <4>4
    <3> QED
      BY <3>2, <3>3
  <2>6. Captured.generation = generation /\ Captured.index = index
    BY CapturedTyped
  <2>7. job'.seen.generation = generation' /\ job'.seen.index = index' /\ generation' \in Nat
    BY <2>2, <2>4, <2>6
  <2>8. job'.seen.generation <= generation'
    BY <2>7
  <2>9. \A i \in DOMAIN job'.related : \E v \in Uris : job'.related[i].target = job'.seen.index[v].id
    BY <2>4, <2>5, <2>7
  <2>10. job'.at = "closed" /\ job'.reports = <<>>
    BY <2>2, <2>3 DEF Seen
  <2> QED
    BY <2>7, <2>8, <2>9, <2>10 DEF Seen
<1>10. ASSUME ReadsClosedRelated, ~Fails PROVE Seen'
  <2>1. /\ job.at = "closed" /\ job'.at = "commit closed"
        /\ UNCHANGED <<job.seen, job.related, job.todo, job.reports>>
    BY <1>0, <1>10 DEF ReadsClosedRelated, Goes, Jobs
  <2>2. UNCHANGED <<generation, index>>
    BY <1>10 DEF ReadsClosedRelated, OnWorker, stores
  <2> QED
    BY <2>1, <2>2 DEF Seen
<1>11. ASSUME CapturesWorkspace, ~Fails PROVE Seen'
  <2>1. job' = [job EXCEPT !.at = "reporting", !.seen = Captured, !.todo = Captured.documents] /\ job.at = "capturing"
    BY <1>11 DEF CapturesWorkspace
  <2>2. /\ job'.at = "reporting" /\ job'.seen = Captured /\ job'.todo = Captured.documents
        /\ job'.reports = job.reports
    BY <1>0, <2>1 DEF Jobs
  <2>3. UNCHANGED <<generation, index>> /\ generation \in Nat
    BY <1>11 DEF CapturesWorkspace, OnWorker, stores, Typed, StoresTyped
  <2>4. job.reports = <<>> /\ DOMAIN job.reports = {}
    BY <2>1, NothingGiven DEF Seen
  <2>5. Captured.generation = generation /\ Captured.index = index
    BY CapturedTyped
  <2>7. job'.seen.generation = generation' /\ job'.seen.index = index' /\ generation' \in Nat
    BY <2>2, <2>3, <2>5
  <2>8. job'.seen.generation <= generation'
    BY <2>7
  <2>9. DOMAIN job'.reports = job'.seen.documents \ job'.todo /\ job'.todo \subseteq job'.seen.documents
    BY <2>2, <2>4
  <2>10. job'.at = "reporting"
    BY <2>2
  <2> QED
    BY <2>7, <2>8, <2>9, <2>10 DEF Seen
<1>12. ASSUME ReportsNext, ~Fails PROVE Seen'
  <2>0. PICK u \in job.todo :
          job' = [job EXCEPT !.todo = job.todo \ {u},
                             !.reports = [w \in DOMAIN job.reports \cup {u} |->
                                            IF w = u THEN Diagnosed(u) ELSE job.reports[w]]]
    BY <1>12 DEF ReportsNext, Goes
  <2>1. PICK given :
          /\ job' = [job EXCEPT !.todo = job.todo \ {u}, !.reports = given]
          /\ DOMAIN given = DOMAIN job.reports \cup {u}
    <3> DEFINE all == [w \in DOMAIN job.reports \cup {u} |-> IF w = u THEN Diagnosed(u) ELSE job.reports[w]]
    <3>1. job' = [job EXCEPT !.todo = job.todo \ {u}, !.reports = all]
      BY <2>0
    <3>2. DOMAIN all = DOMAIN job.reports \cup {u}
      OBVIOUS
    <3> HIDE DEF all
    <3> QED
      BY <3>1, <3>2
  <2>2. job.at = "reporting" /\ job'.at = "reporting" /\ job'.seen = job.seen
        /\ job'.todo = job.todo \ {u} /\ job'.reports = given
    BY <1>0, <1>12, <2>1 DEF ReportsNext, Jobs
  <2>3. UNCHANGED <<generation, index>>
    BY <1>12 DEF ReportsNext, OnWorker, stores
  <2> QED
    BY <2>1, <2>2, <2>3 DEF Seen
<1>13. ASSUME AnswersPull \/ AnswersClosed \/ AnswersWorkspace PROVE Seen'
  BY <1>4, <1>5, <1>13 DEF AnswersPull, AnswersClosed, AnswersWorkspace
<1> QED
  BY <1>1, <1>2, <1>4, <1>6, <1>7, <1>8, <1>9, <1>10, <1>11, <1>12, <1>13
  DEF PullNext, pullVars, Opens, Edits, Closes, FilesChange, FoldersChange, Pulls, PullsClosed, PullsWorkspace, Receives,
      Refreshes, ServerUnchanged, Dispatches, RefreshCompleted, TextArrives, Analyses, Indexes, DocumentCloses,
      FileArrives, Restores, FolderArrives, Scopes, PublishesNext, EndsChange, OnMain

\* A report that is given refers to texts that are indexed.
LEMMA ReportsStep ==
  ASSUME Typed, Typed', Stores, Seen, [PullNext]_pullVars
  PROVE  OfOneWorkspace
<1> DEFINE r == replies'[Len(replies')]
<1> DEFINE given == IF r.k = "closed" THEN Range(r.related)
                    ELSE IF r.k = "workspace"
                    THEN UNION {Range(job.reports[u].related) : u \in job.seen.documents} ELSE {}
<1> SUFFICES ASSUME Len(replies') > Len(replies)
             PROVE  /\ \A d \in given : d.target # 0 => d.target \in {index[u].id : u \in Uris}
                    /\ r.k = "workspace" =>
                         \A u \in scope : doc[u] # NoText =>
                           u \in DOMAIN job.reports /\ job.reports[u].of \in {0, doc[u].id}
  BY DEF OfOneWorkspace
<1>0. replies \in Seq(Reply)
  BY DEF Typed, ClientTyped
<1>1. CASE UNCHANGED replies
  BY <1>0, <1>1
<1>2. CASE Receives
  BY <1>0, <1>2 DEF Receives
<1>3. ASSUME NEW e, replies' = Append(replies, e) PROVE r = e
  BY <1>0, <1>3
<1> HIDE DEF r
<1>4. CASE Fails
  <2>1. r.k = "error"
    BY <1>3, <1>4 DEF Fails
  <2> QED
    BY <2>1
<1>5. CASE AnswersPull /\ ~Fails
  <2>1. PICK k \in {"unchanged", "full"} : r = [k |-> k, u |-> job.u, report |-> Report(job.text, job.read)]
    BY <1>3, <1>5 DEF AnswersPull, Answers
  <2>2. r.k \in {"unchanged", "full"}
    BY <2>1
  <2> QED
    BY <2>2
<1>6. CASE AnswersClosed /\ ~Fails
  <2>1. r = [k |-> "closed", u |-> job.u, related |-> job.related]
    BY <1>3, <1>6 DEF AnswersClosed, Answers
  <2>2. job.at = "commit closed" /\ job.seen.generation = generation
    BY <1>6 DEF AnswersClosed
  <2>3. \A i \in DOMAIN job.related : \E v \in Uris : job.related[i].target = index[v].id
    BY <2>2 DEF Seen
  <2>4. given = Range(job.related)
    BY <2>1
  <2> QED
    BY <2>1, <2>3, <2>4 DEF Range
<1>7. CASE AnswersWorkspace /\ ~Fails
  <2>1. r = [k |-> "workspace", u |-> job.u]
    BY <1>3, <1>7 DEF AnswersWorkspace, Answers
  <2>2. /\ job.at = "reporting" /\ job.todo = {} /\ main.at # "publishing"
        /\ job.seen.documents = {u \in scope : doc[u] # NoText}
        /\ \A u \in job.seen.documents : StillStored(u, job.reports[u])
    BY <1>7 DEF AnswersWorkspace, WorkspaceCurrent, WorkspaceCurrentSubset
  <2>3. DOMAIN job.reports = job.seen.documents
    BY <2>2 DEF Seen
  <2>4. ASSUME NEW u \in job.seen.documents
        PROVE  /\ job.reports[u].of \in {0, doc[u].id}
               /\ \A d \in Range(job.reports[u].related) : d.target # 0 => d.target \in {index[w].id : w \in Uris}
    <3>1. u \in Uris
      BY <2>2 DEF Typed, StoresTyped
    <3>2. CASE job.reports[u] = NoDiagnostics
      BY <3>2, NothingTyped, InRanges
    <3>3. CASE job.reports[u] # NoDiagnostics
      <4>1. job.reports[u] = Diagnosed(u) /\ Diagnosed(u) = diagnostics[u] /\ diagnostics[u].of = doc[u].id
        BY <2>2, <3>3 DEF StillStored, Diagnosed
      <4>2. ~(main.at \in {"analysing"} /\ main.u = u)
        BY <3>1, <3>3, <4>1 DEF Stores, Opened
      <4>3. diagnostics[u].related # <<>> => \E g \in BOOLEAN : diagnostics[u].related = Points(index, u, g)
        BY <2>2, <3>1 DEF Stores, Pointed, Published, Opened
      <4>4. \A d \in Range(diagnostics[u].related) : d.target # 0 => d.target = index[Other(u)].id
        <5>1. CASE diagnostics[u].related = <<>>
          BY <5>1, InRanges
        <5>2. CASE diagnostics[u].related # <<>>
          <6>1. PICK g \in BOOLEAN : diagnostics[u].related = Points(index, u, g)
            BY <4>3, <5>2
          <6>2. diagnostics[u].related =
                  <<[target |-> IF g THEN index[Other(u)].id ELSE 0, span |-> index[Other(u)].span]>>
            BY <5>2, <6>1 DEF Points
          <6>3. \A d \in Range(diagnostics[u].related) : d.target = IF g THEN index[Other(u)].id ELSE 0
            BY <6>2 DEF Range
          <6> QED
            BY <6>3
        <5> QED
          BY <5>1, <5>2
      <4> QED
        BY <3>1, <4>1, <4>4, OtherIsTheOther
    <3> QED
      BY <3>2, <3>3
  <2>5. given = UNION {Range(job.reports[u].related) : u \in job.seen.documents}
    BY <2>1
  <2> QED
    BY <2>1, <2>2, <2>3, <2>4, <2>5
<1>8. CASE (AnswersPull \/ AnswersClosed \/ AnswersWorkspace) /\ Fails
  BY <1>4, <1>8
<1> QED
  BY <1>1, <1>2, <1>4, <1>5, <1>6, <1>7
  DEF PullNext, pullVars, client, Opens, Edits, Closes, FilesChange, FoldersChange, Pulls, PullsClosed, PullsWorkspace, Refreshes,
      Cancels, ServerUnchanged, Dispatches, RefreshCompleted, TextArrives, Analyses, Indexes, DocumentCloses,
      FileArrives, Restores, FolderArrives, Scopes, PublishesNext, EndsChange, OnMain,
      Takes, ReadsDiagnostics, ReadsRelated, CapturesClosed, ReadsClosedRelated, CapturesWorkspace, ReportsNext, Goes

LEMMA InitStores ==
  ASSUME PullInit
  PROVE  Stores /\ Seen /\ Paired
<1>1. /\ Typed /\ doc = index /\ doc = semantics /\ made = 4 /\ generation = 0 /\ scope = Uris
      /\ \A u \in Uris : /\ doc[u] = NoText <=> u \notin wanted
                         /\ u \in wanted => doc[u].id \in {1, 2}
                         /\ diagnostics[u] = IF u \in wanted THEN Stored(doc[u], made, Related(u, TRUE)) ELSE NoDiagnostics
  BY InitTyped
<1>2. main.at = "idle" /\ job = Idle /\ progress = <<>> /\ replies = <<>>
  BY DEF PullInit, Waiting
<1>3. index \in [Uris -> Text]
  BY <1>1 DEF Typed, StoresTyped
<1>11. \A v \in Uris :
         IF v \in wanted
         THEN /\ doc[v] # NoText /\ doc[v].id \in {1, 2} /\ diagnostics[v].of = doc[v].id
         ELSE doc[v] = NoText /\ doc[v].id = 0 /\ diagnostics[v] = NoDiagnostics
  <2> TAKE v \in Uris
  <2> DEFINE r == IF index[v].link /\ index[Other(v)] # NoText
                 THEN <<[target |-> index[Other(v)].id, span |-> index[Other(v)].span]>> ELSE <<>>
  <2>1. ASSUME v \in wanted PROVE diagnostics[v].of = doc[v].id
    <3>1. diagnostics[v] = Stored(doc[v], made, r)
      BY <1>1, <2>1 DEF Related
    <3> QED
      BY <3>1 DEF Stored
  <2>2. NoText.id = 0
    BY DEF NoText
  <2> QED
    BY <1>1, <2>1, <2>2
<1>4. Fresh
  <2> SUFFICES ASSUME NEW v \in Uris PROVE (doc[v].id = 0 => doc[v] = NoText) /\ doc[v].id <= 4
    BY <1>1 DEF Fresh
  <2>1. CASE v \in wanted
    BY <1>11, <2>1
  <2>2. CASE v \notin wanted
    BY <1>11, <2>2
  <2> QED
    BY <2>1, <2>2
<1>5. Opened
  BY <1>1, <1>2, <1>11 DEF Opened, BeingIndexed
<1>6. Held
  BY <1>1, <1>2 DEF Held, BeingScoped, BeingIndexed
<1>7. Generations
  BY <1>2 DEF Generations
<1>8. Pointed
  <2> SUFFICES ASSUME NEW v \in Uris
               PROVE  /\ diagnostics[v].related # <<>> => index[v] # NoText /\ diagnostics[v].of = index[v].id
                      /\ doc[v] # NoText => /\ diagnostics[v].related = Points(index, v, TRUE)
                                            /\ diagnostics[v].related = Points(index, v, doc[Other(v)] # NoText)
    BY <1>2 DEF Pointed
  <2>1. CASE v \notin wanted
    <3>1. diagnostics[v].related = <<>> /\ doc[v] = NoText
      BY <1>11, <2>1, NothingTyped
    <3> QED
      BY <3>1
  <2>2. CASE v \in wanted
    <3>1. index[v] # NoText /\ diagnostics[v].of = index[v].id
      BY <1>1, <1>11, <2>2
    <3>2. diagnostics[v].related =
            IF index[v].link /\ index[Other(v)] # NoText
            THEN <<[target |-> index[Other(v)].id, span |-> index[Other(v)].span]>> ELSE <<>>
      <4>1. diagnostics[v] = Stored(doc[v], made, Related(v, TRUE))
        BY <1>1, <2>2
      <4> QED
        BY <4>1 DEF Stored, Related
    <3>3. index[Other(v)] = NoText <=> doc[Other(v)] = NoText
      BY <1>1
    <3> QED
      BY <3>1, <3>2, <3>3 DEF Points
  <2> QED
    BY <2>1, <2>2
<1>9. Seen
  BY <1>2 DEF Seen, Idle
<1>10. Paired
  BY <1>2, InRanges DEF Paired, Idle
<1> QED
  BY <1>4, <1>5, <1>6, <1>7, <1>8, <1>9, <1>10 DEF Stores

LEMMA TypedStep ==
  ASSUME Typed, [PullNext]_pullVars
  PROVE  Typed'
<1>1. ASSUME UNCHANGED pullVars PROVE Typed'
  BY <1>1 DEF pullVars, client, stores, Typed, ClientTyped, StoresTyped, MainTyped, WorkerTyped, Waiting, Idle, NoDiagnostics, Stored
<1> QED
  BY <1>1, ClientStepTyped, MainStepTyped, WorkerStepTyped DEF PullNext, ClientStep, MainStep, WorkerStep

(***************************************************************************)
(* Sequences of messages.                                                  *)
(***************************************************************************)
LEMMA TailIs ==
  ASSUME NEW S, NEW s \in Seq(S), s # <<>>
  PROVE  /\ Tail(s) \in Seq(S) /\ Len(Tail(s)) = Len(s) - 1 /\ Head(s) = s[1] /\ Len(s) \in Nat /\ Len(s) # 0
         /\ \A i \in 1 .. Len(s) - 1 : Tail(s)[i] = s[i + 1]
         /\ DOMAIN s = 1 .. Len(s) /\ DOMAIN Tail(s) = 1 .. Len(s) - 1
  OBVIOUS

LEMMA AppendIs ==
  ASSUME NEW S, NEW s \in Seq(S), NEW e \in S
  PROVE  /\ Append(s, e) \in Seq(S) /\ Len(s) \in Nat
         /\ DOMAIN s = 1 .. Len(s) /\ DOMAIN Append(s, e) = 1 .. Len(s) + 1
         /\ \A i \in 1 .. Len(s) : Append(s, e)[i] = s[i]
         /\ Append(s, e)[Len(s) + 1] = e
  OBVIOUS

LEMMA HasTail ==
  ASSUME NEW S, NEW s \in Seq(S), s # <<>>, NEW A
  PROVE  Has(s, A) <=> Head(s) \in A \/ Has(Tail(s), A)
<1>1. ASSUME Has(s, A) PROVE Head(s) \in A \/ Has(Tail(s), A)
  <2>1. PICK i \in DOMAIN s : s[i] \in A
    BY <1>1 DEF Has
  <2>2. CASE i = 1
    BY <2>1, <2>2, TailIs
  <2>3. CASE i # 1
    <3>1. i - 1 \in DOMAIN Tail(s) /\ Tail(s)[i - 1] = s[i]
      BY <2>1, <2>3, TailIs
    <3> QED
      BY <2>1, <3>1 DEF Has
  <2> QED
    BY <2>2, <2>3
<1>2. ASSUME Head(s) \in A PROVE Has(s, A)
  <2>1. 1 \in DOMAIN s /\ s[1] \in A
    BY <1>2, TailIs
  <2> QED
    BY <2>1 DEF Has
<1>3. ASSUME Has(Tail(s), A) PROVE Has(s, A)
  <2>1. PICK i \in DOMAIN Tail(s) : Tail(s)[i] \in A
    BY <1>3 DEF Has
  <2>2. i + 1 \in DOMAIN s /\ s[i + 1] \in A
    BY <2>1, TailIs
  <2> QED
    BY <2>2 DEF Has
<1> QED
  BY <1>1, <1>2, <1>3

LEMMA HasAppend ==
  ASSUME NEW S, NEW s \in Seq(S), NEW e \in S, NEW A
  PROVE  Has(Append(s, e), A) <=> Has(s, A) \/ e \in A
<1>1. ASSUME Has(Append(s, e), A) PROVE Has(s, A) \/ e \in A
  <2>1. PICK i \in DOMAIN Append(s, e) : Append(s, e)[i] \in A
    BY <1>1 DEF Has
  <2>2. CASE i = Len(s) + 1
    BY <2>1, <2>2, AppendIs
  <2>3. CASE i # Len(s) + 1
    <3>1. i \in DOMAIN s /\ s[i] \in A
      BY <2>1, <2>3, AppendIs
    <3> QED
      BY <3>1 DEF Has
  <2> QED
    BY <2>2, <2>3
<1>2. ASSUME Has(s, A) PROVE Has(Append(s, e), A)
  <2>1. PICK i \in DOMAIN s : s[i] \in A
    BY <1>2 DEF Has
  <2>2. i \in DOMAIN Append(s, e) /\ Append(s, e)[i] \in A
    BY <2>1, AppendIs
  <2> QED
    BY <2>2 DEF Has
<1>3. ASSUME e \in A PROVE Has(Append(s, e), A)
  <2>1. Len(s) + 1 \in DOMAIN Append(s, e) /\ Append(s, e)[Len(s) + 1] \in A
    BY <1>3, AppendIs
  <2> QED
    BY <2>1 DEF Has
<1> QED
  BY <1>1, <1>2, <1>3

LEMMA OneTail ==
  ASSUME NEW S, NEW s \in Seq(S), s # <<>>, NEW A, AtMostOne(s, A)
  PROVE  AtMostOne(Tail(s), A) /\ (Head(s) \in A => ~Has(Tail(s), A))
<1>1. ASSUME NEW i \in DOMAIN Tail(s), Tail(s)[i] \in A
      PROVE  i + 1 \in DOMAIN s /\ s[i + 1] \in A /\ i \in Nat
  BY <1>1, TailIs
<1>2. AtMostOne(Tail(s), A)
  <2> SUFFICES ASSUME NEW i \in DOMAIN Tail(s), NEW j \in DOMAIN Tail(s), Tail(s)[i] \in A, Tail(s)[j] \in A
               PROVE  i = j
    BY DEF AtMostOne
  <2>1. i + 1 = j + 1
    BY <1>1 DEF AtMostOne
  <2> QED
    BY <1>1, <2>1
<1>3. ASSUME Head(s) \in A, Has(Tail(s), A) PROVE FALSE
  <2>1. PICK i \in DOMAIN Tail(s) : Tail(s)[i] \in A
    BY <1>3 DEF Has
  <2>2. 1 \in DOMAIN s /\ s[1] \in A
    BY <1>3, TailIs
  <2>3. i + 1 = 1 /\ i \in Nat /\ i # 0
    BY <1>1, <2>1, <2>2, TailIs DEF AtMostOne
  <2> QED
    BY <2>3
<1> QED
  BY <1>2, <1>3

LEMMA OneAppend ==
  ASSUME NEW S, NEW s \in Seq(S), NEW e \in S, NEW A, AtMostOne(s, A), e \in A => ~Has(s, A)
  PROVE  AtMostOne(Append(s, e), A)
<1> SUFFICES ASSUME NEW i \in DOMAIN Append(s, e), NEW j \in DOMAIN Append(s, e),
                    Append(s, e)[i] \in A, Append(s, e)[j] \in A
             PROVE  i = j
  BY DEF AtMostOne
<1>1. \A n \in DOMAIN Append(s, e) : n = Len(s) + 1 \/ n \in DOMAIN s
  BY AppendIs
<1>2. CASE i \in DOMAIN s /\ j \in DOMAIN s
  BY <1>2, AppendIs DEF AtMostOne
<1>3. CASE i = Len(s) + 1 /\ j \in DOMAIN s
  BY <1>3, AppendIs DEF Has
<1>4. CASE j = Len(s) + 1 /\ i \in DOMAIN s
  BY <1>4, AppendIs DEF Has
<1> QED
  BY <1>1, <1>2, <1>3, <1>4

LEMMA FollowedTail ==
  ASSUME NEW S, NEW s \in Seq(S), s # <<>>, NEW A, NEW B, Followed(s, A, B)
  PROVE  Followed(Tail(s), A, B) /\ (Head(s) \in A => Has(Tail(s), B))
<1>1. ASSUME NEW i \in DOMAIN s, s[i] \in A
      PROVE  \E j \in DOMAIN Tail(s) : j > i - 1 /\ Tail(s)[j] \in B
  <2>1. PICK j \in DOMAIN s : j > i /\ s[j] \in B
    BY <1>1 DEF Followed
  <2>2. j - 1 \in DOMAIN Tail(s) /\ j - 1 > i - 1 /\ Tail(s)[j - 1] = s[j]
    BY <2>1, TailIs
  <2> QED
    BY <2>1, <2>2
<1>2. Followed(Tail(s), A, B)
  <2> SUFFICES ASSUME NEW i \in DOMAIN Tail(s), Tail(s)[i] \in A
               PROVE  \E j \in DOMAIN Tail(s) : j > i /\ Tail(s)[j] \in B
    BY DEF Followed
  <2>1. i + 1 \in DOMAIN s /\ s[i + 1] \in A /\ i \in Nat
    BY TailIs
  <2>2. PICK j \in DOMAIN Tail(s) : j > (i + 1) - 1 /\ Tail(s)[j] \in B
    BY <1>1, <2>1
  <2>3. (i + 1) - 1 = i
    BY <2>1
  <2> QED
    BY <2>2, <2>3
<1>3. ASSUME Head(s) \in A PROVE Has(Tail(s), B)
  <2>1. 1 \in DOMAIN s /\ s[1] \in A
    BY <1>3, TailIs
  <2> QED
    BY <1>1, <2>1 DEF Has
<1> QED
  BY <1>2, <1>3

LEMMA FollowedAppend ==
  ASSUME NEW S, NEW s \in Seq(S), NEW e \in S, NEW A, NEW B, e \notin A, Followed(s, A, B) \/ e \in B
  PROVE  Followed(Append(s, e), A, B)
<1> SUFFICES ASSUME NEW i \in DOMAIN Append(s, e), Append(s, e)[i] \in A
             PROVE  \E j \in DOMAIN Append(s, e) : j > i /\ Append(s, e)[j] \in B
  BY DEF Followed
<1>1. i \in DOMAIN s /\ s[i] \in A /\ i \in Nat /\ i < Len(s) + 1
  BY AppendIs
<1>2. CASE e \in B
  <2>1. Len(s) + 1 \in DOMAIN Append(s, e) /\ Append(s, e)[Len(s) + 1] \in B /\ Len(s) + 1 > i
    BY <1>1, <1>2, AppendIs
  <2> QED
    BY <2>1
<1>3. CASE Followed(s, A, B)
  <2>1. PICK j \in DOMAIN s : j > i /\ s[j] \in B
    BY <1>1, <1>3 DEF Followed
  <2>2. j \in DOMAIN Append(s, e) /\ Append(s, e)[j] = s[j]
    BY AppendIs
  <2> QED
    BY <2>1, <2>2
<1> QED
  BY <1>2, <1>3

LEMMA NoneFollowed ==
  ASSUME NEW s, NEW A, NEW B, Followed(s, A, B), ~Has(s, B)
  PROVE  ~Has(s, A)
  BY DEF Followed, Has

LEMMA NothingSent ==
  ASSUME NEW A, NEW B
  PROVE  ~Has(<<>>, A) /\ AtMostOne(<<>>, A) /\ Followed(<<>>, A, B)
  BY NothingGiven DEF Has, AtMostOne, Followed

LEMMA HasMore ==
  ASSUME NEW s, NEW A, NEW B, A \subseteq B, Has(s, A)
  PROVE  Has(s, B)
  BY DEF Has

(***************************************************************************)
(* What the client has asked for is on its way.                            *)
(***************************************************************************)
LEMMA Apart ==
  ASSUME NEW u
  PROVE  /\ \A m \in TextsOf(u) : m \notin ClosesOf(u) /\ m \notin PullsOf(u) /\ m # Acknowledged
         /\ \A m \in ClosesOf(u) : m \notin TextsOf(u) /\ m \notin PullsOf(u) /\ m # Acknowledged
         /\ \A m \in PullsOf(u) : m \notin Stirs(u) /\ m \notin TextsOf(u) /\ m \notin ClosesOf(u) /\ m # Acknowledged
         /\ Acknowledged \notin TextsOf(u) /\ Acknowledged \notin ClosesOf(u) /\ Acknowledged \notin PullsOf(u)
         /\ TextsOf(u) \subseteq Stirs(u) /\ ClosesOf(u) \subseteq Stirs(u) /\ {Acknowledged} \subseteq Stirs(u)
  BY DEF TextsOf, ClosesOf, PullsOf, Stirs, Acknowledged

LEMMA AppendMirrored ==
  ASSUME Typed, Mirrored, NEW m \in Message, wire' = Append(wire, m), doc' = doc,
         \A u \in wanted' : (u \in wanted /\ m \notin ClosesOf(u)) \/ m \in TextsOf(u),
         \A u \in wanted' \ dirty' : (u \in wanted \ dirty /\ m \notin Stirs(u)) \/ m \in PullsOf(u),
         \/ m # Acknowledged /\ refresh' = refresh
         \/ m = Acknowledged /\ refresh = "sent" /\ refresh' = "acknowledged"
  PROVE  Mirrored'
<1>0. wire \in Seq(Message)
  BY DEF Typed, ClientTyped
<1>1. ASSUME NEW u \in wanted'
      PROVE  Followed(wire', ClosesOf(u), TextsOf(u)) /\ (Has(wire', TextsOf(u)) \/ doc'[u] # NoText)
  <2>1. CASE m \in TextsOf(u)
    <3>1. m \notin ClosesOf(u)
      BY <2>1, Apart
    <3> QED
      BY <1>0, <2>1, <3>1, FollowedAppend, HasAppend
  <2>2. CASE u \in wanted /\ m \notin ClosesOf(u)
    <3>1. Followed(wire, ClosesOf(u), TextsOf(u)) /\ (Has(wire, TextsOf(u)) \/ doc[u] # NoText)
      BY <2>2 DEF Mirrored
    <3> QED
      BY <1>0, <2>2, <3>1, FollowedAppend, HasAppend
  <2> QED
    BY <1>1, <2>1, <2>2
<1>2. ASSUME NEW u \in wanted' \ dirty'
      PROVE  Followed(wire', Stirs(u), PullsOf(u))
  <2>1. CASE m \in PullsOf(u)
    <3>1. m \notin Stirs(u)
      BY <2>1, Apart
    <3> QED
      BY <1>0, <2>1, <3>1, FollowedAppend
  <2>2. CASE u \in wanted \ dirty /\ m \notin Stirs(u)
    <3>1. Followed(wire, Stirs(u), PullsOf(u))
      BY <2>2 DEF Mirrored
    <3> QED
      BY <1>0, <2>2, <3>1, FollowedAppend
  <2> QED
    BY <1>2, <2>1, <2>2
<1>3. Has(wire', {Acknowledged}) <=> (Has(wire, {Acknowledged}) \/ m = Acknowledged)
  BY <1>0, HasAppend
<1>4. Has(wire', {Acknowledged}) <=> refresh' = "acknowledged"
  BY <1>3 DEF Mirrored
<1>5. AtMostOne(wire', {Acknowledged})
  <2>1. m \in {Acknowledged} => ~Has(wire, {Acknowledged})
    BY DEF Mirrored
  <2> QED
    BY <1>0, <2>1, OneAppend DEF Mirrored
<1> QED
  BY <1>1, <1>2, <1>4, <1>5 DEF Mirrored

LEMMA TailMirrored ==
  ASSUME Typed, Mirrored, wire # <<>>, wire' = Tail(wire), UNCHANGED <<wanted, dirty>>,
         \A u \in wanted : \/ doc'[u] # NoText
                           \/ doc'[u] = doc[u] /\ Head(wire) \notin TextsOf(u)
                           \/ Head(wire) \in ClosesOf(u),
         refresh' = IF Head(wire) = Acknowledged THEN "none" ELSE refresh
  PROVE  Mirrored'
<1>0. wire \in Seq(Message)
  BY DEF Typed, ClientTyped
<1>1. ASSUME NEW u \in wanted
      PROVE  Followed(wire', ClosesOf(u), TextsOf(u)) /\ (Has(wire', TextsOf(u)) \/ doc'[u] # NoText)
  <2>1. Followed(wire, ClosesOf(u), TextsOf(u)) /\ (Has(wire, TextsOf(u)) \/ doc[u] # NoText)
    BY <1>1 DEF Mirrored
  <2>2. Followed(wire', ClosesOf(u), TextsOf(u)) /\ (Head(wire) \in ClosesOf(u) => Has(wire', TextsOf(u)))
    BY <1>0, <2>1, FollowedTail
  <2>3. Has(wire, TextsOf(u)) => Head(wire) \in TextsOf(u) \/ Has(wire', TextsOf(u))
    BY <1>0, HasTail
  <2> QED
    BY <1>1, <2>1, <2>2, <2>3
<1>2. ASSUME NEW u \in wanted \ dirty
      PROVE  Followed(wire', Stirs(u), PullsOf(u))
  <2>1. Followed(wire, Stirs(u), PullsOf(u))
    BY <1>2 DEF Mirrored
  <2> QED
    BY <1>0, <2>1, FollowedTail
<1>3. Has(wire, {Acknowledged}) <=> (Head(wire) = Acknowledged \/ Has(wire', {Acknowledged}))
  BY <1>0, HasTail
<1>4. AtMostOne(wire', {Acknowledged}) /\ (Head(wire) = Acknowledged => ~Has(wire', {Acknowledged}))
  BY <1>0, OneTail DEF Mirrored
<1>5. Has(wire', {Acknowledged}) <=> refresh' = "acknowledged"
  BY <1>3, <1>4 DEF Mirrored
<1> QED
  BY <1>1, <1>2, <1>4, <1>5 DEF Mirrored

LEMMA StillMirrored ==
  ASSUME Mirrored, UNCHANGED <<wire, doc, wanted>>, dirty \subseteq dirty',
         refresh' = "acknowledged" <=> refresh = "acknowledged"
  PROVE  Mirrored'
  BY DEF Mirrored

LEMMA NotesTell ==
  ASSUME NEW u, NEW v
  PROVE  /\ [k |-> "text", u |-> u] \in TextsOf(v) <=> u = v
         /\ [k |-> "text", u |-> u] \notin ClosesOf(v)
         /\ [k |-> "text", u |-> u] \in Stirs(v) <=> u = v
         /\ [k |-> "close", u |-> u] \in ClosesOf(v) <=> u = v
         /\ [k |-> "close", u |-> u] \in Stirs(v) <=> u = v
         /\ [k |-> "close", u |-> u] \notin TextsOf(v)
         /\ [k |-> "text", u |-> u] # Acknowledged /\ [k |-> "close", u |-> u] # Acknowledged
         /\ [k |-> "text", u |-> u] \notin PullsOf(v) /\ [k |-> "close", u |-> u] \notin PullsOf(v)
  BY DEF TextsOf, ClosesOf, Stirs, Acknowledged, PullsOf

\* Messages that stir nothing.
LEMMA OthersTell ==
  ASSUME NEW m, m.k \in {"file", "folder", "pull", "workspace"}, NEW v
  PROVE  m \notin TextsOf(v) /\ m \notin ClosesOf(v) /\ m \notin Stirs(v) /\ m # Acknowledged
         /\ (m \in PullsOf(v) => m.k = "pull" /\ m.u = v)
  BY DEF TextsOf, ClosesOf, Stirs, Acknowledged, PullsOf

LEMMA PullsTell ==
  ASSUME NEW u, NEW v, NEW r \in Reports
  PROVE  [k |-> "pull", u |-> u, base |-> r] \in PullsOf(v) <=> u = v
  BY DEF PullsOf

LEMMA ClientMirrored ==
  ASSUME Typed, Mirrored, ClientStep
  PROVE  Mirrored'
<1> USE DEF Typed, ClientTyped
<1>1. ASSUME Opens PROVE Mirrored'
  <2>1. PICK u \in Uris \ wanted : /\ Sends([k |-> "text", u |-> u])
                                   /\ wanted' = wanted \cup {u} /\ dirty' = dirty \cup {u} /\ ServerUnchanged
    BY <1>1 DEF Opens
  <2>2. PICK m \in Message : m = [k |-> "text", u |-> u]
    BY MessagesTyped
  <2>3. wire' = Append(wire, m) /\ doc' = doc /\ refresh' = refresh /\ m # Acknowledged
    BY <2>1, <2>2, NotesTell DEF Sends, ServerUnchanged, stores
  <2>4. \A v \in wanted' : (v \in wanted /\ m \notin ClosesOf(v)) \/ m \in TextsOf(v)
    BY <2>1, <2>2, NotesTell
  <2>5. \A v \in wanted' \ dirty' : (v \in wanted \ dirty /\ m \notin Stirs(v)) \/ m \in PullsOf(v)
    BY <2>1, <2>2, NotesTell
  <2> QED
    BY <2>3, <2>4, <2>5, AppendMirrored
<1>2. ASSUME Edits PROVE Mirrored'
  <2>1. PICK u \in wanted : /\ Sends([k |-> "text", u |-> u])
                            /\ wanted' = wanted /\ dirty' = dirty \cup {u} /\ ServerUnchanged
    BY <1>2 DEF Edits
  <2>2. PICK m \in Message : m = [k |-> "text", u |-> u]
    BY <2>1, MessagesTyped
  <2>3. wire' = Append(wire, m) /\ doc' = doc /\ refresh' = refresh /\ m # Acknowledged
    BY <2>1, <2>2, NotesTell DEF Sends, ServerUnchanged, stores
  <2>4. \A v \in wanted' : (v \in wanted /\ m \notin ClosesOf(v)) \/ m \in TextsOf(v)
    BY <2>1, <2>2, NotesTell
  <2>5. \A v \in wanted' \ dirty' : (v \in wanted \ dirty /\ m \notin Stirs(v)) \/ m \in PullsOf(v)
    BY <2>1, <2>2, NotesTell
  <2> QED
    BY <2>3, <2>4, <2>5, AppendMirrored
<1>3. ASSUME Closes PROVE Mirrored'
  <2>1. PICK u \in wanted : /\ Sends([k |-> "close", u |-> u])
                            /\ wanted' = wanted \ {u} /\ dirty' = dirty \ {u} /\ ServerUnchanged
    BY <1>3 DEF Closes
  <2>2. PICK m \in Message : m = [k |-> "close", u |-> u]
    BY <2>1, MessagesTyped
  <2>3. wire' = Append(wire, m) /\ doc' = doc /\ refresh' = refresh /\ m # Acknowledged
    BY <2>1, <2>2, NotesTell DEF Sends, ServerUnchanged, stores
  <2>4. \A v \in wanted' : (v \in wanted /\ m \notin ClosesOf(v)) \/ m \in TextsOf(v)
    BY <2>1, <2>2, NotesTell
  <2>5. \A v \in wanted' \ dirty' : (v \in wanted \ dirty /\ m \notin Stirs(v)) \/ m \in PullsOf(v)
    BY <2>1, <2>2, NotesTell
  <2> QED
    BY <2>3, <2>4, <2>5, AppendMirrored
<1>4. ASSUME NEW m \in Message, m.k \in {"file", "folder", "pull", "workspace"}, Sends(m),
             UNCHANGED <<wanted, dirty>>, ServerUnchanged
      PROVE  Mirrored'
  <2>3. wire' = Append(wire, m) /\ doc' = doc /\ refresh' = refresh /\ m # Acknowledged
    BY <1>4, OthersTell DEF Sends, ServerUnchanged, stores
  <2>4. \A v \in wanted' : (v \in wanted /\ m \notin ClosesOf(v)) \/ m \in TextsOf(v)
    BY <1>4, OthersTell
  <2>5. \A v \in wanted' \ dirty' : (v \in wanted \ dirty /\ m \notin Stirs(v)) \/ m \in PullsOf(v)
    BY <1>4, OthersTell
  <2> QED
    BY <2>3, <2>4, <2>5, AppendMirrored
<1>5. ASSUME FilesChange \/ FoldersChange PROVE Mirrored'
  <2>1. PICK u \in Uris : /\ Sends([k |-> "file", u |-> u]) \/ Sends([k |-> "folder", u |-> u])
                          /\ UNCHANGED <<wanted, dirty>> /\ ServerUnchanged
    BY <1>5 DEF FilesChange, FoldersChange
  <2>2. CASE Sends([k |-> "file", u |-> u])
    <3>1. PICK m \in Message : m = [k |-> "file", u |-> u]
      BY MessagesTyped
    <3> QED
      BY <2>1, <2>2, <3>1, <1>4
  <2>3. CASE Sends([k |-> "folder", u |-> u])
    <3>1. PICK m \in Message : m = [k |-> "folder", u |-> u]
      BY MessagesTyped
    <3> QED
      BY <2>1, <2>3, <3>1, <1>4
  <2> QED
    BY <2>1, <2>2, <2>3
<1>6. ASSUME Pulls PROVE Mirrored'
  <2>1. PICK u \in dirty : /\ Sends([k |-> "pull", u |-> u, base |-> shown[u]])
                           /\ dirty' = dirty \ {u} /\ wanted' = wanted /\ ServerUnchanged
    BY <1>6 DEF Pulls
  <2>2. u \in Uris /\ shown[u] \in Reports
    OBVIOUS
  <2>3. PICK m \in Message : m = [k |-> "pull", u |-> u, base |-> shown[u]]
    BY <2>2, MessagesTyped DEF Requests
  <2>4. wire' = Append(wire, m) /\ doc' = doc /\ refresh' = refresh /\ m # Acknowledged
    BY <2>1, <2>3, OthersTell DEF Sends, ServerUnchanged, stores
  <2>5. \A v \in wanted' : (v \in wanted /\ m \notin ClosesOf(v)) \/ m \in TextsOf(v)
    BY <2>1, <2>3, OthersTell
  <2>6. \A v \in wanted' \ dirty' : (v \in wanted \ dirty /\ m \notin Stirs(v)) \/ m \in PullsOf(v)
    BY <2>1, <2>2, <2>3, OthersTell, PullsTell
  <2> QED
    BY <2>4, <2>5, <2>6, AppendMirrored
<1>7. ASSUME PullsClosed PROVE Mirrored'
  <2>1. PICK u \in Uris : /\ Sends([k |-> "pull", u |-> u, base |-> NoReport])
                          /\ UNCHANGED <<wanted, dirty>> /\ ServerUnchanged
    BY <1>7 DEF PullsClosed
  <2>2. PICK m \in Message : m = [k |-> "pull", u |-> u, base |-> NoReport]
    BY NothingTyped, MessagesTyped DEF Requests
  <2> QED
    BY <2>1, <2>2, <1>4
<1>8. ASSUME PullsWorkspace PROVE Mirrored'
  <2>1. PICK m \in Message : m = [k |-> "workspace", u |-> "workspace", base |-> NoReport]
    BY MessagesTyped DEF Requests
  <2> QED
    BY <1>8, <2>1, <1>4 DEF PullsWorkspace
<1>9. ASSUME Receives PROVE Mirrored'
  <2>1. UNCHANGED <<wire, doc, wanted, refresh>> /\ dirty \subseteq dirty'
    BY <1>9 DEF Receives, stores
  <2> QED
    BY <2>1, StillMirrored
<1>10. ASSUME Refreshes PROVE Mirrored'
  <2>1. /\ refresh = "sent" /\ refresh' = "acknowledged" /\ wire' = Append(wire, Acknowledged)
        /\ dirty' = wanted /\ wanted' = wanted /\ doc' = doc
    BY <1>10 DEF Refreshes, Acknowledged, stores
  <2>2. \A v \in wanted' : v \in wanted /\ Acknowledged \notin ClosesOf(v)
    BY <2>1, Apart
  <2>3. wanted' \ dirty' = {}
    BY <2>1
  <2> QED
    BY <2>1, <2>2, <2>3, MessagesTyped, AppendMirrored
<1>11. ASSUME Cancels PROVE Mirrored'
  BY <1>11, StillMirrored DEF Cancels, stores
<1> QED
  BY <1>1, <1>2, <1>3, <1>5, <1>6, <1>7, <1>8, <1>9, <1>10, <1>11 DEF ClientStep

LEMMA MainMirrored ==
  ASSUME Typed, Mirrored, MainStep
  PROVE  Mirrored'
<1> USE DEF Typed, ClientTyped
<1>0. ASSUME OnMain, UNCHANGED <<wire, doc>>, (refresh' = "acknowledged") <=> (refresh = "acknowledged")
      PROVE  Mirrored'
  BY <1>0, StillMirrored DEF OnMain, client
<1>a. ASSUME OnMain, wire # <<>>, wire' = Tail(wire),
             \A u \in wanted : \/ doc'[u] # NoText
                               \/ doc'[u] = doc[u] /\ Head(wire) \notin TextsOf(u)
                               \/ Head(wire) \in ClosesOf(u),
             refresh' = IF Head(wire) = Acknowledged THEN "none" ELSE refresh
      PROVE  Mirrored'
  BY <1>a, TailMirrored DEF OnMain, client
<1>1. ASSUME Dispatches PROVE Mirrored'
  <2>1. Head(wire).k \in {"file", "folder", "pull", "workspace"} /\ UNCHANGED <<doc, refresh>>
    BY <1>1 DEF Dispatches, stores
  <2>2. Head(wire) # Acknowledged /\ \A u \in wanted : Head(wire) \notin TextsOf(u)
    BY <2>1, OthersTell
  <2> QED
    BY <1>1, <1>a, <2>1, <2>2 DEF Dispatches
<1>2. ASSUME RefreshCompleted PROVE Mirrored'
  <2>1. wire # <<>> /\ Head(wire).k = "refreshed" /\ doc' = doc /\ refresh' = "none"
    BY <1>2 DEF RefreshCompleted, stores
  <2>2. Head(wire) = Acknowledged
    BY <2>1, TailTyped, RequestsAreAsked
  <2>3. \A u \in wanted : Head(wire) \notin TextsOf(u)
    BY <2>2, Apart
  <2> QED
    BY <1>2, <1>a, <2>1, <2>2, <2>3 DEF RefreshCompleted
<1>3. ASSUME TextArrives PROVE Mirrored'
  <2>1. PICK u \in Uris, t \in Texts(Id) :
          /\ Reads([k |-> "text", u |-> u]) /\ doc' = [doc EXCEPT ![u] = t] /\ OnMain /\ UNCHANGED refresh
    BY <1>3 DEF TextArrives
  <2>2. t # NoText
    BY MainIs DEF Texts, NoText
  <2>3. ASSUME NEW v \in wanted
        PROVE  doc'[v] # NoText \/ (doc'[v] = doc[v] /\ Head(wire) \notin TextsOf(v))
    <3>1. v # u => Head(wire) \notin TextsOf(v)
      <4>1. Head(wire) = [k |-> "text", u |-> u]
        BY <2>1 DEF Reads
      <4> QED
        BY <4>1 DEF TextsOf, ClosesOf
    <3> QED
      BY <2>1, <2>2, <3>1 DEF StoresTyped
  <2>4. Head(wire) # Acknowledged
    BY <2>1, NotesTell DEF Reads
  <2> QED
    BY <1>a, <2>1, <2>3, <2>4 DEF Reads
<1>4. ASSUME DocumentCloses PROVE Mirrored'
  <2>1. PICK u \in Uris :
          /\ Reads([k |-> "close", u |-> u]) /\ doc' = [doc EXCEPT ![u] = NoText] /\ OnMain /\ UNCHANGED refresh
    BY <1>4 DEF DocumentCloses
  <2>2. ASSUME NEW v \in wanted
        PROVE  Head(wire) \in ClosesOf(v) \/ (doc'[v] = doc[v] /\ Head(wire) \notin TextsOf(v))
    <3>1. Head(wire) \notin TextsOf(v) /\ (v = u => Head(wire) \in ClosesOf(v))
      <4>1. Head(wire) = [k |-> "close", u |-> u]
        BY <2>1 DEF Reads
      <4> QED
        BY <4>1 DEF TextsOf, ClosesOf
    <3> QED
      BY <2>1, <3>1 DEF StoresTyped
  <2>3. Head(wire) # Acknowledged
    BY <2>1, NotesTell DEF Reads
  <2> QED
    BY <1>a, <2>1, <2>2, <2>3 DEF Reads
<1>5. ASSUME FileArrives \/ FolderArrives PROVE Mirrored'
  <2>1. PICK u \in Uris : /\ Reads([k |-> "file", u |-> u]) \/ Reads([k |-> "folder", u |-> u])
                          /\ doc' = doc /\ OnMain /\ UNCHANGED refresh
    BY <1>5 DEF FileArrives, FolderArrives, stores
  <2>2. Head(wire).k \in {"file", "folder", "pull", "workspace"} /\ wire # <<>> /\ wire' = Tail(wire)
    BY <2>1 DEF Reads
  <2>3. Head(wire) # Acknowledged /\ \A v \in wanted : Head(wire) \notin TextsOf(v)
    <3> DEFINE m == Head(wire)
    <3>1. m.k \in {"file", "folder", "pull", "workspace"}
      BY <2>2
    <3> HIDE DEF m
    <3>2. m # Acknowledged /\ \A v \in wanted : m \notin TextsOf(v)
      BY <3>1, OthersTell
    <3> QED
      BY <3>2 DEF m
  <2> QED
    BY <1>a, <2>1, <2>2, <2>3
<1>6. ASSUME EndsChange PROVE Mirrored'
  BY <1>6, <1>0 DEF EndsChange, stores, MustRefresh
<1>7. ASSUME Analyses \/ Indexes \/ Restores \/ Scopes \/ PublishesNext PROVE Mirrored'
  BY <1>7, <1>0 DEF Analyses, Indexes, Restores, Scopes, PublishesNext
<1> QED
  BY <1>1, <1>2, <1>3, <1>4, <1>5, <1>6, <1>7 DEF MainStep

LEMMA MirroredStep ==
  ASSUME Typed, Mirrored, [PullNext]_pullVars
  PROVE  Mirrored'
<1>1. ASSUME WorkerStep PROVE Mirrored'
  <2>1. OnWorker
    BY <1>1 DEF WorkerStep, Takes, ReadsDiagnostics, ReadsRelated, AnswersPull, CapturesClosed, ReadsClosedRelated,
       AnswersClosed, CapturesWorkspace, ReportsNext, AnswersWorkspace
  <2> QED
    BY <2>1, StillMirrored DEF OnWorker, client, stores
<1>2. ASSUME UNCHANGED pullVars PROVE Mirrored'
  BY <1>2, StillMirrored DEF pullVars, client, stores
<1> QED
  BY <1>1, <1>2, ClientMirrored, MainMirrored DEF PullNext, ClientStep, MainStep, WorkerStep

LEMMA EachTail ==
  ASSUME NEW S, NEW s \in Seq(S), s # <<>>, NEW A, Each(s, A)
  PROVE  Head(s) \in A /\ Each(Tail(s), A)
  BY TailIs DEF Each

LEMMA EachAppend ==
  ASSUME NEW S, NEW s \in Seq(S), NEW e \in S, NEW A, Each(s, A), e \in A
  PROVE  Each(Append(s, e), A)
  BY AppendIs DEF Each

(***************************************************************************)
(* A document is pulled once at a time.                                    *)
(***************************************************************************)
LEMMA NobodysJob == "none" \notin Uris /\ "workspace" \notin Uris
  BY UrisAssumption

LEMMA RequestOutstanding ==
  ASSUME Typed, OneOutstanding, NEW m \in Message, wire' = Append(wire, m), UNCHANGED <<queue, replies, job>>,
         \A u \in Uris : m \in PullsOf(u) =>
           ~Has(wire, PullsOf(u)) /\ ~Has(queue, PullsOf(u)) /\ job.u # u /\ ~Has(replies, RepliesOf(u))
  PROVE  OneOutstanding'
<1>1. wire \in Seq(Message)
  BY DEF Typed, ClientTyped
<1> SUFFICES ASSUME NEW u \in Uris
             PROVE  /\ AtMostOne(wire', PullsOf(u))
                    /\ Has(wire', PullsOf(u)) => ~Has(queue, PullsOf(u)) /\ job.u # u /\ ~Has(replies, RepliesOf(u))
  BY DEF OneOutstanding
<1>2. AtMostOne(wire', PullsOf(u))
  BY <1>1, OneAppend DEF OneOutstanding
<1>3. Has(wire', PullsOf(u)) <=> (Has(wire, PullsOf(u)) \/ m \in PullsOf(u))
  BY <1>1, HasAppend
<1> QED
  BY <1>2, <1>3 DEF OneOutstanding

LEMMA DispatchOutstanding ==
  ASSUME Typed, OneOutstanding, wire # <<>>, wire' = Tail(wire), UNCHANGED <<replies, job>>,
         queue' = IF Head(wire) \in Requests THEN Append(queue, Head(wire)) ELSE queue
  PROVE  OneOutstanding'
<1>1. wire \in Seq(Message) /\ queue \in Seq(Requests) /\ Requests \subseteq Message
  BY MessagesTyped DEF Typed, ClientTyped, WorkerTyped
<1> SUFFICES ASSUME NEW u \in Uris
             PROVE  /\ AtMostOne(wire', PullsOf(u)) /\ AtMostOne(queue', PullsOf(u))
                    /\ Has(wire', PullsOf(u)) => ~Has(queue', PullsOf(u)) /\ job.u # u /\ ~Has(replies, RepliesOf(u))
                    /\ Has(queue', PullsOf(u)) => job.u # u /\ ~Has(replies, RepliesOf(u))
  BY DEF OneOutstanding
<1>2. /\ AtMostOne(wire, PullsOf(u)) /\ AtMostOne(queue, PullsOf(u))
      /\ Has(wire, PullsOf(u)) => ~Has(queue, PullsOf(u)) /\ job.u # u /\ ~Has(replies, RepliesOf(u))
      /\ Has(queue, PullsOf(u)) => job.u # u /\ ~Has(replies, RepliesOf(u))
  BY DEF OneOutstanding
<1>3. AtMostOne(wire', PullsOf(u)) /\ (Head(wire) \in PullsOf(u) => ~Has(wire', PullsOf(u)))
  BY <1>1, <1>2, OneTail
<1>4. Has(wire, PullsOf(u)) <=> (Head(wire) \in PullsOf(u) \/ Has(wire', PullsOf(u)))
  BY <1>1, HasTail
<1>5. Has(queue', PullsOf(u)) => Has(queue, PullsOf(u)) \/ Head(wire) \in PullsOf(u)
  BY <1>1, HasAppend
<1>6. AtMostOne(queue', PullsOf(u))
  <2>1. Head(wire) \in PullsOf(u) => ~Has(queue, PullsOf(u))
    BY <1>2, <1>4
  <2> QED
    BY <1>1, <1>2, <2>1, OneAppend
<1> QED
  BY <1>2, <1>3, <1>4, <1>5, <1>6

LEMMA TakeOutstanding ==
  ASSUME Typed, OneOutstanding, queue # <<>>, queue' = Tail(queue), job'.u = Head(queue).u, UNCHANGED <<wire, replies>>
  PROVE  OneOutstanding'
<1>1. queue \in Seq(Requests)
  BY DEF Typed, WorkerTyped
<1> SUFFICES ASSUME NEW u \in Uris
             PROVE  /\ AtMostOne(queue', PullsOf(u))
                    /\ Has(wire, PullsOf(u)) => ~Has(queue', PullsOf(u)) /\ job'.u # u
                    /\ Has(queue', PullsOf(u)) => job'.u # u /\ ~Has(replies, RepliesOf(u))
                    /\ job'.u = u => ~Has(replies, RepliesOf(u))
  BY DEF OneOutstanding
<1>2. AtMostOne(queue', PullsOf(u)) /\ (Head(queue) \in PullsOf(u) => ~Has(queue', PullsOf(u)))
  BY <1>1, OneTail DEF OneOutstanding
<1>3. Has(queue, PullsOf(u)) <=> (Head(queue) \in PullsOf(u) \/ Has(queue', PullsOf(u)))
  BY <1>1, HasTail
<1>4. job'.u = u => Head(queue) \in PullsOf(u)
  <2>1. PICK m \in Requests : m = Head(queue)
    BY <1>1, TailTyped
  <2>2. m.u = u => m \in PullRequests
    BY NobodysJob DEF Requests, WorkspaceRequests
  <2> QED
    BY <2>1, <2>2 DEF PullRequests, PullsOf
<1> QED
  BY <1>2, <1>3, <1>4 DEF OneOutstanding

LEMMA ReplyOutstanding ==
  ASSUME Typed, OneOutstanding, NEW r \in Reply, r.u = job.u, replies' = Append(replies, r), job'.u = "none",
         UNCHANGED <<wire, queue>>
  PROVE  OneOutstanding'
<1>1. replies \in Seq(Reply)
  BY DEF Typed, ClientTyped
<1> SUFFICES ASSUME NEW u \in Uris
             PROVE  /\ AtMostOne(replies', RepliesOf(u)) /\ job'.u # u
                    /\ Has(wire, PullsOf(u)) => ~Has(replies', RepliesOf(u))
                    /\ Has(queue, PullsOf(u)) => ~Has(replies', RepliesOf(u))
  BY DEF OneOutstanding
<1>2. r \in RepliesOf(u) => job.u = u
  BY DEF RepliesOf
<1>3. AtMostOne(replies', RepliesOf(u))
  BY <1>1, <1>2, OneAppend DEF OneOutstanding
<1>4. Has(replies', RepliesOf(u)) => Has(replies, RepliesOf(u)) \/ job.u = u
  BY <1>1, <1>2, HasAppend
<1> QED
  BY <1>3, <1>4, NobodysJob DEF OneOutstanding

LEMMA ReceiveOutstanding ==
  ASSUME Typed, OneOutstanding, replies # <<>>, replies' = Tail(replies), UNCHANGED <<wire, queue, job>>
  PROVE  OneOutstanding'
<1>1. replies \in Seq(Reply)
  BY DEF Typed, ClientTyped
<1> SUFFICES ASSUME NEW u \in Uris
             PROVE  AtMostOne(replies', RepliesOf(u)) /\ (Has(replies', RepliesOf(u)) => Has(replies, RepliesOf(u)))
  BY DEF OneOutstanding
<1> QED
  BY <1>1, OneTail, HasTail DEF OneOutstanding

LEMMA StillOutstanding ==
  ASSUME OneOutstanding, UNCHANGED <<wire, queue, replies, job.u>>
  PROVE  OneOutstanding'
  BY DEF OneOutstanding

LEMMA UnderWayIs ==
  ASSUME Typed, NEW u \in Uris
  PROVE  InFlight(u) <=> UnderWay(u)
<1>1. ASSUME NEW i \in DOMAIN queue
      PROVE  queue[i].u = u <=> queue[i] \in PullsOf(u)
  <2>0. queue \in Seq(Requests)
    BY DEF Typed, WorkerTyped
  <2>1. queue[i] \in Requests
    BY <2>0
  <2> QED
    BY <2>1, NobodysJob DEF Requests, PullRequests, WorkspaceRequests, PullsOf
<1>2. ASSUME NEW i \in DOMAIN replies
      PROVE  replies[i].u = u <=> replies[i] \in RepliesOf(u)
  <2>1. replies[i] \in Reply
    BY DEF Typed, ClientTyped
  <2> QED
    BY <2>1 DEF RepliesOf
<1>3. job.u = u => job.at # "idle"
  <2>1. job.at = "idle" => job = Idle
    BY DEF Typed, WorkerTyped
  <2>2. Idle.u = "none"
    BY DEF Idle
  <2> QED
    BY <2>1, <2>2, NobodysJob
<1> QED
  BY <1>1, <1>2, <1>3 DEF InFlight, UnderWay, Has

LEMMA NothingUnanswered ==
  ASSUME Typed, NEW u \in Uris, ~Unanswered(u)
  PROVE  ~Has(wire, PullsOf(u)) /\ ~UnderWay(u)
  BY UnderWayIs DEF Unanswered, Has, PullsOf

\* How a step of the worker changes what is under way.
LEMMA FailsReplies ==
  ASSUME Typed, job.at # "idle", Fails
  PROVE  \E r \in Reply : r.u = job.u /\ r.k = "error" /\ replies' = Append(replies, r) /\ job' = Idle /\ job'.u = "none" /\ queue' = queue
<1>1. job.u \in Uris \cup {"workspace"}
  BY DEF Typed, WorkerTyped, Jobs, Stages
<1>2. PICK r \in Reply : r = [k |-> "error", u |-> job.u]
  BY <1>1, RepliesTyped
<1>3. r.u = job.u /\ r.k = "error" /\ replies' = Append(replies, r)
  BY <1>2 DEF Fails
<1> QED
  BY <1>3 DEF Fails, Idle

LEMMA WorkerReplies ==
  ASSUME Typed, WorkerStep
  PROVE  \/ Takes
         \/ UNCHANGED <<queue, replies>> /\ job'.u = job.u /\ job'.base = job.base /\ job.at # "idle"
         \/ /\ queue' = queue /\ job' = Idle /\ job'.u = "none" /\ job.at # "idle"
            /\ \E r \in Reply : r.u = job.u /\ replies' = Append(replies, r)
<1> DEFINE Replied == /\ queue' = queue /\ job' = Idle /\ job'.u = "none"
                      /\ \E r \in Reply : r.u = job.u /\ replies' = Append(replies, r)
<1>1. ASSUME job.at # "idle", Fails PROVE Replied
  BY <1>1, FailsReplies
<1>2. ASSUME NEW r \in Reply, r.u = job.u, Answers(r) PROVE Replied
  BY <1>2 DEF Answers, Idle
<1>3. job \in Jobs
  BY DEF Typed, WorkerTyped
<1>4. job.at \in DocumentStages \cup ClosedStages => job.u \in Uris
  BY DEF Typed, WorkerTyped
<1> DEFINE Going == UNCHANGED <<queue, replies>> /\ job'.u = job.u /\ job'.base = job.base
<1>5. ASSUME ReadsDiagnostics \/ ReadsRelated PROVE job.at # "idle" /\ (Going \/ Replied)
  <2>1. CASE Fails
    BY <1>1, <1>5, <2>1 DEF ReadsDiagnostics, ReadsRelated
  <2>2. CASE ~Fails
    BY <1>3, <1>5, <2>2 DEF ReadsDiagnostics, ReadsRelated, Goes, Jobs
  <2> QED
    BY <2>1, <2>2
<1>6. ASSUME AnswersPull PROVE job.at # "idle" /\ Replied
  <2>0. job.at = "commit" /\ job.u \in Uris
    BY <1>4, <1>6 DEF AnswersPull, DocumentStages
  <2>1. CASE Fails
    BY <1>1, <2>0, <2>1
  <2>2. CASE ~Fails
    <3>1. PICK rep : rep = Report(job.text, job.read)
      OBVIOUS
    <3>2. PICK kind : kind = IF job.base.id = rep.id THEN "unchanged" ELSE "full"
      OBVIOUS
    <3>3. rep \in Reports
      BY <1>3, <3>1, ReportTyped DEF Jobs
    <3>4. PICK r \in Reply : r = [k |-> kind, u |-> job.u, report |-> rep]
      BY <2>0, <3>2, <3>3, RepliesTyped
    <3>5. Answers(r)
      BY <1>6, <2>2, <3>1, <3>2, <3>4 DEF AnswersPull
    <3> QED
      BY <1>2, <2>0, <3>4, <3>5
  <2> QED
    BY <2>1, <2>2
<1>7. ASSUME CapturesClosed \/ ReadsClosedRelated PROVE job.at # "idle" /\ (Going \/ Replied)
  <2>1. CASE Fails
    BY <1>1, <1>7, <2>1 DEF CapturesClosed, ReadsClosedRelated
  <2>2. CASE ~Fails
    BY <1>3, <1>7, <2>2 DEF CapturesClosed, ReadsClosedRelated, Goes, Jobs
  <2> QED
    BY <2>1, <2>2
<1>8. ASSUME AnswersClosed PROVE job.at # "idle" /\ Replied
  <2>0. job.at = "commit closed" /\ job.u \in Uris /\ job.related \in Locations
    BY <1>3, <1>4, <1>8 DEF AnswersClosed, ClosedStages, Jobs
  <2>1. CASE Fails
    BY <1>1, <2>0, <2>1
  <2>2. CASE ~Fails
    <3>1. PICK r \in Reply : r = [k |-> "closed", u |-> job.u, related |-> job.related]
      BY <2>0, RepliesTyped
    <3>2. Answers(r)
      BY <1>8, <2>2, <3>1 DEF AnswersClosed
    <3> QED
      BY <1>2, <2>0, <3>1, <3>2
  <2> QED
    BY <2>1, <2>2
<1>9. ASSUME CapturesWorkspace \/ ReportsNext PROVE job.at # "idle" /\ (Going \/ Replied)
  <2>1. CASE Fails
    BY <1>1, <1>9, <2>1 DEF CapturesWorkspace, ReportsNext
  <2>2. CASE ~Fails
    BY <1>3, <1>9, <2>2 DEF CapturesWorkspace, ReportsNext, Goes, Jobs
  <2> QED
    BY <2>1, <2>2
<1>10. ASSUME AnswersWorkspace PROVE job.at # "idle" /\ Replied
  <2>0. job.at = "reporting" /\ job.u = "workspace"
    BY <1>10 DEF AnswersWorkspace, WorkspaceStages, Typed, WorkerTyped
  <2>1. CASE Fails
    BY <1>1, <2>0, <2>1
  <2>2. CASE ~Fails
    <3>1. PICK r \in Reply : r = [k |-> "workspace", u |-> job.u]
      BY <2>0, RepliesTyped
    <3>2. Answers(r)
      BY <1>10, <2>2, <3>1 DEF AnswersWorkspace
    <3> QED
      BY <1>2, <2>0, <3>1, <3>2
  <2> QED
    BY <2>1, <2>2
<1> QED
  BY <1>5, <1>6, <1>7, <1>8, <1>9, <1>10 DEF WorkerStep

LEMMA TakesTyped ==
  ASSUME Typed, Takes
  PROVE  /\ queue \in Seq(Requests) /\ queue # <<>> /\ queue' = Tail(queue) /\ job = Idle /\ job.u = "none"
         /\ Head(queue) \in Requests /\ Head(queue) \in Message
         /\ job'.u = Head(queue).u /\ job'.base = Head(queue).base
         /\ UNCHANGED <<wire, replies>>
<1>1. queue \in Seq(Requests) /\ queue # <<>> /\ queue' = Tail(queue) /\ UNCHANGED <<wire, replies>> /\ job.at = "idle"
  BY DEF Takes, OnWorker, Typed, WorkerTyped
<1>2. job'.u = Head(queue).u /\ job'.base = Head(queue).base
  BY DEF Takes, Idle
<1>3. job = Idle /\ Idle.u = "none"
  BY <1>1 DEF Typed, WorkerTyped, Idle
<1> QED
  BY <1>1, <1>2, <1>3, TailTyped, MessagesTyped

LEMMA OutstandingStep ==
  ASSUME Typed, OneOutstanding, [PullNext]_pullVars
  PROVE  OneOutstanding'
<1> USE DEF Typed, ClientTyped
<1>1. ASSUME WorkerStep PROVE OneOutstanding'
  <2>0. wire' = wire
    BY <1>1 DEF WorkerStep, Takes, ReadsDiagnostics, ReadsRelated, AnswersPull, CapturesClosed, ReadsClosedRelated,
       AnswersClosed, CapturesWorkspace, ReportsNext, AnswersWorkspace, OnWorker
  <2>1. CASE Takes
    BY <2>1, TakesTyped, TakeOutstanding
  <2>2. CASE UNCHANGED <<queue, replies>> /\ job'.u = job.u
    BY <2>0, <2>2, StillOutstanding
  <2>3. CASE queue' = queue /\ job'.u = "none" /\ \E r \in Reply : r.u = job.u /\ replies' = Append(replies, r)
    BY <2>0, <2>3, ReplyOutstanding
  <2> QED
    BY <1>1, <2>1, <2>2, <2>3, WorkerReplies
<1>2. ASSUME OnMain, wire # <<>>, wire' = Tail(wire), queue' = queue, Head(wire) \notin Requests PROVE OneOutstanding'
  BY <1>2, DispatchOutstanding DEF OnMain
<1>3. ASSUME MainStep PROVE OneOutstanding'
  <2>1. CASE Dispatches
    <3>1. Head(wire) \in Requests
      BY <2>1, TailTyped, RequestsAreAsked DEF Dispatches
    <3> QED
      BY <2>1, <3>1, DispatchOutstanding DEF Dispatches, OnMain
  <2>2. CASE RefreshCompleted
    <3>1. Head(wire) \notin Requests
      BY <2>2, TailTyped, RequestsAreAsked DEF RefreshCompleted
    <3> QED
      BY <1>2, <2>2, <3>1 DEF RefreshCompleted
  <2>3. CASE TextArrives \/ DocumentCloses \/ FileArrives \/ FolderArrives
    <3>1. PICK kind \in NoteKinds, u \in Uris : Reads([k |-> kind, u |-> u]) /\ queue' = queue /\ OnMain
      BY <2>3 DEF TextArrives, DocumentCloses, FileArrives, FolderArrives, NoteKinds
    <3>2. Head(wire).k = kind /\ wire # <<>> /\ wire' = Tail(wire)
      BY <3>1 DEF Reads
    <3>3. Head(wire) \notin Requests
      BY <3>2, TailTyped, RequestsAreAsked DEF NoteKinds
    <3> QED
      BY <1>2, <3>1, <3>2, <3>3
  <2>4. CASE Analyses \/ Indexes \/ Restores \/ Scopes \/ PublishesNext \/ EndsChange
    BY <2>4, StillOutstanding DEF Analyses, Indexes, Restores, Scopes, PublishesNext, EndsChange, OnMain
  <2> QED
    BY <1>3, <2>1, <2>2, <2>3, <2>4 DEF MainStep
<1>4. ASSUME NEW m \in Message, m.k \in {"text", "close", "file", "folder", "workspace", "refreshed"},
             wire' = Append(wire, m), UNCHANGED <<queue, replies, job>>
      PROVE  OneOutstanding'
  <2>1. \A u \in Uris : m \notin PullsOf(u)
    BY <1>4 DEF PullsOf
  <2> QED
    BY <1>4, <2>1, RequestOutstanding
<1>5. ASSUME ClientStep PROVE OneOutstanding'
  <2>1. CASE Opens \/ Edits \/ Closes \/ FilesChange \/ FoldersChange
    <3>1. PICK kind \in NoteKinds, u \in Uris : Sends([k |-> kind, u |-> u]) /\ ServerUnchanged
      BY <2>1 DEF Opens, Edits, Closes, FilesChange, FoldersChange, NoteKinds
    <3>2. PICK m \in Notes : m = [k |-> kind, u |-> u]
      BY DEF Notes
    <3> QED
      BY <1>4, <3>1, <3>2 DEF Sends, ServerUnchanged, Message, NoteKinds
  <2>2. CASE Pulls \/ PullsClosed
    <3>1. PICK u \in Uris, base \in Reports : /\ ~Unanswered(u) /\ Sends([k |-> "pull", u |-> u, base |-> base])
                                              /\ ServerUnchanged
      BY <2>2, NothingTyped DEF Pulls, PullsClosed
    <3>2. PICK m \in Message : m = [k |-> "pull", u |-> u, base |-> base]
      BY MessagesTyped DEF Requests
    <3>3. \A v \in Uris : m \in PullsOf(v) => v = u
      BY <3>2 DEF PullsOf
    <3>4. ~Has(wire, PullsOf(u)) /\ ~Has(queue, PullsOf(u)) /\ job.u # u /\ ~Has(replies, RepliesOf(u))
      BY <3>1, NothingUnanswered DEF UnderWay
    <3> QED
      BY <3>1, <3>2, <3>3, <3>4, RequestOutstanding DEF Sends, ServerUnchanged
  <2>3. CASE PullsWorkspace
    <3>1. PICK m \in Message : m = [k |-> "workspace", u |-> "workspace", base |-> NoReport]
      BY MessagesTyped DEF Requests
    <3> QED
      BY <1>4, <2>3, <3>1 DEF PullsWorkspace, Sends, ServerUnchanged
  <2>4. CASE Receives
    BY <2>4, ReceiveOutstanding DEF Receives
  <2>5. CASE Refreshes
    <3>1. Acknowledged \in Message /\ Acknowledged.k = "refreshed" /\ wire' = Append(wire, Acknowledged)
          /\ UNCHANGED <<queue, replies, job>>
      BY <2>5, MessagesTyped DEF Refreshes, Acknowledged
    <3> QED
      BY <1>4, <3>1
  <2>6. CASE Cancels
    <3>1. job'.u = job.u
      BY <2>6 DEF Cancels, WorkerTyped, Jobs
    <3> QED
      BY <2>6, <3>1, StillOutstanding DEF Cancels
  <2> QED
    BY <1>5, <2>1, <2>2, <2>3, <2>4, <2>5, <2>6 DEF ClientStep
<1>6. ASSUME UNCHANGED pullVars PROVE OneOutstanding'
  BY <1>6, StillOutstanding DEF pullVars
<1> QED
  BY <1>1, <1>3, <1>5, <1>6 DEF PullNext, ClientStep, MainStep, WorkerStep

(***************************************************************************)
(* What a pull compares with.                                              *)
(***************************************************************************)
LEMMA BasedUnshown ==
  ASSUME Based, shown' = shown, Each(wire', Comparable), Each(queue', Comparable),
         job'.u \in Uris => job'.base \in {shown[job'.u], NoReport}
  PROVE  Based'
<1>1. Comparable' = Comparable
  BY DEF Comparable
<1> QED
  BY <1>1 DEF Based, Each

LEMMA StillBased ==
  ASSUME Based, UNCHANGED <<shown, wire, queue, job.u, job.base>>
  PROVE  Based'
<1>1. Comparable' = Comparable
  BY DEF Comparable
<1> QED
  BY <1>1 DEF Based, Each

LEMMA RequestBased ==
  ASSUME Typed, Based, NEW m \in Message, m.k = "pull" => m.base \in {shown[m.u], NoReport},
         wire' = Append(wire, m), UNCHANGED <<queue, job, shown>>
  PROVE  Based'
<1>1. wire \in Seq(Message) /\ m \in Comparable
  BY DEF Typed, ClientTyped, Comparable
<1>2. Each(wire', Comparable)
  BY <1>1, EachAppend DEF Based
<1> QED
  BY <1>2, BasedUnshown DEF Based

LEMMA MainBased ==
  ASSUME Typed, Based, OnMain, wire' = wire \/ (wire # <<>> /\ wire' = Tail(wire)),
         queue' = queue \/ (wire # <<>> /\ Head(wire) \in Requests /\ queue' = Append(queue, Head(wire)))
  PROVE  Based'
<1>1. wire \in Seq(Message) /\ queue \in Seq(Requests) /\ UNCHANGED <<job, shown>>
  BY DEF Typed, ClientTyped, WorkerTyped, OnMain, client
<1>2. Each(wire', Comparable)
  BY <1>1, EachTail DEF Based
<1>3. Each(queue', Comparable)
  <2>1. wire # <<>> => Head(wire) \in Comparable
    BY <1>1, EachTail DEF Based
  <2> QED
    BY <1>1, <2>1, EachAppend DEF Based
<1> QED
  BY <1>1, <1>2, <1>3, BasedUnshown DEF Based

LEMMA TakeBased ==
  ASSUME Typed, Based, Takes
  PROVE  Based'
<1>1. Each(queue', Comparable) /\ Head(queue) \in Comparable
  BY TakesTyped, EachTail DEF Based
<1>2. job'.u \in Uris => job'.base \in {shown[job'.u], NoReport}
  <2>1. PICK m \in Requests : m = Head(queue)
    BY TakesTyped
  <2>2. m.u \in Uris => m.k = "pull"
    BY NobodysJob DEF Requests, PullRequests, WorkspaceRequests
  <2>3. job'.u = m.u /\ job'.base = m.base
    BY <2>1, TakesTyped
  <2> QED
    BY <1>1, <2>1, <2>2, <2>3 DEF Comparable
<1>3. shown' = shown /\ wire' = wire
  BY DEF Takes, OnWorker, client
<1> QED
  BY <1>1, <1>2, <1>3, BasedUnshown DEF Based

LEMMA ReceiveBased ==
  ASSUME Typed, OneOutstanding, Based, Receives
  PROVE  Based'
<1>0. /\ replies \in Seq(Reply) /\ wire \in Seq(Message) /\ queue \in Seq(Requests) /\ Requests \subseteq Message
      /\ shown \in [Uris -> Reports]
  BY MessagesTyped DEF Typed, ClientTyped, WorkerTyped
<1>1. PICK r \in Reply : r = Head(replies) /\ replies # <<>>
  BY <1>0, TailTyped DEF Receives
<1>2. /\ shown' = IF r.k = "full" THEN [shown EXCEPT ![r.u] = r.report] ELSE shown
      /\ UNCHANGED <<wire, queue, job>>
  BY <1>1 DEF Receives
<1>3. CASE r.k # "full"
  BY <1>2, <1>3, StillBased
<1>4. CASE r.k = "full"
  <2>1. r.u \in Uris /\ r \in RepliesOf(r.u)
    BY <1>4, ReplyForms DEF RepliesOf
  <2>2. ~Has(wire, PullsOf(r.u)) /\ ~Has(queue, PullsOf(r.u)) /\ job.u # r.u
    <3>1. Has(replies, RepliesOf(r.u))
      BY <1>0, <1>1, <2>1, HasTail
    <3> QED
      BY <2>1, <3>1 DEF OneOutstanding
  <2>3. ASSUME NEW m \in Comparable, m \notin PullsOf(r.u)
        PROVE  m \in Comparable'
    <3>1. ASSUME m.k = "pull" PROVE m.base \in {shown'[m.u], NoReport}
      <4>1. m.u # r.u /\ m.u \in Uris
        BY <2>3, <3>1, RequestsAreAsked DEF Comparable, PullsOf, PullRequests
      <4>2. shown'[m.u] = shown[m.u]
        BY <1>0, <1>2, <4>1
      <4> QED
        BY <3>1, <4>2 DEF Comparable
    <3> QED
      BY <3>1 DEF Comparable
  <2>4. Each(wire, Comparable')
    BY <2>2, <2>3 DEF Based, Each, Has
  <2>5. Each(queue, Comparable')
    BY <2>2, <2>3 DEF Based, Each, Has
  <2>6. job.u \in Uris => shown'[job.u] = shown[job.u]
    BY <1>0, <1>2, <2>2
  <2>7. job.u \in Uris => job.base \in {shown'[job.u], NoReport}
    BY <2>6 DEF Based
  <2> QED
    BY <1>2, <2>4, <2>5, <2>7 DEF Based, Each
<1> QED
  BY <1>3, <1>4

LEMMA BasedStep ==
  ASSUME Typed, OneOutstanding, Based, [PullNext]_pullVars
  PROVE  Based'
<1> USE DEF Typed, ClientTyped
<1>1. ASSUME WorkerStep PROVE Based'
  <2>0. wire' = wire /\ shown' = shown
    BY <1>1 DEF WorkerStep, Takes, ReadsDiagnostics, ReadsRelated, AnswersPull, CapturesClosed, ReadsClosedRelated,
       AnswersClosed, CapturesWorkspace, ReportsNext, AnswersWorkspace, OnWorker, client
  <2>1. CASE Takes
    BY <2>1, TakeBased
  <2>2. CASE queue' = queue /\ job'.u = job.u /\ job'.base = job.base
    BY <2>0, <2>2, StillBased
  <2>3. CASE queue' = queue /\ job'.u = "none"
    BY <2>0, <2>3, NobodysJob, BasedUnshown DEF Based
  <2> QED
    BY <1>1, <2>1, <2>2, <2>3, WorkerReplies
<1>2. ASSUME MainStep PROVE Based'
  <2>1. CASE Dispatches
    <3>1. Head(wire) \in Requests
      BY <2>1, TailTyped, RequestsAreAsked DEF Dispatches
    <3> QED
      BY <2>1, <3>1, MainBased DEF Dispatches
  <2>2. CASE RefreshCompleted \/ TextArrives \/ DocumentCloses \/ FileArrives \/ FolderArrives
    BY <2>2, MainBased DEF RefreshCompleted, TextArrives, DocumentCloses, FileArrives, FolderArrives, Reads
  <2>3. CASE Analyses \/ Indexes \/ Restores \/ Scopes \/ PublishesNext \/ EndsChange
    BY <2>3, MainBased DEF Analyses, Indexes, Restores, Scopes, PublishesNext, EndsChange
  <2> QED
    BY <1>2, <2>1, <2>2, <2>3 DEF MainStep
<1>5. ASSUME ClientStep PROVE Based'
  <2>1. CASE Opens \/ Edits \/ Closes \/ FilesChange \/ FoldersChange
    <3>1. PICK kind \in NoteKinds, u \in Uris : Sends([k |-> kind, u |-> u]) /\ shown' = shown /\ ServerUnchanged
      BY <2>1 DEF Opens, Edits, Closes, FilesChange, FoldersChange, NoteKinds
    <3>2. PICK m \in Notes : m = [k |-> kind, u |-> u]
      BY DEF Notes
    <3> QED
      BY <3>1, <3>2, RequestBased DEF Sends, ServerUnchanged, Message, NoteKinds
  <2>2. CASE Pulls \/ PullsClosed
    <3>1. PICK u \in Uris, base \in Reports :
            /\ base \in {shown[u], NoReport} /\ Sends([k |-> "pull", u |-> u, base |-> base])
            /\ shown' = shown /\ ServerUnchanged
      BY <2>2, NothingTyped DEF Pulls, PullsClosed
    <3>2. PICK m \in Message : m = [k |-> "pull", u |-> u, base |-> base]
      BY NothingTyped, MessagesTyped DEF Requests
    <3> QED
      BY <3>1, <3>2, RequestBased DEF Sends, ServerUnchanged
  <2>3. CASE PullsWorkspace
    <3>1. PICK m \in Message : m = [k |-> "workspace", u |-> "workspace", base |-> NoReport]
      BY MessagesTyped DEF Requests
    <3> QED
      BY <2>3, <3>1, RequestBased DEF PullsWorkspace, Sends, ServerUnchanged
  <2>4. CASE Receives
    BY <2>4, ReceiveBased
  <2>5. CASE Refreshes
    <3>1. Acknowledged \in Message /\ Acknowledged.k # "pull" /\ wire' = Append(wire, Acknowledged)
          /\ UNCHANGED <<queue, shown, job>>
      BY <2>5, MessagesTyped DEF Refreshes, Acknowledged
    <3> QED
      BY <3>1, RequestBased
  <2>6. CASE Cancels
    <3>1. job'.u = job.u /\ job'.base = job.base
      BY <2>6 DEF Cancels, WorkerTyped, Jobs
    <3> QED
      BY <2>6, <3>1, StillBased DEF Cancels
  <2> QED
    BY <1>5, <2>1, <2>2, <2>3, <2>4, <2>5, <2>6 DEF ClientStep
<1>6. ASSUME UNCHANGED pullVars PROVE Based'
  BY <1>6, StillBased DEF pullVars, client
<1> QED
  BY <1>1, <1>2, <1>5, <1>6 DEF PullNext, ClientStep, MainStep, WorkerStep

(***************************************************************************)
(* A refresh that comes, comes; without one the stored diagnostics are due.*)
(***************************************************************************)
LEMMA AcknowledgedOnce ==
  ASSUME Typed, Mirrored, RefreshCompleted
  PROVE  refresh = "acknowledged"
<1>1. wire \in Seq(Message) /\ wire # <<>> /\ Head(wire).k = "refreshed"
  BY DEF Typed, ClientTyped, RefreshCompleted
<1>2. Head(wire) = Acknowledged
  BY <1>1, TailTyped, RequestsAreAsked
<1>3. Has(wire, {Acknowledged})
  BY <1>1, <1>2, HasTail
<1> QED
  BY <1>3 DEF Mirrored

\* What a change of the index does: it is noticed, if there are other documents.
LEMMA IndexMoves ==
  ASSUME Typed, Stores, [PullNext]_pullVars, index' # index
  PROVE  /\ main.at \in {"indexing", "restoring", "scoping"} /\ main.u \in Uris
         /\ main'.at = "publishing" /\ main'.others = main.others /\ main'.u = main.u
         /\ main'.before # generation' /\ doc' = doc /\ refresh' = refresh
         /\ \A v \in Uris \ {main.u} : index'[v] = index[v]
<1>1. Indexes \/ Restores \/ Scopes
  BY DEF PullNext, pullVars, stores, Opens, Edits, Closes, FilesChange, FoldersChange, Pulls, PullsClosed,
      PullsWorkspace, Receives, Refreshes, Cancels, ServerUnchanged, Dispatches, RefreshCompleted, TextArrives,
      Analyses, DocumentCloses, FileArrives, FolderArrives, PublishesNext, EndsChange, Takes, ReadsDiagnostics,
      ReadsRelated, AnswersPull, CapturesClosed, ReadsClosedRelated, AnswersClosed, CapturesWorkspace, ReportsNext,
      AnswersWorkspace, OnWorker
<1>2. main.at \in {"indexing", "restoring", "scoping"} /\ main.at # "idle" /\ doc' = doc /\ refresh' = refresh
  BY <1>1 DEF Indexes, Restores, Scopes
<1>3. main.before = generation /\ generation \in Nat
  BY <1>2 DEF Stores, Generations, Typed, StoresTyped
<1>4. main.u \in Uris /\ (main' = Publishing \/ index' = index)
  BY <1>1, <1>2, MainIs DEF Indexes, Restores, Scopes
<1>5. \E t \in Text : Indexed(main.u, t)
  <2>1. CASE Indexes
    BY <1>4, <2>1 DEF Indexes, Typed, StoresTyped
  <2>2. CASE Restores
    BY <2>2, TextsTyped, NothingTyped, MainIs DEF Restores
  <2>3. CASE Scopes
    <3>1. PICK u \in Uris : u = main.u
      BY <1>4
    <3>2. \E t \in Text : Indexed(u, t)
      <4>1. CASE u \in scope
        BY <2>3, <3>1, <4>1, TextsTyped, NothingTyped, MainIs DEF Scopes, Typed, StoresTyped
      <4>2. CASE u \notin scope
        BY <2>3, <3>1, <4>2, NothingTyped DEF Scopes
      <4> QED
        BY <4>1, <4>2
    <3> QED
      BY <3>1, <3>2
  <2> QED
    BY <1>1, <2>1, <2>2, <2>3
<1>6. PICK t \in Text : Indexed(main.u, t)
  BY <1>5
<1>7. generation' = generation + 1 /\ \A v \in Uris \ {main.u} : index'[v] = index[v]
  BY <1>4, <1>6, IndexedIs DEF Typed
<1>8. main' = Publishing /\ main'.at = "publishing" /\ main'.others = main.others /\ main'.u = main.u
      /\ main'.before = main.before
  BY <1>2, <1>4, MainIs
<1> QED
  BY <1>2, <1>3, <1>4, <1>7, <1>8

\* The index and the notification being handled, when a step of main is none of these.
LEMMA ChangingStays ==
  ASSUME Typed, Stores, Changing, [PullNext]_pullVars, ~EndsChange
  PROVE  Changing'
<1>0. main.at # "idle" /\ main.u \in Uris /\ main \in Work
  BY DEF Changing, Typed, MainTyped
<1>1. CASE index' # index
  BY <1>1, IndexMoves DEF Changing
<1>2. CASE index' = index
  <2>0. UNCHANGED generation
    <3>1. ASSUME NEW u \in Uris, NEW t, Indexed(u, t) PROVE generation' = generation
      BY <1>2, <3>1 DEF Indexed, Typed, StoresTyped
    <3>2. CASE Indexes
      BY <1>0, <3>1, <3>2 DEF Indexes
    <3>3. CASE Restores
      BY <1>0, <3>1, <3>3 DEF Restores
    <3>4. CASE Scopes
      BY <1>0, <3>1, <3>4 DEF Scopes
    <3> QED
      BY <3>2, <3>3, <3>4
      DEF PullNext, pullVars, stores, Opens, Edits, Closes, FilesChange, FoldersChange, Pulls, PullsClosed,
      PullsWorkspace, Receives, Refreshes, Cancels, ServerUnchanged, Dispatches, RefreshCompleted, TextArrives,
      Analyses, DocumentCloses, FileArrives, FolderArrives, PublishesNext, EndsChange, Takes, ReadsDiagnostics,
      ReadsRelated, AnswersPull, CapturesClosed, ReadsClosedRelated, AnswersClosed, CapturesWorkspace, ReportsNext,
      AnswersWorkspace, OnWorker
  <2>1. CASE UNCHANGED <<main, scope>>
    BY <1>2, <2>0, <2>1 DEF Changing
  <2>2. CASE Analyses
    <3>1. main.at = "analysing" /\ main' = [main EXCEPT !.at = "indexing"] /\ scope' = scope
      BY <2>2 DEF Analyses
    <3>2. main'.at = "indexing" /\ main'.u = main.u /\ main'.before = main.before /\ main'.others = main.others
      BY <1>0, <3>1 DEF Work
    <3> QED
      BY <1>2, <2>0, <3>1, <3>2 DEF Changing
  <2>3. CASE PublishesNext
    <3>1. main.at = "publishing" /\ scope' = scope /\ \E S : main' = [main EXCEPT !.todo = S]
      BY <2>3 DEF PublishesNext
    <3>2. main'.at = main.at /\ main'.u = main.u /\ main'.before = main.before /\ main'.others = main.others
      BY <1>0, <3>1 DEF Work
    <3> QED
      BY <1>2, <2>0, <3>1, <3>2 DEF Changing
  <2>4. CASE Indexes
    <3>1. main.at = "indexing" /\ (main.u \in scope => index' = [index EXCEPT ![main.u] = doc[main.u]])
      BY <2>4 DEF Indexes, Indexed
    <3>2. index[main.u] # doc[main.u]
      BY <1>0, <3>1 DEF Stores, Opened, BeingIndexed
    <3>3. main.u \notin scope
      BY <1>0, <1>2, <3>1, <3>2 DEF Typed, StoresTyped
    <3>4. main.before = generation
      BY <3>1 DEF Stores, Generations
    <3> QED
      BY <3>1, <3>3, <3>4 DEF Changing
  <2>5. CASE Restores
    <3>1. main.at = "restoring" /\ main.before = generation
      BY <2>5 DEF Restores, Stores, Generations
    <3>2. main.u \in scope /\ index[main.u] # NoText
      BY <3>1 DEF Changing
    <3>3. PICK t \in Texts(Id) \cup {NoText} : Indexed(main.u, t)
      BY <2>5, <3>2 DEF Restores
    <3>4. index[main.u] # t
      <4>1. index[main.u] \in Text /\ index[main.u].id <= made /\ made \in Nat
        BY <1>0 DEF Stores, Fresh, Typed, StoresTyped
      <4>2. t = NoText \/ t.id = made + 1
        BY TextsTyped, MainIs DEF Id, Texts
      <4> QED
        BY <3>2, <4>1, <4>2 DEF Text
    <3>5. index'[main.u] = t
      BY <1>0, <3>3 DEF Indexed, Typed, StoresTyped
    <3> QED
      BY <1>2, <3>4, <3>5
  <2>6. CASE Scopes
    BY <2>6 DEF Scopes, Stores, Generations, Changing
  <2>7. CASE Dispatches \/ RefreshCompleted \/ TextArrives \/ DocumentCloses \/ FileArrives \/ FolderArrives
    <3>1. main = Waiting
      BY <2>7 DEF Dispatches, RefreshCompleted, TextArrives, DocumentCloses, FileArrives, FolderArrives, Reads
    <3> QED
      BY <1>0, <3>1 DEF Waiting
  <2> QED
    BY <2>1, <2>2, <2>3, <2>4, <2>5, <2>6, <2>7
    DEF PullNext, pullVars, stores, Opens, Edits, Closes, FilesChange, FoldersChange, Pulls, PullsClosed,
      PullsWorkspace, Receives, Refreshes, Cancels, ServerUnchanged, Takes, ReadsDiagnostics,
      ReadsRelated, AnswersPull, CapturesClosed, ReadsClosedRelated, AnswersClosed, CapturesWorkspace, ReportsNext,
      AnswersWorkspace, OnWorker
<1> QED
  BY <1>1, <1>2

LEMMA RefreshPersists ==
  ASSUME Typed, Stores, Mirrored, RefreshComes, [PullNext]_pullVars
  PROVE  RefreshComes' \/ refresh' = "acknowledged"
<1>1. CASE refresh = "sent"
  <2>1. CASE refresh' = refresh
    BY <1>1, <2>1 DEF RefreshComes
  <2>2. CASE RefreshCompleted
    BY <1>1, <2>2, AcknowledgedOnce
  <2>3. CASE Refreshes
    BY <2>3 DEF Refreshes
  <2>4. CASE EndsChange
    BY <1>1, <2>4 DEF EndsChange, RefreshComes
  <2> QED
    BY <2>1, <2>2, <2>3, <2>4
    DEF PullNext, pullVars, Opens, Edits, Closes, FilesChange, FoldersChange, Pulls, PullsClosed,
      PullsWorkspace, Receives, Cancels, ServerUnchanged, Dispatches, TextArrives, Analyses, Indexes, DocumentCloses,
      FileArrives, Restores, FolderArrives, Scopes, PublishesNext, Takes, ReadsDiagnostics, ReadsRelated, AnswersPull,
      CapturesClosed, ReadsClosedRelated, AnswersClosed, CapturesWorkspace, ReportsNext, AnswersWorkspace, OnWorker
<1>2. CASE Changing
  <2>1. CASE EndsChange
    <3>1. main.at = "publishing" /\ main.others /\ main.before # generation
      BY <1>2, <2>1 DEF EndsChange, Changing
    <3>2. refresh = "none" => MustRefresh
      BY <3>1 DEF MustRefresh
    <3>3. refresh \in {"none", "sent", "acknowledged"} /\ (MustRefresh => refresh' = "sent") /\ (~MustRefresh => refresh' = refresh)
      BY <2>1 DEF EndsChange, Typed, ClientTyped
    <3> QED
      BY <3>2, <3>3 DEF RefreshComes
  <2>2. CASE ~EndsChange
    BY <1>2, <2>2, ChangingStays DEF RefreshComes
  <2> QED
    BY <2>1, <2>2
<1> QED
  BY <1>1, <1>2 DEF RefreshComes

\* Without a refresh to come, diagnostics refer to what is indexed now.
LEMMA PointsNow ==
  ASSUME Typed, Stores, NEW u \in Uris, doc[u] # NoText, ~BeingIndexed(u), ~RefreshComes
  PROVE  /\ diagnostics[u].related = Points(index, u, doc[Other(u)] # NoText)
         /\ \/ doc[Other(u)] = NoText \/ Points(index, u, doc[Other(u)] # NoText) = <<>>
            \/ semantics[Other(u)] = doc[Other(u)] /\ index[Other(u)] = doc[Other(u)]
<1> DEFINE v == Other(u)
<1>0. v \in Uris /\ v # u /\ (\A w \in Uris : w # u => w = v) /\ index \in [Uris -> Text] /\ main.at \in Steps
  BY OtherIsTheOther DEF Typed, StoresTyped, MainTyped, Work
<1> HIDE DEF v
<1>1. ~Changing
  BY DEF RefreshComes
<1>2. CASE main.at \in {"idle", "publishing", "scoping"}
  <2>1. Published(u)
    BY <1>1, <1>2 DEF Changing, Published
  <2>2. diagnostics[u].related = Points(index, u, doc[v] # NoText)
    BY <1>2, <2>1 DEF Stores, Pointed, v
  <2>3. doc[v] # NoText => semantics[v] = doc[v]
    BY <1>0, <1>2 DEF Stores, Opened
  <2>4. doc[v] # NoText => index[v] = NoText \/ index[v] = doc[v]
    BY <1>0, <1>2 DEF Stores, Held, BeingIndexed, BeingScoped
  <2>5. index[v] = NoText => Points(index, u, doc[v] # NoText) = <<>>
    BY DEF Points, v
  <2> QED
    BY <2>2, <2>3, <2>4, <2>5 DEF v
<1>3. CASE main.at \in {"analysing", "indexing", "restoring"}
  <2>1. main.u = v
    <3>1. main.u \in Uris /\ main.u # u
      BY <1>3 DEF Typed, MainTyped, BeingIndexed, Stores, Opened
    <3> QED
      BY <1>0, <3>1
  <2>2. ~main.others \/ v \notin scope \/ index[v] = NoText \/ main.at \in {"analysing", "indexing"}
    BY <1>1, <1>3, <2>1 DEF Changing
  <2>3. ~main.others \/ v \notin scope \/ index[v] = NoText
    BY <1>1, <1>3, <2>1, <2>2 DEF Changing
  <2>4. index[u] = NoText \/ index[v] = NoText
    <3>1. CASE ~main.others
      BY <1>0, <1>3, <2>1, <3>1 DEF Stores, Generations
    <3>2. CASE v \notin scope
      BY <1>0, <1>3, <3>2 DEF Stores, Held, BeingScoped
    <3> QED
      BY <2>3, <3>1, <3>2
  <2>5. \A g \in BOOLEAN : Points(index, u, g) = <<>>
    BY <1>0, <2>4, PointsAt DEF v
  <2>6. Published(u)
    BY <1>3 DEF Published
  <2>7. \E g \in BOOLEAN : diagnostics[u].related = Points(index, u, g)
    BY <2>6 DEF Stores, Pointed
  <2>8. diagnostics[u].related = <<>>
    BY <2>5, <2>7
  <2>9. Points(index, u, doc[v] # NoText) = <<>>
    <3>1. (doc[v] # NoText) \in BOOLEAN
      OBVIOUS
    <3> QED
      BY <2>5, <3>1, Zenon
  <2> QED
    BY <2>8, <2>9 DEF v
<1> QED
  BY <1>0, <1>2, <1>3 DEF Steps

LEMMA StoredIsDue ==
  ASSUME Typed, Stores, NEW u \in Uris, doc[u] # NoText, ~BeingIndexed(u), ~RefreshComes
  PROVE  Diagnosed(u) # NoDiagnostics /\ Report(doc[u], Diagnosed(u)) = Due(u)
<1> DEFINE v == Other(u)
<1> DEFINE d == diagnostics[u]
<1>0. v \in Uris /\ v # u /\ doc[u] \in Text /\ index[v] \in Text /\ d \in Diagnostic
  BY OtherIsTheOther DEF Typed, StoresTyped
<1>1. d.related = Points(index, u, doc[v] # NoText)
  BY PointsNow
<1>2. semantics[u] = doc[u] /\ d.of = doc[u].id /\ doc[u].id # 0
  BY DEF Stores, Opened, Fresh, BeingIndexed
<1>3. \/ doc[v] = NoText \/ Points(index, u, doc[v] # NoText) = <<>>
      \/ semantics[v] = doc[v] /\ index[v] = doc[v]
  BY PointsNow
<1>4. PICK l \in Location : l = [target |-> IF doc[v] # NoText THEN index[v].id ELSE 0, span |-> index[v].span]
  <2>1. PICK n \in Nat : n = IF doc[v] # NoText THEN index[v].id ELSE 0
    BY <1>0 DEF Text
  <2>2. [target |-> n, span |-> index[v].span] \in Location
    BY <1>0, <2>1 DEF Location, Text
  <2> QED
    BY <2>1, <2>2
<1>5. d.related = IF index[u].link /\ index[v] # NoText THEN <<l>> ELSE <<>>
  BY <1>1, <1>4 DEF Points
<1>6. ASSUME NEW r \in Range(d.related), r.target # 0 PROVE Semantics(v).id = r.target
  <2>1. d.related = <<l>> /\ r = l
    <3>1. d.related # <<>>
      BY <1>6, NothingGiven DEF Range
    <3>2. d.related = <<l>>
      BY <1>5, <3>1
    <3> QED
      BY <1>6, <3>2 DEF Range
  <2>2. doc[v] # NoText /\ l.target = index[v].id
    BY <1>4, <1>6, <2>1
  <2>3. Points(index, u, doc[v] # NoText) # <<>>
    BY SMTT(20), <1>1, <2>1
  <2>4. semantics[v] = doc[v] /\ index[v] = doc[v]
    BY <1>3, <2>2, <2>3
  <2> QED
    BY <2>1, <2>2, <2>4 DEF Semantics
<1>7. Diagnosed(u) = d
  BY <1>2, <1>6 DEF Diagnosed, Semantics
<1>8. d # NoDiagnostics
  BY <1>2, NothingTyped
<1>9. Report(doc[u], d) = Due(u)
  <2>1. CASE index[u].link /\ index[v] # NoText
    <3>1. Report(doc[u], d) = Wide(doc[u].id, l.span)
      BY <1>0, <1>5, <2>1, ReportTyped
    <3> QED
      BY <1>4, <2>1, <3>1 DEF Due
  <2>2. CASE ~(index[u].link /\ index[v] # NoText)
    <3>1. Report(doc[u], d) = Narrow(doc[u].id)
      BY <1>0, <1>5, <2>2, ReportTyped
    <3> QED
      BY <2>2, <3>1 DEF Due
  <2> QED
    BY <2>1, <2>2
<1> QED
  BY <1>7, <1>8, <1>9

LEMMA DueStays ==
  ASSUME Typed, Stores, NEW u \in Uris, doc[u] # NoText, doc'[u] = doc[u], ~BeingIndexed(u), [PullNext]_pullVars
  PROVE  Due(u)' = Due(u) \/ RefreshComes'
<1>0. Other(u) \in Uris /\ Other(u) # u
  BY OtherIsTheOther
<1>1. CASE index' = index
  BY <1>1 DEF Due
<1>2. CASE index' # index /\ main.others
  <2>1. main'.at = "publishing" /\ main'.others /\ main'.before # generation'
    BY <1>2, IndexMoves
  <2> QED
    BY <2>1 DEF RefreshComes, Changing
<1>3. CASE index' # index /\ ~main.others
  <2>1. main.at \in {"indexing", "restoring"} /\ main.u \in Uris /\ \A v \in Uris \ {main.u} : index'[v] = index[v]
    BY <1>3, IndexMoves DEF Stores, Generations
  <2>2. main.u # u
    BY <2>1 DEF BeingIndexed, Stores, Opened
  <2>3. index[u] = NoText
    BY <1>3, <2>1, <2>2 DEF Stores, Generations
  <2>4. index'[u] = index[u] /\ ~index[u].link /\ ~index'[u].link
    BY <2>1, <2>2, <2>3 DEF NoText
  <2> QED
    BY <2>4 DEF Due
<1> QED
  BY <1>1, <1>2, <1>3

(***************************************************************************)
(* The document a client does not mean to pull.                            *)
(***************************************************************************)
LEMMA Quiet ==
  ASSUME Typed, Mirrored, NEW u \in wanted \ dirty, ~Has(wire, PullsOf(u))
  PROVE  ~Has(wire, Stirs(u)) /\ doc[u] # NoText /\ u \in Uris
<1>1. ~Has(wire, Stirs(u))
  BY NoneFollowed DEF Mirrored
<1>2. ~Has(wire, TextsOf(u))
  BY <1>1, Apart, HasMore
<1> QED
  BY <1>1, <1>2 DEF Mirrored, Typed, ClientTyped

LEMMA QuietNext ==
  ASSUME Mirrored', NEW u \in wanted' \ dirty', ~Has(wire', PullsOf(u))
  PROVE  refresh' # "acknowledged"
<1>1. Followed(wire', Stirs(u), PullsOf(u)) /\ (Has(wire', {Acknowledged}) <=> refresh' = "acknowledged")
  BY DEF Mirrored
<1>2. ~Has(wire', Stirs(u))
  BY <1>1, NoneFollowed
<1>3. ~Has(wire', {Acknowledged})
  BY <1>2, Apart, HasMore
<1> QED
  BY <1>1, <1>3

\* What a step keeps of such a document.
Carried(u) ==
  /\ doc'[u] = doc[u] /\ doc[u] # NoText /\ ~BeingIndexed(u)'
  /\ Due(u)' = Due(u) \/ RefreshComes'
  /\ RefreshComes => RefreshComes'

LEMMA CarriedOn ==
  ASSUME Typed, Stores, Mirrored, Mirrored', [PullNext]_pullVars, NEW u \in wanted \ dirty, ~Has(wire, PullsOf(u)),
         ~BeingIndexed(u), u \in wanted' \ dirty', ~Has(wire', PullsOf(u))
  PROVE  Carried(u)
<1>0. /\ u \in Uris /\ ~Has(wire, Stirs(u)) /\ doc[u] # NoText /\ wire \in Seq(Message)
      /\ doc \in [Uris -> Text] /\ main \in Work
  BY Quiet DEF Typed, ClientTyped, StoresTyped, MainTyped
<1>1. RefreshComes => RefreshComes'
  BY RefreshPersists, QuietNext
<1>2. ASSUME NEW kind \in {"text", "close"}, Reads([k |-> kind, u |-> u]) PROVE FALSE
  <2>1. Head(wire) = [k |-> kind, u |-> u] /\ wire # <<>>
    BY <1>2 DEF Reads
  <2>2. Head(wire) \in Stirs(u)
    BY <2>1 DEF Stirs, TextsOf, ClosesOf
  <2> QED
    BY <1>0, <2>1, <2>2, HasTail
<1>3. doc'[u] = doc[u] /\ ~BeingIndexed(u)'
  <2>1. CASE TextArrives
    <3>1. PICK v \in Uris, t \in Texts(Id) : /\ Reads([k |-> "text", u |-> v]) /\ doc' = [doc EXCEPT ![v] = t]
                                             /\ main' = Handling("analysing", v, OthersIndexed(v))
      BY <2>1 DEF TextArrives
    <3>2. v # u
      BY <1>2, <3>1
    <3>3. main'.u = v
      BY <3>1 DEF Handling
    <3> QED
      BY <1>0, <3>1, <3>2, <3>3 DEF BeingIndexed
  <2>2. CASE DocumentCloses
    <3>1. PICK v \in Uris : /\ Reads([k |-> "close", u |-> v]) /\ doc' = [doc EXCEPT ![v] = NoText]
                            /\ main' = Handling("restoring", v, OthersIndexed(v))
      BY <2>2 DEF DocumentCloses
    <3>2. v # u
      BY <1>2, <3>1
    <3>3. main'.at = "restoring"
      BY <3>1 DEF Handling
    <3> QED
      BY <1>0, <3>1, <3>2, <3>3 DEF BeingIndexed
  <2>3. CASE UNCHANGED <<doc, main>>
    BY <2>3 DEF BeingIndexed
  <2>4. CASE Analyses
    <3>1. main.at = "analysing" /\ doc' = doc /\ main' = [main EXCEPT !.at = "indexing"]
      BY <2>4 DEF Analyses
    <3>2. main'.u = main.u /\ main.u # u
      BY <1>0, <3>1 DEF BeingIndexed, Work
    <3> QED
      BY <3>1, <3>2 DEF BeingIndexed
  <2>5. CASE Indexes \/ Restores \/ Scopes \/ EndsChange
    <3>1. doc' = doc /\ main.at # "idle" /\ (main' = Publishing \/ main' = Waiting)
      BY <2>5 DEF Indexes, Restores, Scopes, EndsChange, stores
    <3>2. main'.at \in {"publishing", "idle"}
      BY <3>1, MainIs
    <3> QED
      BY <3>1, <3>2 DEF BeingIndexed
  <2>6. CASE FileArrives \/ FolderArrives
    <3>1. doc' = doc
      BY <2>6 DEF FileArrives, FolderArrives, stores
    <3>2. PICK v \in Uris, step \in {"restoring", "scoping"} : main' = Handling(step, v, TRUE) \/ main' = Waiting
      BY <2>6 DEF FileArrives, FolderArrives
    <3>3. Handling(step, v, TRUE).at = step /\ Waiting.at = "idle"
      BY DEF Handling, Waiting
    <3>4. main'.at \in {"restoring", "scoping", "idle"}
      BY <3>2, <3>3
    <3> QED
      BY <3>1, <3>4 DEF BeingIndexed
  <2>7. CASE PublishesNext
    <3>1. main.at = "publishing" /\ doc' = doc /\ \E S : main' = [main EXCEPT !.todo = S]
      BY <2>7 DEF PublishesNext
    <3>2. main'.at = "publishing"
      BY <1>0, <3>1 DEF Work
    <3> QED
      BY <3>1, <3>2 DEF BeingIndexed
  <2> QED
    BY <2>1, <2>2, <2>3, <2>4, <2>5, <2>6, <2>7
    DEF PullNext, pullVars, stores, Opens, Edits, Closes, FilesChange, FoldersChange, Pulls, PullsClosed,
      PullsWorkspace, Receives, Refreshes, Cancels, ServerUnchanged, Dispatches, RefreshCompleted, Takes,
      ReadsDiagnostics, ReadsRelated, AnswersPull, CapturesClosed, ReadsClosedRelated, AnswersClosed,
      CapturesWorkspace, ReportsNext, AnswersWorkspace, OnWorker
<1>4. Due(u)' = Due(u) \/ RefreshComes'
  BY <1>0, <1>3, DueStays
<1> QED
  BY <1>0, <1>1, <1>3, <1>4 DEF Carried

LEMMA RightStays ==
  ASSUME NEW u, Carried(u), shown'[u] = shown[u]
  PROVE  \A r \in Right(u) : r \in Right(u)'
  BY DEF Carried, Right

\* What was right stays right; a reply of another request is no matter.
LEMMA FollowsOn ==
  ASSUME Typed, NEW u \in Uris, Follows(u), Carried(u), shown'[u] = shown[u],
         \/ replies' = replies
         \/ \E r \in Reply : (r.u = u /\ r.k # "error" => r \in Right(u)') /\ replies' = Append(replies, r),
         \/ job'.u # u
         \/ /\ job'.at \in DocumentStages /\ job'.text = doc[u]
            /\ job'.at \in {"related", "commit"} /\ job'.read = NoDiagnostics => RefreshComes,
         UnderWay(u) => UnderWay(u)'
  PROVE  Follows(u)'
<1>1. replies \in Seq(Reply)
  BY DEF Typed, ClientTyped
<1>2. Each(replies, Right(u)')
  BY RightStays DEF Follows, Each
<1>3. Each(replies', Right(u)')
  <2>1. CASE replies' = replies
    BY <1>2, <2>1
  <2>2. ASSUME NEW r \in Reply, r.u = u /\ r.k # "error" => r \in Right(u)', replies' = Append(replies, r)
        PROVE  Each(replies', Right(u)')
    <3>1. r \in Right(u)'
      BY <2>2 DEF Right
    <3> QED
      BY <1>1, <1>2, <2>2, <3>1, EachAppend
  <2> QED
    BY <2>1, <2>2
<1>4. ~UnderWay(u)' => shown'[u] = Due(u)' \/ RefreshComes'
  BY DEF Follows, Carried
<1> QED
  BY <1>3, <1>4 DEF Follows, Carried

LEMMA DispatchFollows ==
  ASSUME Typed, OneOutstanding, Dispatches, NEW u \in Uris, Head(wire) \in PullsOf(u)
  PROVE  Follows(u)'
<1>0. /\ wire \in Seq(Message) /\ wire # <<>> /\ queue \in Seq(Requests) /\ main' = main /\ main.at = "idle"
      /\ queue' = Append(queue, Head(wire)) /\ UNCHANGED <<job, replies>> /\ replies \in Seq(Reply)
  BY DEF Typed, ClientTyped, WorkerTyped, Dispatches, OnMain, Waiting
<1>1. Head(wire) \in Requests
  BY <1>0, TailTyped, RequestsAreAsked DEF Dispatches
<1>2. Has(queue', PullsOf(u))
  BY <1>0, <1>1, HasAppend
<1>3. job.u # u /\ ~Has(replies, RepliesOf(u))
  <2>1. Has(wire, PullsOf(u))
    BY <1>0, HasTail
  <2> QED
    BY <2>1 DEF OneOutstanding
<1>4. Each(replies', Right(u)')
  <2>1. \A i \in DOMAIN replies : replies[i] \in Reply /\ replies[i].u # u
    BY <1>0, <1>3 DEF Has, RepliesOf
  <2> QED
    BY <1>0, <2>1 DEF Each, Right
<1>5. ~BeingIndexed(u)'
  BY <1>0 DEF BeingIndexed
<1>6. UnderWay(u)'
  BY <1>2 DEF UnderWay
<1> QED
  BY <1>0, <1>3, <1>4, <1>5, <1>6 DEF Follows

LEMMA ReceiveFollows ==
  ASSUME Typed, OneOutstanding, Receives, NEW u \in wanted' \ dirty', u \in wanted \ dirty, u \in Uris, Follows(u), Carried(u)
  PROVE  Follows(u)'
<1>0. /\ replies \in Seq(Reply) /\ replies # <<>> /\ replies' = Tail(replies) /\ UNCHANGED <<job, queue>>
      /\ shown \in [Uris -> Reports]
  BY DEF Typed, ClientTyped, Receives
<1>1. PICK r \in Reply : r = Head(replies)
  BY <1>0, TailTyped
<1>2. /\ shown' = IF r.k = "full" THEN [shown EXCEPT ![r.u] = r.report] ELSE shown
      /\ dirty' = IF r.k = "error" /\ r.u \in wanted THEN dirty \cup {r.u} ELSE dirty
  BY <1>1 DEF Receives
<1>3. r \in RepliesOf(u) <=> r.u = u
  BY DEF RepliesOf
<1>4. Has(replies, RepliesOf(u)) <=> (r.u = u \/ Has(replies', RepliesOf(u)))
  BY <1>0, <1>1, <1>3, HasTail
<1>5. r \in Right(u) /\ Each(replies', Right(u))
  BY <1>0, <1>1, EachTail DEF Follows
<1>6. CASE r.u # u
  <2>1. shown'[u] = shown[u]
    BY <1>0, <1>2, <1>6
  <2>2. Each(replies', Right(u)')
    BY <1>5, <2>1, RightStays DEF Each
  <2>3. UnderWay(u)' <=> UnderWay(u)
    BY <1>0, <1>4, <1>6 DEF UnderWay
  <2> QED
    BY <1>0, <2>1, <2>2, <2>3 DEF Follows, Carried
<1>7. CASE r.u = u
  <2>1. job.u # u
    BY <1>4, <1>7 DEF OneOutstanding
  <2>2. ~Has(replies', RepliesOf(u))
    BY <1>0, <1>1, <1>3, <1>7, OneTail DEF OneOutstanding
  <2>3. Each(replies', Right(u)')
    <3>1. replies' \in Seq(Reply)
      BY <1>0
    <3>2. \A i \in DOMAIN replies' : replies'[i] \in Reply /\ replies'[i].u # u
      BY <2>2, <3>1 DEF Has, RepliesOf
    <3> QED
      BY <3>2 DEF Each, Right
  <2>4. r.k # "error"
    BY <1>2, <1>7
  <2>5. r.k \in {"unchanged", "full"} /\ (r.k = "unchanged" => shown[u] = r.report) /\ (r.report = Due(u) \/ RefreshComes)
    BY <1>5, <1>7, <2>4 DEF Right
  <2>6. shown'[u] = r.report
    BY <1>0, <1>2, <1>7, <2>5
  <2> QED
    BY <1>0, <2>1, <2>3, <2>5, <2>6 DEF Follows, Carried
<1> QED
  BY <1>6, <1>7

LEMMA TakeFollows ==
  ASSUME Typed, Takes, NEW u \in Uris, Follows(u), Carried(u)
  PROVE  Follows(u)'
<1>0. queue \in Seq(Requests) /\ queue # <<>> /\ queue' = Tail(queue) /\ job.u = "none" /\ UNCHANGED replies /\ shown' = shown
      /\ job'.u = Head(queue).u
  BY TakesTyped DEF Takes, OnWorker, client
<1>1. Has(queue, PullsOf(u)) <=> (Head(queue) \in PullsOf(u) \/ Has(queue', PullsOf(u)))
  BY <1>0, HasTail
<1>2. Head(queue) \in PullsOf(u) => job'.u = u
  BY <1>0 DEF PullsOf
<1>3. UnderWay(u) => UnderWay(u)'
  BY <1>0, <1>1, <1>2, NobodysJob DEF UnderWay
<1>4. ASSUME job'.u = u PROVE job'.at = "diagnostics" /\ job'.text = doc[u]
  <2>1. PICK m \in Requests : m = Head(queue)
    BY TakesTyped
  <2>2. m.u = u /\ m.k = "pull"
    <3>1. m.u = u
      BY <1>0, <1>4, <2>1
    <3> QED
      BY <3>1, NobodysJob DEF Requests, PullRequests, WorkspaceRequests
  <2>3. doc[u] # NoText
    BY DEF Carried
  <2>4. job' = [Idle EXCEPT !.at = "diagnostics", !.u = m.u, !.base = m.base, !.text = doc[u]]
    BY <2>1, <2>2, <2>3 DEF Takes
  <2> QED
    BY <2>4 DEF Idle
<1> QED
  BY <1>0, <1>3, <1>4, FollowsOn DEF DocumentStages

LEMMA WorkFollows ==
  ASSUME Typed, Stores, Based, WorkerStep, ~Takes, NEW u \in Uris, Follows(u), Carried(u)
  PROVE  Follows(u)'
<1>0. shown' = shown /\ replies \in Seq(Reply) /\ job \in Jobs
  BY DEF WorkerStep, Takes, ReadsDiagnostics, ReadsRelated, AnswersPull, CapturesClosed, ReadsClosedRelated,
     AnswersClosed, CapturesWorkspace, ReportsNext, AnswersWorkspace, OnWorker, client, Typed, ClientTyped, WorkerTyped
<1>1. ASSUME UNCHANGED <<queue, replies>>, job'.u = job.u,
             job.u = u => /\ job'.at \in DocumentStages /\ job'.text = doc[u]
                          /\ job'.at \in {"related", "commit"} /\ job'.read = NoDiagnostics => RefreshComes
      PROVE  Follows(u)'
  <2>1. UnderWay(u) => UnderWay(u)'
    BY <1>1 DEF UnderWay
  <2> QED
    BY <1>0, <1>1, <2>1, FollowsOn
<1>2. ASSUME NEW r \in Reply, r.u = job.u, replies' = Append(replies, r), queue' = queue, job'.u = "none",
             r.u = u /\ r.k # "error" => r \in Right(u)'
      PROVE  Follows(u)'
  <2>1. UnderWay(u) => UnderWay(u)'
    <3>1. Has(replies', RepliesOf(u)) <=> (Has(replies, RepliesOf(u)) \/ r.u = u)
      <4>1. r \in RepliesOf(u) <=> r.u = u
        BY DEF RepliesOf
      <4> QED
        BY <1>0, <1>2, <4>1, HasAppend
    <3> QED
      BY <1>2, <3>1 DEF UnderWay
  <2> QED
    BY <1>0, <1>2, <2>1, NobodysJob, FollowsOn
<1>3. CASE job.u # u
  BY <1>1, <1>2, <1>3, WorkerReplies
<1>4. CASE job.u = u
  <2>0. job.at \in DocumentStages /\ job.text = doc[u] /\ (job.at \in {"related", "commit"} /\ job.read = NoDiagnostics => RefreshComes)
    BY <1>4 DEF Follows
  <2>1. ASSUME Fails PROVE Follows(u)'
    <3>1. job.at # "idle"
      BY <2>0 DEF DocumentStages
    <3>2. PICK r \in Reply : r.u = job.u /\ r.k = "error" /\ replies' = Append(replies, r) /\ job'.u = "none" /\ queue' = queue
      BY <2>1, <3>1, FailsReplies
    <3> QED
      BY <1>2, <3>2
  <2>2. ReadsDiagnostics \/ ReadsRelated \/ AnswersPull
    BY <2>0 DEF WorkerStep, DocumentStages, CapturesClosed, ReadsClosedRelated, AnswersClosed, CapturesWorkspace,
       ReportsNext, AnswersWorkspace
  <2>3. CASE ReadsDiagnostics /\ ~Fails
    <3>1. job' = [job EXCEPT !.at = "related", !.read = Diagnosed(u)] /\ UNCHANGED <<queue, replies>>
      BY <1>4, <2>3 DEF ReadsDiagnostics, Goes
    <3>2. job'.at = "related" /\ job'.u = job.u /\ job'.text = doc[u] /\ job'.read = Diagnosed(u)
      BY <1>0, <2>0, <3>1 DEF Jobs
    <3>3. Diagnosed(u) = NoDiagnostics => RefreshComes
      BY StoredIsDue DEF Follows, Carried
    <3> QED
      BY <1>1, <3>1, <3>2, <3>3 DEF DocumentStages
  <2>4. CASE ReadsRelated /\ ~Fails
    <3>1. job.at = "related" /\ UNCHANGED <<queue, replies>>
      BY <2>4 DEF ReadsRelated, Goes
    <3>2. job' = [job EXCEPT !.at = "commit"] \/ \E d : job' = [job EXCEPT !.at = "commit", !.other = d]
      BY <2>4 DEF ReadsRelated, Goes
    <3>3. job'.at = "commit" /\ job'.u = job.u /\ job'.text = doc[u] /\ job'.read = job.read
      BY <1>0, <2>0, <3>2 DEF Jobs
    <3> QED
      BY <1>1, <2>0, <3>1, <3>3 DEF DocumentStages
  <2>5. CASE AnswersPull /\ ~Fails
    <3>0. PICK rep : rep = Report(job.text, job.read)
      OBVIOUS
    <3>1. PICK kind : kind = IF job.base.id = rep.id THEN "unchanged" ELSE "full"
      OBVIOUS
    <3>2. rep \in Reports /\ rep # NoReport
      <4>1. job.text \in Text /\ job.read \in Diagnostic
        BY <1>0 DEF Jobs
      <4>2. rep = Narrow(job.text.id) \/ \E l \in Location : rep = Wide(job.text.id, l.span)
        BY <3>0, <4>1, ReportTyped DEF Diagnostic, Locations
      <4>3. Narrow(job.text.id).id # NoReport.id /\ \A l \in Location : Wide(job.text.id, l.span).id # NoReport.id
        BY DEF Narrow, Wide, NoReport
      <4> QED
        BY <3>0, <4>1, <4>2, <4>3, ReportTyped
    <3>3. PICK r \in Reply : r = [k |-> kind, u |-> u, report |-> rep]
      BY <3>1, <3>2, RepliesTyped
    <3>4. Answers(r) /\ job.at = "commit" /\ PullCurrent(job)
      BY <1>4, <2>5, <3>0, <3>1, <3>3 DEF AnswersPull
    <3>5. rep = Due(u) \/ RefreshComes
      <4>1. CASE job.read = NoDiagnostics
        BY <2>0, <3>4, <4>1
      <4>2. CASE job.read # NoDiagnostics
        <5>1. Diagnosed(u) = job.read
          BY <1>4, <3>4, <4>2 DEF PullCurrent, StillStored
        <5>2. ~RefreshComes => Report(doc[u], Diagnosed(u)) = Due(u)
          BY StoredIsDue DEF Follows, Carried
        <5> QED
          BY <2>0, <3>0, <5>1, <5>2
      <4> QED
        BY <4>1, <4>2
    <3>6. kind = "unchanged" => shown[u] = rep
      <4>1. ASSUME job.base.id = rep.id PROVE shown[u] = rep
        <5>1. job.base = rep
          BY <1>0, <3>2, <4>1, IdentityTells DEF Jobs
        <5> QED
          BY <1>4, <3>2, <5>1 DEF Based
      <4> QED
        BY <3>1, <4>1
    <3>7. r \in Right(u)'
      <4>1. r.k = kind /\ r.report = rep /\ kind \in {"unchanged", "full"}
        BY <3>1, <3>3
      <4>2. rep = Due(u)' \/ RefreshComes'
        BY <3>5 DEF Carried
      <4> QED
        BY <1>0, <3>6, <4>1, <4>2 DEF Right
    <3>8. replies' = Append(replies, r) /\ queue' = queue /\ job'.u = "none" /\ r.u = job.u
      BY <1>4, <3>3, <3>4 DEF Answers, Idle
    <3> QED
      BY <1>2, <3>7, <3>8
  <2> QED
    BY <2>1, <2>2, <2>3, <2>4, <2>5
<1> QED
  BY <1>3, <1>4

\* A document is left alone by what it was left alone by before, or by its pull.
LEMMA LeftAlone ==
  ASSUME Typed, Typed', [PullNext]_pullVars, NEW u \in wanted' \ dirty', ~Has(wire', PullsOf(u))
  PROVE  /\ u \in wanted \ dirty /\ u \in Uris
         /\ ~Has(wire, PullsOf(u)) \/ (Dispatches /\ Head(wire) \in PullsOf(u))
<1>0. wire \in Seq(Message) /\ wire' \in Seq(Message) /\ u \in Uris /\ shown \in [Uris -> Reports] /\ dirty \in SUBSET wanted
      /\ wanted \in SUBSET Uris
  BY DEF Typed, ClientTyped
<1>1. ASSUME NEW m \in Message, wire' = Append(wire, m) PROVE ~Has(wire, PullsOf(u)) /\ m \notin PullsOf(u)
  BY <1>0, <1>1, HasAppend
<1>2. ASSUME wire # <<>>, wire' = Tail(wire), Has(wire, PullsOf(u)) PROVE Head(wire).k = "pull" /\ Head(wire) \in PullsOf(u)
  <2>1. Head(wire) \in PullsOf(u)
    BY <1>0, <1>2, HasTail
  <2> QED
    BY <2>1 DEF PullsOf
<1>3. ASSUME ClientStep PROVE u \in wanted \ dirty /\ ~Has(wire, PullsOf(u))
  <2>1. CASE Opens \/ Edits \/ Closes \/ FilesChange \/ FoldersChange
    <3>1. PICK kind \in NoteKinds, v \in Uris : /\ Sends([k |-> kind, u |-> v])
                                                /\ (wanted' \ dirty') \subseteq (wanted \ dirty)
      BY <1>0, <2>1 DEF Opens, Edits, Closes, FilesChange, FoldersChange, NoteKinds
    <3>2. PICK m \in Message : m = [k |-> kind, u |-> v]
      BY DEF Notes, Message
    <3> QED
      BY <1>1, <3>1, <3>2 DEF Sends
  <2>2. CASE Pulls
    <3>1. PICK v \in dirty : /\ Sends([k |-> "pull", u |-> v, base |-> shown[v]])
                             /\ wanted' = wanted /\ dirty' = dirty \ {v}
      BY <2>2 DEF Pulls
    <3>2. v \in Uris /\ shown[v] \in Reports
      BY <1>0
    <3>3. PICK m \in Message : m = [k |-> "pull", u |-> v, base |-> shown[v]]
      BY <3>2, MessagesTyped DEF Requests
    <3>4. ~Has(wire, PullsOf(u)) /\ m \notin PullsOf(u)
      BY <1>1, <3>1, <3>3 DEF Sends
    <3>5. u # v
      BY <3>2, <3>3, <3>4, PullsTell
    <3> QED
      BY <3>1, <3>4, <3>5
  <2>3. CASE PullsClosed
    <3>1. PICK v \in Uris : Sends([k |-> "pull", u |-> v, base |-> NoReport]) /\ UNCHANGED <<wanted, dirty>>
      BY <2>3 DEF PullsClosed
    <3>2. PICK m \in Message : m = [k |-> "pull", u |-> v, base |-> NoReport]
      BY NothingTyped, MessagesTyped DEF Requests
    <3> QED
      BY <1>1, <3>1, <3>2 DEF Sends
  <2>4. CASE PullsWorkspace
    <3>1. PICK m \in Message : m = [k |-> "workspace", u |-> "workspace", base |-> NoReport]
      BY MessagesTyped DEF Requests
    <3> QED
      BY <1>1, <2>4, <3>1 DEF PullsWorkspace, Sends
  <2>5. CASE Receives
    <3>1. wire' = wire /\ wanted' = wanted /\ dirty \subseteq dirty'
      BY <2>5 DEF Receives
    <3> QED
      BY <3>1
  <2>6. CASE Refreshes
    BY <2>6 DEF Refreshes
  <2>7. CASE Cancels
    BY <2>7 DEF Cancels
  <2> QED
    BY <1>3, <2>1, <2>2, <2>3, <2>4, <2>5, <2>6, <2>7 DEF ClientStep
<1>4. ASSUME MainStep
      PROVE  u \in wanted \ dirty /\ (~Has(wire, PullsOf(u)) \/ (Dispatches /\ Head(wire) \in PullsOf(u)))
  <2>1. UNCHANGED <<wanted, dirty>>
    BY <1>4 DEF MainStep, Dispatches, RefreshCompleted, TextArrives, Analyses, Indexes, DocumentCloses, FileArrives,
       Restores, FolderArrives, Scopes, PublishesNext, EndsChange, OnMain, client
  <2>2. CASE Dispatches
    BY <1>2, <2>1, <2>2 DEF Dispatches
  <2>3. CASE RefreshCompleted
    BY <1>2, <2>1, <2>3 DEF RefreshCompleted
  <2>4. CASE TextArrives \/ DocumentCloses \/ FileArrives \/ FolderArrives
    <3>1. PICK kind \in NoteKinds, v \in Uris : Reads([k |-> kind, u |-> v])
      BY <2>4 DEF TextArrives, DocumentCloses, FileArrives, FolderArrives, NoteKinds
    <3>2. Head(wire).k # "pull" /\ wire # <<>> /\ wire' = Tail(wire)
      BY <3>1 DEF Reads, NoteKinds
    <3> QED
      BY <1>2, <2>1, <3>2
  <2>5. CASE Analyses \/ Indexes \/ Restores \/ Scopes \/ PublishesNext \/ EndsChange
    BY <2>1, <2>5 DEF Analyses, Indexes, Restores, Scopes, PublishesNext, EndsChange
  <2> QED
    BY <1>4, <2>2, <2>3, <2>4, <2>5 DEF MainStep
<1>5. ASSUME WorkerStep \/ UNCHANGED pullVars PROVE u \in wanted \ dirty /\ ~Has(wire, PullsOf(u))
  BY <1>5 DEF WorkerStep, Takes, ReadsDiagnostics, ReadsRelated, AnswersPull, CapturesClosed, ReadsClosedRelated,
     AnswersClosed, CapturesWorkspace, ReportsNext, AnswersWorkspace, OnWorker, client, pullVars
<1> QED
  BY <1>0, <1>3, <1>4, <1>5 DEF PullNext, ClientStep, MainStep, WorkerStep

LEMMA ServedStep ==
  ASSUME Typed, Typed', Stores, Mirrored, Mirrored', OneOutstanding, Based, Served, [PullNext]_pullVars
  PROVE  Served'
<1> SUFFICES ASSUME NEW u \in wanted' \ dirty', ~Has(wire', PullsOf(u))
             PROVE  Follows(u)'
  BY DEF Served
<1>1. u \in wanted \ dirty /\ u \in Uris
  BY LeftAlone
<1>2. CASE Dispatches /\ Head(wire) \in PullsOf(u)
  BY <1>1, <1>2, DispatchFollows
<1>3. CASE ~Has(wire, PullsOf(u))
  <2>1. Follows(u)
    BY <1>1, <1>3 DEF Served
  <2>2. Carried(u)
    BY <1>1, <1>3, <2>1, CarriedOn DEF Follows
  <2>3. CASE Receives
    BY <1>1, <2>1, <2>2, <2>3, ReceiveFollows
  <2>4. CASE Takes
    BY <1>1, <2>1, <2>2, <2>4, TakeFollows
  <2>5. CASE WorkerStep /\ ~Takes
    BY <1>1, <2>1, <2>2, <2>5, WorkFollows
  <2>6. ASSUME UNCHANGED <<shown, replies, job.u, job.at, job.text, job.read>>, UnderWay(u) => UnderWay(u)' PROVE Follows(u)'
    BY <1>1, <2>1, <2>2, <2>6, FollowsOn DEF Follows
  <2>7. ASSUME UNCHANGED <<shown, replies, job, queue>> PROVE Follows(u)'
    <3>1. UnderWay(u) => UnderWay(u)'
      BY <2>7 DEF UnderWay
    <3> QED
      BY <2>6, <2>7, <3>1
  <2>8. CASE Cancels
    <3>1. UNCHANGED <<shown, replies, queue, job.u, job.at, job.text, job.read>>
      BY <2>8 DEF Cancels, Typed, WorkerTyped, Jobs
    <3>2. UnderWay(u) => UnderWay(u)'
      BY <3>1 DEF UnderWay
    <3> QED
      BY <2>6, <3>1, <3>2
  <2>9. CASE Dispatches
    <3>1. /\ queue \in Seq(Requests) /\ queue' = Append(queue, Head(wire)) /\ Head(wire) \in Requests
          /\ UNCHANGED <<shown, replies, job>>
      BY <2>9, TailTyped, RequestsAreAsked DEF Dispatches, OnMain, client, Typed, ClientTyped, WorkerTyped
    <3>2. UnderWay(u) => UnderWay(u)'
      BY <3>1, HasAppend DEF UnderWay
    <3> QED
      BY <2>6, <3>1, <3>2
  <2> QED
    BY <2>3, <2>4, <2>5, <2>7, <2>8, <2>9
    DEF PullNext, WorkerStep, pullVars, client, Opens, Edits, Closes, FilesChange, FoldersChange, Pulls, PullsClosed,
        PullsWorkspace, Refreshes, ServerUnchanged, OnMain, RefreshCompleted, TextArrives, Analyses, Indexes,
        DocumentCloses, FileArrives, Restores, FolderArrives, Scopes, PublishesNext, EndsChange
<1> QED
  BY <1>2, <1>3, LeftAlone

LEMMA InitServed ==
  ASSUME PullInit
  PROVE  Mirrored /\ OneOutstanding /\ Based /\ Served
<1>1. wire = <<>> /\ replies = <<>> /\ queue = <<>> /\ refresh = "none" /\ dirty = wanted /\ job.u = "none"
  BY DEF PullInit, Idle
<1>2. \A u \in wanted : doc[u] # NoText
  BY InitTyped DEF Typed, ClientTyped
<1>3. Mirrored
  BY <1>1, <1>2, NothingSent DEF Mirrored
<1>4. OneOutstanding
  BY <1>1, NothingSent, NobodysJob DEF OneOutstanding
<1>5. Based
  BY <1>1, NobodysJob, NothingGiven DEF Based, Each
<1>6. Served
  BY <1>1 DEF Served
<1> QED
  BY <1>3, <1>4, <1>5, <1>6

(***************************************************************************)
(* Theorems.                                                               *)
(***************************************************************************)
LEMMA InvariantStarts ==
  ASSUME PullInit
  PROVE  IInv
  BY InitTyped, InitStores, InitServed DEF IInv

LEMMA InvariantStep ==
  ASSUME IInv, [PullNext]_pullVars
  PROVE  IInv'
<1>1. Typed'
  BY TypedStep DEF IInv
<1>2. Paired' /\ Stores' /\ Seen'
  BY <1>1, PairedStep, StoresStep, SeenStep DEF IInv
<1>3. Mirrored' /\ OneOutstanding' /\ Based'
  BY MirroredStep, OutstandingStep, BasedStep DEF IInv
<1>4. Served'
  BY <1>1, <1>3, ServedStep DEF IInv
<1> QED
  BY <1>1, <1>2, <1>3, <1>4 DEF IInv

\* Whatever documents are open when a session starts and however many messages the
\* client sends, the stores main replaces one after the other, the requests under way
\* and what the client shows stay related as IInv says (pull_diagnostics.py:91-217,
\* workspace_lsp.py's publication).
THEOREM PullsKeepInvariant == PullSpec => []IInv
<1>1. PullInit => IInv
  BY InvariantStarts
<1>2. IInv /\ [PullNext]_pullVars => IInv'
  BY InvariantStep
<1> QED
  BY <1>1, <1>2, PTL DEF PullSpec

\* Progress that begins ends once, last, however the request ends - answered, refused,
\* cancelled - and partial results come only with a result (pull_diagnostics.py:479-667).
THEOREM ProgressIsPaired == PullSpec => []ProgressPaired
<1>1. IInv => ProgressPaired
  BY PairedIsWell DEF IInv
<1> QED
  BY <1>1, PullsKeepInvariant, PTL

\* A workspace report has every open document of the folders as it is when it is
\* answered, and refers only to texts indexed then (commit_matching_if_current,
\* commit_snapshots_if_current and commit_all_if_current, nested).
THEOREM ReportsAreOfOneWorkspace == PullSpec => ReportsOneWorkspace
<1>1. ASSUME IInv, [PullNext]_pullVars
      PROVE  [OfOneWorkspace]_pullVars
  <2>1. Typed'
    BY <1>1, TypedStep DEF IInv
  <2> QED
    BY <1>1, <2>1, ReportsStep DEF IInv
<1> QED
  BY <1>1, PullsKeepInvariant, PTL DEF PullSpec, ReportsOneWorkspace

\* When nothing is under way, an open document's last report is what its diagnostics are
\* now: one computed while another notification was being handled, an unchanged one or one
\* refused is followed by a refresh or a new pull (pull_diagnostics.py:91-131, 133-217).
THEOREM PullsAreSettled == PullSpec => []PullsSettle
<1>1. ASSUME IInv, main = Waiting, wire = <<>>, refresh = "none", NEW u \in wanted \ dirty, ~InFlight(u)
      PROVE  shown[u] = Report(doc[u], Diagnosed(u))
  <2>1. ~Has(wire, PullsOf(u))
    BY <1>1, NothingSent
  <2>2. doc[u] # NoText /\ u \in Uris
    BY <1>1, <2>1, Quiet DEF IInv
  <2>3. ~UnderWay(u)
    BY <1>1, <2>2, UnderWayIs DEF IInv
  <2>4. ~RefreshComes
    BY <1>1 DEF RefreshComes, Changing, Waiting
  <2>5. ~BeingIndexed(u) /\ shown[u] = Due(u)
    BY <1>1, <2>1, <2>3, <2>4 DEF IInv, Served, Follows
  <2> QED
    BY <1>1, <2>2, <2>4, <2>5, StoredIsDue DEF IInv
<1>2. IInv => PullsSettle
  BY <1>1 DEF PullsSettle
<1> QED
  BY <1>2, PullsKeepInvariant, PTL
=============================================================================
