---------------------------- MODULE SaveFormatting ----------------------------
(***************************************************************************)
(* Formatting and the configuration it follows: will_save_formatting.py    *)
(* and module_search_roots.py over the server requests of server.py.       *)
(* Manual formatting takes its options from the request; formatting before *)
(* a save takes them from settings the server asks the client for, once    *)
(* per workspace folder, again after every change of the configuration or  *)
(* of the folders.  The worker formats while main handles notifications    *)
(* and replies to requests that were delivered.                            *)
(***************************************************************************)
EXTENDS Integers, Sequences, FiniteSets

CONSTANTS
  Folders,          \* workspace folders around the document, numbered from the outermost
  Values,           \* formatting settings
  Default,          \* four spaces
  Roots,            \* module search roots, other than those of the session's start
  Notices,          \* bound: notifications about the configuration or the folders
  Edits             \* bound: edits of the document

ASSUME DefaultAssumption == Default \in Values
ASSUME FoldersAssumption == IsFiniteSet(Folders) /\ Folders = 1..Cardinality(Folders)

VARIABLES
  client,           \* [values, roots, told]: what the client's configuration says, and
                    \* the requests it answered with it
  asked,            \* requests sent and not answered yet: id -> folders asked for
  wire,             \* messages from the client, oldest first
  deferred,         \* replies held while a request is executed
  notices,          \* notifications sent so far
  optedIn,          \* _module_search_configuration_enabled
  folders, foldersGeneration,
  generation, moduleGeneration,
  requested,        \* _next_server_request_id
  pending,          \* _pending_server_requests, for workspace/configuration
  records,          \* _formatting_configuration_requests and the module requests
  settings,         \* _formatting_configurations
  roots,            \* _module_search_roots
  main,             \* "idle", or "scoping" between the folders and their configuration
  text,             \* identity of the open document
  save,             \* the request being executed
  inForce,          \* settings looked up since the last invalidation
  answer            \* the kind of the edits answered last, if any

clientVars == <<client, notices>>
configuration == <<generation, moduleGeneration, requested, pending, records, settings, roots>>
scope == <<folders, foldersGeneration>>
saveVars == <<clientVars, asked, wire, deferred, optedIn, scope, configuration, main, text, save,
              inForce, answer>>

Global == 0          \* the scope without a URI
Everywhere == {Global} \cup Folders
Invalid == "invalid"
Session == "session roots"
None == "none"

ScopesOf(fs) == {Global} \cup fs                     \* _formatting_configuration_scopes

\* The innermost of the folders (scope_uri_for).
ScopeOf(fs) == CHOOSE f \in ScopesOf(fs) : \A g \in ScopesOf(fs) : f >= g

Lookup(fs, s) ==
  IF ScopeOf(fs) \in DOMAIN s THEN s[ScopeOf(fs)]
  ELSE IF Global \in DOMAIN s THEN s[Global] ELSE Default

(***************************************************************************)
(* The client: it changes its configuration and says so, changes the       *)
(* folders, edits, and answers each request it was sent, cancelled or not, *)
(* with what its configuration says then, or with an error.                *)
(***************************************************************************)
Sends(m) == wire' = Append(wire, m) /\ notices < Notices /\ notices' = notices + 1

ServerIdle == UNCHANGED <<deferred, optedIn, scope, configuration, main, text, save, inForce, answer>>

ChangesConfiguration ==
  /\ \E s \in Everywhere, v \in Values \cup {Invalid} :
       v # client.values[s] /\ client' = [client EXCEPT !.values[s] = v]
  /\ Sends([k |-> "configuration"])
  /\ UNCHANGED asked /\ ServerIdle

ChangesRoots ==
  /\ optedIn
  /\ \E r \in Roots \cup {Session} : r # client.roots /\ client' = [client EXCEPT !.roots = r]
  /\ Sends([k |-> "configuration"])
  /\ UNCHANGED asked /\ ServerIdle

ChangesFolders ==
  /\ \E f \in Folders : Sends([k |-> "folders", f |-> f])
  /\ UNCHANGED <<client, asked>> /\ ServerIdle

Answers(id, result, told) ==
  /\ wire' = Append(wire, [k |-> "reply", id |-> id, result |-> result])
  /\ asked' = [i \in DOMAIN asked \ {id} |-> asked[i]]
  /\ client' = [client EXCEPT !.told = @ \cup told]
  /\ UNCHANGED notices /\ ServerIdle

AnswersValues ==
  \E id \in DOMAIN asked :
    Answers(id, <<[values |-> [s \in ScopesOf(asked[id]) |-> client.values[s]],
                   roots |-> client.roots]>>, {id})

AnswersError == \E id \in DOMAIN asked : Answers(id, <<>>, {})

(***************************************************************************)
(* Main: configuration requests and their supersession.                    *)
(***************************************************************************)
\* _queue_formatting_configuration; `fs`, `g` and `mg` are the folders and the
\* generations it reads.  What it queues is delivered when main has dispatched.
Queues(fs, g, mg) ==
  LET id == requested + 1 IN
  /\ requested' = id
  /\ pending' = {id}
  /\ records' = [i \in {id} |-> [generation |-> g, module |-> mg, folders |-> fs]]
  /\ asked' = [i \in DOMAIN asked \cup {id} |-> IF i = id THEN fs ELSE asked[i]]

\* Fault: while a request is pending, nothing is invalidated.
InvalidatesPending(fs, mg) ==
  /\ IF pending # {}
     THEN UNCHANGED <<generation, moduleGeneration, requested, pending, records, asked>>
     ELSE /\ generation' = generation + 1
          /\ moduleGeneration' = mg
          /\ Queues(fs, generation + 1, mg)
  /\ inForce' = {Lookup(fs, settings)}
  /\ UNCHANGED <<settings, roots>>

\* _invalidate_formatting_configuration: every pending request is retired first.
Invalidates(fs, mg) ==
  /\ generation' = generation + 1
  /\ moduleGeneration' = mg
  /\ Queues(fs, generation + 1, mg)
  /\ inForce' = {Lookup(fs, settings)}
  /\ UNCHANGED <<settings, roots>>

Notified(m) ==
  /\ m.k = "configuration"
  /\ Invalidates(folders, moduleGeneration + (IF optedIn THEN 1 ELSE 0))
  /\ UNCHANGED <<scope, main>>

\* The folders change first; their configuration is asked for after the closed
\* files are scanned and the diagnostics published.
FoldersArrive(m) ==
  /\ m.k = "folders"
  /\ folders' = IF m.f \in folders THEN folders \ {m.f} ELSE folders \cup {m.f}
  /\ foldersGeneration' = foldersGeneration + 1
  /\ main' = "scoping"
  /\ inForce' = inForce \cup {Lookup(folders', settings)}
  /\ UNCHANGED <<asked, configuration>>

InvalidatesScope ==
  /\ main = "scoping" /\ main' = "idle"
  /\ Invalidates(folders, moduleGeneration)
  /\ UNCHANGED <<clientVars, wire, deferred, optedIn, scope, text, save, answer>>

\* A value the parser rejects keeps what the scope had.
Parsed(s, v) ==
  IF v # Invalid THEN v ELSE IF s \in DOMAIN settings THEN settings[s] ELSE Default

Installed(record, values) == [s \in ScopesOf(record.folders) |-> Parsed(s, values[s])]

\* _server_request_completed, for formatting and then for module roots.
Completes(m) ==
  /\ m.k = "reply"
  /\ IF m.id \notin pending THEN UNCHANGED <<configuration, asked, inForce>>
     ELSE LET record == records[m.id]
              stale == record.generation # generation
              moduleStale == optedIn /\ record.module # moduleGeneration
          IN /\ IF stale \/ m.result = <<>> THEN UNCHANGED settings
                ELSE settings' = Installed(record, m.result[1].values)
             /\ IF ~optedIn \/ moduleStale \/ m.result = <<>> THEN UNCHANGED roots
                ELSE roots' = m.result[1].roots
             /\ IF stale \/ moduleStale THEN Queues(folders, generation, moduleGeneration)
                ELSE pending' = {} /\ records' = <<>> /\ UNCHANGED <<requested, asked>>
             /\ inForce' = inForce \cup {Lookup(folders, settings')}
             /\ UNCHANGED <<generation, moduleGeneration>>
  /\ UNCHANGED <<scope, main>>

Takes(m) == Notified(m) \/ FoldersArrive(m) \/ Completes(m)

\* A reply to a request that is not pending waits while a request is executed,
\* and every later reply waits behind it; notifications pass.
Waits(m) == m.k = "reply" /\ save.at # "idle" /\ (m.id \notin pending \/ deferred # <<>>)

Reads ==
  /\ main = "idle" /\ wire # <<>>
  /\ save.at # "idle" \/ deferred = <<>>
  /\ wire' = Tail(wire)
  /\ IF Waits(Head(wire))
     THEN /\ deferred' = Append(deferred, Head(wire))
          /\ UNCHANGED <<asked, scope, configuration, main, inForce>>
     ELSE Takes(Head(wire)) /\ UNCHANGED deferred
  /\ UNCHANGED <<clientVars, optedIn, text, save, answer>>

ReadsDeferred ==
  /\ main = "idle" /\ save.at = "idle" /\ deferred # <<>>
  /\ deferred' = Tail(deferred)
  /\ Takes(Head(deferred))
  /\ UNCHANGED <<clientVars, wire, optedIn, text, save, answer>>

EditsText ==
  /\ main = "idle" /\ text < Edits /\ text' = text + 1
  /\ UNCHANGED <<clientVars, asked, wire, deferred, optedIn, scope, configuration, main, save, inForce, answer>>

(***************************************************************************)
(* The worker.                                                             *)
(***************************************************************************)
Idle == [at |-> "idle"]
Works(next) ==
  /\ save' = next
  /\ UNCHANGED <<clientVars, asked, wire, deferred, optedIn, scope, configuration, main, text, inForce>>

\* Document, range, ranges and on-type formatting: options of the request.
StartsManual(kind) ==
  /\ save.at = "idle"
  /\ Works([at |-> "formatting", kind |-> kind, text |-> text])
  /\ answer' = None

FormatsDocument == StartsManual("document")
FormatsRange == StartsManual("range")
FormatsRanges == StartsManual("ranges")
FormatsOnType == StartsManual("on type")

\* The semantics must be those of the document read before; no edits otherwise.
AnswersManual ==
  /\ save.at = "formatting"
  /\ Works(Idle)
  /\ answer' = IF save.text = text THEN save.kind ELSE None

StartsSave ==
  save.at = "idle" /\ Works([at |-> "document", text |-> text]) /\ answer' = None

ReadsSemantics ==
  /\ save.at = "document"
  /\ IF save.text # text THEN Works(Idle) /\ answer' = None
     ELSE Works([at |-> "folders", text |-> text]) /\ UNCHANGED answer

ReadsFolderGeneration ==
  /\ save.at = "folders"
  /\ Works([at |-> "generation", text |-> save.text, folders |-> foldersGeneration])
  /\ UNCHANGED answer

ReadsGeneration ==
  /\ save.at = "generation"
  /\ Works([at |-> "scope", text |-> save.text, folders |-> save.folders, generation |-> generation])
  /\ UNCHANGED answer

ReadsScope ==
  /\ save.at = "scope"
  /\ Works([at |-> "settings", text |-> save.text, folders |-> save.folders,
            generation |-> save.generation, scope |-> ScopeOf(folders)])
  /\ UNCHANGED answer

ReadsSettings ==
  /\ save.at = "settings"
  /\ Works([at |-> "commit", text |-> save.text, folders |-> save.folders,
            generation |-> save.generation, used |-> Lookup(IF save.scope = Global THEN {} ELSE {save.scope}, settings)])
  /\ UNCHANGED answer

\* Fault: only the document is compared.
SaveCurrentDocument(s) == s.text = text

SaveCurrent(s) == s.text = text /\ s.folders = foldersGeneration /\ s.generation = generation

\* _current_formatting_result, inside the locks of the semantics, of the folders
\* and of the configuration.
AnswersSave ==
  /\ save.at = "commit"
  /\ Works(Idle)
  /\ answer' = IF SaveCurrent(save) THEN "save" ELSE None

(***************************************************************************)
(* A session whose client answered `initialize` with these capabilities:   *)
(* after `initialized` the first configuration is asked for.               *)
(***************************************************************************)
SaveInit ==
  /\ client = [values |-> [s \in Everywhere |-> Default], roots |-> Session, told |-> {}]
  /\ optedIn \in BOOLEAN
  /\ folders \in SUBSET Folders /\ foldersGeneration = 0
  /\ generation = 1 /\ moduleGeneration = 0
  /\ requested = 1 /\ pending = {1}
  /\ records = [i \in {1} |-> [generation |-> 1, module |-> 0, folders |-> folders]]
  /\ asked = [i \in {1} |-> folders]
  /\ settings = [s \in {Global} |-> Default] /\ roots = Session
  /\ wire = <<>> /\ deferred = <<>> /\ notices = 0
  /\ main = "idle" /\ text = 0 /\ save = Idle
  /\ inForce = {Default} /\ answer = None

SaveNext ==
  \/ ChangesConfiguration \/ ChangesRoots \/ ChangesFolders
  \/ AnswersValues \/ AnswersError
  \/ Reads \/ ReadsDeferred \/ InvalidatesScope \/ EditsText
  \/ FormatsDocument \/ FormatsRange \/ FormatsRanges \/ FormatsOnType \/ AnswersManual
  \/ StartsSave \/ ReadsSemantics \/ ReadsFolderGeneration \/ ReadsGeneration \/ ReadsScope
  \/ ReadsSettings \/ AnswersSave

SaveSpec == SaveInit /\ [][SaveNext]_saveVars

(***************************************************************************)
(* Properties.                                                             *)
(***************************************************************************)
\* When everything the client sent is handled and its last answer carried values,
\* the settings and the search roots are those of its configuration: superseded,
\* late and deferred replies neither install anything nor keep the newest from
\* being asked for (will_save_formatting.py, module_search_roots.py).
SettingsSettle ==
  (wire = <<>> /\ deferred = <<>> /\ main = "idle" /\ requested \in client.told) =>
    /\ DOMAIN settings = ScopesOf(folders)
    /\ \A f \in ScopesOf(folders) : client.values[f] # Invalid => settings[f] = client.values[f]
    /\ optedIn => roots = client.roots

\* Edits made before a save use settings that were in force for the document since
\* the configuration was last invalidated, and any edits are for the current text
\* (_current_formatting_result and the commits of manual formatting).
SavedSinceInvalidation ==
  [][answer = None /\ answer' # None =>
       save.text = text /\ (answer' = "save" => save.used \in inForce)]_saveVars

=============================================================================
