------------------------------ MODULE TokenDeltas ------------------------------
(***************************************************************************)
(* Semantic tokens and their deltas: semantic_token_delta.py around the    *)
(* full requests of server.py and uint_intrinsic_semantic_tokens.py, and   *)
(* the refreshes of semantic_token_modifiers.py.  The worker answers one   *)
(* request after the other while main handles the notifications; a delta   *)
(* is computed against the result the server remembers for the document,   *)
(* if that is the result the client named.                                 *)
(***************************************************************************)
EXTENDS Integers, Sequences, FiniteSetsExt

CONSTANTS
  Uris,         \* Nova sources of one workspace
  Tokens,       \* token data a document may have
  Messages      \* bound: notifications and requests the client sends

ASSUME TokensAssumption == Tokens \subseteq Seq(Nat)

VARIABLES
  held,         \* held[u]: the last result the client has for the document
  dirty,        \* documents whose tokens the client is about to ask for
  wanted,       \* documents open in the client
  sent,         \* messages it sent
  messages,     \* messages from the client, oldest first
  queue,        \* requests dispatched to the worker
  replies,      \* replies on their way to the client
  doc,          \* doc[u]: identity of the open document, 0 when closed
  semantics,    \* semantics[u]: the document the stored semantics are of, 0 for none
  indexed,      \* documents with a snapshot in the workspace index
  indexGeneration, \* of the index
  content,      \* content[u]: the tokens that document, semantics and index give,
                \* none while the semantics are not of the document
  handling,     \* the notification being handled
  job,          \* the request being executed
  results,      \* _semantic_token_results
  counter,      \* _semantic_token_result_counter
  refresh       \* the pending workspace/semanticTokens/refresh

editorVars == <<held, dirty, wanted, sent>>
stores == <<doc, semantics, indexed, indexGeneration, content>>
cache == <<results, counter>>
tokenVars == <<editorVars, messages, queue, replies, stores, handling, job, cache, refresh>>

Nothing == [id |-> 0, data |-> <<>>]
Fresh == 1 + Max({doc[u] : u \in Uris} \cup {handling.id})

\* Another document's entry in the index changed: the tokens of `us` may change.
Reclassifies(us) ==
  \E c \in [us -> Tokens] : content' = [u \in Uris |-> IF u \in us THEN c[u] ELSE content[u]]
Analysed == {u \in Uris : doc[u] # 0 /\ semantics[u] = doc[u]}

(***************************************************************************)
(* Edits.                                                                  *)
(***************************************************************************)
Limit(p, c) == Min({Len(p), Len(c)})
CommonPrefix(p, c) ==
  Max({n \in 0..Limit(p, c) : \A i \in 1..n : p[i] = c[i]})
\* Items of the common suffix may not reach into the prefix.
CommonSuffix(p, c) ==
  Max({n \in 0..(Limit(p, c) - CommonPrefix(p, c)) :
         \A i \in 0..(n - 1) : p[Len(p) - i] = c[Len(c) - i]})

TokenEdits(p, c) ==
  IF p = c THEN <<>>
  ELSE <<[start  |-> CommonPrefix(p, c),
          delete |-> Len(p) - CommonSuffix(p, c) - CommonPrefix(p, c),
          data   |-> SubSeq(c, CommonPrefix(p, c) + 1, Len(c) - CommonSuffix(p, c))]>>

\* The client applies edits to the result it named.
Applied(edits, data) ==
  IF edits = <<>> THEN data
  ELSE SubSeq(data, 1, edits[1].start) \o edits[1].data
         \o SubSeq(data, edits[1].start + edits[1].delete + 1, Len(data))

(***************************************************************************)
(* The client.                                                             *)
(***************************************************************************)
SendsMessage(m) == sent < Messages /\ sent' = sent + 1 /\ messages' = Append(messages, m)
ServerUnchanged == UNCHANGED <<queue, replies, stores, handling, job, cache, refresh>>

Opens ==
  \E u \in Uris \ wanted :
    /\ SendsMessage([k |-> "text", u |-> u]) /\ wanted' = wanted \cup {u}
    /\ dirty' = dirty \cup {u} /\ UNCHANGED held /\ ServerUnchanged

Changes ==
  \E u \in wanted :
    /\ SendsMessage([k |-> "text", u |-> u]) /\ dirty' = dirty \cup {u}
    /\ UNCHANGED <<held, wanted>> /\ ServerUnchanged

Closes ==
  \E u \in wanted :
    /\ SendsMessage([k |-> "close", u |-> u])
    /\ wanted' = wanted \ {u} /\ dirty' = dirty \ {u}
    /\ UNCHANGED held /\ ServerUnchanged

Renames ==
  \E u \in wanted, v \in Uris \ wanted :
    /\ SendsMessage([k |-> "rename", u |-> u, v |-> v])
    /\ wanted' = (wanted \ {u}) \cup {v} /\ dirty' = (dirty \ {u}) \cup {v}
    /\ UNCHANGED held /\ ServerUnchanged

AsksFull ==
  \E u \in dirty :
    /\ SendsMessage([k |-> "full", u |-> u, base |-> held[u]]) /\ dirty' = dirty \ {u}
    /\ UNCHANGED <<held, wanted>> /\ ServerUnchanged

AsksDelta ==
  \E u \in wanted :
    /\ held[u].id # 0
    /\ SendsMessage([k |-> "delta", u |-> u, base |-> held[u]]) /\ dirty' = dirty \ {u}
    /\ UNCHANGED <<held, wanted>> /\ ServerUnchanged

AsksRange ==
  \E u \in dirty :
    /\ SendsMessage([k |-> "range", u |-> u, base |-> held[u]])
    /\ UNCHANGED <<held, dirty, wanted>> /\ ServerUnchanged

\* What a reply says the tokens are.
Denoted(r) == IF r.k = "edits" THEN Applied(r.edits, r.base.data) ELSE r.data

\* A refused request is sent again; the tokens of a range are not kept.
Receives ==
  /\ replies # <<>> /\ replies' = Tail(replies)
  /\ LET r == Head(replies) IN
     /\ held' = IF r.k \in {"edits", "data"}
                THEN [held EXCEPT ![r.u] = [id |-> r.id, data |-> Denoted(r)]] ELSE held
     /\ dirty' = IF r.k = "error" /\ r.u \in wanted THEN dirty \cup {r.u} ELSE dirty
  /\ UNCHANGED <<wanted, sent, messages, queue, stores, handling, job, cache, refresh>>

\* The refresh is acknowledged; every open document is asked for afterwards.
Refreshes ==
  /\ refresh = "sent" /\ refresh' = "acknowledged"
  /\ messages' = Append(messages, [k |-> "refreshed"])
  /\ dirty' = wanted
  /\ UNCHANGED <<held, wanted, sent, queue, replies, stores, handling, job, cache>>

(***************************************************************************)
(* Main.                                                                   *)
(***************************************************************************)
Waiting(id) == [at |-> "idle", id |-> id]
Handles(at, u, v, id, others) ==
  [at |-> at, u |-> u, v |-> v, id |-> id, others |-> others, before |-> indexGeneration]
OnMain == UNCHANGED <<editorVars, replies, job>>

Dispatches ==
  /\ handling.at = "idle" /\ messages # <<>> /\ messages' = Tail(messages)
  /\ LET m == Head(messages) IN
     m.k \in {"full", "delta", "range"} /\ queue' = Append(queue, m)
  /\ OnMain /\ UNCHANGED <<stores, cache, handling, refresh>>

RefreshCompleted ==
  /\ handling.at = "idle" /\ messages # <<>> /\ messages' = Tail(messages)
  /\ Head(messages).k = "refreshed" /\ refresh' = "none"
  /\ OnMain /\ UNCHANGED <<queue, stores, cache, handling>>

ReadsMessage(m) ==
  handling.at = "idle" /\ messages # <<>> /\ m = Head(messages) /\ messages' = Tail(messages)

OthersIndexed(u) == indexed \ {u} # {}

\* didOpen and didChange replace the document.
TextArrives ==
  \E u \in Uris :
    /\ ReadsMessage([k |-> "text", u |-> u])
    /\ doc' = [doc EXCEPT ![u] = Fresh] /\ content' = [content EXCEPT ![u] = <<>>]
    /\ handling' = Handles("parsing", u, u, Fresh, OthersIndexed(u))
    /\ OnMain /\ UNCHANGED <<queue, semantics, indexed, indexGeneration, cache, refresh>>

Publishes ==
  /\ handling.at = "parsing"
  /\ semantics' = [semantics EXCEPT ![handling.u] = doc[handling.u]]
  /\ \E t \in Tokens : content' = [content EXCEPT ![handling.u] = t]
  /\ handling' = [handling EXCEPT !.at = "indexing"]
  /\ OnMain /\ UNCHANGED <<messages, queue, doc, indexed, indexGeneration, cache, refresh>>

Reindexes ==
  /\ handling.at = "indexing"
  /\ indexed' = indexed \cup {handling.u} /\ indexGeneration' = indexGeneration + 1
  /\ Reclassifies(Analysed \ {handling.u})
  /\ handling' = [handling EXCEPT !.at = "refreshing"]
  /\ OnMain /\ UNCHANGED <<messages, queue, doc, semantics, cache, refresh>>

DocumentCloses ==
  \E u \in Uris :
    /\ ReadsMessage([k |-> "close", u |-> u])
    /\ doc' = [doc EXCEPT ![u] = 0] /\ content' = [content EXCEPT ![u] = <<>>]
    /\ handling' = Handles("closing", u, u, handling.id, OthersIndexed(u))
    /\ OnMain /\ UNCHANGED <<queue, semantics, indexed, indexGeneration, cache, refresh>>

Unindexes ==
  /\ handling.at = "closing"
  /\ semantics' = [semantics EXCEPT ![handling.u] = 0]
  /\ indexed' = indexed \ {handling.u}
  /\ IF handling.u \in indexed
     THEN indexGeneration' = indexGeneration + 1 /\ Reclassifies(Analysed)
     ELSE UNCHANGED <<indexGeneration, content>>
  /\ handling' = [handling EXCEPT !.at = "refreshing"]
  /\ OnMain /\ UNCHANGED <<messages, queue, doc, cache, refresh>>

\* Fault: edits never ask for a refresh, only changes of the workspace do.
MustRefreshRenamed ==
  handling.u # handling.v /\ handling.before # indexGeneration /\ refresh = "none"
\* _queue_semantic_token_refresh, when other documents may have been reclassified.
MustRefresh == handling.others /\ handling.before # indexGeneration /\ refresh = "none"

EndsChange ==
  /\ handling.at = "refreshing"
  /\ refresh' = IF MustRefresh THEN "sent" ELSE refresh
  /\ handling' = IF doc[handling.u] = 0 THEN [handling EXCEPT !.at = "forgetting"]
                 ELSE Waiting(handling.id)
  /\ OnMain /\ UNCHANGED <<messages, queue, stores, cache>>

Without(r, us) == [u \in DOMAIN r \ us |-> r[u]]

\* Fault: only a rename forgets.
ForgottenRenamed(u) == {}
\* The closed document's result is forgotten last.
Forgotten(u) == {u}

Forgets ==
  /\ handling.at = "forgetting"
  /\ results' = Without(results, Forgotten(handling.u))
  /\ handling' = Waiting(handling.id)
  /\ OnMain /\ UNCHANGED <<messages, queue, stores, counter, refresh>>

\* _handle_workspace_file_renames: both results are forgotten before the semantics
\* of the new URI are published.
RenameArrives ==
  \E u, v \in Uris :
    /\ ReadsMessage([k |-> "rename", u |-> u, v |-> v])
    /\ doc' = [doc EXCEPT ![u] = 0, ![v] = Fresh] /\ content' = [content EXCEPT ![u] = <<>>]
    /\ handling' = Handles("moving", u, v, Fresh, TRUE)
    /\ OnMain /\ UNCHANGED <<queue, semantics, indexed, indexGeneration, cache, refresh>>

MovesAway ==
  /\ handling.at = "moving"
  /\ semantics' = [semantics EXCEPT ![handling.u] = 0]
  /\ indexed' = indexed \ {handling.u}
  /\ IF handling.u \in indexed
     THEN indexGeneration' = indexGeneration + 1 /\ Reclassifies(Analysed)
     ELSE UNCHANGED <<indexGeneration, content>>
  /\ results' = Without(results, {handling.u, handling.v})
  /\ handling' = [handling EXCEPT !.at = "parsing", !.u = handling.v]
  /\ OnMain /\ UNCHANGED <<messages, queue, doc, counter, refresh>>

(***************************************************************************)
(* The worker.                                                             *)
(***************************************************************************)
NoRequest == [at |-> "idle"]
OnWorker == UNCHANGED <<editorVars, messages, stores, handling, refresh>>
Replies(r) == replies' = Append(replies, r) /\ job' = NoRequest
Fails == Replies([k |-> "error", u |-> job.u])

\* Document, semantics and index, as objects.
Identity(u) == <<doc[u], semantics[u], indexGeneration>>

TakesRequest ==
  /\ job.at = "idle" /\ queue # <<>> /\ queue' = Tail(queue)
  /\ job' = [at |-> "reading", k |-> Head(queue).k, u |-> Head(queue).u, base |-> Head(queue).base,
             identity |-> Identity(Head(queue).u), read |-> Identity(Head(queue).u), data |-> <<>>]
  /\ OnWorker /\ UNCHANGED <<replies, cache>>

\* Document, then semantics, then the index; no tokens while the text is not analysed.
ReadsTokens ==
  /\ job.at = "reading"
  /\ IF doc[job.u] = 0 THEN Fails
     ELSE /\ job' = [job EXCEPT !.at = IF semantics[job.u] = doc[job.u] THEN "committing"
                                        ELSE "checking",
                                !.read = Identity(job.u), !.data = content[job.u]]
          /\ UNCHANGED replies
  /\ OnWorker /\ UNCHANGED <<queue, cache>>

CommitsTokens ==
  /\ job.at = "committing"
  /\ IF job.read # Identity(job.u) THEN Fails
     ELSE job' = [job EXCEPT !.at = "checking"] /\ UNCHANGED replies
  /\ OnWorker /\ UNCHANGED <<queue, cache>>

RepliesRange ==
  /\ job.at = "checking" /\ job.k = "range"
  /\ Replies([k |-> "range", u |-> job.u])
  /\ OnWorker /\ UNCHANGED <<queue, cache>>

ChecksIdentity ==
  /\ job.at = "checking" /\ job.k # "range"
  /\ IF job.identity # Identity(job.u) THEN Fails
     ELSE job' = [job EXCEPT !.at = "storing"] /\ UNCHANGED replies
  /\ OnWorker /\ UNCHANGED <<queue, cache>>

\* Fault: the latest result of the document, whatever the client named.
KnownLatest(u, base) == u \in DOMAIN results
Known(u, base) == u \in DOMAIN results /\ results[u].id = base.id

\* The identity is compared again, under the lock of the results.
StoresTokens ==
  /\ job.at = "storing"
  /\ IF job.identity # Identity(job.u) THEN Fails /\ UNCHANGED cache
     ELSE /\ counter' = counter + 1
          /\ results' = [u \in DOMAIN results \cup {job.u} |->
                           IF u = job.u THEN [id |-> counter + 1, data |-> job.data]
                           ELSE results[u]]
          /\ Replies(IF job.k = "delta" /\ Known(job.u, job.base)
                     THEN [k |-> "edits", u |-> job.u, id |-> counter + 1, base |-> job.base,
                           edits |-> TokenEdits(results[job.u].data, job.data)]
                     ELSE [k |-> "data", u |-> job.u, id |-> counter + 1, data |-> job.data])
  /\ OnWorker /\ UNCHANGED queue

TokenInit ==
  /\ held = [u \in Uris |-> Nothing] /\ dirty = {} /\ wanted = {} /\ sent = 0
  /\ messages = <<>> /\ queue = <<>> /\ replies = <<>>
  /\ doc = [u \in Uris |-> 0] /\ semantics = doc /\ indexed = {} /\ indexGeneration = 0
  /\ content = [u \in Uris |-> <<>>]
  /\ handling = Waiting(0) /\ job = NoRequest
  /\ results = <<>> /\ counter = 0 /\ refresh = "none"

TokenNext ==
  \/ Opens \/ Changes \/ Closes \/ Renames \/ AsksFull \/ AsksDelta \/ AsksRange
  \/ Receives \/ Refreshes \/ Dispatches \/ RefreshCompleted
  \/ TextArrives \/ Publishes \/ Reindexes \/ DocumentCloses \/ Unindexes
  \/ EndsChange \/ Forgets \/ RenameArrives \/ MovesAway
  \/ TakesRequest \/ ReadsTokens \/ CommitsTokens \/ RepliesRange \/ ChecksIdentity \/ StoresTokens

TokenSpec == TokenInit /\ [][TokenNext]_tokenVars

(***************************************************************************)
(* Properties.                                                             *)
(***************************************************************************)
\* Deltas or whole results, the client shows what the documents' tokens were when
\* the requests were answered: a delta is against the very result it named, and its
\* edits turn that one into the new (semantic_token_delta.py:82-120, 158-187).
Shown(r) ==
  LET whole == r.k \in {"edits", "data"}
  IN [uri |-> r.u, whole |-> whole, data |-> IF whole THEN Denoted(r) ELSE <<>>]

View == INSTANCE ResultView WITH
  content <- content,
  answers <- [i \in DOMAIN replies |-> Shown(replies[i])],
  shown <- [u \in Uris |-> held[u].data]

ShowsWhatWasCurrent == View!ViewSpec

\* Once a notification is handled the server remembers results of open documents
\* only: a request that races with the close or the rename does not store its result
\* afterwards (semantic_token_delta.py:107, 130).
RememberedAreOpen == handling.at = "idle" => \A u \in DOMAIN results : doc[u] # 0

InFlight(u) ==
  \/ \E i \in DOMAIN messages :
       "u" \in DOMAIN messages[i] /\ (u = messages[i].u \/ messages[i].k = "rename")
  \/ \E i \in DOMAIN queue : queue[i].u = u
  \/ \E i \in DOMAIN replies : replies[i].u = u
  \/ job.at # "idle" /\ job.u = u

\* A client that acknowledges a refresh before it asks again never keeps tokens that
\* another document has made stale: a refresh is on its way whenever nothing else
\* will correct them (_queue_semantic_token_refresh skips a refresh while one is
\* pending).
StaleTokensNoticed ==
  handling.at = "idle" =>
    \A u \in wanted \ dirty :
      held[u].data # content[u] /\ ~InFlight(u) =>
        refresh = "sent" \/ \E i \in DOMAIN messages : messages[i].k \in {"text", "close", "rename"}
=============================================================================
