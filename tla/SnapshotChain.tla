---------------------------- MODULE SnapshotChain ----------------------------
(***************************************************************************)
(* The version-bound stores of the language server: open documents and the *)
(* results derived from them, syntax, symbols, semantics and diagnostics,  *)
(* each bound by object identity to the exact parent it was derived from.  *)
(*                                                                         *)
(* Analysis runs outside every lock.  Its result enters a store, or a      *)
(* response leaves the server, only through a compare-and-commit boundary: *)
(* the call takes the locks of the chain one after the other, documents    *)
(* first, compares at each layer the identity it captured with the one     *)
(* stored, and runs its callback while it still holds all of them.         *)
(*                                                                         *)
(* One step of this module is one critical section: a lock is taken, the   *)
(* comparison under it is made, and the lock is kept (commit, publish) or  *)
(* given back (get).  Locks are given back together at the end of a call.  *)
(***************************************************************************)
EXTENDS Integers, FiniteSets

CONSTANTS
    Uris,       \* document URIs
    Threads,    \* threads of the process that call the stores
    Depth,      \* number of derived layers above the documents (4 in the code)
    MaxId,      \* bound: how many objects a behaviour may allocate
    None        \* "no entry in the dictionary"

ASSUME ChainAssumption ==
    /\ IsFiniteSet(Uris)
    /\ Depth \in Nat \ {0}
    /\ MaxId \in Nat
    /\ \A k \in 0..Depth : None \notin [0..k -> 1..MaxId]

VARIABLES
    store,      \* store[l][u]: what the dictionary of layer l holds for URI u
    related,    \* related[i]: the related_semantics of the diagnostics object i
    made,       \* every snapshot ever created: what a caller may still refer to
    nextId,     \* the next object identity
    call        \* call[t]: the store operation thread t is inside

vars == <<store, related, made, nextId, call>>

-----------------------------------------------------------------------------
(***************************************************************************)
(* Snapshots.  Layer 0 holds documents, layer l + 1 the results derived    *)
(* from layer l.  A snapshot is its lineage: its own identity and that of  *)
(* every ancestor, one per layer.                                          *)
(***************************************************************************)
Layers == 0..Depth

Ids == 1..MaxId

Line(k) == [0..k -> Ids]

Lines == UNION {Line(k) : k \in Layers}

Snapshot(k) == [uri : Uris, line : Line(k)]

Snapshots == UNION {Snapshot(k) : k \in Layers}

\* Snapshots of layer k, at most one of each URI.
OneEach(S, k) ==
    /\ \A s \in S : DOMAIN s.line = 0..k
    /\ \A r, s \in S : r # s => r.uri # s.uri

Holds(l, u, id) == store[l][u] # None /\ store[l][u][l] = id

\* The snapshot and all it was derived from are what the stores hold now.
Current(s) == \A l \in DOMAIN s.line : Holds(l, s.uri, s.line[l])

IsOpen(u) == store[0][u] # None

-----------------------------------------------------------------------------
(***************************************************************************)
(* Calls.  "at" is the next layer whose lock the call needs.  A commit     *)
(* over "goals" covers "scope": {} when only the goals must be current     *)
(* (commit_subset_if_current and the commits of the derived stores), Uris  *)
(* when they must be all open documents (commit_all_if_current), a set of  *)
(* URIs when they must be the open documents of that set                   *)
(* (commit_matching_if_current).                                           *)
(***************************************************************************)
Idle == [op |-> "idle", layer |-> 0, at |-> 0, focus |-> None,
         goals |-> {}, scope |-> {}]

Calls == [op : {"idle", "get", "publish", "commit"},
          layer : Layers, at : 0..(Depth + 1),
          focus : Snapshots \cup {None},
          goals : SUBSET Snapshots, scope : SUBSET Uris]

Guarded(t) == call[t].op \in {"publish", "commit"}

\* Fault: publish takes the lock of its own store before those of its parents.
HeldOwnFirst(t) ==
    IF Guarded(t)
    THEN 0..(call[t].at - 1) \cup (IF call[t].op = "publish" THEN {call[t].layer} ELSE {})
    ELSE {}

\* The locks thread t holds: those of the layers it has compared so far.
Held(t) == IF Guarded(t) THEN 0..(call[t].at - 1) ELSE {}

\* Thread t can take the lock of layer l.  The locks are re-entrant.
Free(l, t) == \A o \in Threads \ {t} : l \notin Held(o)

Unlocked(l) == \A o \in Threads : l \notin Held(o)

\* The callback of a commit is being executed.
Running(t) == call[t].op = "commit" /\ call[t].at = call[t].layer + 1

TypeOK ==
    /\ store \in [Layers -> [Uris -> Lines \cup {None}]]
    /\ \A l \in Layers, u \in Uris : store[l][u] \in Line(l) \cup {None}
    /\ related \in [Ids -> SUBSET Snapshots]
    /\ made \in SUBSET Snapshots
    /\ nextId \in 1..(MaxId + 1)
    /\ call \in [Threads -> Calls]

Init ==
    /\ store = [l \in Layers |-> [u \in Uris |-> None]]
    /\ related = [i \in Ids |-> {}]
    /\ made = {}
    /\ nextId = 1
    /\ call = [t \in Threads |-> Idle]

-----------------------------------------------------------------------------
(***************************************************************************)
(* Document transitions.  Each replaces the object, never edits it, in one *)
(* critical section of the document lock.                                  *)
(***************************************************************************)
Document(u, id) == [uri |-> u, line |-> [l \in 0..0 |-> id]]

PutDocument(u) ==
    /\ Unlocked(0)
    /\ nextId <= MaxId
    /\ store' = [store EXCEPT ![0][u] = Document(u, nextId).line]
    /\ made' = made \cup {Document(u, nextId)}
    /\ nextId' = nextId + 1
    /\ UNCHANGED <<related, call>>

OpenDocument(u) == ~IsOpen(u) /\ PutDocument(u)

\* replace and apply_changes once the version and the changes are accepted.
ChangeDocument(u) == IsOpen(u) /\ PutDocument(u)

CloseDocument(u) ==
    /\ Unlocked(0)
    /\ IsOpen(u)
    /\ store' = [store EXCEPT ![0][u] = None]
    /\ UNCHANGED <<related, made, nextId, call>>

\* rename_many: one batch of (source, destination) pairs.  Only open sources
\* move; a destination must be free or be vacated by the same batch.
RenameDocuments(pairs) ==
    LET moving  == {p \in pairs : IsOpen(p[1])}
        sources == {p[1] : p \in moving}
        targets == {p[2] : p \in moving}
    IN  /\ Unlocked(0)
        /\ \A p \in pairs : p[1] # p[2]
        /\ \A p, q \in pairs : p # q => p[1] # q[1] /\ p[2] # q[2]
        /\ moving # {}
        /\ \A u \in targets : IsOpen(u) => u \in sources
        /\ nextId + Cardinality(moving) <= MaxId + 1
        /\ \E fresh \in [targets -> nextId..(nextId + Cardinality(moving) - 1)] :
              /\ \A u, v \in targets : u # v => fresh[u] # fresh[v]
              /\ store' = [store EXCEPT ![0] =
                     [u \in Uris |->
                        IF u \in targets THEN Document(u, fresh[u]).line
                        ELSE IF u \in sources THEN None
                        ELSE store[0][u]]]
              /\ made' = made \cup {Document(u, fresh[u]) : u \in targets}
        /\ nextId' = nextId + Cardinality(moving)
        /\ UNCHANGED <<related, call>>

\* discard of a derived store: the entry goes, current or stale.
Discard(k, u) ==
    /\ Unlocked(k)
    /\ store[k][u] # None
    /\ store' = [store EXCEPT ![k][u] = None]
    /\ UNCHANGED <<related, made, nextId, call>>

-----------------------------------------------------------------------------
(***************************************************************************)
(* Guarded calls.                                                          *)
(***************************************************************************)

\* Fault: the related semantics are recorded, and not compared.
BeginPublishParentOnly(t, k, parent, others) ==
    /\ call[t] = Idle
    /\ DOMAIN parent.line = 0..(k - 1)
    /\ others # {} => k = Depth
    /\ OneEach({parent} \cup others, k - 1)
    /\ nextId <= MaxId
    /\ nextId' = nextId + 1
    /\ related' = [related EXCEPT ![nextId] = others]
    /\ call' = [call EXCEPT ![t] =
          [op |-> "publish", layer |-> k, at |-> 0,
           focus |-> [uri |-> parent.uri,
                      line |-> [l \in 0..k |-> IF l = k THEN nextId ELSE parent.line[l]]],
           goals |-> {parent}, scope |-> {}]]
    /\ UNCHANGED <<store, made>>

\* publish of layer k: a result computed from "parent", and for diagnostics
\* also from the semantics "others" of other URIs.  The new object exists
\* before it is known whether it may be stored.
BeginPublish(t, k, parent, others) ==
    /\ call[t] = Idle
    /\ DOMAIN parent.line = 0..(k - 1)
    /\ others # {} => k = Depth
    /\ OneEach({parent} \cup others, k - 1)
    /\ nextId <= MaxId
    /\ nextId' = nextId + 1
    /\ related' = [related EXCEPT ![nextId] = others]
    /\ call' = [call EXCEPT ![t] =
          [op |-> "publish", layer |-> k, at |-> 0,
           focus |-> [uri |-> parent.uri,
                      line |-> [l \in 0..k |-> IF l = k THEN nextId ELSE parent.line[l]]],
           goals |-> {parent} \cup others, scope |-> {}]]
    /\ UNCHANGED <<store, made>>

\* A commit over snapshots of layer k of distinct URIs; a diagnostics
\* snapshot brings the semantics it is related to.
BeginCommit(t, k, snapshots, scope) ==
    /\ call[t] = Idle
    /\ OneEach(snapshots, k)
    /\ call' = [call EXCEPT ![t] =
          [op |-> "commit", layer |-> k, at |-> 0, focus |-> None,
           goals |-> snapshots \cup
               (IF k = Depth THEN UNION {related[s.line[k]] : s \in snapshots} ELSE {}),
           scope |-> scope]]
    /\ UNCHANGED <<store, related, made, nextId>>

\* Fault: the guarded scope of documents is not compared.
MatchesNoScope(t, l) ==
    \A g \in call[t].goals : l \in DOMAIN g.line => Holds(l, g.uri, g.line[l])

\* Fault: the derived results are compared, their document is not.
MatchesDerived(t, l) ==
    l # 0 => \A g \in call[t].goals :
                 l \in DOMAIN g.line => Holds(l, g.uri, g.line[l])

\* What is compared under the lock of layer l.
Matches(t, l) ==
    /\ \A g \in call[t].goals :
          l \in DOMAIN g.line => Holds(l, g.uri, g.line[l])
    /\ l = 0 => \A u \in call[t].scope :
          IsOpen(u) => \E g \in call[t].goals : g.uri = u

NeedsLayer(t, l) ==
    /\ Guarded(t)
    /\ call[t].at = l
    /\ IF call[t].op = "publish" THEN l < call[t].layer ELSE l <= call[t].layer

\* The lock of layer l is taken, the identities agree, the lock is kept.
Acquire(t, l) ==
    /\ NeedsLayer(t, l)
    /\ Free(l, t)
    /\ Matches(t, l)
    /\ call' = [call EXCEPT ![t].at = l + 1]
    /\ UNCHANGED <<store, related, made, nextId>>

\* The identities disagree: every lock is given back and the call raises.
Reject(t, l) ==
    /\ NeedsLayer(t, l)
    /\ Free(l, t)
    /\ ~Matches(t, l)
    /\ call' = [call EXCEPT ![t] = Idle]
    /\ UNCHANGED <<store, related, made, nextId>>

\* Fault: the result is stored in the dictionary of its parent's layer.
WriteBelow(t) ==
    LET c == call[t]
    IN  /\ c.op = "publish"
        /\ c.at = c.layer
        /\ Free(c.layer, t)
        /\ store' = [store EXCEPT ![c.layer - 1][c.focus.uri] = c.focus.line]
        /\ made' = made \cup {c.focus}
        /\ call' = [call EXCEPT ![t] = Idle]
        /\ UNCHANGED <<related, nextId>>

\* The callback of publish: the new snapshot is stored under its own lock.
Write(t) ==
    LET c == call[t]
    IN  /\ c.op = "publish"
        /\ c.at = c.layer
        /\ Free(c.layer, t)
        /\ store' = [store EXCEPT ![c.layer][c.focus.uri] = c.focus.line]
        /\ made' = made \cup {c.focus}
        /\ call' = [call EXCEPT ![t] = Idle]
        /\ UNCHANGED <<related, nextId>>

\* The callback of a commit has run; the locks are given back.
Return(t) ==
    /\ Running(t)
    /\ call' = [call EXCEPT ![t] = Idle]
    /\ UNCHANGED <<store, related, made, nextId>>

-----------------------------------------------------------------------------
(***************************************************************************)
(* get: no lock is kept.  Layer by layer the entry is read and must have   *)
(* been derived from the object read one layer below.                      *)
(***************************************************************************)
BeginGet(t, u, k) ==
    /\ call[t] = Idle
    /\ Unlocked(0)
    /\ IsOpen(u)
    /\ call' = [call EXCEPT ![t] =
          [op |-> "get", layer |-> k, at |-> 1,
           focus |-> [uri |-> u, line |-> store[0][u]],
           goals |-> {}, scope |-> {}]]
    /\ UNCHANGED <<store, related, made, nextId>>

Derives(t, l) ==
    LET entry == store[l][call[t].focus.uri]
    IN  entry # None /\ entry[l - 1] = call[t].focus.line[l - 1]

\* Fault: diagnostics are returned without looking the related semantics up.
ReadLayerAlone(t, l) ==
    LET entry == store[l][call[t].focus.uri]
    IN  /\ call[t].op = "get"
        /\ call[t].at = l
        /\ l <= call[t].layer
        /\ Unlocked(l)
        /\ call' = [call EXCEPT ![t] =
              IF Derives(t, l)
              THEN [call[t] EXCEPT !.at = l + 1,
                                   !.focus = [uri |-> call[t].focus.uri, line |-> entry]]
              ELSE Idle]
        /\ UNCHANGED <<store, related, made, nextId>>

\* With the diagnostics object come the semantics still to be looked up.
ReadLayer(t, l) ==
    LET entry == store[l][call[t].focus.uri]
    IN  /\ call[t].op = "get"
        /\ call[t].at = l
        /\ l <= call[t].layer
        /\ Unlocked(l)
        /\ call' = [call EXCEPT ![t] =
              IF Derives(t, l)
              THEN [call[t] EXCEPT
                      !.at = l + 1,
                      !.focus = [uri |-> call[t].focus.uri, line |-> entry],
                      !.goals = IF l = Depth THEN related[entry[l]] ELSE {}]
              ELSE Idle]
        /\ UNCHANGED <<store, related, made, nextId>>

\* DiagnosticStore.get looks each related semantic up by a get of its own,
\* which returns it only if it was current, and gives up at the first that is
\* not what the diagnostics were computed from.
ReadRelated(t, g) ==
    /\ call[t].op = "get"
    /\ g \in call[t].goals
    /\ call' = [call EXCEPT ![t] =
          IF Current(g) THEN [call[t] EXCEPT !.goals = call[t].goals \ {g}]
          ELSE Idle]
    /\ UNCHANGED <<store, related, made, nextId>>

\* The get of thread t is about to return its focus.
Answers(t) ==
    /\ call[t].op = "get"
    /\ call[t].at = call[t].layer + 1
    /\ call[t].goals = {}

FinishGet(t) ==
    /\ Answers(t)
    /\ call' = [call EXCEPT ![t] = Idle]
    /\ UNCHANGED <<store, related, made, nextId>>

-----------------------------------------------------------------------------
Documents ==
    \/ \E u \in Uris : OpenDocument(u) \/ ChangeDocument(u) \/ CloseDocument(u)
    \/ \E pairs \in SUBSET (Uris \X Uris) : RenameDocuments(pairs)
    \/ \E k \in 1..Depth, u \in Uris : Discard(k, u)

Begins(t) ==
    \/ \E k \in 1..Depth, parent \in made, others \in SUBSET made :
          BeginPublish(t, k, parent, others)
    \/ \E k \in Layers, snapshots \in SUBSET made, scope \in SUBSET Uris :
          BeginCommit(t, k, snapshots, scope)
    \/ \E u \in Uris, k \in Layers : BeginGet(t, u, k)

Proceeds(t) ==
    \/ \E l \in Layers : Acquire(t, l) \/ Reject(t, l)
    \/ Write(t)
    \/ Return(t)
    \/ \E l \in 1..Depth : ReadLayer(t, l)
    \/ \E g \in made : ReadRelated(t, g)
    \/ FinishGet(t)

Next == Documents \/ \E t \in Threads : Begins(t) \/ Proceeds(t)

Spec == Init /\ [][Next]_vars

-----------------------------------------------------------------------------
(***************************************************************************)
(* Properties.                                                             *)
(***************************************************************************)

\* While the callback of a commit runs - a response is rendered, a
\* notification is queued - every snapshot it was computed from, with all of
\* its ancestors and the related semantics of other URIs, is still what the
\* stores hold, and no document of the guarded scope was opened behind it.
CommitRunsCurrent ==
    \A t \in Threads : Running(t) =>
        /\ \A g \in call[t].goals : Current(g)
        /\ \A u \in call[t].scope :
              IsOpen(u) => \E g \in call[t].goals : g.uri = u

\* A derived store is only ever given a result whose whole ancestry, and for
\* diagnostics every related semantic, is current at the moment of the write.
PublishedFromCurrent ==
    [][\A k \in 1..Depth, u \in Uris :
          LET entry == store'[k][u]
          IN  entry # store[k][u] /\ entry # None =>
                /\ \A l \in 0..(k - 1) : Holds(l, u, entry[l])
                /\ \A g \in related'[entry[k]] : Current(g)]_vars

\* Late analysis never overwrites newer analysis: the entry of a derived store
\* is not replaced by one computed from an older object of the same URI,
\* whatever closes, renames and reopens happened in between.
NoRegression ==
    [][\A k \in 1..Depth, u \in Uris :
          store[k][u] # None /\ store'[k][u] # None =>
              store[k][u][0] <= store'[k][u][0]]_vars

\* No set of threads waits for each other: the locks of the chain are always
\* taken from the documents upwards.
Awaits(t, o) ==
    \/ \E l \in Layers : NeedsLayer(t, l) /\ l \in Held(o)
    \/ call[t].op = "publish" /\ call[t].at = call[t].layer /\ call[t].layer \in Held(o)
    \/ call[t].op = "get" /\ call[t].at <= call[t].layer /\ call[t].at \in Held(o)

NoCircularWait ==
    \A S \in (SUBSET Threads) \ {{}} :
        \E t \in S : \A o \in S \ {t} : ~Awaits(t, o)

=============================================================================
