------------------------- MODULE SnapshotChainProofs -------------------------
(***************************************************************************)
(* Theorems about SnapshotChain, for every set of URIs and threads, every  *)
(* depth of the chain and every number of objects.                         *)
(*                                                                         *)
(* The inductive invariant says how the locks protect the comparisons: two *)
(* threads never hold the same lock (Exclusion), and what a guarded call   *)
(* has compared stays as it was while it holds the lock of that layer      *)
(* (Pinned).  WellFormed relates the fields of a call; Aged orders what is *)
(* stored by the age of its document.                                      *)
(***************************************************************************)
EXTENDS SnapshotChain, FiniteSetTheorems, WellFoundedInduction, TLAPS

Exclusion == \A t, o \in Threads : t # o => Held(t) \cap Held(o) = {}

Pinned ==
    \A t \in Threads : Guarded(t) =>
        /\ \A g \in call[t].goals : \A l \in Held(t) \cap DOMAIN g.line :
              Holds(l, g.uri, g.line[l])
        /\ call[t].at > 0 => \A u \in call[t].scope :
              IsOpen(u) => \E g \in call[t].goals : g.uri = u

\* A publish knows its parent among the goals, layer by layer.
PublishShape(t) ==
    LET c == call[t]
    IN  /\ c.layer \in 1..Depth
        /\ c.at <= c.layer
        /\ c.focus \in Snapshots
        /\ DOMAIN c.focus.line = 0..c.layer
        /\ \E p \in c.goals :
              /\ p.uri = c.focus.uri
              /\ DOMAIN p.line = 0..(c.layer - 1)
              /\ \A l \in 0..(c.layer - 1) : p.line[l] = c.focus.line[l]
        /\ \A g \in c.goals : DOMAIN g.line = 0..(c.layer - 1)
        /\ c.focus.line[c.layer] < nextId
        /\ related[c.focus.line[c.layer]] \subseteq c.goals

CommitShape(t) ==
    /\ call[t].at <= call[t].layer + 1
    /\ \A g \in call[t].goals : DOMAIN g.line \subseteq 0..call[t].layer

GetShape(t) ==
    /\ call[t].focus \in Snapshots
    /\ call[t].at <= call[t].layer + 1
    /\ DOMAIN call[t].focus.line = 0..(call[t].at - 1)

WellFormed ==
    \A t \in Threads :
        /\ call[t].op = "publish" => PublishShape(t)
        /\ call[t].op = "commit" => CommitShape(t)
        /\ call[t].op = "get" => GetShape(t)

Aged ==
    \A u \in Uris : \A k \in Layers :
        store[k][u] # None =>
            /\ store[k][u][0] < nextId
            /\ IsOpen(u) => store[k][u][0] <= store[0][u][0]

IInv == TypeOK /\ Exclusion /\ Pinned /\ WellFormed /\ Aged

-----------------------------------------------------------------------------
(***************************************************************************)
(* Types.                                                                  *)
(***************************************************************************)

\* Every line of the chain is a line of some layer, and a snapshot is one of
\* the layer its line reaches.
LEMMA LineFacts ==
    /\ \A k \in Layers : Snapshot(k) \subseteq Snapshots
    /\ \A k \in Layers : \A line \in Line(k) : DOMAIN line = 0..k /\ line # None
    /\ \A s \in Snapshots : s.uri \in Uris /\ \E k \in Layers : s.line \in Line(k)
BY ChainAssumption DEF Snapshots, Snapshot, Line, Ids, Layers

\* The initial state satisfies the invariant: nothing is stored, all are idle.
LEMMA InitIInv == Init => IInv
<1> SUFFICES ASSUME Init PROVE IInv
  OBVIOUS
<1>1. TypeOK
  BY ChainAssumption
  DEF Init, TypeOK, Idle, Calls, Layers, Snapshots, Ids
<1>2. Exclusion /\ Pinned /\ WellFormed
  BY DEF Init, Exclusion, Pinned, WellFormed, Idle, Held, Guarded
<1>3. Aged
  BY DEF Init, Aged
<1> QED BY <1>1, <1>2, <1>3 DEF IInv

\* A put of a document keeps the types.
LEMMA PutDocumentType ==
    ASSUME NEW u \in Uris, TypeOK, PutDocument(u)
    PROVE  TypeOK'
<1>1. Document(u, nextId).line \in Line(0) /\ 0 \in Layers
  BY ChainAssumption DEF TypeOK, PutDocument, Document, Line, Ids, Layers
<1>2. Document(u, nextId) \in Snapshots
  BY <1>1 DEF Document, Snapshots, Snapshot
<1>3. /\ store' \in [Layers -> [Uris -> Lines \cup {None}]]
      /\ \A l \in Layers, v \in Uris : store'[l][v] \in Line(l) \cup {None}
  BY <1>1 DEF TypeOK, PutDocument, Lines
<1> QED
  BY <1>2, <1>3, ChainAssumption DEF TypeOK, PutDocument

\* The object a publish creates is a snapshot of the layer it publishes to.
LEMMA NewSnapshot ==
    ASSUME TypeOK, NEW k \in 1..Depth, NEW parent \in made, nextId <= MaxId,
           DOMAIN parent.line = 0..(k - 1)
    PROVE  [uri |-> parent.uri,
            line |-> [l \in 0..k |-> IF l = k THEN nextId ELSE parent.line[l]]]
           \in Snapshots
<1>1. /\ parent \in Snapshots /\ parent.uri \in Uris
      /\ \A l \in 0..(k - 1) : parent.line[l] \in Ids
      /\ k \in Layers
  BY LineFacts, ChainAssumption DEF TypeOK, Line, Layers
<1> DEFINE line == [l \in 0..k |-> IF l = k THEN nextId ELSE parent.line[l]]
<1>2. nextId \in Ids
  BY ChainAssumption DEF TypeOK, Ids
<1>3. line \in Line(k)
  BY <1>1, <1>2, ChainAssumption DEF Line
<1> HIDE DEF line
<1>4. [uri |-> parent.uri, line |-> line] \in Snapshot(k)
  BY <1>1, <1>3 DEF Snapshot
<1>5. [uri |-> parent.uri, line |-> line] \in Snapshots
  BY <1>1, <1>4, LineFacts
<1> QED BY <1>5 DEF line

\* Every step keeps the types.
LEMMA TypeStep ==
    ASSUME TypeOK, WellFormed, [Next]_vars
    PROVE  TypeOK'
<1>1. ASSUME NEW u \in Uris, OpenDocument(u) \/ ChangeDocument(u)
      PROVE  TypeOK'
  BY <1>1, PutDocumentType DEF OpenDocument, ChangeDocument
<1>2. ASSUME NEW u \in Uris, CloseDocument(u)
      PROVE  TypeOK'
  BY <1>2, ChainAssumption DEF TypeOK, CloseDocument, Layers
<1>3. ASSUME NEW pairs \in SUBSET (Uris \X Uris), RenameDocuments(pairs)
      PROVE  TypeOK'
  <2> DEFINE moving  == {p \in pairs : IsOpen(p[1])}
             sources == {p[1] : p \in moving}
             targets == {p[2] : p \in moving}
             last    == nextId + Cardinality(moving) - 1
  <2>1. PICK fresh \in [targets -> nextId..last] :
           /\ store' = [store EXCEPT ![0] =
                 [u \in Uris |->
                    IF u \in targets THEN Document(u, fresh[u]).line
                    ELSE IF u \in sources THEN None
                    ELSE store[0][u]]]
           /\ made' = made \cup {Document(u, fresh[u]) : u \in targets}
    BY <1>3 DEF RenameDocuments
  <2>2. /\ Cardinality(moving) \in Nat
        /\ last <= MaxId
        /\ nextId' = last + 1
        /\ UNCHANGED <<related, call>>
    <3>1. IsFiniteSet(Uris \X Uris)
      BY ChainAssumption, FS_Product
    <3>2. IsFiniteSet(moving)
      BY <3>1, FS_Subset
    <3>3. Cardinality(moving) \in Nat
      BY <3>2, FS_CardinalityType
    <3> QED BY <3>3, <1>3, ChainAssumption DEF RenameDocuments, TypeOK
  <2>3. targets \subseteq Uris
    OBVIOUS
  <2> HIDE DEF moving, sources, targets, last
  <2>4. \A u \in targets : /\ Document(u, fresh[u]).line \in Line(0)
                            /\ Document(u, fresh[u]) \in Snapshots
    <3>1. \A u \in targets : fresh[u] \in Ids
      <4>1. last \in Int
        BY <2>2 DEF last, TypeOK
      <4> QED BY <2>2, <4>1, ChainAssumption DEF Ids, TypeOK
    <3>2. \A u \in targets : Document(u, fresh[u]) \in Snapshot(0)
      BY <2>3, <3>1 DEF Document, Snapshot, Line
    <3>3. 0 \in Layers
      BY ChainAssumption DEF Layers
    <3> QED BY <3>2, <3>3, LineFacts DEF Snapshot
  <2>5. /\ store' \in [Layers -> [Uris -> Lines \cup {None}]]
        /\ \A l \in Layers, u \in Uris : store'[l][u] \in Line(l) \cup {None}
    <3> DEFINE row == [u \in Uris |->
                         IF u \in targets THEN Document(u, fresh[u]).line
                         ELSE IF u \in sources THEN None
                         ELSE store[0][u]]
    <3>1. row \in [Uris -> Line(0) \cup {None}]
      BY <2>4, ChainAssumption DEF TypeOK, Layers
    <3>2. store' = [store EXCEPT ![0] = row]
      BY <2>1
    <3> HIDE DEF row
    <3> QED BY <3>1, <3>2, ChainAssumption DEF TypeOK, Lines, Layers
  <2>6. made' \subseteq Snapshots
    BY <2>1, <2>4 DEF TypeOK
  <2>7. nextId' \in 1..(MaxId + 1)
    BY <2>2, ChainAssumption DEF TypeOK, last
  <2> QED
    BY <2>2, <2>5, <2>6, <2>7 DEF TypeOK
<1>4. ASSUME NEW k \in 1..Depth, NEW u \in Uris, Discard(k, u)
      PROVE  TypeOK'
  BY <1>4, ChainAssumption DEF TypeOK, Discard, Layers
<1>5. ASSUME NEW t \in Threads, NEW k \in 1..Depth, NEW parent \in made,
             NEW others \in SUBSET made, BeginPublish(t, k, parent, others)
      PROVE  TypeOK'
  <2>1. call'[t].focus \in Snapshots
    BY <1>5, NewSnapshot DEF TypeOK, BeginPublish
  <2> QED
    BY <1>5, <2>1, ChainAssumption DEF TypeOK, BeginPublish, Calls, Layers, Ids
<1>6. ASSUME NEW t \in Threads, NEW k \in Layers, NEW snapshots \in SUBSET made,
             NEW scope \in SUBSET Uris, BeginCommit(t, k, snapshots, scope)
      PROVE  TypeOK'
  <2>1. k = Depth => \A s \in snapshots : s.line[k] \in Ids
    BY <1>6, LineFacts, ChainAssumption
    DEF TypeOK, BeginCommit, OneEach, Line, Layers
  <2>2. call'[t].goals \subseteq Snapshots
    BY <1>6, <2>1 DEF TypeOK, BeginCommit
  <2> QED
    BY <1>6, <2>2, ChainAssumption DEF TypeOK, BeginCommit, Calls, Layers
<1>7. ASSUME NEW t \in Threads, NEW u \in Uris, NEW k \in Layers, BeginGet(t, u, k)
      PROVE  TypeOK'
  <2>1. [uri |-> u, line |-> store[0][u]] \in Snapshots
    BY <1>7, LineFacts, ChainAssumption
    DEF TypeOK, BeginGet, IsOpen, Snapshot, Layers
  <2> QED
    BY <1>7, <2>1, ChainAssumption DEF TypeOK, BeginGet, Calls, Layers
<1>8. ASSUME NEW t \in Threads, NEW l \in Layers, Acquire(t, l)
      PROVE  TypeOK'
  <2>1. [call[t] EXCEPT !.at = l + 1] \in Calls
    <3>1. call[t] \in Calls
      BY DEF TypeOK
    <3>2. l + 1 \in 0..(Depth + 1)
      BY ChainAssumption DEF Layers
    <3> QED BY <3>1, <3>2 DEF Calls
  <2>2. call' = [call EXCEPT ![t] = [call[t] EXCEPT !.at = l + 1]]
    BY <1>8 DEF Acquire
  <2> QED BY <1>8, <2>1, <2>2 DEF TypeOK, Acquire
<1>9. ASSUME NEW t \in Threads,
             \/ \E l \in Layers : Reject(t, l)
             \/ Return(t)
             \/ FinishGet(t)
      PROVE  TypeOK'
  <2>1. Idle \in Calls
    BY ChainAssumption DEF Idle, Calls, Layers
  <2> QED BY <1>9, <2>1 DEF TypeOK, Reject, Return, FinishGet
<1>10. ASSUME NEW t \in Threads, Write(t)
       PROVE  TypeOK'
  <2>1. Idle \in Calls
    BY ChainAssumption DEF Idle, Calls, Layers
  <2>2. LET c == call[t]
        IN  c.layer \in Layers /\ c.focus \in Snapshots /\ c.focus.line \in Line(c.layer)
    BY <1>10, LineFacts, ChainAssumption
    DEF TypeOK, WellFormed, PublishShape, Write, Calls, Line, Layers
  <2>3. call[t].focus.uri \in Uris
    BY <2>2, LineFacts
  <2> QED BY <1>10, <2>1, <2>2, <2>3 DEF TypeOK, Write, Lines
<1>11. ASSUME NEW t \in Threads, NEW l \in 1..Depth, ReadLayer(t, l)
       PROVE  TypeOK'
  <2> DEFINE entry == store[l][call[t].focus.uri]
  <2>1. Idle \in Calls
    BY ChainAssumption DEF Idle, Calls, Layers
  <2>2. ASSUME Derives(t, l)
        PROVE  [call[t] EXCEPT
                  !.at = l + 1,
                  !.focus = [uri |-> call[t].focus.uri, line |-> entry],
                  !.goals = IF l = Depth THEN related[entry[l]] ELSE {}]
               \in Calls
    <3>1. call[t].focus \in Snapshots /\ call[t].focus.uri \in Uris
      BY <1>11, LineFacts DEF WellFormed, GetShape, ReadLayer
    <3>2. entry \in Line(l) /\ l \in Layers
      BY <2>2, <3>1, ChainAssumption DEF Derives, TypeOK, Layers
    <3>3. [uri |-> call[t].focus.uri, line |-> entry] \in Snapshots
      BY <3>1, <3>2, LineFacts DEF Snapshots, Snapshot
    <3>4. entry[l] \in Ids
      BY <3>2, ChainAssumption DEF Line, Layers
    <3>5. related[entry[l]] \subseteq Snapshots
      BY <3>4 DEF TypeOK
    <3> HIDE DEF entry
    <3>6. call[t] \in Calls
      BY DEF TypeOK
    <3>7. l + 1 \in 0..(Depth + 1)
      BY ChainAssumption
    <3>8. (IF l = Depth THEN related[entry[l]] ELSE {}) \in SUBSET Snapshots
      BY <3>5
    <3> DEFINE focus == [uri |-> call[t].focus.uri, line |-> entry]
               goals == IF l = Depth THEN related[entry[l]] ELSE {}
    <3>9. focus \in Snapshots \cup {None} /\ goals \in SUBSET Snapshots
      BY <3>3, <3>8
    <3> HIDE DEF focus, goals
    <3>10. [call[t] EXCEPT !.at = l + 1, !.focus = focus, !.goals = goals] \in Calls
      BY <3>6, <3>7, <3>9 DEF Calls
    <3> QED BY <3>10 DEF focus, goals
  <2> QED BY <1>11, <2>1, <2>2 DEF TypeOK, ReadLayer
<1>12. ASSUME NEW t \in Threads, NEW g \in made, ReadRelated(t, g)
       PROVE  TypeOK'
  <2>1. Idle \in Calls
    BY ChainAssumption DEF Idle, Calls, Layers
  <2>2. [call[t] EXCEPT !.goals = call[t].goals \ {g}] \in Calls
    <3>1. call[t] \in Calls
      BY DEF TypeOK
    <3> QED BY <3>1 DEF Calls
  <2> QED BY <1>12, <2>1, <2>2 DEF TypeOK, ReadRelated
<1>13. CASE UNCHANGED vars
  BY <1>13 DEF TypeOK, vars
<1> QED
  BY <1>1, <1>2, <1>3, <1>4, <1>5, <1>6, <1>7, <1>8, <1>9, <1>10, <1>11,
     <1>12, <1>13
  DEF Next, Documents, Begins, Proceeds

-----------------------------------------------------------------------------
(***************************************************************************)
(* Locks and comparisons.                                                  *)
(***************************************************************************)

\* A document transition or a discard runs in the critical section of one
\* layer that no call holds, and leaves every other layer as it is.
LEMMA DocumentsFrame ==
    ASSUME TypeOK, Documents
    PROVE  /\ call' = call /\ related' = related
           /\ nextId' \in Nat /\ nextId <= nextId'
           /\ \E k \in Layers : /\ Unlocked(k)
                               /\ \A l \in Layers \ {k} : store'[l] = store[l]
<1>1. ASSUME NEW u \in Uris, PutDocument(u) \/ CloseDocument(u)
      PROVE  /\ call' = call /\ related' = related
             /\ nextId' \in Nat /\ nextId <= nextId'
             /\ 0 \in Layers /\ Unlocked(0)
             /\ \A l \in Layers \ {0} : store'[l] = store[l]
  <2>1. nextId \in Nat /\ 0 \in Layers
    BY ChainAssumption DEF TypeOK, Layers
  <2>2. CASE PutDocument(u)
    BY <2>1, <2>2 DEF TypeOK, PutDocument
  <2>3. CASE CloseDocument(u)
    BY <2>1, <2>3 DEF TypeOK, CloseDocument
  <2> QED BY <1>1, <2>2, <2>3
<1>2. ASSUME NEW pairs \in SUBSET (Uris \X Uris), RenameDocuments(pairs)
      PROVE  /\ call' = call /\ related' = related
             /\ nextId' \in Nat /\ nextId <= nextId'
             /\ 0 \in Layers /\ Unlocked(0)
             /\ \A l \in Layers \ {0} : store'[l] = store[l]
  <2>1. IsFiniteSet({p \in pairs : IsOpen(p[1])})
    BY ChainAssumption, FS_Product, FS_Subset
  <2>2. Cardinality({p \in pairs : IsOpen(p[1])}) \in Nat
    BY <2>1, FS_CardinalityType
  <2> QED BY <1>2, <2>2, ChainAssumption DEF RenameDocuments, TypeOK, Layers
<1>3. ASSUME NEW k \in 1..Depth, NEW u \in Uris, Discard(k, u)
      PROVE  /\ call' = call /\ related' = related
             /\ nextId' \in Nat /\ nextId <= nextId'
             /\ k \in Layers /\ Unlocked(k)
             /\ \A l \in Layers \ {k} : store'[l] = store[l]
  BY <1>3, ChainAssumption DEF Discard, TypeOK, Layers
<1> QED
  BY <1>1, <1>2, <1>3 DEF Documents, OpenDocument, ChangeDocument

\* What thread t does changes the call of no other thread, and an object that
\* exists keeps its related semantics.
LEMMA CallFrame ==
    ASSUME TypeOK, NEW t \in Threads, Begins(t) \/ Proceeds(t)
    PROVE  /\ \A o \in Threads \ {t} : call'[o] = call[o]
           /\ nextId' \in Nat /\ nextId <= nextId'
           /\ \A i \in Ids : i < nextId => related'[i] = related[i]
<1>1. ASSUME NEW k \in 1..Depth, NEW parent \in made, NEW others \in SUBSET made,
             BeginPublish(t, k, parent, others)
      PROVE  /\ \A o \in Threads \ {t} : call'[o] = call[o]
             /\ nextId' \in Nat /\ nextId <= nextId'
             /\ \A i \in Ids : i < nextId => related'[i] = related[i]
  BY <1>1, ChainAssumption DEF BeginPublish, TypeOK, Ids
<1>2. ASSUME \/ \E k \in Layers, snapshots \in SUBSET made, scope \in SUBSET Uris :
                   BeginCommit(t, k, snapshots, scope)
             \/ \E u \in Uris, k \in Layers : BeginGet(t, u, k)
             \/ Proceeds(t)
      PROVE  /\ \A o \in Threads \ {t} : call'[o] = call[o]
             /\ UNCHANGED <<nextId, related>>
  <2>1. ASSUME NEW k \in Layers, NEW snapshots \in SUBSET made,
               NEW scope \in SUBSET Uris, BeginCommit(t, k, snapshots, scope)
        PROVE  /\ \A o \in Threads \ {t} : call'[o] = call[o]
               /\ UNCHANGED <<nextId, related>>
    BY <2>1 DEF BeginCommit, TypeOK
  <2>2. ASSUME NEW u \in Uris, NEW k \in Layers, BeginGet(t, u, k)
        PROVE  /\ \A o \in Threads \ {t} : call'[o] = call[o]
               /\ UNCHANGED <<nextId, related>>
    BY <2>2 DEF BeginGet, TypeOK
  <2>3. ASSUME Proceeds(t)
        PROVE  /\ \A o \in Threads \ {t} : call'[o] = call[o]
               /\ UNCHANGED <<nextId, related>>
    BY <2>3 DEF Proceeds, Acquire, Reject, Write, Return, ReadLayer, ReadRelated,
                FinishGet, TypeOK
  <2> QED BY <1>2, <2>1, <2>2, <2>3
<1>3. nextId \in Nat
  BY ChainAssumption DEF TypeOK
<1> QED BY <1>1, <1>2, <1>3 DEF Begins

\* A call takes a lock only by Acquire: whatever else a thread does, it is
\* left without any.
LEMMA OthersHoldNothing ==
    ASSUME TypeOK, NEW t \in Threads, Begins(t) \/ Proceeds(t),
           \A l \in Layers : ~Acquire(t, l)
    PROVE  Held(t)' = {} /\ (Guarded(t)' => call'[t].at = 0)
<1>1. ASSUME NEW k \in 1..Depth, NEW parent \in made, NEW others \in SUBSET made,
             BeginPublish(t, k, parent, others)
      PROVE  call'[t].at = 0
  BY <1>1 DEF BeginPublish, TypeOK
<1>2. ASSUME NEW k \in Layers, NEW snapshots \in SUBSET made,
             NEW scope \in SUBSET Uris, BeginCommit(t, k, snapshots, scope)
      PROVE  call'[t].at = 0
  BY <1>2 DEF BeginCommit, TypeOK
<1>3. ASSUME NEW u \in Uris, NEW k \in Layers, BeginGet(t, u, k)
      PROVE  call'[t].op = "get"
  BY <1>3 DEF BeginGet, TypeOK
<1>4. ASSUME NEW l \in 1..Depth, ReadLayer(t, l)
      PROVE  call'[t] = Idle \/ call'[t].op = "get"
  BY <1>4 DEF ReadLayer, TypeOK, Calls
<1>5. ASSUME NEW g \in made, ReadRelated(t, g)
      PROVE  call'[t] = Idle \/ call'[t].op = "get"
  BY <1>5 DEF ReadRelated, TypeOK, Calls
<1>6. ASSUME NEW l \in Layers, Reject(t, l)
      PROVE  call'[t] = Idle
  BY <1>6 DEF Reject, TypeOK
<1>7. ASSUME Write(t) \/ Return(t) \/ FinishGet(t)
      PROVE  call'[t] = Idle
  BY <1>7 DEF Write, Return, FinishGet, TypeOK
<1>8. call'[t].at = 0 \/ call'[t] = Idle \/ call'[t].op = "get"
  BY <1>1, <1>2, <1>3, <1>4, <1>5, <1>6, <1>7 DEF Begins, Proceeds
<1> QED BY <1>8 DEF Held, Guarded, Idle

\* Acquire adds a lock that was free and changes nothing else of the call.
LEMMA AcquireHolds ==
    ASSUME TypeOK, NEW t \in Threads, NEW l \in Layers, Acquire(t, l)
    PROVE  /\ Guarded(t) /\ Guarded(t)'
           /\ Held(t)' = Held(t) \cup {l}
           /\ call[t].at = l /\ call'[t].at = l + 1
           /\ call'[t].op = call[t].op /\ call'[t].layer = call[t].layer
           /\ call'[t].goals = call[t].goals /\ call'[t].scope = call[t].scope
           /\ call'[t].focus = call[t].focus
           /\ NeedsLayer(t, l)
           /\ Matches(t, l)
           /\ store' = store
<1>1. /\ call[t].op \in {"publish", "commit"} /\ call[t].at = l
      /\ Matches(t, l) /\ store' = store /\ NeedsLayer(t, l)
  BY DEF Acquire, NeedsLayer, Guarded
<1>2. call[t] \in Calls /\ call'[t] = [call[t] EXCEPT !.at = l + 1]
  BY DEF Acquire, TypeOK
<1>3. /\ call'[t].op = call[t].op /\ call'[t].layer = call[t].layer
      /\ call'[t].goals = call[t].goals /\ call'[t].scope = call[t].scope
      /\ call'[t].focus = call[t].focus
      /\ call'[t].at = l + 1
  BY <1>2 DEF Calls
<1>4. l \in Nat
  BY ChainAssumption DEF Layers
<1>5. Held(t) = 0..(l - 1) /\ Held(t)' = 0..l
  BY <1>1, <1>3, <1>4 DEF Held, Guarded
<1> QED BY <1>1, <1>2, <1>3, <1>4, <1>5 DEF Guarded

\* Two threads never hold the same lock.
LEMMA ExclusionStep ==
    ASSUME TypeOK, Exclusion, [Next]_vars
    PROVE  Exclusion'
<1>1. CASE Documents \/ UNCHANGED vars
  <2>1. call' = call
    BY <1>1, DocumentsFrame DEF vars
  <2> QED BY <2>1 DEF Exclusion, Held, Guarded
<1>2. ASSUME NEW t \in Threads, Begins(t) \/ Proceeds(t)
      PROVE  Exclusion'
  <2>1. \A o \in Threads \ {t} : Held(o)' = Held(o)
    BY <1>2, CallFrame DEF Held, Guarded
  <2>2. \/ Held(t)' = {}
        \/ \E l \in Layers : Free(l, t) /\ Held(t)' = Held(t) \cup {l}
    BY <1>2, OthersHoldNothing, AcquireHolds DEF Acquire
  <2> QED BY <2>1, <2>2 DEF Exclusion, Free
<1> QED BY <1>1, <1>2 DEF Next

\* What was compared stays so if every layer a call holds stays as it is.
LEMMA PinnedFrame ==
    ASSUME TypeOK, Pinned, NEW o \in Threads, Guarded(o),
           call'[o] = call[o],
           \A l \in Held(o) : store'[l] = store[l]
    PROVE  /\ \A g \in call'[o].goals : \A l \in Held(o)' \cap DOMAIN g.line :
                 Holds(l, g.uri, g.line[l])'
           /\ call'[o].at > 0 => \A u \in call'[o].scope :
                 IsOpen(u)' => \E g \in call'[o].goals : g.uri = u
<1>1. Held(o)' = Held(o)
  BY DEF Held, Guarded
<1>2. call[o].at > 0 => 0 \in Held(o)
  BY ChainAssumption DEF Held, TypeOK, Calls
<1> QED BY <1>1, <1>2 DEF Pinned, Holds, IsOpen

\* What a guarded call has compared stays true while it holds the locks.
LEMMA PinnedStep ==
    ASSUME TypeOK, Pinned, Exclusion, [Next]_vars
    PROVE  Pinned'
<1>1. CASE Documents \/ UNCHANGED vars
  <2>1. call' = call
    BY <1>1, DocumentsFrame DEF vars
  <2>2. \A o \in Threads, l \in Layers : l \in Held(o) => store'[l] = store[l]
    BY <1>1, DocumentsFrame DEF vars, Unlocked
  <2>3. \A o \in Threads : Held(o) \subseteq Layers
    BY ChainAssumption DEF Held, TypeOK, Calls, Layers
  <2>4. \A o \in Threads : Guarded(o)' = Guarded(o)
    BY <2>1 DEF Guarded
  <2> QED BY <2>1, <2>2, <2>3, <2>4, PinnedFrame DEF Pinned
<1>2. ASSUME NEW t \in Threads, Begins(t) \/ Proceeds(t)
      PROVE  Pinned'
  <2>1. ASSUME NEW o \in Threads \ {t}, Guarded(o)'
        PROVE  /\ \A g \in call'[o].goals : \A l \in Held(o)' \cap DOMAIN g.line :
                     Holds(l, g.uri, g.line[l])'
               /\ call'[o].at > 0 => \A u \in call'[o].scope :
                     IsOpen(u)' => \E g \in call'[o].goals : g.uri = u
    <3>1. call'[o] = call[o] /\ Guarded(o)
      BY <1>2, <2>1, CallFrame DEF Guarded
    <3>2. \A l \in Held(o) : store'[l] = store[l]
      <4>1. CASE Write(t)
        BY <4>1 DEF Write, Free, TypeOK
      <4>2. CASE ~Write(t)
        BY <1>2, <4>2 DEF Begins, Proceeds, BeginPublish, BeginCommit, BeginGet,
              Acquire, Reject, Return, ReadLayer, ReadRelated, FinishGet
      <4> QED BY <4>1, <4>2
    <3> QED BY <3>1, <3>2, PinnedFrame
  <2>2. ASSUME Guarded(t)'
        PROVE  /\ \A g \in call'[t].goals : \A l \in Held(t)' \cap DOMAIN g.line :
                     Holds(l, g.uri, g.line[l])'
               /\ call'[t].at > 0 => \A u \in call'[t].scope :
                     IsOpen(u)' => \E g \in call'[t].goals : g.uri = u
    <3>1. ASSUME NEW l \in Layers, Acquire(t, l)
          PROVE  /\ \A g \in call'[t].goals : \A k \in Held(t)' \cap DOMAIN g.line :
                       Holds(k, g.uri, g.line[k])'
                 /\ \A u \in call'[t].scope :
                       IsOpen(u)' => \E g \in call'[t].goals : g.uri = u
      <4>1. call'[t].goals = call[t].goals /\ call'[t].scope = call[t].scope
        BY <3>1, AcquireHolds
      <4>2. l = 0 \/ call[t].at > 0
        BY <3>1, AcquireHolds, ChainAssumption DEF Layers
      <4>3. \A g \in call[t].goals : \A k \in Held(t)' \cap DOMAIN g.line :
                Holds(k, g.uri, g.line[k])
        BY <3>1, AcquireHolds DEF Pinned, Matches
      <4>4. \A u \in call[t].scope : IsOpen(u) => \E g \in call[t].goals : g.uri = u
        BY <3>1, <4>2, AcquireHolds DEF Pinned, Matches
      <4> QED BY <3>1, <4>1, <4>3, <4>4, AcquireHolds DEF Holds, IsOpen
    <3>2. ASSUME \A l \in Layers : ~Acquire(t, l)
          PROVE  Held(t)' = {} /\ call'[t].at = 0
      BY <1>2, <2>2, <3>2, OthersHoldNothing
    <3> QED BY <3>1, <3>2
  <2> QED BY <2>1, <2>2 DEF Pinned
<1> QED BY <1>1, <1>2 DEF Next

\* A publish that is not touched keeps its shape: its object exists already,
\* so the related semantics it has do not change.
LEMMA PublishShapeFrame ==
    ASSUME TypeOK, NEW o \in Threads, PublishShape(o), call'[o] = call[o],
           nextId' \in Nat, nextId <= nextId',
           \A i \in Ids : i < nextId => related'[i] = related[i]
    PROVE  PublishShape(o)'
<1>1. call[o].focus.line[call[o].layer] \in Ids
  BY LineFacts, ChainAssumption DEF PublishShape, Line, Layers
<1>2. /\ call[o].focus.line[call[o].layer] < nextId'
      /\ related'[call[o].focus.line[call[o].layer]]
           = related[call[o].focus.line[call[o].layer]]
  BY <1>1, ChainAssumption DEF PublishShape, TypeOK, Ids
<1> QED BY <1>2 DEF PublishShape

\* Every step keeps the shape of the calls.
LEMMA WellFormedStep ==
    ASSUME TypeOK, WellFormed, [Next]_vars
    PROVE  WellFormed'
<1>1. CASE Documents \/ UNCHANGED vars
  <2>1. /\ call' = call /\ nextId' \in Nat /\ nextId <= nextId' /\ related' = related
    BY <1>1, DocumentsFrame, ChainAssumption DEF vars, TypeOK
  <2>2. \A o \in Threads : PublishShape(o) => PublishShape(o)'
    BY <2>1, PublishShapeFrame
  <2> QED BY <2>1, <2>2 DEF WellFormed, CommitShape, GetShape
<1>2. ASSUME NEW t \in Threads, Begins(t) \/ Proceeds(t)
      PROVE  WellFormed'
  <2>1. ASSUME NEW o \in Threads \ {t}
        PROVE  /\ call'[o].op = "publish" => PublishShape(o)'
               /\ call'[o].op = "commit" => CommitShape(o)'
               /\ call'[o].op = "get" => GetShape(o)'
    <3>1. PublishShape(o) => PublishShape(o)'
      BY <1>2, CallFrame, PublishShapeFrame
    <3> QED BY <1>2, <3>1, CallFrame DEF WellFormed, CommitShape, GetShape
  <2> DEFINE Shaped == /\ call'[t].op = "publish" => PublishShape(t)'
                       /\ call'[t].op = "commit" => CommitShape(t)'
                       /\ call'[t].op = "get" => GetShape(t)'
  <2>2. call'[t] = Idle => Shaped
    BY DEF Idle
  <2>3. ASSUME NEW k \in 1..Depth, NEW parent \in made, NEW others \in SUBSET made,
               BeginPublish(t, k, parent, others)
        PROVE  Shaped
    <3> DEFINE line == [l \in 0..k |-> IF l = k THEN nextId ELSE parent.line[l]]
    <3>1. call'[t] = [op |-> "publish", layer |-> k, at |-> 0,
                      focus |-> [uri |-> parent.uri, line |-> line],
                      goals |-> {parent} \cup others, scope |-> {}]
      BY <2>3 DEF BeginPublish, TypeOK
    <3>2. /\ line[k] = nextId /\ DOMAIN line = 0..k /\ k \in Nat
          /\ \A l \in 0..(k - 1) : line[l] = parent.line[l]
      BY ChainAssumption
    <3>3. nextId < nextId' /\ related'[nextId] = others
      BY <2>3, ChainAssumption DEF BeginPublish, TypeOK, Ids
    <3>4. /\ \A g \in {parent} \cup others : DOMAIN g.line = 0..(k - 1)
      BY <2>3 DEF BeginPublish, OneEach
    <3>5. call'[t].focus \in Snapshots
      BY <2>3, NewSnapshot DEF BeginPublish, TypeOK
    <3> HIDE DEF line
    <3>6. /\ call'[t].layer = k /\ call'[t].at = 0
          /\ call'[t].focus.uri = parent.uri /\ call'[t].focus.line = line
          /\ call'[t].goals = {parent} \cup others
      BY <3>1
    <3>7. DOMAIN parent.line = 0..(k - 1)
      BY <3>4
    <3>8. \E p \in call'[t].goals :
             /\ p.uri = call'[t].focus.uri
             /\ DOMAIN p.line = 0..(call'[t].layer - 1)
             /\ \A l \in 0..(call'[t].layer - 1) : p.line[l] = call'[t].focus.line[l]
      BY <3>2, <3>6, <3>7
    <3>9. PublishShape(t)'
      BY <3>2, <3>3, <3>4, <3>5, <3>6, <3>8 DEF PublishShape
    <3> QED BY <3>1, <3>9
  <2>4. ASSUME NEW k \in Layers, NEW snapshots \in SUBSET made,
               NEW scope \in SUBSET Uris, BeginCommit(t, k, snapshots, scope)
        PROVE  Shaped
    <3>1. /\ call'[t].op = "commit" /\ call'[t].layer = k /\ call'[t].at = 0
          /\ k # Depth => call'[t].goals = snapshots
      BY <2>4 DEF BeginCommit, TypeOK
    <3>2. \A s \in snapshots : DOMAIN s.line = 0..k
      BY <2>4 DEF BeginCommit, OneEach
    <3>3. call'[t].goals \subseteq Snapshots
      BY <1>2, TypeStep DEF Next, TypeOK, Calls
    <3>4. \A g \in call'[t].goals : DOMAIN g.line \subseteq 0..k
      <4>1. CASE k = Depth
        BY <4>1, <3>3, LineFacts, ChainAssumption DEF Layers
      <4>2. CASE k # Depth
        BY <4>2, <3>1, <3>2
      <4> QED BY <4>1, <4>2
    <3>5. CommitShape(t)'
      BY <3>1, <3>4, ChainAssumption DEF CommitShape, Layers
    <3> QED BY <3>1, <3>5
  <2>5. ASSUME NEW u \in Uris, NEW k \in Layers, BeginGet(t, u, k)
        PROVE  Shaped
    <3>1. /\ call'[t].op = "get" /\ call'[t].layer = k /\ call'[t].at = 1
          /\ call'[t].focus = [uri |-> u, line |-> store[0][u]]
          /\ store[0][u] # None
      BY <2>5 DEF BeginGet, TypeOK, IsOpen
    <3>2. store[0][u] \in Line(0) /\ 0 \in Layers
      BY <3>1, ChainAssumption DEF TypeOK, Layers
    <3>3. call'[t].focus \in Snapshots /\ DOMAIN call'[t].focus.line = 0..0
      BY <3>1, <3>2, LineFacts DEF Snapshot
    <3>4. GetShape(t)'
      BY <3>1, <3>3, ChainAssumption DEF GetShape, Layers
    <3> QED BY <3>1, <3>4
  <2>6. ASSUME NEW l \in Layers, Acquire(t, l)
        PROVE  Shaped
    <3>1. /\ call'[t].op = call[t].op /\ call'[t].layer = call[t].layer
          /\ call'[t].goals = call[t].goals /\ call'[t].focus = call[t].focus
          /\ call'[t].at = l + 1
          /\ NeedsLayer(t, l)
      BY <2>6, AcquireHolds
    <3>2. UNCHANGED <<related, nextId>>
      BY <2>6 DEF Acquire
    <3>3. l \in Nat /\ call[t].layer \in Nat
      BY ChainAssumption DEF Layers, TypeOK, Calls
    <3>4. call[t].op = "publish" => PublishShape(t)'
      <4> SUFFICES ASSUME call[t].op = "publish" PROVE PublishShape(t)'
        OBVIOUS
      <4>1. PublishShape(t) /\ l < call[t].layer
        BY <3>1 DEF WellFormed, NeedsLayer
      <4> QED BY <4>1, <3>1, <3>2, <3>3 DEF PublishShape
    <3>5. call[t].op = "commit" => CommitShape(t)'
      BY <3>1, <3>3 DEF WellFormed, CommitShape, NeedsLayer
    <3>6. call[t].op # "get"
      BY <3>1 DEF NeedsLayer, Guarded
    <3> QED BY <3>1, <3>4, <3>5, <3>6
  <2>7. ASSUME NEW l \in 1..Depth, ReadLayer(t, l)
        PROVE  Shaped
    <3> DEFINE entry == store[l][call[t].focus.uri]
    <3>1. call[t].op = "get" /\ call[t].focus \in Snapshots /\ l <= call[t].layer
      BY <2>7 DEF ReadLayer, WellFormed, GetShape
    <3>2. CASE Derives(t, l)
      <4>1. /\ call'[t].op = "get" /\ call'[t].at = l + 1
            /\ call'[t].layer = call[t].layer
            /\ call'[t].focus = [uri |-> call[t].focus.uri, line |-> entry]
        BY <2>7, <3>1, <3>2 DEF ReadLayer, TypeOK, Calls
      <4>2. entry \in Line(l) /\ l \in Layers /\ call[t].focus.uri \in Uris
        BY <3>1, <3>2, LineFacts, ChainAssumption DEF TypeOK, Derives, Layers
      <4>3. [uri |-> call[t].focus.uri, line |-> entry] \in Snapshot(l)
        BY <4>2 DEF Snapshot
      <4>4. DOMAIN entry = 0..l /\ l \in Nat /\ call[t].layer \in Nat
        BY <4>2, ChainAssumption DEF Line, Layers, TypeOK, Calls
      <4> HIDE DEF entry
      <4>5. GetShape(t)'
        BY <3>1, <4>1, <4>2, <4>3, <4>4, LineFacts DEF GetShape
      <4> QED BY <4>1, <4>5
    <3>3. CASE ~Derives(t, l)
      BY <2>2, <2>7, <3>3 DEF ReadLayer, TypeOK
    <3> QED BY <3>2, <3>3
  <2>8. ASSUME NEW g \in made, ReadRelated(t, g)
        PROVE  Shaped
    <3>1. CASE Current(g)
      <4>1. /\ call[t].op = "get" /\ call'[t].op = "get"
            /\ call'[t].at = call[t].at /\ call'[t].layer = call[t].layer
            /\ call'[t].focus = call[t].focus
        BY <2>8, <3>1 DEF ReadRelated, TypeOK, Calls
      <4>2. GetShape(t)'
        BY <4>1 DEF WellFormed, GetShape
      <4> QED BY <4>1, <4>2
    <3>2. CASE ~Current(g)
      BY <2>2, <2>8, <3>2 DEF ReadRelated, TypeOK
    <3> QED BY <3>1, <3>2
  <2>9. ASSUME \/ Write(t) \/ Return(t) \/ FinishGet(t)
               \/ \E l \in Layers : Reject(t, l)
        PROVE  Shaped
    BY <2>2, <2>9 DEF Write, Return, FinishGet, Reject, TypeOK
  <2>10. Shaped
    BY <1>2, <2>3, <2>4, <2>5, <2>6, <2>7, <2>8, <2>9 DEF Begins, Proceeds
  <2> QED BY <2>1, <2>10 DEF WellFormed
<1> QED BY <1>1, <1>2 DEF Next

-----------------------------------------------------------------------------
(***************************************************************************)
(* What a write stores, and in which order of age.                         *)
(***************************************************************************)

\* When publish writes, every ancestor of the new object and everything it is
\* related to is what the stores hold, layer by layer up to its parent.
LEMMA WriteIsCurrent ==
    ASSUME IInv, NEW t \in Threads, Write(t)
    PROVE  LET k    == call[t].layer
               line == call[t].focus.line
           IN  /\ k \in 1..Depth /\ call[t].focus.uri \in Uris /\ line \in Line(k)
               /\ \A l \in 0..(k - 1) : Holds(l, call[t].focus.uri, line[l])
               /\ \A g \in related[line[k]] :
                     /\ DOMAIN g.line = 0..(k - 1)
                     /\ \A l \in 0..(k - 1) : Holds(l, g.uri, g.line[l])
<1> DEFINE k == call[t].layer
           u == call[t].focus.uri
           line == call[t].focus.line
<1>1. PublishShape(t) /\ Guarded(t) /\ Held(t) = 0..(k - 1) /\ k \in 1..Depth
  BY DEF IInv, WellFormed, Write, Guarded, Held, PublishShape
<1>2. u \in Uris /\ line \in Line(k)
  BY <1>1, LineFacts, ChainAssumption DEF PublishShape, Line, Layers
<1>3. \A g \in call[t].goals : \A l \in 0..(k - 1) : Holds(l, g.uri, g.line[l])
  BY <1>1 DEF PublishShape, IInv, Pinned
<1>4. PICK p \in call[t].goals : /\ p.uri = u
                                 /\ \A l \in 0..(k - 1) : p.line[l] = line[l]
  BY <1>1 DEF PublishShape
<1>5. \A l \in 0..(k - 1) : Holds(l, u, line[l])
  BY <1>3, <1>4
<1>6. related[line[k]] \subseteq call[t].goals
      /\ \A g \in call[t].goals : DOMAIN g.line = 0..(k - 1)
  BY <1>1 DEF PublishShape
<1> QED BY <1>1, <1>2, <1>3, <1>5, <1>6

\* Every step keeps the order of age: documents are replaced by newer ones
\* only, and a derived result is stored only under the document it is of.
LEMMA AgedStep ==
    ASSUME IInv, [Next]_vars
    PROVE  Aged'
<1> USE DEF IInv
<1> DEFINE Ordered(k, u) == store'[k][u] # None =>
               /\ store'[k][u][0] < nextId'
               /\ store'[0][u] # None => store'[k][u][0] <= store'[0][u][0]
<1>1. /\ nextId \in Int /\ 0 \in Layers
      /\ \A k \in Layers, u \in Uris : store[k][u] # None => store[k][u][0] \in Int
  BY ChainAssumption DEF TypeOK, Line, Ids, Layers
<1>2. ASSUME NEW v \in Uris, PutDocument(v)
      PROVE  Aged'
  <2>1. \A u \in Uris : store'[0][u] = IF u = v THEN [l \in 0..0 |-> nextId] ELSE store[0][u]
    BY <1>2, <1>1 DEF PutDocument, TypeOK, Document
  <2>2. \A k \in Layers \ {0} : store'[k] = store[k]
    BY <1>2 DEF PutDocument, TypeOK
  <2>3. nextId' = nextId + 1
    BY <1>2 DEF PutDocument
  <2>4. ASSUME NEW k \in Layers, NEW u \in Uris
        PROVE  Ordered(k, u)
    BY <1>1, <2>1, <2>2, <2>3 DEF Aged, IsOpen
  <2> QED BY <2>4 DEF Aged, IsOpen
<1>3. ASSUME NEW v \in Uris, CloseDocument(v)
      PROVE  Aged'
  <2>1. \A u \in Uris : store'[0][u] = IF u = v THEN None ELSE store[0][u]
    BY <1>3, <1>1 DEF CloseDocument, TypeOK
  <2>2. \A k \in Layers \ {0} : store'[k] = store[k]
    BY <1>3 DEF CloseDocument, TypeOK
  <2>3. nextId' = nextId
    BY <1>3 DEF CloseDocument
  <2>4. ASSUME NEW k \in Layers, NEW u \in Uris
        PROVE  Ordered(k, u)
    BY <1>1, <2>1, <2>2, <2>3 DEF Aged, IsOpen
  <2> QED BY <2>4 DEF Aged, IsOpen
<1>4. ASSUME NEW pairs \in SUBSET (Uris \X Uris), RenameDocuments(pairs)
      PROVE  Aged'
  <2> DEFINE moving  == {p \in pairs : IsOpen(p[1])}
             sources == {p[1] : p \in moving}
             targets == {p[2] : p \in moving}
             last    == nextId + Cardinality(moving) - 1
  <2>1. PICK fresh \in [targets -> nextId..last] :
           store' = [store EXCEPT ![0] =
                 [u \in Uris |->
                    IF u \in targets THEN Document(u, fresh[u]).line
                    ELSE IF u \in sources THEN None
                    ELSE store[0][u]]]
    BY <1>4 DEF RenameDocuments
  <2>2. nextId' = last + 1 /\ last \in Int /\ nextId <= nextId'
    <3>1. IsFiniteSet(moving)
      BY ChainAssumption, FS_Product, FS_Subset
    <3>2. Cardinality(moving) \in Nat
      BY <3>1, FS_CardinalityType
    <3>3. nextId' = nextId + Cardinality(moving)
      BY <1>4 DEF RenameDocuments
    <3> HIDE DEF moving
    <3> QED BY <1>1, <3>2, <3>3
  <2> HIDE DEF moving, sources, targets, last
  <2>3. \A u \in Uris :
           \/ store'[0][u] = None
           \/ store'[0][u] = store[0][u]
           \/ store'[0][u][0] \in nextId..last
    <3>1. \A u \in targets : Document(u, fresh[u]).line[0] = fresh[u]
      BY DEF Document
    <3> QED BY <2>1, <3>1, <1>1 DEF TypeOK
  <2>4. \A k \in Layers \ {0} : store'[k] = store[k]
    BY <2>1 DEF TypeOK
  <2>5. ASSUME NEW k \in Layers, NEW u \in Uris
        PROVE  Ordered(k, u)
    BY <1>1, <2>2, <2>3, <2>4 DEF Aged, IsOpen
  <2> QED BY <2>5 DEF Aged, IsOpen
<1>5. ASSUME NEW j \in 1..Depth, NEW v \in Uris, Discard(j, v)
      PROVE  Aged'
  <2>1. \A k \in Layers, u \in Uris : store'[k][u] \in {None, store[k][u]}
    BY <1>5 DEF Discard, TypeOK
  <2>2. store'[0] = store[0] /\ nextId' = nextId
    BY <1>5, <1>1 DEF Discard, TypeOK
  <2> QED BY <2>1, <2>2 DEF Aged, IsOpen
<1>6. ASSUME NEW t \in Threads, Write(t)
      PROVE  Aged'
  <2> DEFINE j == call[t].layer
             v == call[t].focus.uri
             line == call[t].focus.line
  <2>1. j \in 1..Depth /\ v \in Uris /\ Holds(0, v, line[0])
    BY <1>6, WriteIsCurrent
  <2>2. store' = [store EXCEPT ![j][v] = line] /\ nextId' = nextId
    BY <1>6 DEF Write
  <2> HIDE DEF j, v, line
  <2>3. \A k \in Layers, u \in Uris :
           store'[k][u] = IF k = j /\ u = v THEN line ELSE store[k][u]
    BY <2>1, <2>2 DEF TypeOK
  <2>4. store'[0] = store[0]
    BY <2>1, <2>2, <1>1 DEF TypeOK
  <2>5. ASSUME NEW k \in Layers, NEW u \in Uris
        PROVE  Ordered(k, u)
    BY <1>1, <2>1, <2>2, <2>3, <2>4 DEF Aged, IsOpen, Holds
  <2> QED BY <2>5 DEF Aged, IsOpen
<1>7. ASSUME NEW t \in Threads, Begins(t) \/ Proceeds(t), ~Write(t)
      PROVE  Aged'
  <2>1. store' = store
    BY <1>7 DEF Begins, Proceeds, BeginPublish, BeginCommit, BeginGet,
          Acquire, Reject, Return, ReadLayer, ReadRelated, FinishGet
  <2>2. nextId' \in Nat /\ nextId <= nextId'
    BY <1>7, CallFrame
  <2>3. ASSUME NEW k \in Layers, NEW u \in Uris
        PROVE  Ordered(k, u)
    BY <1>1, <2>1, <2>2 DEF Aged, IsOpen
  <2> QED BY <2>3 DEF Aged, IsOpen
<1>8. CASE UNCHANGED vars
  BY <1>8 DEF vars, Aged, IsOpen
<1> QED
  BY <1>2, <1>3, <1>4, <1>5, <1>6, <1>7, <1>8
  DEF Next, Documents, OpenDocument, ChangeDocument

\* The invariant is inductive.
LEMMA Inductive == IInv /\ [Next]_vars => IInv'
BY TypeStep, ExclusionStep, PinnedStep, WellFormedStep, AgedStep DEF IInv

\* Every reachable state satisfies the invariant.
LEMMA Invariance == Spec => []IInv
<1>1. Init => IInv
  BY InitIInv
<1> QED BY <1>1, Inductive, PTL DEF Spec

\* Only the write of a publish puts something new into a derived store.
LEMMA OnlyWriteStores ==
    ASSUME TypeOK, [Next]_vars, \A t \in Threads : ~Write(t)
    PROVE  \A k \in 1..Depth, u \in Uris : store'[k][u] \in {None, store[k][u]}
<1>1. ASSUME NEW j \in 1..Depth, NEW v \in Uris, Discard(j, v)
      PROVE  \A k \in 1..Depth, u \in Uris : store'[k][u] \in {None, store[k][u]}
  <2>1. \A k \in Layers, u \in Uris : store'[k][u] \in {None, store[k][u]}
    BY <1>1 DEF Discard, TypeOK
  <2> QED BY <2>1, ChainAssumption DEF Layers
<1>2. ASSUME NEW v \in Uris, PutDocument(v) \/ CloseDocument(v)
      PROVE  \A k \in 1..Depth : store'[k] = store[k]
  <2>1. \A k \in Layers \ {0} : store'[k] = store[k]
    BY <1>2 DEF PutDocument, CloseDocument, TypeOK
  <2> QED BY <2>1, ChainAssumption DEF Layers
<1>3. ASSUME NEW pairs \in SUBSET (Uris \X Uris), RenameDocuments(pairs)
      PROVE  \A k \in 1..Depth : store'[k] = store[k]
  BY <1>3, ChainAssumption DEF RenameDocuments, TypeOK, Layers
<1>4. ASSUME NEW t \in Threads, Begins(t) \/ Proceeds(t)
      PROVE  store' = store
  BY <1>4 DEF Begins, Proceeds, BeginPublish, BeginCommit, BeginGet,
        Acquire, Reject, Return, ReadLayer, ReadRelated, FinishGet
<1> QED
  BY <1>1, <1>2, <1>3, <1>4
  DEF Next, Documents, OpenDocument, ChangeDocument, vars

-----------------------------------------------------------------------------
(***************************************************************************)
(* Theorems.                                                               *)
(***************************************************************************)

\* The types of the stores and of the calls.
THEOREM TypeCorrect == Spec => []TypeOK
BY Invariance, PTL DEF IInv

\* The callback of a commit runs only while all it was computed from is
\* current, documents, derived snapshots and related semantics alike, for any
\* number of threads, URIs and layers.
THEOREM CommitCurrent == Spec => []CommitRunsCurrent
<1>1. IInv => CommitRunsCurrent
  <2> SUFFICES ASSUME IInv, NEW t \in Threads, Running(t)
               PROVE  /\ \A g \in call[t].goals : Current(g)
                      /\ \A u \in call[t].scope :
                            IsOpen(u) => \E g \in call[t].goals : g.uri = u
    BY DEF CommitRunsCurrent
  <2>1. /\ Guarded(t) /\ Held(t) = 0..call[t].layer /\ call[t].at > 0
        /\ \A g \in call[t].goals : DOMAIN g.line \subseteq 0..call[t].layer
    BY ChainAssumption
    DEF IInv, TypeOK, Calls, Layers, WellFormed, CommitShape, Running, Guarded, Held
  <2> QED BY <2>1 DEF IInv, Pinned, Current
<1> QED BY <1>1, Invariance, PTL

\* A derived store is given only results all of whose ancestors and related
\* semantics are current when they are stored.
THEOREM PublicationCurrent == Spec => PublishedFromCurrent
<1> DEFINE Fresh == \A k \in 1..Depth, u \in Uris :
                       LET entry == store'[k][u]
                       IN  entry # store[k][u] /\ entry # None =>
                             /\ \A l \in 0..(k - 1) : Holds(l, u, entry[l])
                             /\ \A g \in related'[entry[k]] : Current(g)
<1>1. ASSUME IInv, [Next]_vars PROVE [Fresh]_vars
  <2>1. ASSUME NEW t \in Threads, Write(t) PROVE Fresh
    <3> DEFINE j == call[t].layer
               v == call[t].focus.uri
               line == call[t].focus.line
    <3>1. /\ j \in 1..Depth /\ v \in Uris
          /\ \A l \in 0..(j - 1) : Holds(l, v, line[l])
          /\ \A g \in related[line[j]] : Current(g)
      BY <1>1, <2>1, WriteIsCurrent DEF Current
    <3>2. store' = [store EXCEPT ![j][v] = line] /\ related' = related
      BY <2>1 DEF Write
    <3> HIDE DEF j, v, line
    <3>3. \A k \in 1..Depth, u \in Uris :
             store'[k][u] = IF k = j /\ u = v THEN line ELSE store[k][u]
      BY <1>1, <3>1, <3>2, ChainAssumption DEF IInv, TypeOK, Layers
    <3> QED BY <3>1, <3>2, <3>3
  <2>2. CASE \A t \in Threads : ~Write(t)
    <3>1. \A k \in 1..Depth, u \in Uris : store'[k][u] \in {None, store[k][u]}
      BY <1>1, <2>2, OnlyWriteStores DEF IInv
    <3> QED BY <3>1
  <2> QED BY <2>1, <2>2
<1> QED BY <1>1, Invariance, PTL DEF Spec, PublishedFromCurrent

\* No derived entry is replaced by one computed from an older document object.
THEOREM NoOlderResult == Spec => NoRegression
<1> DEFINE Forward == \A k \in 1..Depth, u \in Uris :
              store[k][u] # None /\ store'[k][u] # None =>
                  store[k][u][0] <= store'[k][u][0]
<1>1. ASSUME IInv, [Next]_vars PROVE [Forward]_vars
  <2>1. \A k \in Layers, u \in Uris : store[k][u] # None => store[k][u][0] \in Int
    BY <1>1, ChainAssumption DEF IInv, TypeOK, Line, Ids, Layers
  <2>2. ASSUME NEW k \in 1..Depth, NEW u \in Uris,
               store[k][u] # None, store'[k][u] # None
        PROVE  store[k][u][0] <= store'[k][u][0]
    <3>1. CASE store'[k][u] = store[k][u]
      BY <2>1, <2>2, <3>1, ChainAssumption DEF Layers
    <3>2. ASSUME NEW t \in Threads, Write(t), store'[k][u] # store[k][u]
          PROVE  store[k][u][0] <= store'[k][u][0]
      <4>1. /\ call[t].layer \in 1..Depth /\ call[t].focus.uri \in Uris
            /\ Holds(0, call[t].focus.uri, call[t].focus.line[0])
        BY <1>1, <3>2, WriteIsCurrent
      <4>2. /\ store' = [store EXCEPT ![call[t].layer][call[t].focus.uri] = call[t].focus.line]
        BY <3>2 DEF Write
      <4>3. k = call[t].layer /\ u = call[t].focus.uri /\ store'[k][u] = call[t].focus.line
        BY <1>1, <3>2, <4>1, <4>2, ChainAssumption DEF IInv, TypeOK, Layers
      <4>4. IsOpen(u) /\ store'[k][u][0] = store[0][u][0]
        BY <4>1, <4>3 DEF Holds, IsOpen
      <4> QED BY <1>1, <2>2, <4>4, ChainAssumption DEF IInv, Aged, Layers
    <3>3. CASE \A t \in Threads : ~Write(t)
      <4>1. store'[k][u] \in {None, store[k][u]}
        BY <1>1, <3>3, OnlyWriteStores DEF IInv
      <4> QED BY <2>2, <3>1, <4>1
    <3> QED BY <3>1, <3>2, <3>3
  <2> QED BY <2>2
<1> QED BY <1>1, Invariance, PTL DEF Spec, NoRegression

\* Any bounded set of naturals that is not empty has a greatest element.
LEMMA Greatest ==
    ASSUME NEW bound \in Nat, NEW S, S # {}, NEW f \in [S -> 0..bound]
    PROVE  \E x \in S : \A y \in S : f[y] <= f[x]
<1> DEFINE T == {bound - f[x] : x \in S}
<1>1. T \subseteq Nat /\ T # {}
  OBVIOUS
<1>2. \E m \in T : \A n \in T : <<n, m>> \notin OpToRel(<, Nat)
  BY <1>1, NatLessThanWellFounded, WFMin
<1>3. PICK m \in T : \A n \in T : ~(n < m)
  BY <1>1, <1>2 DEF OpToRel
<1>4. PICK x \in S : m = bound - f[x]
  OBVIOUS
<1>5. ASSUME NEW y \in S PROVE f[y] <= f[x]
  <2>1. f[y] \in 0..bound /\ f[x] \in 0..bound
    BY <1>4
  <2>2. ~(bound - f[y] < m)
    BY <1>3
  <2> QED BY SMTT(20), <1>4, <2>1, <2>2
<1> QED BY <1>4, <1>5

\* In every set of threads one waits for none of the others: a thread holds
\* only locks below the one it is waiting for.
THEOREM NoDeadlockAmongLocks == Spec => []NoCircularWait
<1>1. IInv => NoCircularWait
  <2> SUFFICES ASSUME IInv, NEW S \in (SUBSET Threads) \ {{}}
               PROVE  \E t \in S : \A o \in S \ {t} : ~Awaits(t, o)
    BY DEF NoCircularWait
  <2>1. \A t, o \in Threads : Awaits(t, o) => call[t].at < call[o].at
    BY ChainAssumption
    DEF Awaits, NeedsLayer, Held, IInv, TypeOK, Calls, Layers
  <2> DEFINE f == [t \in S |-> call[t].at]
  <2>2. f \in [S -> 0..(Depth + 1)] /\ Depth + 1 \in Nat
    BY ChainAssumption DEF IInv, TypeOK, Calls
  <2>3. \A o \in S : f[o] = call[o].at /\ call[o].at \in Int
    BY ChainAssumption DEF IInv, TypeOK, Calls
  <2> HIDE DEF f
  <2>4. PICK t \in S : \A o \in S : f[o] <= f[t]
    BY <2>2, Greatest
  <2>5. \A o \in S : call[o].at <= call[t].at /\ call[o].at \in Int
    BY <2>3, <2>4
  <2> QED BY <2>1, <2>5
<1> QED BY <1>1, Invariance, PTL
=============================================================================
