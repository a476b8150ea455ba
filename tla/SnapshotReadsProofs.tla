-------------------------- MODULE SnapshotReadsProofs --------------------------
(***************************************************************************)
(* Theorem about SnapshotReads, for every set of URIs and threads, every   *)
(* depth of the chain and every number of objects: what a get returns was  *)
(* current as a whole at one instant of the call.                          *)
(*                                                                         *)
(* The argument: an object that leaves its store never comes back          *)
(* (NeverBack), and a snapshot is current as a whole when it is made       *)
(* (MadeCurrent).  So a snapshot a get may still return was either current *)
(* as a whole at some instant since the first read, or something it needs  *)
(* and the get has yet to read is gone for good (Witnessed).               *)
(***************************************************************************)
EXTENDS SnapshotReads, SnapshotChainProofs

Entry(l, u) == [uri |-> u, line |-> store[l][u]]

\* What is stored, related or under way is made of snapshots that were made, and an
\* identity stands for one snapshot of one URI with one ancestry.
Lineage ==
    /\ \A l \in Layers, u \in Uris : store[l][u] # None => Entry(l, u) \in made
    /\ \A s \in made : \A l \in DOMAIN s.line : s.line[l] < nextId
    /\ \A r, s \in made : \A l \in DOMAIN r.line \cap DOMAIN s.line :
          r.line[l] = s.line[l] => r.uri = s.uri /\ \A j \in 0..l : r.line[j] = s.line[j]
    /\ \A i \in Ids : related[i] \subseteq made

\* The object of a publish under way is not made yet, its parent is.
Pending ==
    \A t \in Threads : call[t].op = "publish" =>
        LET k == call[t].layer
            f == call[t].focus
        IN  /\ \A s \in made : k \in DOMAIN s.line => s.line[k] # f.line[k]
            /\ \A o \in Threads \ {t} :
                  call[o].op = "publish" /\ call[o].layer = k => call[o].focus.line[k] # f.line[k]
            /\ \E p \in made : /\ p.uri = f.uri /\ DOMAIN p.line = 0..(k - 1)
                               /\ \A l \in 0..(k - 1) : p.line[l] = f.line[l]

\* Why thread t will not return s: it has read something else, or something it has yet
\* to read is gone.
Excluded(t, s) ==
    LET c == call[t]
    IN  \/ \E l \in 0..(c.at - 1) : s.line[l] # c.focus.line[l]
        \/ \E l \in c.at..c.layer : ~Holds(l, s.uri, s.line[l])
        \/ /\ c.layer = Depth
           /\ \E g \in related[s.line[Depth]] : ~Current(g) /\ (c.at > c.layer => g \in c.goals)

Witnessed ==
    \A t \in Threads : call[t].op = "get" =>
        /\ call[t].focus \in made
        /\ \A s \in made : s.uri = call[t].focus.uri /\ DOMAIN s.line = 0..call[t].layer =>
              s \in witnessed[t] \/ Excluded(t, s)

ReadInv == IInv /\ Lineage /\ Pending /\ Witnessed

-----------------------------------------------------------------------------
(***************************************************************************)
(* What a step makes.                                                      *)
(***************************************************************************)

\* A document made in this step.
NewDocument(s) ==
    /\ s \in made' /\ s.uri \in Uris /\ DOMAIN s.line = 0..0 /\ s.line[0] \in Nat
    /\ nextId <= s.line[0] /\ s.line[0] < nextId' /\ store'[0][s.uri] = s.line

LEMMA SnapshotFacts ==
    ASSUME TypeOK
    PROVE  /\ nextId \in Nat /\ 0 \in Layers /\ Layers \subseteq Nat /\ 1..Depth \subseteq Layers
           /\ \A s \in made : /\ s.uri \in Uris
                              /\ \E k \in Layers : DOMAIN s.line = 0..k
                              /\ \A l \in DOMAIN s.line : s.line[l] \in Nat /\ l \in Layers
           /\ \A l \in Layers, u \in Uris :
                 store[l][u] # None => DOMAIN store[l][u] = 0..l /\ \A j \in 0..l : store[l][u][j] \in Nat
<1>1. nextId \in Nat /\ 0 \in Layers /\ Layers \subseteq Nat /\ 1..Depth \subseteq Layers
  BY ChainAssumption DEF TypeOK, Layers
<1>2. ASSUME NEW s \in made
      PROVE  /\ s.uri \in Uris /\ \E k \in Layers : DOMAIN s.line = 0..k
             /\ \A l \in DOMAIN s.line : s.line[l] \in Nat /\ l \in Layers
  <2>1. s \in Snapshots
    BY DEF TypeOK
  <2>2. s.uri \in Uris /\ \E k \in Layers : s.line \in Line(k)
    BY <2>1, LineFacts
  <2>3. PICK k \in Layers : s.line \in [0..k -> Ids]
    BY <2>2 DEF Line
  <2>4. 0..k \subseteq Layers /\ Ids \subseteq Nat
    BY ChainAssumption DEF Layers, Ids
  <2> QED BY <2>2, <2>3, <2>4
<1>3. ASSUME NEW l \in Layers, NEW u \in Uris, store[l][u] # None
      PROVE  DOMAIN store[l][u] = 0..l /\ \A j \in 0..l : store[l][u][j] \in Nat
  <2>1. store[l][u] \in [0..l -> Ids]
    BY <1>3 DEF TypeOK, Line
  <2>2. Ids \subseteq Nat
    BY ChainAssumption DEF Ids
  <2> QED BY <2>1, <2>2
<1> QED BY <1>1, <1>2, <1>3

LEMMA DocumentFacts ==
    ASSUME NEW u, NEW id
    PROVE  /\ Document(u, id).uri = u /\ Document(u, id).line[0] = id
           /\ DOMAIN Document(u, id).line = 0..0
           /\ Document(u, id) = [uri |-> u, line |-> Document(u, id).line]
BY DEF Document

\* Document transitions make documents, with identities of their own.
LEMMA DocumentsMake ==
    ASSUME TypeOK, Documents
    PROVE  /\ UNCHANGED <<call, related>> /\ made \subseteq made'
           /\ nextId' \in Nat /\ nextId <= nextId'
           /\ \A s \in made' : s \in made \/ NewDocument(s)
           /\ \A r, s \in made' \ made : r.line[0] = s.line[0] => r.uri = s.uri
           /\ \A l \in Layers, u \in Uris :
                 \/ store'[l][u] \in {None, store[l][u]}
                 \/ l = 0 /\ NewDocument([uri |-> u, line |-> store'[l][u]])
<1>0. nextId \in Nat /\ 0 \in Layers
  BY SnapshotFacts
<1> DEFINE Kept == /\ UNCHANGED <<call, related>> /\ made \subseteq made'
                   /\ nextId' \in Nat /\ nextId <= nextId'
           New == /\ \A s \in made' : s \in made \/ NewDocument(s)
                  /\ \A r, s \in made' \ made : r.line[0] = s.line[0] => r.uri = s.uri
           Entries == \A l \in Layers, u \in Uris :
                         \/ store'[l][u] \in {None, store[l][u]}
                         \/ l = 0 /\ NewDocument([uri |-> u, line |-> store'[l][u]])
<1>1. ASSUME NEW u \in Uris, PutDocument(u) PROVE Kept /\ New /\ Entries
  <2> DEFINE d == Document(u, nextId)
  <2>1. /\ store' = [store EXCEPT ![0][u] = d.line] /\ made' = made \cup {d}
        /\ nextId' = nextId + 1 /\ UNCHANGED <<related, call>>
    BY <1>1 DEF PutDocument
  <2>2. d.uri = u /\ d.line[0] = nextId /\ DOMAIN d.line = 0..0 /\ d = [uri |-> u, line |-> d.line]
    BY DocumentFacts
  <2> HIDE DEF d
  <2>3. /\ store'[0][u] = d.line
        /\ \A l \in Layers, v \in Uris : l # 0 \/ v # u => store'[l][v] = store[l][v]
    BY <1>0, <2>1 DEF TypeOK
  <2>4. NewDocument(d)
    BY <1>0, <2>1, <2>2, <2>3 DEF NewDocument
  <2>5. Kept /\ New
    BY <1>0, <2>1, <2>4
  <2>6. Entries
    BY <2>2, <2>3, <2>4
  <2> QED BY <2>5, <2>6
<1>2. ASSUME NEW k \in Layers, NEW u \in Uris, (CloseDocument(u) /\ k = 0) \/ Discard(k, u)
      PROVE  Kept /\ New /\ Entries
  <2>1. store' = [store EXCEPT ![k][u] = None] /\ UNCHANGED <<made, nextId, call, related>>
    BY <1>2 DEF CloseDocument, Discard
  <2>2. Entries
    BY <2>1 DEF TypeOK
  <2> QED BY <1>0, <2>1, <2>2
<1>3. ASSUME NEW pairs \in SUBSET (Uris \X Uris), RenameDocuments(pairs)
      PROVE  Kept /\ New /\ Entries
  <2> DEFINE moving  == {p \in pairs : IsOpen(p[1])}
             sources == {p[1] : p \in moving}
             targets == {p[2] : p \in moving}
             n == Cardinality(moving)
  <2>1. IsFiniteSet(moving)
    BY ChainAssumption, FS_Product, FS_Subset
  <2>2. n \in Nat
    BY <2>1, FS_CardinalityType
  <2>3. targets \subseteq Uris
    OBVIOUS
  <2>4. nextId' = nextId + n /\ UNCHANGED <<related, call>>
    BY <1>3 DEF RenameDocuments
  <2>5. PICK fresh \in [targets -> nextId..(nextId + n - 1)] :
          /\ \A u, v \in targets : u # v => fresh[u] # fresh[v]
          /\ store' = [store EXCEPT ![0] =
                 [u \in Uris |->
                    IF u \in targets THEN Document(u, fresh[u]).line
                    ELSE IF u \in sources THEN None
                    ELSE store[0][u]]]
          /\ made' = made \cup {Document(u, fresh[u]) : u \in targets}
    BY <1>3 DEF RenameDocuments
  <2> HIDE DEF n, targets, sources, moving
  <2>6. \A u \in targets : fresh[u] \in Nat /\ nextId <= fresh[u] /\ fresh[u] < nextId'
    BY <1>0, <2>2, <2>4, <2>5
  <2>7. /\ \A u \in targets : store'[0][u] = Document(u, fresh[u]).line
        /\ \A l \in Layers, u \in Uris :
              l # 0 \/ u \notin targets => store'[l][u] \in {None, store[l][u]}
    BY <1>0, <2>3, <2>5 DEF TypeOK
  <2>8. \A u \in targets : NewDocument(Document(u, fresh[u]))
    <3> SUFFICES ASSUME NEW u \in targets PROVE NewDocument(Document(u, fresh[u]))
      OBVIOUS
    <3> DEFINE d == Document(u, fresh[u])
    <3>1. d.uri = u /\ d.line[0] = fresh[u] /\ DOMAIN d.line = 0..0
      BY DocumentFacts
    <3>2. d \in made' /\ store'[0][u] = d.line
      BY <2>5, <2>7
    <3> HIDE DEF d
    <3>3. NewDocument(d)
      BY <2>3, <2>6, <3>1, <3>2 DEF NewDocument
    <3> QED BY <3>3 DEF d
  <2>9. \A s \in made' \ made : \E u \in targets : s = Document(u, fresh[u])
    BY <2>5
  <2>10. New
    <3>1. \A s \in made' : s \in made \/ NewDocument(s)
      BY <2>8, <2>9
    <3>2. ASSUME NEW r \in made' \ made, NEW s \in made' \ made, r.line[0] = s.line[0]
          PROVE  r.uri = s.uri
      <4>1. PICK u \in targets : r = Document(u, fresh[u])
        BY <2>9
      <4>2. PICK v \in targets : s = Document(v, fresh[v])
        BY <2>9
      <4>3. fresh[u] = fresh[v]
        BY <3>2, <4>1, <4>2, DocumentFacts
      <4> QED BY <2>5, <4>1, <4>2, <4>3
    <3> QED BY <3>1, <3>2
  <2>11. Entries
    <3> SUFFICES ASSUME NEW u \in targets
                 PROVE  NewDocument([uri |-> u, line |-> store'[0][u]])
      BY <2>7
    <3>1. [uri |-> u, line |-> store'[0][u]] = Document(u, fresh[u])
      BY <2>7, DocumentFacts
    <3> QED BY <2>8, <3>1
  <2>12. Kept
    BY <1>0, <2>2, <2>4, <2>5
  <2> QED BY <2>10, <2>11, <2>12
<1>4. 1..Depth \subseteq Layers
  BY SnapshotFacts
<1> HIDE DEF Kept, New, Entries
<1>5. Kept /\ New /\ Entries
  BY <1>0, <1>1, <1>2, <1>3, <1>4 DEF Documents, OpenDocument, ChangeDocument
<1> QED BY <1>5 DEF Kept, New, Entries

\* A thread makes a snapshot only by the write of a publish.
LEMMA ThreadMakes ==
    ASSUME NEW t \in Threads, Begins(t) \/ Proceeds(t)
    PROVE  \/ Write(t)
           \/ /\ UNCHANGED <<store, made>>
              /\ \/ UNCHANGED <<related, nextId>>
                 \/ \E k \in 1..Depth, parent \in made, others \in SUBSET made :
                       BeginPublish(t, k, parent, others)
<1>1. CASE Begins(t)
  BY <1>1 DEF Begins, BeginPublish, BeginCommit, BeginGet
<1>2. CASE Proceeds(t)
  BY <1>2 DEF Proceeds, Acquire, Reject, Return, ReadLayer, ReadRelated, FinishGet
<1> QED BY <1>1, <1>2

-----------------------------------------------------------------------------
(***************************************************************************)
(* Lineage.                                                                *)
(***************************************************************************)

LEMMA PublishFacts ==
    ASSUME IInv, Lineage, Pending, NEW t \in Threads, call[t].op = "publish"
    PROVE  LET k == call[t].layer
               f == call[t].focus
           IN  /\ k \in 1..Depth /\ f \in Snapshots /\ f.uri \in Uris /\ DOMAIN f.line = 0..k
               /\ f = [uri |-> f.uri, line |-> f.line]
               /\ \A l \in 0..k : f.line[l] < nextId
               /\ \A s \in made : \A l \in (0..k) \cap DOMAIN s.line :
                     f.line[l] = s.line[l] =>
                        l # k /\ f.uri = s.uri /\ \A j \in 0..l : f.line[j] = s.line[j]
<1> DEFINE k == call[t].layer
           f == call[t].focus
<1>1. /\ k \in 1..Depth /\ f \in Snapshots /\ DOMAIN f.line = 0..k /\ f.line[k] < nextId
  BY DEF IInv, WellFormed, PublishShape
<1>2. f.uri \in Uris /\ f = [uri |-> f.uri, line |-> f.line]
  BY <1>1 DEF Snapshots, Snapshot
<1>3. PICK p \in made : /\ p.uri = f.uri /\ DOMAIN p.line = 0..(k - 1)
                        /\ \A l \in 0..(k - 1) : p.line[l] = f.line[l]
  BY DEF Pending
<1>4. \A s \in made : k \in DOMAIN s.line => s.line[k] # f.line[k]
  BY DEF Pending
<1>5. k \in Nat /\ 0..k = 0..(k - 1) \cup {k}
  BY <1>1, ChainAssumption
<1> HIDE DEF k, f
<1>6. \A l \in 0..k : f.line[l] < nextId
  <2>1. \A l \in 0..(k - 1) : p.line[l] < nextId
    BY <1>3 DEF Lineage
  <2> QED BY <1>1, <1>3, <1>5, <2>1
<1>7. ASSUME NEW s \in made, NEW l \in (0..k) \cap DOMAIN s.line, f.line[l] = s.line[l]
      PROVE  l # k /\ f.uri = s.uri /\ \A j \in 0..l : f.line[j] = s.line[j]
  <2>1. l # k
    BY <1>4, <1>7
  <2>2. l \in 0..(k - 1) /\ \A j \in 0..l : j \in 0..(k - 1)
    BY <1>5, <2>1
  <2>3. l \in DOMAIN p.line \cap DOMAIN s.line /\ p.line[l] = s.line[l]
    BY <1>3, <1>7, <2>2
  <2>4. p.uri = s.uri /\ \A j \in 0..l : p.line[j] = s.line[j]
    BY <2>3 DEF Lineage
  <2> QED BY <1>3, <2>1, <2>2, <2>4
<1> QED BY <1>1, <1>2, <1>6, <1>7 DEF k, f

LEMMA WriteFacts ==
    ASSUME IInv, NEW t \in Threads, Write(t)
    PROVE  LET k == call[t].layer
               f == call[t].focus
           IN  /\ call[t].op = "publish" /\ made' = made \cup {f}
               /\ store'[k][f.uri] = f.line
               /\ \A l \in Layers, u \in Uris : l # k \/ u # f.uri => store'[l][u] = store[l][u]
               /\ call'[t] = Idle /\ \A o \in Threads \ {t} : call'[o] = call[o]
               /\ UNCHANGED <<related, nextId>>
<1> DEFINE k == call[t].layer
           f == call[t].focus
<1>1. k \in 1..Depth /\ f \in Snapshots
  BY DEF Write, IInv, WellFormed, PublishShape
<1>2. k \in Layers /\ f.uri \in Uris
  BY <1>1, LineFacts, SnapshotFacts DEF IInv
<1> QED BY <1>2 DEF Write, IInv, TypeOK

LEMMA LineageStep ==
    ASSUME IInv, Lineage, Pending, [Next]_vars
    PROVE  Lineage'
<1>0. TypeOK /\ nextId \in Nat
  BY SnapshotFacts DEF IInv
<1>1. CASE Documents
  <2>1. \A l \in Layers, u \in Uris : store'[l][u] # None => Entry(l, u)' \in made'
    BY <1>0, <1>1, DocumentsMake DEF Lineage, Entry, NewDocument
  <2>2. \A s \in made' : \A l \in DOMAIN s.line : s.line[l] < nextId'
    <3>1. ASSUME NEW s \in made, NEW l \in DOMAIN s.line PROVE s.line[l] < nextId'
      <4>1. s.line[l] < nextId /\ s.line[l] \in Nat
        BY <1>0, SnapshotFacts DEF Lineage
      <4> QED BY <1>0, <1>1, <4>1, DocumentsMake
    <3>2. ASSUME NEW s \in made', NewDocument(s), NEW l \in DOMAIN s.line PROVE s.line[l] < nextId'
      BY <3>2 DEF NewDocument
    <3> QED BY <1>0, <1>1, <3>1, <3>2, DocumentsMake
  <2>3. ASSUME NEW r \in made', NEW s \in made', NEW l \in DOMAIN r.line \cap DOMAIN s.line,
               r.line[l] = s.line[l]
        PROVE  r.uri = s.uri /\ \A j \in 0..l : r.line[j] = s.line[j]
    <3>1. CASE r \in made /\ s \in made
      BY <2>3, <3>1 DEF Lineage
    <3>2. ASSUME NEW a \in made, NEW b \in made' \ made, NEW m \in DOMAIN a.line \cap DOMAIN b.line
          PROVE  a.line[m] # b.line[m]
      <4>1. NewDocument(b)
        BY <1>0, <1>1, DocumentsMake
      <4>2. a.line[m] < nextId /\ a.line[m] \in Nat
        BY <1>0, SnapshotFacts DEF Lineage
      <4> QED BY <1>0, <4>1, <4>2 DEF NewDocument
    <3>3. CASE r \notin made /\ s \notin made
      <4>1. NewDocument(r) /\ l = 0
        BY <1>0, <1>1, <3>3, DocumentsMake DEF NewDocument
      <4> QED BY <1>0, <1>1, <2>3, <3>3, <4>1, DocumentsMake
    <3> QED BY <2>3, <3>1, <3>2, <3>3
  <2>4. \A i \in Ids : related'[i] \subseteq made'
    BY <1>0, <1>1, DocumentsMake DEF Lineage
  <2> QED BY <2>1, <2>2, <2>3, <2>4 DEF Lineage
<1>2. ASSUME NEW t \in Threads, Write(t) PROVE Lineage'
  <2> DEFINE k == call[t].layer
             f == call[t].focus
  <2>1. /\ call[t].op = "publish" /\ made' = made \cup {f} /\ store'[k][f.uri] = f.line
        /\ \A l \in Layers, u \in Uris : l # k \/ u # f.uri => store'[l][u] = store[l][u]
        /\ UNCHANGED <<related, nextId>>
    BY <1>2, WriteFacts
  <2>2. /\ DOMAIN f.line = 0..k /\ f = [uri |-> f.uri, line |-> f.line]
        /\ \A l \in 0..k : f.line[l] < nextId
        /\ \A s \in made : \A l \in (0..k) \cap DOMAIN s.line :
              f.line[l] = s.line[l] => f.uri = s.uri /\ \A j \in 0..l : f.line[j] = s.line[j]
    BY <2>1, PublishFacts
  <2> HIDE DEF k, f
  <2>3. \A l \in Layers, u \in Uris : store'[l][u] # None => Entry(l, u)' \in made'
    BY <2>1, <2>2 DEF Lineage, Entry
  <2>4. \A s \in made' : \A l \in DOMAIN s.line : s.line[l] < nextId'
    BY <2>1, <2>2 DEF Lineage
  <2>5. ASSUME NEW r \in made', NEW s \in made', NEW l \in DOMAIN r.line \cap DOMAIN s.line,
               r.line[l] = s.line[l]
        PROVE  r.uri = s.uri /\ \A j \in 0..l : r.line[j] = s.line[j]
    <3>1. CASE r \in made /\ s \in made
      BY <2>5, <3>1 DEF Lineage
    <3>2. CASE r = f /\ s \in made
      BY <2>2, <2>5, <3>2
    <3>3. CASE r \in made /\ s = f
      BY <2>2, <2>5, <3>3
    <3>4. CASE r = f /\ s = f
      BY <3>4
    <3> QED BY <2>1, <3>1, <3>2, <3>3, <3>4
  <2>6. \A i \in Ids : related'[i] \subseteq made'
    BY <2>1 DEF Lineage
  <2> QED BY <2>3, <2>4, <2>5, <2>6 DEF Lineage
<1>3. CASE UNCHANGED <<store, made, related, nextId>>
  BY <1>3 DEF Lineage, Entry
<1>4. ASSUME NEW t \in Threads, NEW k \in 1..Depth, NEW parent \in made, NEW others \in SUBSET made,
             BeginPublish(t, k, parent, others)
      PROVE  Lineage'
  <2>1. /\ UNCHANGED <<store, made>> /\ nextId' = nextId + 1
        /\ related' = [related EXCEPT ![nextId] = others]
    BY <1>4 DEF BeginPublish
  <2>2. \A i \in Ids : related'[i] \subseteq made
    BY <1>0, <2>1 DEF Lineage, TypeOK
  <2>3. \A s \in made : \A l \in DOMAIN s.line : s.line[l] < nextId'
    <3>1. \A s \in made : \A l \in DOMAIN s.line : s.line[l] < nextId /\ s.line[l] \in Nat
      BY <1>0, SnapshotFacts DEF Lineage
    <3> QED BY <1>0, <2>1, <3>1
  <2> QED BY <2>1, <2>2, <2>3 DEF Lineage, Entry
<1> QED BY <1>1, <1>2, <1>3, <1>4, ThreadMakes DEF Next, vars

LEMMA PendingStep ==
    ASSUME IInv, Lineage, Pending, [Next]_vars
    PROVE  Pending'
<1>0. TypeOK /\ nextId \in Nat /\ Depth \in Nat
  BY SnapshotFacts, ChainAssumption DEF IInv
<1>1. CASE Documents
  <2>1. UNCHANGED call /\ made \subseteq made' /\ \A s \in made' : s \in made \/ DOMAIN s.line = 0..0
    BY <1>0, <1>1, DocumentsMake DEF NewDocument
  <2>2. \A t \in Threads : call[t].op = "publish" => call[t].layer \in 1..Depth
    BY DEF IInv, WellFormed, PublishShape
  <2> QED BY <1>0, <2>1, <2>2 DEF Pending
<1>2. ASSUME NEW t \in Threads, Write(t) PROVE Pending'
  <2>1. /\ call[t].op = "publish" /\ made' = made \cup {call[t].focus}
        /\ call'[t] = Idle /\ \A o \in Threads \ {t} : call'[o] = call[o]
    BY <1>2, WriteFacts
  <2>2. ASSUME NEW o \in Threads \ {t}, call[o].op = "publish",
               call[o].layer \in DOMAIN call[t].focus.line
        PROVE  call[t].focus.line[call[o].layer] # call[o].focus.line[call[o].layer]
    <3>1. CASE call[t].layer = call[o].layer
      BY <2>1, <2>2, <3>1 DEF Pending
    <3>2. CASE call[t].layer # call[o].layer
      <4>1. PICK p \in made : /\ DOMAIN p.line = 0..(call[t].layer - 1)
                              /\ \A l \in 0..(call[t].layer - 1) : p.line[l] = call[t].focus.line[l]
        BY <2>1 DEF Pending
      <4>2. DOMAIN call[t].focus.line = 0..call[t].layer /\ call[t].layer \in 1..Depth
        BY <2>1, PublishFacts
      <4>3. ASSUME NEW m \in 1..Depth, NEW n \in 0..m, n # m PROVE n \in 0..(m - 1)
        BY <1>0, <4>3
      <4>4. call[o].layer \in 0..(call[t].layer - 1)
        BY <2>2, <3>2, <4>2, <4>3
      <4>5. p.line[call[o].layer] # call[o].focus.line[call[o].layer]
        BY <2>2, <4>1, <4>4 DEF Pending
      <4> QED BY <4>1, <4>4, <4>5
    <3> QED BY <3>1, <3>2
  <2>3. Idle.op # "publish"
    BY DEF Idle
  <2> QED BY <2>1, <2>2, <2>3 DEF Pending
<1>3. ASSUME NEW t \in Threads, NEW k \in 1..Depth, NEW parent \in made, NEW others \in SUBSET made,
             BeginPublish(t, k, parent, others)
      PROVE  Pending'
  <2> DEFINE line == [l \in 0..k |-> IF l = k THEN nextId ELSE parent.line[l]]
  <2>1. /\ call'[t] = [op |-> "publish", layer |-> k, at |-> 0,
                       focus |-> [uri |-> parent.uri, line |-> line],
                       goals |-> {parent} \cup others, scope |-> {}]
        /\ \A o \in Threads \ {t} : call'[o] = call[o]
        /\ made' = made /\ DOMAIN parent.line = 0..(k - 1)
    BY <1>0, <1>3 DEF BeginPublish, TypeOK
  <2>2. line[k] = nextId /\ \A l \in 0..(k - 1) : line[l] = parent.line[l]
    BY <1>0
  <2> HIDE DEF line
  <2>3. /\ call'[t].op = "publish" /\ call'[t].layer = k
        /\ call'[t].focus.uri = parent.uri /\ call'[t].focus.line = line
    BY <2>1
  <2>4. \A s \in made : k \in DOMAIN s.line => s.line[k] # nextId
    <3>1. \A s \in made : k \in DOMAIN s.line => s.line[k] < nextId /\ s.line[k] \in Nat
      BY <1>0, SnapshotFacts DEF Lineage
    <3> QED BY <1>0, <3>1
  <2>5. \A o \in Threads \ {t} :
           call[o].op = "publish" /\ call[o].layer = k => call[o].focus.line[k] # nextId
    <3> SUFFICES ASSUME NEW o \in Threads \ {t}, call[o].op = "publish", call[o].layer = k
                 PROVE  call[o].focus.line[k] # nextId
      OBVIOUS
    <3>1. call[o].focus.line[k] < nextId
      BY DEF IInv, WellFormed, PublishShape
    <3> QED BY <1>0, <3>1
  <2> DEFINE Fine(o) == LET j == call'[o].layer
                            f == call'[o].focus
                        IN  /\ \A s \in made' : j \in DOMAIN s.line => s.line[j] # f.line[j]
                            /\ \A q \in Threads \ {o} :
                                  call'[q].op = "publish" /\ call'[q].layer = j =>
                                     call'[q].focus.line[j] # f.line[j]
                            /\ \E p \in made' : /\ p.uri = f.uri /\ DOMAIN p.line = 0..(j - 1)
                                                /\ \A l \in 0..(j - 1) : p.line[l] = f.line[l]
  <2>6. Fine(t)
    BY <2>1, <2>2, <2>3, <2>4, <2>5
  <2>7. ASSUME NEW o \in Threads \ {t}, call[o].op = "publish" PROVE Fine(o)
    <3>1. call'[o] = call[o]
      BY <2>1
    <3>2. \A q \in Threads \ {o} :
             call'[q].op = "publish" /\ call'[q].layer = call[o].layer =>
                call'[q].focus.line[call[o].layer] # call[o].focus.line[call[o].layer]
      <4>1. CASE call[o].layer = k
        BY <2>1, <2>2, <2>3, <2>5, <2>7, <4>1 DEF Pending
      <4>2. CASE call[o].layer # k
        BY <2>1, <2>3, <2>7, <4>2 DEF Pending
      <4> QED BY <4>1, <4>2
    <3> QED BY <2>1, <2>7, <3>1, <3>2 DEF Pending
  <2> HIDE DEF Fine
  <2>8. \A o \in Threads : call'[o].op = "publish" => Fine(o)
    BY <2>1, <2>6, <2>7
  <2> QED BY <2>8 DEF Pending, Fine
<1>4. ASSUME UNCHANGED made,
             \A t \in Threads : call'[t].op = "publish" =>
                /\ call[t].op = "publish" /\ call'[t].layer = call[t].layer
                /\ call'[t].focus = call[t].focus
      PROVE  Pending'
  BY <1>4 DEF Pending
<1>5. ASSUME NEW t \in Threads, UNCHANGED made, Begins(t) \/ Proceeds(t),
             \A k \in 1..Depth, parent \in made, others \in SUBSET made :
                ~BeginPublish(t, k, parent, others)
      PROVE  \A o \in Threads : call'[o].op = "publish" =>
                /\ call[o].op = "publish" /\ call'[o].layer = call[o].layer
                /\ call'[o].focus = call[o].focus
  <2>0. Idle.op # "publish"
    BY DEF Idle
  <2>1. \A o \in Threads \ {t} : call'[o] = call[o]
    BY <1>0, <1>5, CallFrame
  <2>2. CASE \E k \in Layers, snapshots \in SUBSET made, scope \in SUBSET Uris :
                BeginCommit(t, k, snapshots, scope)
    BY <1>0, <2>1, <2>2 DEF BeginCommit, TypeOK
  <2>3. CASE \E u \in Uris, k \in Layers : BeginGet(t, u, k)
    BY <1>0, <2>1, <2>3 DEF BeginGet, TypeOK
  <2>4. CASE \E l \in Layers : Acquire(t, l)
    <3>1. /\ call'[t].op = call[t].op /\ call'[t].layer = call[t].layer
          /\ call'[t].focus = call[t].focus
      BY <1>0, <2>4, AcquireHolds
    <3> QED BY <2>1, <3>1
  <2>5. ASSUME call'[t] = Idle PROVE call'[t].op # "publish"
    BY <2>0, <2>5
  <2>6. CASE \E l \in Layers : Reject(t, l)
    BY <1>0, <2>1, <2>5, <2>6 DEF Reject, TypeOK
  <2>7. CASE Write(t) \/ Return(t) \/ FinishGet(t)
    BY <1>0, <2>1, <2>5, <2>7 DEF Write, Return, FinishGet, TypeOK
  <2>8. CASE \E l \in 1..Depth : ReadLayer(t, l)
    <3>1. call'[t] = Idle \/ call'[t].op = "get"
      BY <1>0, <2>8 DEF ReadLayer, TypeOK, Calls
    <3> QED BY <2>1, <2>5, <3>1
  <2>9. CASE \E g \in made : ReadRelated(t, g)
    <3>1. call'[t] = Idle \/ call'[t].op = "get"
      BY <1>0, <2>9 DEF ReadRelated, TypeOK, Calls
    <3> QED BY <2>1, <2>5, <3>1
  <2> QED BY <1>5, <2>2, <2>3, <2>4, <2>6, <2>7, <2>8, <2>9 DEF Begins, Proceeds
<1>6. CASE UNCHANGED vars
  BY <1>4, <1>6 DEF vars
<1> QED BY <1>1, <1>2, <1>3, <1>4, <1>5, <1>6, ThreadMakes DEF Next

-----------------------------------------------------------------------------
(***************************************************************************)
(* Nothing comes back.                                                     *)
(***************************************************************************)

\* What is not stored, though it was made, will never be stored again.
LEMMA NeverBack ==
    ASSUME IInv, Lineage, Pending, [Next]_vars, NEW s \in made, NEW l \in DOMAIN s.line,
           Holds(l, s.uri, s.line[l])'
    PROVE  Holds(l, s.uri, s.line[l])
<1>0. TypeOK /\ s.uri \in Uris /\ l \in Layers /\ s.line[l] \in Nat /\ nextId \in Nat /\ s.line[l] < nextId
  BY SnapshotFacts DEF IInv, Lineage
<1>1. store'[l][s.uri] # None /\ store'[l][s.uri][l] = s.line[l]
  BY DEF Holds
<1>2. CASE Documents
  <2>1. CASE store'[l][s.uri] \in {None, store[l][s.uri]}
    BY <1>1, <2>1 DEF Holds
  <2>2. CASE l = 0 /\ NewDocument([uri |-> s.uri, line |-> store'[l][s.uri]])
    BY <1>0, <1>1, <2>2 DEF NewDocument
  <2> QED BY <1>0, <1>2, <2>1, <2>2, DocumentsMake
<1>3. ASSUME NEW t \in Threads, Write(t) PROVE Holds(l, s.uri, s.line[l])
  <2>1. /\ call[t].op = "publish" /\ store'[call[t].layer][call[t].focus.uri] = call[t].focus.line
        /\ \A m \in Layers, u \in Uris :
              m # call[t].layer \/ u # call[t].focus.uri => store'[m][u] = store[m][u]
    BY <1>3, WriteFacts
  <2>2. l = call[t].layer => s.line[l] # call[t].focus.line[l]
    BY <2>1 DEF Pending
  <2> QED BY <1>0, <1>1, <2>1, <2>2 DEF Holds
<1>4. CASE UNCHANGED store
  BY <1>1, <1>4 DEF Holds
<1> QED BY <1>2, <1>3, <1>4, ThreadMakes DEF Next, vars

LEMMA NeverCurrentAgain ==
    ASSUME IInv, Lineage, Pending, [Next]_vars, NEW s \in made, Current(s)'
    PROVE  Current(s)
BY NeverBack DEF Current

\* A snapshot is made from what is current, all of it.
LEMMA MadeCurrent ==
    ASSUME IInv, Lineage, Pending, [Next]_vars, NEW s \in made' \ made, NEW k \in Layers,
           DOMAIN s.line = 0..k
    PROVE  WhollyCurrent(s, k)'
<1>0. TypeOK /\ Depth \in Nat \ {0} /\ k \in Nat
  BY SnapshotFacts, ChainAssumption DEF IInv
<1>1. CASE Documents
  <2>1. NewDocument(s)
    BY <1>0, <1>1, DocumentsMake
  <2>2. DOMAIN s.line = 0..0 /\ k = 0
    <3>1. ASSUME NEW n \in Nat, 0..n = 0..0 PROVE n = 0
      <4>1. n \in 0..0
        BY <3>1
      <4> QED BY <4>1
    <3> QED BY <1>0, <2>1, <3>1 DEF NewDocument
  <2>3. store'[0][s.uri] = s.line /\ s.line # None
    <3>1. s.line \in Line(0)
      <4>1. s.line[0] \in Nat
        BY <2>1 DEF NewDocument
      <4>2. s \in Snapshots
        BY TypeStep DEF IInv, TypeOK
      <4>3. PICK j \in Layers : s.line \in [0..j -> Ids]
        BY <4>2, LineFacts DEF Line
      <4>4. s.line \in [0..0 -> Ids]
        BY <2>2, <4>3
      <4> QED BY <4>4 DEF Line
    <3> QED BY <1>0, <2>1, <3>1, LineFacts, SnapshotFacts DEF NewDocument
  <2>4. Current(s)'
    BY <2>2, <2>3 DEF Current, Holds
  <2> QED BY <1>0, <2>2, <2>4 DEF WhollyCurrent
<1>2. ASSUME NEW t \in Threads, Write(t) PROVE WhollyCurrent(s, k)'
  <2> DEFINE j == call[t].layer
             f == call[t].focus
  <2>1. /\ call[t].op = "publish" /\ made' = made \cup {f} /\ store'[j][f.uri] = f.line
        /\ \A l \in Layers, u \in Uris : l # j \/ u # f.uri => store'[l][u] = store[l][u]
        /\ UNCHANGED <<related, nextId>>
    BY <1>2, WriteFacts
  <2>2. /\ j \in 1..Depth /\ f.uri \in Uris /\ f.line \in Line(j)
        /\ \A l \in 0..(j - 1) : Holds(l, f.uri, f.line[l])
        /\ \A g \in related[f.line[j]] :
              /\ DOMAIN g.line = 0..(j - 1)
              /\ \A l \in 0..(j - 1) : Holds(l, g.uri, g.line[l])
    BY <1>2, WriteIsCurrent
  <2>3. related[f.line[j]] \subseteq made /\ f.line[j] \in Ids
    BY <2>2, ChainAssumption DEF Lineage, Line
  <2> HIDE DEF j, f
  <2>4. s = f /\ DOMAIN f.line = 0..j /\ f.line # None /\ j \in Layers
    BY <2>1, <2>2, LineFacts, SnapshotFacts, <1>0
  <2>5. k = j
    <3>1. ASSUME NEW m \in Nat, NEW n \in Nat, 0..m = 0..n PROVE m = n
      <4>1. m \in 0..n /\ n \in 0..m
        BY <3>1
      <4> QED BY <4>1
    <3> QED BY <1>0, <2>4, <3>1, SnapshotFacts
  <2>6. 0..(j - 1) \subseteq Layers /\ \A l \in 0..(j - 1) : l # j
    BY <2>2, ChainAssumption DEF Layers
  <2>7. \A l \in 0..(j - 1), u \in Uris : \A id : Holds(l, u, id) => Holds(l, u, id)'
    BY <2>1, <2>6 DEF Holds
  <2>8. Current(s)'
    <3>1. \A l \in 0..(j - 1) : Holds(l, s.uri, s.line[l])'
      BY <2>2, <2>4, <2>7
    <3>2. Holds(k, s.uri, s.line[k])'
      BY <2>1, <2>4, <2>5 DEF Holds
    <3>3. \A l \in 0..k : l \in 0..(j - 1) \/ l = k
      BY <2>2, <2>5, ChainAssumption
    <3> QED BY <3>1, <3>2, <3>3 DEF Current
  <2>9. \A g \in related[f.line[j]] : Current(g)'
    <3> SUFFICES ASSUME NEW g \in related[f.line[j]] PROVE Current(g)'
      OBVIOUS
    <3>1. g.uri \in Uris /\ DOMAIN g.line = 0..(j - 1)
      BY <1>0, <2>2, <2>3, SnapshotFacts
    <3> QED BY <2>2, <2>7, <3>1 DEF Current
  <2> QED BY <2>1, <2>4, <2>5, <2>8, <2>9 DEF WhollyCurrent
<1>3. CASE UNCHANGED made
  BY <1>3
<1> QED BY <1>1, <1>2, <1>3, ThreadMakes DEF Next, vars

-----------------------------------------------------------------------------
(***************************************************************************)
(* What a get may return.                                                  *)
(***************************************************************************)

\* A get keeps what it has witnessed, and witnesses what is made.
LEMMA WitnessGrows ==
    ASSUME IInv, Lineage, Pending, [Next]_vars, Witness, NEW t \in Threads,
           call[t].op = "get", call'[t].op = "get",
           call'[t].focus.uri = call[t].focus.uri, call'[t].layer = call[t].layer
    PROVE  /\ witnessed[t] \subseteq witnessed'[t]
           /\ \A s \in made' \ made :
                 s.uri = call[t].focus.uri /\ DOMAIN s.line = 0..call[t].layer => s \in witnessed'[t]
<1>1. witnessed'[t] = CurrentNow(t)' \cup witnessed[t]
  BY DEF Witness
<1>2. ASSUME NEW s \in made' \ made, s.uri = call[t].focus.uri, DOMAIN s.line = 0..call[t].layer
      PROVE  s \in CurrentNow(t)'
  <2>1. PICK k \in Layers : k = call[t].layer
    BY DEF IInv, TypeOK, Calls
  <2>2. WhollyCurrent(s, k)'
    BY <1>2, <2>1, MadeCurrent
  <2>3. WhollyCurrent(s, call[t].layer)'
    BY <2>1, <2>2 DEF WhollyCurrent
  <2> QED BY <1>2, <2>3 DEF CurrentNow
<1> QED BY <1>1, <1>2

\* While a get reads nothing, what it will not return stays so.
LEMMA ExcludedStays ==
    ASSUME IInv, Lineage, Pending, [Next]_vars, NEW t \in Threads, call[t].op = "get",
           call'[t] = call[t], NEW s \in made, s.uri = call[t].focus.uri,
           DOMAIN s.line = 0..call[t].layer, Excluded(t, s)
    PROVE  Excluded(t, s)'
<1>0. /\ Depth \in Nat \ {0} /\ call[t].layer \in Nat /\ call[t].at \in Nat
      /\ \A i \in Ids : i < nextId => related'[i] = related[i]
  <2>1. ASSUME Documents \/ UNCHANGED vars PROVE related' = related
    BY <2>1, DocumentsFrame DEF IInv, vars
  <2>2. ASSUME NEW o \in Threads, Begins(o) \/ Proceeds(o)
        PROVE  \A i \in Ids : i < nextId => related'[i] = related[i]
    BY <2>2, CallFrame DEF IInv
  <2>3. Depth \in Nat \ {0} /\ call[t].layer \in Nat /\ call[t].at \in Nat
    BY ChainAssumption DEF IInv, TypeOK, Calls, Layers
  <2> QED BY <2>1, <2>2, <2>3 DEF Next
<1>1. CASE \E l \in 0..(call[t].at - 1) : s.line[l] # call[t].focus.line[l]
  BY <1>1 DEF Excluded
<1>2. CASE \E l \in call[t].at..call[t].layer : ~Holds(l, s.uri, s.line[l])
  <2>1. PICK l \in call[t].at..call[t].layer : ~Holds(l, s.uri, s.line[l])
    BY <1>2
  <2>2. l \in DOMAIN s.line
    BY <1>0, <2>1
  <2>3. ~Holds(l, s.uri, s.line[l])'
    BY <2>1, <2>2, NeverBack
  <2> QED BY <2>1, <2>3 DEF Excluded
<1>3. CASE /\ call[t].layer = Depth
           /\ \E g \in related[s.line[Depth]] :
                 ~Current(g) /\ (call[t].at > call[t].layer => g \in call[t].goals)
  <2>1. PICK g \in related[s.line[Depth]] :
               ~Current(g) /\ (call[t].at > call[t].layer => g \in call[t].goals)
    BY <1>3
  <2>2. s.line[Depth] \in Ids /\ s.line[Depth] < nextId
    <3>1. Depth \in DOMAIN s.line
      BY <1>0, <1>3
    <3>2. PICK k \in Layers : s.line \in Line(k)
      BY LineFacts DEF IInv, TypeOK
    <3> QED BY <3>1, <3>2 DEF Lineage, Line
  <2>3. g \in made /\ related'[s.line[Depth]] = related[s.line[Depth]]
    BY <1>0, <2>1, <2>2 DEF Lineage
  <2>4. ~Current(g)'
    BY <2>1, <2>3, NeverCurrentAgain
  <2> QED BY <1>3, <2>1, <2>3, <2>4 DEF Excluded
<1> QED BY <1>1, <1>2, <1>3 DEF Excluded

\* What one thread may return.
WitnessedBy(t) ==
    /\ call[t].focus \in made
    /\ \A s \in made : s.uri = call[t].focus.uri /\ DOMAIN s.line = 0..call[t].layer =>
          s \in witnessed[t] \/ Excluded(t, s)

LEMMA WitnessedStays ==
    ASSUME IInv, Lineage, Pending, [Next]_vars, Witness, NEW t \in Threads, call[t].op = "get",
           call'[t] = call[t], WitnessedBy(t)
    PROVE  WitnessedBy(t)'
<1>1. made \subseteq made'
  BY DocumentsMake, ThreadMakes, WriteFacts DEF Next, vars, IInv
<1>2. /\ witnessed[t] \subseteq witnessed'[t]
      /\ \A s \in made' \ made :
            s.uri = call[t].focus.uri /\ DOMAIN s.line = 0..call[t].layer => s \in witnessed'[t]
  BY WitnessGrows
<1>3. \A s \in made : s.uri = call[t].focus.uri /\ DOMAIN s.line = 0..call[t].layer =>
         s \in witnessed'[t] \/ Excluded(t, s)'
  BY <1>2, ExcludedStays DEF WitnessedBy
<1> QED BY <1>1, <1>2, <1>3 DEF WitnessedBy

\* At the first read, a snapshot is current as a whole, or something of it is gone.
LEMMA WitnessedFirst ==
    ASSUME IInv, Lineage, Pending, [Next]_vars, Witness, NEW t \in Threads,
           NEW u \in Uris, NEW k \in Layers, BeginGet(t, u, k)
    PROVE  WitnessedBy(t)'
<1>1. /\ call'[t] = [op |-> "get", layer |-> k, at |-> 1,
                     focus |-> [uri |-> u, line |-> store[0][u]], goals |-> {}, scope |-> {}]
      /\ UNCHANGED <<store, related, made, nextId>> /\ store[0][u] # None
  BY DEF BeginGet, IsOpen, IInv, TypeOK
<1>2. /\ call'[t].op = "get" /\ call'[t].layer = k /\ call'[t].at = 1
      /\ call'[t].focus.uri = u /\ call'[t].focus.line = store[0][u]
      /\ call'[t].focus = Entry(0, u)
  BY <1>1 DEF Entry
<1>3. Entry(0, u) \in made /\ k \in Nat /\ Depth \in Nat \ {0}
  BY <1>1, SnapshotFacts, ChainAssumption DEF Lineage, IInv
<1>4. ASSUME NEW s \in made, s.uri = u, DOMAIN s.line = 0..k
      PROVE  s \in witnessed'[t] \/ Excluded(t, s)'
  <2>1. CASE WhollyCurrent(s, k)
    <3>1. WhollyCurrent(s, k)'
      BY <1>1, <2>1 DEF WhollyCurrent, Current, Holds
    <3>2. WhollyCurrent(s, call[t].layer)'
      BY <1>2, <3>1 DEF WhollyCurrent
    <3>3. s \in CurrentNow(t)'
      BY <1>1, <1>2, <1>4, <3>2 DEF CurrentNow
    <3> QED BY <1>2, <3>3 DEF Witness
  <2>2. CASE ~Current(s)
    <3>1. PICK l \in 0..k : ~Holds(l, s.uri, s.line[l])
      BY <1>4, <2>2 DEF Current
    <3>2. CASE l = 0
      <4>1. s.line[0] # store[0][u][0]
        BY <1>1, <1>4, <3>1, <3>2 DEF Holds
      <4> QED BY <1>2, <4>1 DEF Excluded
    <3>3. CASE l # 0
      <4>1. l \in 1..k /\ ~Holds(l, s.uri, s.line[l])'
        BY <1>1, <1>3, <3>1, <3>3 DEF Holds
      <4> QED BY <1>2, <4>1 DEF Excluded
    <3> QED BY <3>2, <3>3
  <2>3. CASE Current(s) /\ ~WhollyCurrent(s, k)
    <3>1. k = Depth /\ \E g \in related[s.line[k]] : ~Current(g)
      BY <2>3 DEF WhollyCurrent
    <3>2. CASE k = 0
      BY <1>3, <3>1, <3>2
    <3>3. CASE k # 0
      <4>1. PICK g \in related[s.line[k]] : ~Current(g)
        BY <3>1
      <4>2. ~Current(g)' /\ ~(1 > k)
        BY <1>1, <1>3, <3>3, <4>1 DEF Current, Holds
      <4> QED BY <1>1, <1>2, <3>1, <4>1, <4>2 DEF Excluded
    <3> QED BY <3>2, <3>3
  <2> QED BY <2>1, <2>2, <2>3
<1> QED BY <1>1, <1>2, <1>3, <1>4 DEF WitnessedBy

\* One more layer is read: what is gone there is now known to differ.
LEMMA WitnessedNext ==
    ASSUME IInv, Lineage, Pending, [Next]_vars, Witness, NEW t \in Threads,
           NEW l \in 1..Depth, ReadLayer(t, l), Derives(t, l), WitnessedBy(t)
    PROVE  WitnessedBy(t)'
<1> DEFINE u == call[t].focus.uri
           entry == store[l][u]
           old == call[t].focus.line
<1>1. /\ call[t].op = "get" /\ call[t].at = l /\ l <= call[t].layer
      /\ entry # None /\ entry[l - 1] = old[l - 1]
      /\ UNCHANGED <<store, related, made, nextId>>
  BY DEF ReadLayer, Derives
<1>2. /\ call'[t].op = "get" /\ call'[t].layer = call[t].layer /\ call'[t].at = l + 1
      /\ call'[t].focus = [uri |-> u, line |-> entry]
      /\ call'[t].goals = IF l = Depth THEN related[entry[l]] ELSE {}
  BY DEF ReadLayer, IInv, TypeOK, Calls
<1>3. /\ l \in Layers /\ u \in Uris /\ l \in Nat /\ call[t].layer \in Nat /\ Depth \in Nat
      /\ call[t].layer <= Depth /\ DOMAIN old = 0..(l - 1) /\ 0..(l - 1) \subseteq 0..l
  <2>1. GetShape(t)
    BY <1>1 DEF IInv, WellFormed
  <2> QED BY <1>1, <2>1, LineFacts, ChainAssumption DEF GetShape, Layers, IInv, TypeOK, Calls
<1>4. Entry(l, u) \in made /\ DOMAIN entry = 0..l
  BY <1>1, <1>3, SnapshotFacts DEF Lineage, IInv
<1>5. \A j \in 0..(l - 1) : entry[j] = old[j]
  <2>1. l - 1 \in 0..(l - 1) /\ l - 1 \in 0..l
    BY <1>3
  <2>2. Entry(l, u).line = entry /\ call[t].focus \in made
    BY DEF Entry, WitnessedBy
  <2>3. l - 1 \in DOMAIN Entry(l, u).line \cap DOMAIN call[t].focus.line
        /\ Entry(l, u).line[l - 1] = call[t].focus.line[l - 1]
    BY <1>1, <1>3, <1>4, <2>1, <2>2
  <2>4. \A j \in 0..(l - 1) : Entry(l, u).line[j] = call[t].focus.line[j]
    BY <1>4, <2>2, <2>3 DEF Lineage
  <2> QED BY <2>2, <2>4
<1> HIDE DEF u, entry, old
<1>6. call'[t].focus.uri = u /\ call'[t].focus.line = entry /\ call'[t].focus \in made'
  BY <1>1, <1>2, <1>4 DEF Entry, entry
<1>7. witnessed[t] \subseteq witnessed'[t]
  BY <1>1, <1>2, <1>6, WitnessGrows DEF u
<1>8. ASSUME NEW s \in made, s.uri = u, DOMAIN s.line = 0..call[t].layer, Excluded(t, s)
      PROVE  Excluded(t, s)'
  <2>1. CASE \E j \in 0..l : s.line[j] # entry[j]
    BY <1>2, <1>3, <1>6, <2>1 DEF Excluded
  <2>2. CASE \A j \in 0..l : s.line[j] = entry[j]
    <3>1. ~ \E j \in 0..(l - 1) : s.line[j] # old[j]
      BY <1>3, <1>5, <2>2
    <3>2. Holds(l, s.uri, s.line[l])
      BY <1>1, <1>3, <1>8, <2>2 DEF Holds, entry
    <3>3. CASE \E j \in l..call[t].layer : ~Holds(j, s.uri, s.line[j])
      <4>1. PICK j \in l..call[t].layer : ~Holds(j, s.uri, s.line[j])
        BY <3>3
      <4>2. j \in l + 1..call[t].layer
        BY <1>3, <3>2, <4>1
      <4>3. ~Holds(j, s.uri, s.line[j])'
        BY <1>1, <4>1 DEF Holds
      <4> QED BY <1>2, <4>2, <4>3 DEF Excluded
    <3>4. CASE /\ call[t].layer = Depth
               /\ \E g \in related[s.line[Depth]] : ~Current(g)
      <4>1. PICK g \in related[s.line[Depth]] : ~Current(g)
        BY <3>4
      <4>2. ~Current(g)'
        BY <1>1, <4>1 DEF Current, Holds
      <4>3. l + 1 > call[t].layer => l = Depth
        BY <1>1, <1>3, <3>4
      <4>4. l = Depth => g \in call'[t].goals
        BY <1>2, <1>3, <2>2, <4>1
      <4> QED BY <1>1, <1>2, <3>4, <4>1, <4>2, <4>3, <4>4 DEF Excluded
    <3> QED BY <1>1, <1>8, <3>1, <3>3, <3>4 DEF Excluded, old
  <2> QED BY <2>1, <2>2
<1> QED BY <1>1, <1>2, <1>6, <1>7, <1>8 DEF WitnessedBy, u

\* A related semantic is found current, so it is none of those that are gone.
LEMMA WitnessedRelated ==
    ASSUME IInv, Lineage, Pending, [Next]_vars, Witness, NEW t \in Threads,
           NEW g \in made, ReadRelated(t, g), Current(g), WitnessedBy(t)
    PROVE  WitnessedBy(t)'
<1>1. /\ call[t].op = "get" /\ UNCHANGED <<store, related, made, nextId>>
      /\ call'[t].op = "get" /\ call'[t].layer = call[t].layer /\ call'[t].at = call[t].at
      /\ call'[t].focus = call[t].focus /\ call'[t].goals = call[t].goals \ {g}
  BY DEF ReadRelated, IInv, TypeOK, Calls
<1>2. witnessed[t] \subseteq witnessed'[t]
  BY <1>1, WitnessGrows
<1>3. ASSUME NEW s \in made, Excluded(t, s) PROVE Excluded(t, s)'
  <2>1. \A l, u, id : Holds(l, u, id)' <=> Holds(l, u, id)
    BY <1>1 DEF Holds
  <2>2. \A h : Current(h)' <=> Current(h)
    BY <2>1 DEF Current
  <2> QED BY <1>1, <1>3, <2>1, <2>2 DEF Excluded
<1> QED BY <1>1, <1>2, <1>3 DEF WitnessedBy

LEMMA WitnessedStep ==
    ASSUME IInv, Lineage, Pending, Witnessed, [Next]_vars, Witness
    PROVE  Witnessed'
<1> SUFFICES ASSUME NEW t \in Threads, call'[t].op = "get" PROVE WitnessedBy(t)'
  BY DEF Witnessed, WitnessedBy
<1>1. call[t].op = "get" => WitnessedBy(t)
  BY DEF Witnessed, WitnessedBy
<1>2. CASE call'[t] = call[t]
  BY <1>1, <1>2, WitnessedStays
<1>3. CASE call'[t] # call[t]
  <2>1. Begins(t) \/ Proceeds(t)
    <3>1. CASE Documents \/ UNCHANGED vars
      BY <1>3, <3>1, DocumentsMake DEF IInv, vars
    <3>2. ASSUME NEW o \in Threads, Begins(o) \/ Proceeds(o) PROVE Begins(t) \/ Proceeds(t)
      BY <1>3, <3>2, CallFrame DEF IInv
    <3> QED BY <3>1, <3>2 DEF Next
  <2>2. Idle.op # "get" /\ TypeOK
    BY DEF Idle, IInv
  <2>3. CASE \E u \in Uris, k \in Layers : BeginGet(t, u, k)
    BY <2>3, WitnessedFirst
  <2>4. CASE \E l \in 1..Depth : ReadLayer(t, l)
    <3>1. PICK l \in 1..Depth : ReadLayer(t, l)
      BY <2>4
    <3>2. Derives(t, l) /\ call[t].op = "get"
      BY <2>2, <3>1 DEF ReadLayer, TypeOK
    <3> QED BY <1>1, <3>1, <3>2, WitnessedNext
  <2>5. CASE \E g \in made : ReadRelated(t, g)
    <3>1. PICK g \in made : ReadRelated(t, g)
      BY <2>5
    <3>2. Current(g) /\ call[t].op = "get"
      BY <2>2, <3>1 DEF ReadRelated, TypeOK
    <3> QED BY <1>1, <3>1, <3>2, WitnessedRelated
  <2>6. CASE \/ \E k \in 1..Depth, parent \in made, others \in SUBSET made :
                   BeginPublish(t, k, parent, others)
             \/ \E k \in Layers, snapshots \in SUBSET made, scope \in SUBSET Uris :
                   BeginCommit(t, k, snapshots, scope)
    <3>1. ASSUME NEW k \in 1..Depth, NEW parent \in made, NEW others \in SUBSET made,
                 BeginPublish(t, k, parent, others)
          PROVE  call'[t].op = "publish"
      BY <2>2, <3>1 DEF BeginPublish, TypeOK
    <3>2. ASSUME NEW k \in Layers, NEW snapshots \in SUBSET made, NEW scope \in SUBSET Uris,
                 BeginCommit(t, k, snapshots, scope)
          PROVE  call'[t].op = "commit"
      BY <2>2, <3>2 DEF BeginCommit, TypeOK
    <3> QED BY <2>6, <3>1, <3>2
  <2>7. CASE \E l \in Layers : Acquire(t, l)
    BY <2>2, <2>7, AcquireHolds DEF Guarded
  <2>8. CASE Write(t) \/ Return(t) \/ FinishGet(t) \/ \E l \in Layers : Reject(t, l)
    BY <2>2, <2>8 DEF Write, Return, FinishGet, Reject, TypeOK
  <2> QED BY <2>1, <2>3, <2>4, <2>5, <2>6, <2>7, <2>8 DEF Begins, Proceeds
<1> QED BY <1>2, <1>3

-----------------------------------------------------------------------------
(***************************************************************************)
(* The theorem.                                                            *)
(***************************************************************************)

LEMMA ReadInvInit == ReadInit => ReadInv
<1> SUFFICES ASSUME ReadInit PROVE ReadInv
  OBVIOUS
<1>1. IInv
  BY InitIInv DEF ReadInit
<1>2. Lineage /\ Pending /\ Witnessed
  BY DEF ReadInit, Init, Lineage, Pending, Witnessed, Idle
<1> QED BY <1>1, <1>2 DEF ReadInv

LEMMA ReadInvNext == ReadInv /\ [ReadNext]_readVars => ReadInv'
<1> SUFFICES ASSUME ReadInv, [ReadNext]_readVars PROVE ReadInv'
  OBVIOUS
<1>1. CASE ReadNext
  BY <1>1, Inductive, LineageStep, PendingStep, WitnessedStep DEF ReadNext, ReadInv
<1>2. CASE UNCHANGED readVars
  <2>1. IInv' /\ Lineage' /\ Pending'
    BY <1>2, Inductive, LineageStep, PendingStep DEF readVars, ReadInv
  <2>2. Witnessed'
    <3>1. UNCHANGED <<store, related, made, nextId, call, witnessed>>
      BY <1>2 DEF readVars, vars
    <3>2. \A l, u, id : Holds(l, u, id)' <=> Holds(l, u, id)
      BY <3>1 DEF Holds
    <3>3. \A h : Current(h)' <=> Current(h)
      BY <3>2 DEF Current
    <3>4. \A t, s : Excluded(t, s)' <=> Excluded(t, s)
      BY <3>1, <3>2, <3>3 DEF Excluded
    <3> QED BY <3>1, <3>4 DEF ReadInv, Witnessed
  <2> QED BY <2>1, <2>2 DEF ReadInv
<1> QED BY <1>1, <1>2

\* What a get is about to return is excluded by nothing, so it was witnessed.
LEMMA AnswersAreWitnessed == ReadInv => GetAnswersOneInstant
<1> SUFFICES ASSUME ReadInv, NEW t \in Threads, Answers(t)
             PROVE  call[t].focus \in witnessed[t]
  BY DEF GetAnswersOneInstant
<1> DEFINE s == call[t].focus
           c == call[t]
<1>1. call[t].op = "get" /\ call[t].at = call[t].layer + 1 /\ call[t].goals = {}
  BY DEF Answers
<1>2. s \in made
  BY <1>1 DEF ReadInv, Witnessed
<1>3. call[t].layer \in Nat
  BY SnapshotFacts DEF ReadInv, IInv, TypeOK, Calls
<1>4. DOMAIN s.line = 0..call[t].layer
  BY <1>1, <1>3 DEF ReadInv, IInv, WellFormed, GetShape
<1>5. ~Excluded(t, s)
  BY <1>1, <1>3 DEF Excluded
<1> QED BY <1>1, <1>2, <1>4, <1>5 DEF ReadInv, Witnessed

\* A get keeps no lock from one layer to the next; what it returns was nevertheless
\* current as a whole - document, every layer derived from it, and for diagnostics every
\* related semantic - at one instant of the call (diagnostics.py:161-171, semantic.py).
THEOREM GetsAreOneInstant == ReadSpec => []GetAnswersOneInstant
<1>1. ReadSpec => []ReadInv
  BY ReadInvInit, ReadInvNext, PTL DEF ReadSpec
<1> QED BY <1>1, AnswersAreWitnessed, PTL
=============================================================================
