--------------------------- MODULE TokenDeltasProofs ---------------------------
(***************************************************************************)
(* Theorems about TokenDeltas, for every set of documents and of token     *)
(* data and any number of messages.                                        *)
(*                                                                         *)
(* The edits of a delta turn the one result into the other (EditsApply).   *)
(* What remains is that both are the right ones: an identity number stands *)
(* for one token data (OneDataPerId), and what the worker read is still    *)
(* the tokens of the document if the identity it took is that of now       *)
(* (ReadIsCurrent): a document, analysis or index that is replaced never   *)
(* comes back (Gone).  From the two follow that no result of a closed      *)
(* document is remembered, and that deltas implement ResultView.           *)
(*                                                                         *)
(* Nothing stale is kept (NoticeInv): whenever another document's change   *)
(* makes shown tokens stale, that change asks for a refresh when it ends,  *)
(* or one is pending whose acknowledgement has requests behind it.         *)
(***************************************************************************)
EXTENDS TokenDeltas, SequenceTheorems, WellFoundedInduction, TLAPS

Data == Tokens \cup {<<>>}
Results == [id : Nat, data : Data]
Questions == [k : {"full", "delta", "range"}, u : Uris, base : Results]
Renamings == [k : {"rename"}, u : Uris, v : Uris]
Notices == [k : {"text", "close"}, u : Uris] \cup {m \in Renamings : m.u # m.v}
             \cup [k : {"refreshed"}]
Deltas == [k : {"edits"}, u : Uris, id : Nat, base : Results,
           edits : {TokenEdits(p, c) : p \in Data, c \in Data}]
Replied == [k : {"error", "range"}, u : Uris] \cup [k : {"data"}, u : Uris, id : Nat, data : Data]
             \cup {r \in Deltas : Denoted(r) \in Data}
Identities == Nat \X Nat \X Nat
Jobs == [at : {"reading", "committing", "checking", "storing"}, k : {"full", "delta", "range"},
         u : Uris, base : Results, identity : Identities, read : Identities, data : Data]
Changing == [at : {"parsing", "indexing", "closing", "refreshing", "forgetting", "moving"},
             u : Uris, v : Uris, id : Nat, others : BOOLEAN, before : Nat]

TokenTypes ==
  /\ held \in [Uris -> Results] /\ dirty \in SUBSET Uris /\ wanted \in SUBSET Uris
  /\ messages \in Seq(Questions \cup Notices)
  /\ queue \in Seq(Questions)
  /\ replies \in Seq(Replied)
  /\ doc \in [Uris -> Nat] /\ semantics \in [Uris -> Nat] /\ indexGeneration \in Nat
  /\ content \in [Uris -> Data]
  /\ handling \in Changing \cup [at : {"idle"}, id : Nat]
  /\ job \in {NoRequest} \cup Jobs
  /\ DOMAIN results \subseteq Uris /\ \A u \in DOMAIN results : results[u] \in Results
  /\ counter \in Nat

\* Identities are given in order, and what main is about to do to a document shows.
Ordered ==
  /\ \A u \in Uris : doc[u] <= handling.id /\ semantics[u] <= handling.id
  /\ handling.at = "parsing" => semantics[handling.u] # doc[handling.u] /\ doc[handling.u] # 0
  /\ handling.at = "closing" => doc[handling.u] = 0
  /\ handling.at = "moving" =>
       /\ handling.u # handling.v /\ doc[handling.u] = 0
       /\ doc[handling.v] # 0 /\ semantics[handling.v] # doc[handling.v]

\* The identity the worker took is never that of the document again.
Took == job.identity
Gone ==
  \/ indexGeneration > Took[3]
  \/ Took[1] # 0 /\ \/ doc[job.u] # Took[1]
                    \/ Took[2] # Took[1] /\ semantics[job.u] = doc[job.u]

Opening(u) ==
  \/ handling.at \in {"parsing", "indexing"} /\ handling.u = u
  \/ handling.at = "moving" /\ handling.v = u

\* What the worker took is as old as what there is; until it is gone, what it has read is
\* the tokens of the document; and a document it found closed is not open but on its way.
ReadIsCurrent ==
  job.at # "idle" =>
    /\ Took[1] <= handling.id /\ Took[2] <= handling.id /\ Took[3] <= indexGeneration
    /\ Took[1] # 0 /\ ~Gone =>
         /\ Took[2] = Took[1] => semantics[job.u] = Took[1]
         /\ job.at # "reading" => content[job.u] = job.data
    /\ Took[1] = 0 /\ ~Gone =>
         /\ doc[job.u] = 0 \/ Opening(job.u)
         /\ job.at # "reading" => doc[job.u] # 0

\* The results of a closed document are on their way out.
RememberedOpenOrLeaving ==
  \A u \in DOMAIN results :
    \/ doc[u] # 0
    \/ handling.at \in {"closing", "refreshing", "forgetting", "moving"} /\ handling.u = u

\* All results that are known anywhere.
Given(r) == [id |-> r.id, data |-> Denoted(r)]
Asked(ms) == {ms[i].base : i \in {j \in DOMAIN ms : ms[j] \in Questions}}
Answered(rs) == {Given(rs[i]) : i \in {j \in DOMAIN rs : rs[j].k \in {"edits", "data"}}}
Pairs ==
  {held[u] : u \in Uris} \cup {results[u] : u \in DOMAIN results}
    \cup Asked(messages) \cup Asked(queue)
    \cup (IF job.at = "idle" THEN {} ELSE {job.base}) \cup Answered(replies)

\* A number stands for one token data.
OneDataPerId ==
  /\ \A a \in Pairs : a.id <= counter
  /\ \A a, b \in Pairs : a.id = b.id /\ a.id # 0 => a.data = b.data
  /\ \A u \in DOMAIN results : results[u].id # 0

TokenInv ==
  TokenTypes /\ Ordered /\ ReadIsCurrent /\ RememberedOpenOrLeaving /\ OneDataPerId

-----------------------------------------------------------------------------
(***************************************************************************)
(* The edits.                                                              *)
(***************************************************************************)

\* A set of naturals with a bound and a member has a greatest element.
LEMMA MaxBelow ==
    ASSUME NEW n \in Nat, NEW S \in SUBSET (0 .. n), S # {}
    PROVE  Max(S) \in S /\ \A y \in S : Max(S) >= y
<1> DEFINE T == {n - x : x \in S}
<1>1. T \subseteq Nat /\ T # {}
  <2>1. \A x \in S : n - x \in Nat
    OBVIOUS
  <2> QED BY <2>1
<1>2. \E m \in T : \A k \in T : <<k, m>> \notin OpToRel(<, Nat)
  BY <1>1, NatLessThanWellFounded, WFMin
<1>3. PICK m \in T : \A k \in T : ~(k < m)
  BY <1>1, <1>2 DEF OpToRel
<1>4. PICK x \in S : m = n - x
  OBVIOUS
<1>5. \A y \in S : x >= y
  BY <1>3, <1>4
<1> QED BY <1>4, <1>5 DEF Max

\* The common prefix and suffix are common, and do not overlap.
LEMMA CommonFacts ==
    ASSUME NEW S, NEW p \in Seq(S), NEW c \in Seq(S)
    PROVE  /\ CommonPrefix(p, c) \in Nat /\ CommonSuffix(p, c) \in Nat
           /\ CommonPrefix(p, c) + CommonSuffix(p, c) <= Len(p)
           /\ CommonPrefix(p, c) + CommonSuffix(p, c) <= Len(c)
           /\ \A i \in 1 .. CommonPrefix(p, c) : p[i] = c[i]
           /\ \A i \in 0 .. (CommonSuffix(p, c) - 1) : p[Len(p) - i] = c[Len(c) - i]
<1>1. Len(p) \in Nat /\ Len(c) \in Nat
  BY LenProperties
<1>2. Limit(p, c) \in Nat /\ Limit(p, c) <= Len(p) /\ Limit(p, c) <= Len(c)
  BY <1>1 DEF Limit, Min
<1> DEFINE P == {n \in 0..Limit(p, c) : \A i \in 1..n : p[i] = c[i]}
<1>3. P \in SUBSET (0 .. Limit(p, c)) /\ 0 \in P
  BY <1>2
<1>4. CommonPrefix(p, c) \in P
  BY <1>2, <1>3, MaxBelow DEF CommonPrefix
<1> DEFINE rest == Limit(p, c) - CommonPrefix(p, c)
           Q == {n \in 0..rest : \A i \in 0..(n - 1) : p[Len(p) - i] = c[Len(c) - i]}
<1>5. rest \in Nat
  BY <1>2, <1>4
<1>6. Q \in SUBSET (0 .. rest) /\ 0 \in Q
  BY <1>5
<1>7. CommonSuffix(p, c) \in Q
  BY <1>5, <1>6, MaxBelow DEF CommonSuffix
<1> QED BY <1>1, <1>2, <1>4, <1>5, <1>7

\* The edits of a delta, applied to the result the client named, give the new result
\* (semantic_token_delta.py:158-187).
LEMMA EditsApply ==
    ASSUME NEW S, NEW p \in Seq(S), NEW c \in Seq(S)
    PROVE  Applied(TokenEdits(p, c), p) = c
<1>1. CASE p = c
  BY <1>1 DEF Applied, TokenEdits
<1>2. CASE p # c
  <2> DEFINE n == CommonPrefix(p, c)
             m == CommonSuffix(p, c)
             a == SubSeq(p, 1, n)
             b == SubSeq(c, n + 1, Len(c) - m)
             d == SubSeq(p, Len(p) - m + 1, Len(p))
             e == [start |-> n, delete |-> Len(p) - m - n, data |-> b]
  <2>1. /\ n \in Nat /\ m \in Nat /\ n + m <= Len(p) /\ n + m <= Len(c)
        /\ Len(p) \in Nat /\ Len(c) \in Nat
        /\ \A i \in 1 .. n : p[i] = c[i]
        /\ \A i \in 0 .. (m - 1) : p[Len(p) - i] = c[Len(c) - i]
    BY CommonFacts, LenProperties
  <2>2. TokenEdits(p, c) = <<e>>
    BY <1>2 DEF TokenEdits
  <2> HIDE DEF n, m
  <2>3. Applied(<<e>>, p) = a \o b \o d
    <3>1. <<e>> # <<>> /\ <<e>>[1] = e
      OBVIOUS
    <3>2. Applied(<<e>>, p) = SubSeq(p, 1, e.start) \o e.data \o SubSeq(p, e.start + e.delete + 1, Len(p))
      BY <3>1 DEF Applied
    <3>3. e.start + e.delete + 1 = Len(p) - m + 1
      BY <2>1
    <3> QED BY <3>2, <3>3
  <2>4. a \in Seq(S) /\ Len(a) = n /\ \A i \in 1 .. n : a[i] = c[i]
    <3>1. \A i \in 1 .. n : p[i] \in S
      BY <2>1, ElementOfSeq
    <3> QED BY <2>1, <3>1, SubSeqProperties, Z3
  <2>5. b \in Seq(S) /\ Len(b) = Len(c) - m - n /\ \A i \in 1 .. Len(c) - m - n : b[i] = c[n + i]
    <3>1. \A i \in n + 1 .. Len(c) - m : c[i] \in S
      BY <2>1, ElementOfSeq
    <3> QED BY <2>1, <3>1, SubSeqProperties, Z3
  <2>6. d \in Seq(S) /\ Len(d) = m /\ \A i \in 1 .. m : d[i] = c[Len(c) - m + i]
    <3>1. \A i \in Len(p) - m + 1 .. Len(p) : p[i] \in S
      BY <2>1, ElementOfSeq
    <3>2. d \in Seq(S) /\ Len(d) = m /\ \A i \in 1 .. m : d[i] = p[Len(p) - m + i]
      BY <2>1, <3>1, SubSeqProperties, Z3
    <3>3. ASSUME NEW i \in 1 .. m PROVE p[Len(p) - m + i] = c[Len(c) - m + i]
      <4>1. m - i \in 0 .. (m - 1) /\ Len(p) - (m - i) = Len(p) - m + i /\ Len(c) - (m - i) = Len(c) - m + i
        BY <2>1
      <4> QED BY <2>1, <4>1
    <3> QED BY <3>2, <3>3
  <2> HIDE DEF a, b, d
  <2>7. /\ a \o b \in Seq(S) /\ Len(a \o b) = Len(c) - m
        /\ \A i \in 1 .. Len(c) - m : (a \o b)[i] = c[i]
    <3>1. /\ a \o b \in Seq(S) /\ Len(a \o b) = Len(a) + Len(b)
          /\ \A i \in 1 .. Len(a) + Len(b) : (a \o b)[i] = IF i <= Len(a) THEN a[i] ELSE b[i - Len(a)]
      BY <2>4, <2>5, ConcatProperties
    <3>2. ASSUME NEW i \in 1 .. Len(c) - m PROVE (a \o b)[i] = c[i]
      <4>1. CASE i <= n
        BY <2>1, <2>4, <2>5, <3>1, <4>1
      <4>2. CASE i > n
        <5>1. i - n \in 1 .. Len(c) - m - n /\ n + (i - n) = i /\ i \in 1 .. Len(a) + Len(b) /\ ~(i <= Len(a))
          BY <2>1, <2>4, <2>5, <4>2
        <5> QED BY <2>4, <2>5, <3>1, <5>1
      <4>3. i <= n \/ i > n
        BY <2>1
      <4> QED BY <4>1, <4>2, <4>3
    <3> QED BY <2>1, <2>4, <2>5, <3>1, <3>2
  <2>8. /\ a \o b \o d \in Seq(S) /\ Len(a \o b \o d) = Len(c)
        /\ \A i \in 1 .. Len(c) : (a \o b \o d)[i] = c[i]
    <3> DEFINE ab == a \o b
    <3>0. ab \in Seq(S) /\ Len(ab) = Len(c) - m /\ \A i \in 1 .. Len(c) - m : ab[i] = c[i]
      BY <2>7
    <3> HIDE DEF ab
    <3>1. /\ ab \o d \in Seq(S) /\ Len(ab \o d) = Len(ab) + Len(d)
          /\ \A i \in 1 .. Len(ab) + Len(d) : (ab \o d)[i] = IF i <= Len(ab) THEN ab[i] ELSE d[i - Len(ab)]
      BY <2>6, <3>0, ConcatProperties
    <3>2. ASSUME NEW i \in 1 .. Len(c) PROVE (ab \o d)[i] = c[i]
      <4>1. CASE i <= Len(c) - m
        BY <2>1, <2>6, <3>0, <3>1, <4>1
      <4>2. CASE i > Len(c) - m
        <5>1. /\ i - (Len(c) - m) \in 1 .. m /\ Len(c) - m + (i - (Len(c) - m)) = i
              /\ i \in 1 .. Len(ab) + Len(d) /\ ~(i <= Len(ab))
          BY <2>1, <2>6, <3>0, <4>2
        <5> QED BY <2>6, <3>0, <3>1, <5>1
      <4>3. i <= Len(c) - m \/ i > Len(c) - m
        BY <2>1
      <4> QED BY <4>1, <4>2, <4>3
    <3> QED BY <2>1, <2>6, <3>0, <3>1, <3>2 DEF ab
  <2> HIDE DEF e
  <2>9. a \o b \o d = c
    BY <2>8, SeqEqual
  <2> QED BY <2>2, <2>3, <2>9
<1> QED BY <1>1, <1>2

-----------------------------------------------------------------------------
(***************************************************************************)
(* Types.                                                                  *)
(***************************************************************************)

LEMMA DataFacts == Data \subseteq Seq(Nat) /\ <<>> \in Data /\ Tokens \subseteq Data
BY TokensAssumption, EmptySeq DEF Data

\* A document's new identity is the one after the last.
LEMMA FreshIsNext ==
    ASSUME TokenTypes, Ordered
    PROVE  Fresh = handling.id + 1 /\ handling.id \in Nat
<1>1. handling.id \in Nat
  BY DEF TokenTypes, Changing
<1> DEFINE S == {doc[u] : u \in Uris} \cup {handling.id}
<1>2. \A d \in S : d \in Nat /\ d <= handling.id
  BY <1>1 DEF TokenTypes, Ordered
<1>3. Max(S) = handling.id
  <2>1. \A x \in S : (\A y \in S : x >= y) => x = handling.id
    BY <1>1, <1>2
  <2>2. handling.id \in S /\ \A y \in S : handling.id >= y
    BY <1>1, <1>2
  <2> HIDE DEF S
  <2> QED BY <2>1, <2>2 DEF Max
<1> QED BY <1>1, <1>3 DEF Fresh

\* What a queue of the messages keeps when one is taken from it.
LEMMA TakeFacts ==
    ASSUME NEW S, NEW s \in Seq(S), s # <<>>
    PROVE  Head(s) \in S /\ Tail(s) \in Seq(S)
BY HeadTailProperties

LEMMA SentTypes ==
    ASSUME TokenTypes, NEW m \in Questions \cup Notices, SendsMessage(m)
    PROVE  messages' \in Seq(Questions \cup Notices)
BY AppendProperties DEF TokenTypes, SendsMessage

LEMMA ClientTypes ==
    ASSUME TokenTypes,
           Opens \/ Changes \/ Closes \/ Renames \/ AsksFull \/ AsksDelta \/ AsksRange
    PROVE  TokenTypes'
<1> USE DEF ServerUnchanged, stores, cache
<1>1. CASE Opens
  <2>1. PICK u \in Uris : SendsMessage([k |-> "text", u |-> u]) /\ wanted' = wanted \cup {u}
                         /\ dirty' = dirty \cup {u} /\ UNCHANGED held /\ ServerUnchanged
    BY <1>1 DEF Opens
  <2>2. [k |-> "text", u |-> u] \in Questions \cup Notices
    BY DEF Notices
  <2> QED BY <2>1, <2>2, SentTypes DEF TokenTypes
<1>2. CASE Changes
  <2>1. PICK u \in wanted : SendsMessage([k |-> "text", u |-> u]) /\ dirty' = dirty \cup {u}
                           /\ UNCHANGED <<held, wanted>> /\ ServerUnchanged
    BY <1>2 DEF Changes
  <2>2. [k |-> "text", u |-> u] \in Questions \cup Notices /\ u \in Uris
    BY DEF Notices, TokenTypes
  <2> QED BY <2>1, <2>2, SentTypes DEF TokenTypes
<1>3. CASE Closes
  <2>1. PICK u \in wanted : SendsMessage([k |-> "close", u |-> u])
                           /\ wanted' = wanted \ {u} /\ dirty' = dirty \ {u}
                           /\ UNCHANGED held /\ ServerUnchanged
    BY <1>3 DEF Closes
  <2>2. [k |-> "close", u |-> u] \in Questions \cup Notices
    BY DEF Notices, TokenTypes
  <2> QED BY <2>1, <2>2, SentTypes DEF TokenTypes
<1>4. CASE Renames
  <2>1. PICK u \in wanted, v \in Uris \ wanted :
          /\ SendsMessage([k |-> "rename", u |-> u, v |-> v])
          /\ wanted' = (wanted \ {u}) \cup {v} /\ dirty' = (dirty \ {u}) \cup {v}
          /\ UNCHANGED held /\ ServerUnchanged
    BY <1>4 DEF Renames
  <2>2. [k |-> "rename", u |-> u, v |-> v] \in Questions \cup Notices
    BY DEF Notices, Renamings, TokenTypes
  <2> QED BY <2>1, <2>2, SentTypes DEF TokenTypes
<1>5. ASSUME NEW u \in Uris, NEW k \in {"full", "delta", "range"},
             SendsMessage([k |-> k, u |-> u, base |-> held[u]]),
             dirty' \in SUBSET Uris, UNCHANGED <<held, wanted>>, ServerUnchanged
      PROVE  TokenTypes'
  <2>1. [k |-> k, u |-> u, base |-> held[u]] \in Questions \cup Notices
    BY DEF Questions, TokenTypes
  <2> QED BY <1>5, <2>1, SentTypes DEF TokenTypes
<1>6. CASE AsksFull
  BY <1>5, <1>6 DEF AsksFull, TokenTypes
<1>7. CASE AsksDelta
  BY <1>5, <1>7 DEF AsksDelta, TokenTypes
<1>8. CASE AsksRange
  BY <1>5, <1>8 DEF AsksRange, TokenTypes
<1> QED BY <1>1, <1>2, <1>3, <1>4, <1>6, <1>7, <1>8

\* What an answer shows is data.
LEMMA ReplyFacts ==
    ASSUME NEW r \in Replied
    PROVE  /\ r.u \in Uris
           /\ r.k \in {"edits", "data"} => r.id \in Nat /\ Denoted(r) \in Data /\ Given(r) \in Results
<1>1. CASE r \in [k : {"error", "range"}, u : Uris]
  BY <1>1
<1>2. CASE r \in [k : {"data"}, u : Uris, id : Nat, data : Data]
  BY <1>2 DEF Denoted, Given, Results
<1>3. CASE r \in Deltas /\ Denoted(r) \in Data
  BY <1>3 DEF Deltas, Given, Results
<1> QED BY <1>1, <1>2, <1>3 DEF Replied

LEMMA WireTypes ==
    ASSUME TokenTypes, Receives \/ Refreshes \/ Dispatches \/ RefreshCompleted
    PROVE  TokenTypes'
<1> USE DEF stores, cache
<1>1. CASE Receives
  <2>1. replies' \in Seq(Replied) /\ Head(replies) \in Replied
    BY <1>1, TakeFacts DEF Receives, TokenTypes
  <2>2. held' \in [Uris -> Results]
    <3>1. CASE Head(replies).k \in {"edits", "data"}
      <4>1. held' = [held EXCEPT ![Head(replies).u] = Given(Head(replies))]
        BY <1>1, <3>1 DEF Receives, Given
      <4> QED BY <2>1, <3>1, <4>1, ReplyFacts DEF TokenTypes
    <3>2. CASE Head(replies).k \notin {"edits", "data"}
      BY <1>1, <3>2 DEF Receives, TokenTypes
    <3> QED BY <3>1, <3>2
  <2>3. dirty' \in SUBSET Uris
    BY <1>1, <2>1, ReplyFacts DEF Receives, TokenTypes
  <2> QED BY <1>1, <2>1, <2>2, <2>3 DEF Receives, TokenTypes
<1>2. CASE Refreshes
  <2>1. [k |-> "refreshed"] \in Questions \cup Notices
    BY DEF Notices
  <2>2. messages' \in Seq(Questions \cup Notices)
    BY <1>2, <2>1, AppendProperties DEF Refreshes, TokenTypes
  <2> QED BY <1>2, <2>2 DEF Refreshes, TokenTypes
<1>3. CASE Dispatches
  <2>1. messages' \in Seq(Questions \cup Notices) /\ Head(messages) \in Questions \cup Notices
    BY <1>3, TakeFacts DEF Dispatches, TokenTypes
  <2>2. Head(messages) \in Questions
    BY <1>3, <2>1 DEF Dispatches, Notices, Renamings
  <2>3. queue' \in Seq(Questions)
    BY <1>3, <2>2, AppendProperties DEF Dispatches, TokenTypes
  <2> QED BY <1>3, <2>1, <2>3 DEF Dispatches, OnMain, editorVars, TokenTypes
<1>4. CASE RefreshCompleted
  <2>1. messages' \in Seq(Questions \cup Notices)
    BY <1>4, TakeFacts DEF RefreshCompleted, TokenTypes
  <2> QED BY <1>4, <2>1 DEF RefreshCompleted, OnMain, editorVars, TokenTypes
<1> QED BY <1>1, <1>2, <1>3, <1>4

LEMMA InitTypes ==
    ASSUME TokenInit
    PROVE  TokenTypes
<1>1. Nothing \in Results
  BY EmptySeq DEF Nothing, Results, Data
<1>2. <<>> \in Seq(Questions \cup Notices) /\ <<>> \in Seq(Questions) /\ <<>> \in Seq(Replied)
  BY EmptySeq
<1>3. DOMAIN results = {}
  BY DEF TokenInit
<1> QED BY <1>1, <1>2, <1>3 DEF TokenInit, TokenTypes, Waiting, Data

\* A message that is taken was a message the client may send.
LEMMA ReadFacts ==
    ASSUME TokenTypes, NEW m, ReadsMessage(m)
    PROVE  /\ m \in Questions \cup Notices /\ messages' \in Seq(Questions \cup Notices)
           /\ handling.at = "idle" /\ handling.id \in Nat
BY TakeFacts DEF ReadsMessage, TokenTypes, Changing

LEMMA ReclassifiedTypes ==
    ASSUME TokenTypes, NEW us, Reclassifies(us)
    PROVE  content' \in [Uris -> Data] /\ \A u \in Uris \ us : content'[u] = content[u]
<1>1. PICK c \in [us -> Tokens] : content' = [u \in Uris |-> IF u \in us THEN c[u] ELSE content[u]]
  BY DEF Reclassifies
<1>2. \A u \in Uris : (IF u \in us THEN c[u] ELSE content[u]) \in Data
  BY <1>1, DataFacts DEF TokenTypes
<1> QED BY <1>1, <1>2

LEMMA HandledTypes ==
    ASSUME TokenTypes, NEW u \in Uris, NEW v \in Uris, NEW id \in Nat, NEW others \in BOOLEAN,
           NEW at \in {"parsing", "indexing", "closing", "refreshing", "forgetting", "moving"}
    PROVE  Handles(at, u, v, id, others) \in Changing
BY DEF Handles, Changing, TokenTypes

LEMMA MovingTypes ==
    ASSUME TokenTypes, handling.at # "idle"
    PROVE  handling \in Changing /\ handling.u \in Uris /\ handling.v \in Uris /\ handling.id \in Nat
BY DEF TokenTypes, Changing

\* What the worker does leaves the documents alone, and main the worker's job.
LEMMA ArriveTypes ==
    ASSUME TokenTypes, Ordered, TextArrives \/ DocumentCloses \/ RenameArrives
    PROVE  TokenTypes'
<1> USE DEF OnMain, editorVars, cache
<1>0. Fresh \in Nat
  BY FreshIsNext
<1>1. CASE TextArrives
  <2>1. PICK u \in Uris :
          /\ ReadsMessage([k |-> "text", u |-> u])
          /\ doc' = [doc EXCEPT ![u] = Fresh] /\ content' = [content EXCEPT ![u] = <<>>]
          /\ handling' = Handles("parsing", u, u, Fresh, OthersIndexed(u))
    BY <1>1 DEF TextArrives
  <2>2. messages' \in Seq(Questions \cup Notices)
    BY <2>1, ReadFacts
  <2>3. OthersIndexed(u) \in BOOLEAN
    BY DEF OthersIndexed
  <2>4. handling' \in Changing
    BY <1>0, <2>1, <2>3, HandledTypes
  <2>5. doc' \in [Uris -> Nat] /\ content' \in [Uris -> Data]
    BY <1>0, <2>1, DataFacts DEF TokenTypes
  <2> QED BY <1>1, <2>2, <2>4, <2>5 DEF TextArrives, TokenTypes
<1>2. CASE DocumentCloses
  <2>1. PICK u \in Uris :
          /\ ReadsMessage([k |-> "close", u |-> u])
          /\ doc' = [doc EXCEPT ![u] = 0] /\ content' = [content EXCEPT ![u] = <<>>]
          /\ handling' = Handles("closing", u, u, handling.id, OthersIndexed(u))
    BY <1>2 DEF DocumentCloses
  <2>2. messages' \in Seq(Questions \cup Notices) /\ handling.id \in Nat
    BY <2>1, ReadFacts
  <2>3. OthersIndexed(u) \in BOOLEAN
    BY DEF OthersIndexed
  <2>4. handling' \in Changing
    BY <2>1, <2>2, <2>3, HandledTypes
  <2>5. doc' \in [Uris -> Nat] /\ content' \in [Uris -> Data]
    BY <2>1, DataFacts DEF TokenTypes
  <2> QED BY <1>2, <2>2, <2>4, <2>5 DEF DocumentCloses, TokenTypes
<1>3. CASE RenameArrives
  <2>1. PICK u \in Uris, v \in Uris :
          /\ ReadsMessage([k |-> "rename", u |-> u, v |-> v])
          /\ doc' = [doc EXCEPT ![u] = 0, ![v] = Fresh] /\ content' = [content EXCEPT ![u] = <<>>]
          /\ handling' = Handles("moving", u, v, Fresh, TRUE)
    BY <1>3 DEF RenameArrives
  <2>2. messages' \in Seq(Questions \cup Notices)
    BY <2>1, ReadFacts
  <2>4. handling' \in Changing
    BY <1>0, <2>1, HandledTypes
  <2>5. doc' \in [Uris -> Nat]
    BY <1>0, <2>1 DEF TokenTypes
  <2>6. content' \in [Uris -> Data]
    BY <2>1, DataFacts DEF TokenTypes
  <2> QED BY <1>3, <2>2, <2>4, <2>5, <2>6 DEF RenameArrives, TokenTypes
<1> QED BY <1>1, <1>2, <1>3

LEMMA AdvanceTypes ==
    ASSUME TokenTypes,
           Publishes \/ Reindexes \/ Unindexes \/ EndsChange \/ Forgets \/ MovesAway
    PROVE  TokenTypes'
<1> USE DEF OnMain, editorVars, cache, stores
<1>0. handling \in Changing /\ handling.u \in Uris /\ handling.v \in Uris /\ handling.id \in Nat
  BY MovingTypes DEF Publishes, Reindexes, Unindexes, EndsChange, Forgets, MovesAway
<1>1. CASE Publishes
  <2>1. handling' \in Changing
    BY <1>0, <1>1 DEF Publishes, Changing
  <2>2. semantics' \in [Uris -> Nat]
    BY <1>0, <1>1 DEF Publishes, TokenTypes
  <2>3. content' \in [Uris -> Data]
    BY <1>0, <1>1, DataFacts DEF Publishes, TokenTypes
  <2> QED BY <1>1, <2>1, <2>2, <2>3 DEF Publishes, TokenTypes
<1>2. CASE Reindexes
  <2>1. handling' \in Changing
    BY <1>0, <1>2 DEF Reindexes, Changing
  <2>2. content' \in [Uris -> Data]
    BY <1>2, ReclassifiedTypes DEF Reindexes
  <2> QED BY <1>2, <2>1, <2>2 DEF Reindexes, TokenTypes
<1>3. CASE Unindexes
  <2>1. handling' \in Changing
    BY <1>0, <1>3 DEF Unindexes, Changing
  <2>2. content' \in [Uris -> Data] /\ indexGeneration' \in Nat
    BY <1>3, ReclassifiedTypes DEF Unindexes, TokenTypes
  <2>3. semantics' \in [Uris -> Nat]
    BY <1>0, <1>3 DEF Unindexes, TokenTypes
  <2> QED BY <1>3, <2>1, <2>2, <2>3 DEF Unindexes, TokenTypes
<1>4. CASE EndsChange
  <2>1. handling' \in Changing \cup [at : {"idle"}, id : Nat]
    BY <1>0, <1>4 DEF EndsChange, Changing, Waiting
  <2> QED BY <1>4, <2>1 DEF EndsChange, TokenTypes
<1>5. ASSUME NEW us, results' = Without(results, us)
      PROVE  DOMAIN results' \subseteq Uris /\ \A u \in DOMAIN results' : results'[u] \in Results
  BY <1>5 DEF Without, TokenTypes
<1>6. CASE Forgets
  <2>1. handling' \in Changing \cup [at : {"idle"}, id : Nat]
    BY <1>0, <1>6 DEF Forgets, Waiting
  <2>2. DOMAIN results' \subseteq Uris /\ \A u \in DOMAIN results' : results'[u] \in Results
    BY <1>5, <1>6 DEF Forgets
  <2> QED BY <1>6, <2>1, <2>2 DEF Forgets, TokenTypes
<1>7. CASE MovesAway
  <2>1. handling' \in Changing
    BY <1>0, <1>7 DEF MovesAway, Changing
  <2>2. content' \in [Uris -> Data] /\ indexGeneration' \in Nat
    BY <1>7, ReclassifiedTypes DEF MovesAway, TokenTypes
  <2>3. semantics' \in [Uris -> Nat]
    BY <1>0, <1>7 DEF MovesAway, TokenTypes
  <2>4. DOMAIN results' \subseteq Uris /\ \A u \in DOMAIN results' : results'[u] \in Results
    BY <1>5, <1>7 DEF MovesAway
  <2> QED BY <1>7, <2>1, <2>2, <2>3, <2>4 DEF MovesAway, TokenTypes
<1> QED BY <1>1, <1>2, <1>3, <1>4, <1>6, <1>7

LEMMA JobTypes ==
    ASSUME TokenTypes, job.at # "idle"
    PROVE  /\ job \in Jobs /\ job.u \in Uris /\ Took \in Identities /\ job.data \in Data
           /\ Took[1] \in Nat /\ Took[2] \in Nat /\ Took[3] \in Nat
BY DEF TokenTypes, Jobs, NoRequest, Took, Identities

LEMMA IdentityTypes ==
    ASSUME TokenTypes, NEW u \in Uris
    PROVE  Identity(u) \in Identities
BY DEF TokenTypes, Identity, Identities

LEMMA RepliesTypes ==
    ASSUME TokenTypes, NEW r \in Replied, Replies(r)
    PROVE  replies' \in Seq(Replied) /\ job' \in {NoRequest} \cup Jobs
BY AppendProperties DEF TokenTypes, Replies

\* What StoresTokens answers is an answer, and shows the data of the job: this is where
\* the edits have to be right.
LEMMA StoredTypes ==
    ASSUME TokenTypes, job.at # "idle", NEW n \in Nat,
           Known(job.u, job.base) => results[job.u].data = job.base.data
    PROVE  LET r == IF job.k = "delta" /\ Known(job.u, job.base)
                    THEN [k |-> "edits", u |-> job.u, id |-> n, base |-> job.base,
                          edits |-> TokenEdits(results[job.u].data, job.data)]
                    ELSE [k |-> "data", u |-> job.u, id |-> n, data |-> job.data]
           IN  /\ r \in Replied /\ r.k \in {"edits", "data"} /\ r.u = job.u /\ r.id = n
               /\ Denoted(r) = job.data
<1>0. job.u \in Uris /\ job.data \in Data /\ job.base \in Results /\ job.base.data \in Data
  BY JobTypes DEF Jobs, Results
<1>1. CASE job.k = "delta" /\ Known(job.u, job.base)
  <2> DEFINE e == TokenEdits(results[job.u].data, job.data)
             r == [k |-> "edits", u |-> job.u, id |-> n, base |-> job.base, edits |-> e]
  <2>1. results[job.u].data = job.base.data
    BY <1>1
  <2>2. Applied(e, job.base.data) = job.data
    BY <1>0, <2>1, DataFacts, EditsApply
  <2>3. e \in {TokenEdits(p, c) : p \in Data, c \in Data}
    BY <1>0, <2>1
  <2> HIDE DEF e
  <2>4. r.k = "edits" /\ r.u = job.u /\ r.id = n /\ r.edits = e /\ r.base = job.base
    OBVIOUS
  <2>5. Denoted(r) = job.data
    BY <2>2, <2>4 DEF Denoted
  <2>6. r \in Deltas
    BY <1>0, <2>3 DEF Deltas
  <2>7. r \in Replied
    BY <1>0, <2>5, <2>6 DEF Replied
  <2> HIDE DEF r
  <2> QED BY <1>1, <2>4, <2>5, <2>7 DEF r, e
<1>2. CASE ~(job.k = "delta" /\ Known(job.u, job.base))
  <2> DEFINE r == [k |-> "data", u |-> job.u, id |-> n, data |-> job.data]
  <2>1. Denoted(r) = job.data
    BY DEF Denoted
  <2>2. r \in Replied
    BY <1>0 DEF Replied
  <2> QED BY <1>2, <2>1, <2>2
<1> QED BY <1>1, <1>2

\* The result the client names, if the server remembers it, is the one it remembers.
LEMMA KnownFacts ==
    ASSUME TokenTypes, OneDataPerId, job.at # "idle", Known(job.u, job.base)
    PROVE  results[job.u].data = job.base.data
BY DEF Known, OneDataPerId, Pairs

LEMMA WorkerTypes ==
    ASSUME TokenTypes, OneDataPerId,
           TakesRequest \/ ReadsTokens \/ CommitsTokens \/ RepliesRange \/ ChecksIdentity \/ StoresTokens
    PROVE  TokenTypes'
<1> USE DEF OnWorker, editorVars, stores, cache
<1>1. ASSUME job.at # "idle", Fails
      PROVE  replies' \in Seq(Replied) /\ job' \in {NoRequest} \cup Jobs
  <2>1. [k |-> "error", u |-> job.u] \in Replied
    BY <1>1, JobTypes DEF Replied
  <2> QED BY <1>1, <2>1, RepliesTypes DEF Fails
<1>2. CASE TakesRequest
  <2>1. Head(queue) \in Questions /\ queue' \in Seq(Questions)
    BY <1>2, TakeFacts DEF TakesRequest, TokenTypes
  <2>2. Identity(Head(queue).u) \in Identities
    BY <2>1, IdentityTypes DEF Questions
  <2>3. job' \in Jobs
    BY <1>2, <2>1, <2>2, DataFacts DEF TakesRequest, Questions, Jobs
  <2> QED BY <1>2, <2>1, <2>3 DEF TakesRequest, TokenTypes
<1>3. CASE ReadsTokens
  <2>0. job.at # "idle"
    BY <1>3 DEF ReadsTokens
  <2>1. CASE doc[job.u] = 0
    BY <1>1, <1>3, <2>0, <2>1 DEF ReadsTokens, TokenTypes
  <2>2. CASE doc[job.u] # 0
    <3>1. content[job.u] \in Data /\ Identity(job.u) \in Identities /\ job \in Jobs
      BY <2>0, JobTypes, IdentityTypes DEF TokenTypes
    <3>2. job' \in Jobs
      BY <1>3, <2>2, <3>1 DEF ReadsTokens, Jobs
    <3> QED BY <1>3, <2>2, <3>2 DEF ReadsTokens, TokenTypes
  <2> QED BY <2>1, <2>2
<1>4. CASE CommitsTokens
  <2>0. job.at # "idle" /\ job \in Jobs
    BY <1>4, JobTypes DEF CommitsTokens
  <2>1. CASE job.read # Identity(job.u)
    BY <1>1, <1>4, <2>0, <2>1 DEF CommitsTokens, TokenTypes
  <2>2. CASE job.read = Identity(job.u)
    <3>1. job' \in Jobs
      BY <1>4, <2>0, <2>2 DEF CommitsTokens, Jobs
    <3> QED BY <1>4, <2>2, <3>1 DEF CommitsTokens, TokenTypes
  <2> QED BY <2>1, <2>2
<1>5. CASE RepliesRange
  <2>1. [k |-> "range", u |-> job.u] \in Replied
    BY <1>5, JobTypes DEF RepliesRange, Replied
  <2> QED BY <1>5, <2>1, RepliesTypes DEF RepliesRange, TokenTypes
<1>6. CASE ChecksIdentity
  <2>0. job.at # "idle" /\ job \in Jobs
    BY <1>6, JobTypes DEF ChecksIdentity
  <2>1. CASE job.identity # Identity(job.u)
    BY <1>1, <1>6, <2>0, <2>1 DEF ChecksIdentity, TokenTypes
  <2>2. CASE job.identity = Identity(job.u)
    <3>1. job' \in Jobs
      BY <1>6, <2>0, <2>2 DEF ChecksIdentity, Jobs
    <3> QED BY <1>6, <2>2, <3>1 DEF ChecksIdentity, TokenTypes
  <2> QED BY <2>1, <2>2
<1>7. CASE StoresTokens
  <2>0. job.at # "idle" /\ job \in Jobs /\ job.u \in Uris /\ job.data \in Data
    BY <1>7, JobTypes DEF StoresTokens
  <2>1. CASE job.identity # Identity(job.u)
    BY <1>1, <1>7, <2>0, <2>1 DEF StoresTokens, TokenTypes
  <2>2. CASE job.identity = Identity(job.u)
    <3>1. counter + 1 \in Nat /\ counter' = counter + 1
      BY <1>7, <2>2 DEF StoresTokens, TokenTypes
    <3>2. PICK r \in Replied : Replies(r)
      BY <1>7, <2>0, <2>2, <3>1, KnownFacts, StoredTypes DEF StoresTokens
    <3>3. replies' \in Seq(Replied) /\ job' \in {NoRequest} \cup Jobs
      BY <3>2, RepliesTypes
    <3>4. DOMAIN results' \subseteq Uris /\ \A u \in DOMAIN results' : results'[u] \in Results
      BY <1>7, <2>0, <2>2, <3>1 DEF StoresTokens, TokenTypes, Results
    <3> QED BY <1>7, <2>2, <3>1, <3>3, <3>4 DEF StoresTokens, TokenTypes
  <2> QED BY <2>1, <2>2
<1> QED BY <1>2, <1>3, <1>4, <1>5, <1>6, <1>7

-----------------------------------------------------------------------------
(***************************************************************************)
(* What main does, in terms of the handled change.                         *)
(***************************************************************************)

MainStep ==
  \/ TextArrives \/ Publishes \/ Reindexes \/ DocumentCloses \/ Unindexes
  \/ EndsChange \/ Forgets \/ RenameArrives \/ MovesAway

LEMMA TextFacts ==
    ASSUME TokenTypes, Ordered, TextArrives
    PROVE  \E u \in Uris :
             /\ handling.at = "idle" /\ handling'.at = "parsing"
             /\ handling'.u = u /\ handling'.v = u /\ handling'.id = handling.id + 1
             /\ doc' = [doc EXCEPT ![u] = handling.id + 1] /\ content' = [content EXCEPT ![u] = <<>>]
             /\ UNCHANGED <<semantics, indexGeneration, results, counter, job>>
<1>1. PICK u \in Uris :
        /\ ReadsMessage([k |-> "text", u |-> u])
        /\ doc' = [doc EXCEPT ![u] = Fresh] /\ content' = [content EXCEPT ![u] = <<>>]
        /\ handling' = Handles("parsing", u, u, Fresh, OthersIndexed(u))
  BY DEF TextArrives
<1>2. handling.at = "idle"
  BY <1>1 DEF ReadsMessage
<1>3. handling'.at = "parsing" /\ handling'.u = u /\ handling'.v = u /\ handling'.id = Fresh
  BY <1>1 DEF Handles
<1>4. UNCHANGED <<semantics, indexGeneration, results, counter, job>>
  BY DEF TextArrives, cache, OnMain
<1> QED BY <1>1, <1>2, <1>3, <1>4, FreshIsNext

LEMMA CloseFacts ==
    ASSUME TokenTypes, DocumentCloses
    PROVE  \E u \in Uris :
             /\ handling.at = "idle" /\ handling'.at = "closing"
             /\ handling'.u = u /\ handling'.v = u /\ handling'.id = handling.id
             /\ doc' = [doc EXCEPT ![u] = 0] /\ content' = [content EXCEPT ![u] = <<>>]
             /\ UNCHANGED <<semantics, indexGeneration, results, counter, job>>
<1>1. PICK u \in Uris :
        /\ ReadsMessage([k |-> "close", u |-> u])
        /\ doc' = [doc EXCEPT ![u] = 0] /\ content' = [content EXCEPT ![u] = <<>>]
        /\ handling' = Handles("closing", u, u, handling.id, OthersIndexed(u))
  BY DEF DocumentCloses
<1>2. handling.at = "idle"
  BY <1>1 DEF ReadsMessage
<1>3. handling'.at = "closing" /\ handling'.u = u /\ handling'.v = u /\ handling'.id = handling.id
  BY <1>1 DEF Handles
<1>4. UNCHANGED <<semantics, indexGeneration, results, counter, job>>
  BY DEF DocumentCloses, cache, OnMain
<1> QED BY <1>1, <1>2, <1>3, <1>4

LEMMA RenameFacts ==
    ASSUME TokenTypes, Ordered, RenameArrives
    PROVE  \E u, v \in Uris :
             /\ u # v /\ handling.at = "idle" /\ handling'.at = "moving"
             /\ handling'.u = u /\ handling'.v = v /\ handling'.id = handling.id + 1
             /\ doc' = [doc EXCEPT ![u] = 0, ![v] = handling.id + 1]
             /\ content' = [content EXCEPT ![u] = <<>>]
             /\ UNCHANGED <<semantics, indexGeneration, results, counter, job>>
<1>1. PICK u \in Uris, v \in Uris :
        /\ ReadsMessage([k |-> "rename", u |-> u, v |-> v])
        /\ doc' = [doc EXCEPT ![u] = 0, ![v] = Fresh] /\ content' = [content EXCEPT ![u] = <<>>]
        /\ handling' = Handles("moving", u, v, Fresh, TRUE)
  BY DEF RenameArrives
<1>2. [k |-> "rename", u |-> u, v |-> v] \in Questions \cup Notices
  BY <1>1, ReadFacts
<1>3. u # v
  BY <1>2 DEF Questions, Notices
<1>4. handling.at = "idle"
  BY <1>1 DEF ReadsMessage
<1>5. /\ handling'.at = "moving" /\ handling'.u = u /\ handling'.v = v /\ handling'.id = Fresh
  BY <1>1 DEF Handles
<1>6. UNCHANGED <<semantics, indexGeneration, results, counter, job>>
  BY DEF RenameArrives, cache, OnMain
<1> QED BY <1>1, <1>3, <1>4, <1>5, <1>6, FreshIsNext

\* Publishes, Reindexes, Unindexes, EndsChange, Forgets and MovesAway go on with the change.
LEMMA AdvanceFacts ==
    ASSUME TokenTypes,
           Publishes \/ Reindexes \/ Unindexes \/ EndsChange \/ Forgets \/ MovesAway
    PROVE  /\ handling.u \in Uris /\ handling.v \in Uris
           /\ handling'.id = handling.id /\ UNCHANGED <<doc, counter, job>>
           /\ Publishes => /\ handling.at = "parsing" /\ handling'.at = "indexing"
                           /\ handling'.u = handling.u
           /\ Reindexes => /\ handling.at = "indexing" /\ handling'.at = "refreshing"
                           /\ handling'.u = handling.u
           /\ Unindexes => /\ handling.at = "closing" /\ handling'.at = "refreshing"
                           /\ handling'.u = handling.u
           /\ EndsChange => /\ handling.at = "refreshing"
                            /\ IF doc[handling.u] = 0
                               THEN handling'.at = "forgetting" /\ handling'.u = handling.u
                               ELSE handling'.at = "idle"
           /\ Forgets => handling.at = "forgetting" /\ handling'.at = "idle"
           /\ MovesAway => /\ handling.at = "moving" /\ handling'.at = "parsing"
                           /\ handling'.u = handling.v
<1>0. handling \in Changing /\ handling.u \in Uris /\ handling.v \in Uris
  BY MovingTypes DEF Publishes, Reindexes, Unindexes, EndsChange, Forgets, MovesAway
<1> USE DEF OnMain, stores, cache
<1>1. ASSUME NEW at PROVE LET h == [handling EXCEPT !.at = at]
                          IN  h.at = at /\ h.u = handling.u /\ h.id = handling.id
  BY <1>0 DEF Changing
<1>2. LET h == [handling EXCEPT !.at = "parsing", !.u = handling.v]
      IN  h.at = "parsing" /\ h.u = handling.v /\ h.id = handling.id
  BY <1>0 DEF Changing
<1>3. Waiting(handling.id).at = "idle" /\ Waiting(handling.id).id = handling.id
  BY DEF Waiting
<1>4. CASE Publishes
  BY <1>0, <1>1, <1>4 DEF Publishes, Reindexes, Unindexes, EndsChange, Forgets, MovesAway
<1>5. CASE Reindexes
  BY <1>0, <1>1, <1>5 DEF Publishes, Reindexes, Unindexes, EndsChange, Forgets, MovesAway
<1>6. CASE Unindexes
  BY <1>0, <1>1, <1>6 DEF Publishes, Reindexes, Unindexes, EndsChange, Forgets, MovesAway
<1>7. CASE EndsChange
  BY <1>0, <1>1, <1>3, <1>7 DEF Publishes, Reindexes, Unindexes, EndsChange, Forgets, MovesAway
<1>8. CASE Forgets
  BY <1>0, <1>1, <1>3, <1>8 DEF Publishes, Reindexes, Unindexes, EndsChange, Forgets, MovesAway
<1>9. CASE MovesAway
  BY <1>0, <1>2, <1>9 DEF Publishes, Reindexes, Unindexes, EndsChange, Forgets, MovesAway
<1> QED BY <1>4, <1>5, <1>6, <1>7, <1>8, <1>9

LEMMA MainOrdered ==
    ASSUME TokenTypes, Ordered, MainStep
    PROVE  Ordered'
<1>0. /\ handling.id \in Nat /\ doc \in [Uris -> Nat] /\ semantics \in [Uris -> Nat]
  BY DEF TokenTypes, Changing
<1>1. CASE TextArrives
  <2>1. PICK u \in Uris :
          /\ handling.at = "idle" /\ handling'.at = "parsing" /\ handling'.u = u
          /\ handling'.id = handling.id + 1 /\ doc' = [doc EXCEPT ![u] = handling.id + 1] /\ semantics' = semantics
    BY <1>1, TextFacts
  <2>2. doc'[u] = handling.id + 1 /\ \A w \in Uris \ {u} : doc'[w] = doc[w]
    BY <1>0, <2>1
  <2>3. semantics[u] <= handling.id /\ semantics[u] \in Nat
    BY <1>0 DEF Ordered
  <2>4. \A w \in Uris : doc'[w] <= handling'.id /\ semantics'[w] <= handling'.id
    BY <1>0, <2>1, <2>2 DEF Ordered
  <2> QED BY <1>0, <2>1, <2>2, <2>3, <2>4 DEF Ordered
<1>2. CASE DocumentCloses
  <2>1. PICK u \in Uris :
          /\ handling.at = "idle" /\ handling'.at = "closing" /\ handling'.u = u
          /\ handling'.id = handling.id /\ doc' = [doc EXCEPT ![u] = 0] /\ semantics' = semantics
    BY <1>2, CloseFacts
  <2>2. doc'[u] = 0 /\ \A w \in Uris \ {u} : doc'[w] = doc[w]
    BY <1>0, <2>1
  <2>4. \A w \in Uris : doc'[w] <= handling'.id /\ semantics'[w] <= handling'.id
    BY <1>0, <2>1, <2>2 DEF Ordered
  <2> QED BY <1>0, <2>1, <2>2, <2>4 DEF Ordered
<1>3. CASE RenameArrives
  <2>1. PICK u \in Uris, v \in Uris :
          /\ u # v /\ handling.at = "idle" /\ handling'.at = "moving"
          /\ handling'.u = u /\ handling'.v = v /\ handling'.id = handling.id + 1
          /\ doc' = [doc EXCEPT ![u] = 0, ![v] = handling.id + 1] /\ semantics' = semantics
    BY <1>3, RenameFacts
  <2>2. /\ doc'[u] = 0 /\ doc'[v] = handling.id + 1
        /\ \A w \in Uris \ {u, v} : doc'[w] = doc[w]
    BY <1>0, <2>1
  <2>3. semantics[v] <= handling.id /\ semantics[v] \in Nat
    BY <1>0 DEF Ordered
  <2>4. \A w \in Uris : doc'[w] <= handling'.id /\ semantics'[w] <= handling'.id
    BY <1>0, <2>1, <2>2 DEF Ordered
  <2> QED BY <1>0, <2>1, <2>2, <2>3, <2>4 DEF Ordered
<1>4. CASE Publishes
  BY <1>0, <1>4, AdvanceFacts DEF Ordered, Publishes
<1>5. CASE Reindexes
  BY <1>0, <1>5, AdvanceFacts DEF Ordered, Reindexes
<1>6. CASE Unindexes
  BY <1>0, <1>6, AdvanceFacts DEF Ordered, Unindexes
<1>7. CASE EndsChange
  BY <1>0, <1>7, AdvanceFacts DEF Ordered, EndsChange, stores
<1>8. CASE Forgets
  BY <1>0, <1>8, AdvanceFacts DEF Ordered, Forgets, stores
<1>9. CASE MovesAway
  BY <1>0, <1>9, AdvanceFacts DEF Ordered, MovesAway
<1> QED BY <1>1, <1>2, <1>3, <1>4, <1>5, <1>6, <1>7, <1>8, <1>9 DEF MainStep

\* Results are remembered of open documents, or of one being closed.
LEMMA MainRemembers ==
    ASSUME TokenTypes, Ordered, RememberedOpenOrLeaving, MainStep
    PROVE  RememberedOpenOrLeaving'
<1>0. /\ handling.id \in Nat /\ doc \in [Uris -> Nat] /\ DOMAIN results \subseteq Uris
  BY DEF TokenTypes, Changing
<1>1. CASE TextArrives
  BY <1>0, <1>1, TextFacts DEF RememberedOpenOrLeaving
<1>2. CASE DocumentCloses
  BY <1>0, <1>2, CloseFacts DEF RememberedOpenOrLeaving
<1>3. CASE RenameArrives
  BY <1>0, <1>3, RenameFacts DEF RememberedOpenOrLeaving
<1>4. CASE Publishes
  BY <1>0, <1>4, AdvanceFacts DEF RememberedOpenOrLeaving, Publishes, cache
<1>5. CASE Reindexes
  BY <1>0, <1>5, AdvanceFacts DEF RememberedOpenOrLeaving, Reindexes, cache
<1>6. CASE Unindexes
  BY <1>0, <1>6, AdvanceFacts DEF RememberedOpenOrLeaving, Unindexes, cache
<1>7. CASE EndsChange
  BY <1>0, <1>7, AdvanceFacts DEF RememberedOpenOrLeaving, EndsChange, cache
<1>8. CASE Forgets
  <2>1. DOMAIN results' = DOMAIN results \ {handling.u}
    BY <1>8 DEF Forgets, Without, Forgotten
  <2> QED BY <1>0, <1>8, <2>1, AdvanceFacts DEF RememberedOpenOrLeaving
<1>9. CASE MovesAway
  <2>1. DOMAIN results' = DOMAIN results \ {handling.u, handling.v}
    BY <1>9 DEF MovesAway, Without
  <2> QED BY <1>0, <1>9, <2>1, AdvanceFacts DEF RememberedOpenOrLeaving
<1> QED BY <1>1, <1>2, <1>3, <1>4, <1>5, <1>6, <1>7, <1>8, <1>9 DEF MainStep

\* What main does to one document w: a document replaced is never the same again, and the
\* tokens of an analysed one change with the generation of the index.
Touched(w) ==
  /\ indexGeneration' >= indexGeneration
  /\ handling'.id >= handling.id
  /\ \/ doc'[w] = doc[w]
     \/ handling.at = "idle" /\ doc'[w] = 0 /\ ~Opening(w)'
     \/ handling.at = "idle" /\ doc'[w] = handling'.id /\ handling'.id > handling.id /\ Opening(w)'
  /\ \/ semantics'[w] = semantics[w] /\ content'[w] = content[w]
     \/ semantics'[w] = semantics[w] /\ handling.at = "idle"
          /\ doc'[w] \in {0, handling'.id} /\ (doc'[w] = handling'.id => handling'.id > handling.id)
     \/ semantics'[w] = semantics[w] /\ indexGeneration' > indexGeneration
     \/ semantics[w] # doc[w] /\ semantics'[w] = doc[w] /\ doc'[w] = doc[w]
     \/ semantics'[w] = 0 /\ doc[w] = 0 /\ doc'[w] = 0
  /\ Opening(w) => Opening(w)' \/ indexGeneration' > indexGeneration
  /\ handling.at = "idle" => ~Opening(w)

LEMMA MainTouches ==
    ASSUME TokenTypes, Ordered, MainStep, NEW w \in Uris
    PROVE  Touched(w)
<1>0. /\ handling.id \in Nat /\ doc \in [Uris -> Nat] /\ semantics \in [Uris -> Nat]
      /\ indexGeneration \in Nat /\ content \in [Uris -> Data]
  BY DEF TokenTypes, Changing
<1> USE DEF Touched, Opening
<1>1. CASE TextArrives
  <2>1. PICK u \in Uris :
          /\ handling.at = "idle" /\ handling'.at = "parsing" /\ handling'.u = u
          /\ handling'.id = handling.id + 1 /\ doc' = [doc EXCEPT ![u] = handling.id + 1]
          /\ content' = [content EXCEPT ![u] = <<>>] /\ UNCHANGED <<semantics, indexGeneration>>
    BY <1>1, TextFacts
  <2>2. CASE w = u
    BY <1>0, <2>1, <2>2
  <2>3. CASE w # u
    BY <1>0, <2>1, <2>3
  <2> QED BY <2>2, <2>3
<1>2. CASE DocumentCloses
  <2>1. PICK u \in Uris :
          /\ handling.at = "idle" /\ handling'.at = "closing" /\ handling'.u = u
          /\ handling'.id = handling.id /\ doc' = [doc EXCEPT ![u] = 0]
          /\ content' = [content EXCEPT ![u] = <<>>] /\ UNCHANGED <<semantics, indexGeneration>>
    BY <1>2, CloseFacts
  <2>2. CASE w = u
    BY <1>0, <2>1, <2>2 DEF Ordered
  <2>3. CASE w # u
    BY <1>0, <2>1, <2>3
  <2> QED BY <2>2, <2>3
<1>3. CASE RenameArrives
  <2>1. PICK u \in Uris, v \in Uris :
          /\ u # v /\ handling.at = "idle" /\ handling'.at = "moving"
          /\ handling'.u = u /\ handling'.v = v /\ handling'.id = handling.id + 1
          /\ doc' = [doc EXCEPT ![u] = 0, ![v] = handling.id + 1]
          /\ content' = [content EXCEPT ![u] = <<>>] /\ UNCHANGED <<semantics, indexGeneration>>
    BY <1>3, RenameFacts
  <2>2. CASE w = u
    BY <1>0, <2>1, <2>2
  <2>3. CASE w = v
    BY <1>0, <2>1, <2>3
  <2>4. CASE w # u /\ w # v
    BY <1>0, <2>1, <2>4
  <2> QED BY <2>2, <2>3, <2>4
<1>4. CASE Publishes
  BY <1>0, <1>4, AdvanceFacts DEF Ordered, Publishes
<1>5. CASE Reindexes
  BY <1>0, <1>5, AdvanceFacts DEF Reindexes
<1>6. CASE Unindexes
  BY <1>0, <1>6, AdvanceFacts DEF Ordered, Unindexes
<1>7. CASE EndsChange
  BY <1>0, <1>7, AdvanceFacts DEF EndsChange, stores
<1>8. CASE Forgets
  BY <1>0, <1>8, AdvanceFacts DEF Forgets, stores
<1>9. CASE MovesAway
  BY <1>0, <1>9, AdvanceFacts DEF Ordered, MovesAway
<1> QED BY <1>1, <1>2, <1>3, <1>4, <1>5, <1>6, <1>7, <1>8, <1>9 DEF MainStep

LEMMA MainReads ==
    ASSUME TokenTypes, Ordered, ReadIsCurrent, MainStep
    PROVE  ReadIsCurrent'
<1> SUFFICES ASSUME job.at # "idle" PROVE ReadIsCurrent'
  BY DEF ReadIsCurrent, MainStep, TextArrives, Publishes, Reindexes, DocumentCloses, Unindexes,
         EndsChange, Forgets, RenameArrives, MovesAway, OnMain
<1>1. UNCHANGED job
  BY DEF MainStep, TextArrives, Publishes, Reindexes, DocumentCloses, Unindexes,
         EndsChange, Forgets, RenameArrives, MovesAway, OnMain
<1>2. PICK u \in Uris : u = job.u
  BY JobTypes
<1>3. /\ Took[1] \in Nat /\ Took[2] \in Nat /\ Took[3] \in Nat
      /\ handling.id \in Nat /\ doc[u] \in Nat /\ semantics[u] \in Nat /\ indexGeneration \in Nat
  BY JobTypes DEF TokenTypes, Changing
<1>4. /\ handling'.id \in Nat /\ doc'[u] \in Nat /\ semantics'[u] \in Nat /\ indexGeneration' \in Nat
  BY ArriveTypes, AdvanceTypes DEF MainStep, TokenTypes, Changing
<1>5. Touched(u) /\ doc[u] <= handling.id
  BY MainTouches DEF Ordered
<1>6. Took' = Took /\ job'.u = u
  BY <1>1, <1>2 DEF Took
<1>7. Gone => Gone'
  BY <1>2, <1>3, <1>4, <1>5, <1>6 DEF ReadIsCurrent, Gone, Touched
<1>8. Took[1] <= handling'.id /\ Took[2] <= handling'.id /\ Took[3] <= indexGeneration'
  BY <1>3, <1>4, <1>5 DEF ReadIsCurrent, Touched
<1>9. ASSUME Took[1] # 0, ~Gone'
      PROVE  /\ Took[2] = Took[1] => semantics'[u] = Took[1]
             /\ job.at # "reading" => content'[u] = job.data
  BY <1>2, <1>3, <1>4, <1>5, <1>6, <1>7, <1>9 DEF ReadIsCurrent, Gone, Touched
<1>10. ASSUME Took[1] = 0, ~Gone'
       PROVE  /\ doc'[u] = 0 \/ Opening(u)'
              /\ job.at # "reading" => doc'[u] # 0
  BY <1>2, <1>3, <1>4, <1>5, <1>6, <1>7, <1>10 DEF ReadIsCurrent, Gone, Touched
<1>11. Opening(job.u)' <=> Opening(u)'
  BY <1>6 DEF Opening
<1> QED BY <1>1, <1>6, <1>8, <1>9, <1>10, <1>11 DEF ReadIsCurrent

-----------------------------------------------------------------------------
(***************************************************************************)
(* What the worker does.                                                   *)
(***************************************************************************)

WorkerStep ==
  TakesRequest \/ ReadsTokens \/ CommitsTokens \/ RepliesRange \/ ChecksIdentity \/ StoresTokens

LEMMA WorkerOrdered ==
    ASSUME Ordered, WorkerStep
    PROVE  Ordered'
BY DEF Ordered, WorkerStep, TakesRequest, ReadsTokens, CommitsTokens, RepliesRange, ChecksIdentity,
       StoresTokens, OnWorker, stores

\* A job goes on with what it took, or takes it now, or ends.
LEMMA WorkerGoesOn ==
    ASSUME TokenTypes, WorkerStep
    PROVE  \/ job'.at = "idle"
           \/ /\ job.at = "idle" /\ job'.at = "reading" /\ job'.u \in Uris
              /\ job'.identity = <<doc[job'.u], semantics[job'.u], indexGeneration>>
              /\ job'.base \in Asked(queue) /\ UNCHANGED <<results, counter, replies>>
           \/ /\ job.at # "idle" /\ job'.at # "idle" /\ job'.at # "reading" /\ job'.u = job.u
              /\ job'.identity = job.identity /\ job'.base = job.base
              /\ \/ job.at = "reading" /\ doc[job.u] # 0 /\ job'.data = content[job.u]
                 \/ job.at # "reading" /\ job'.data = job.data
              /\ UNCHANGED <<results, counter, replies>>
<1> USE DEF cache
<1>1. Fails => job'.at = "idle"
  BY DEF Fails, Replies, NoRequest
<1>2. CASE TakesRequest
  <2>1. Head(queue) \in Questions /\ 1 \in DOMAIN queue /\ Head(queue) = queue[1]
    BY <1>2, HeadTailProperties, LenProperties DEF TakesRequest, TokenTypes
  <2>2. Head(queue).base \in Asked(queue) /\ Head(queue).u \in Uris
    BY <2>1 DEF Asked, Questions
  <2> QED BY <1>2, <2>2 DEF TakesRequest, Identity
<1>3. CASE ReadsTokens
  <2>1. job \in Jobs
    BY <1>3, JobTypes DEF ReadsTokens
  <2> QED BY <1>1, <1>3, <2>1 DEF ReadsTokens, Jobs
<1>4. CASE CommitsTokens
  <2>1. job \in Jobs
    BY <1>4, JobTypes DEF CommitsTokens
  <2> QED BY <1>1, <1>4, <2>1 DEF CommitsTokens, Jobs
<1>5. CASE RepliesRange
  BY <1>5 DEF RepliesRange, Replies, NoRequest
<1>6. CASE ChecksIdentity
  <2>1. job \in Jobs
    BY <1>6, JobTypes DEF ChecksIdentity
  <2> QED BY <1>1, <1>6, <2>1 DEF ChecksIdentity, Jobs
<1>7. CASE StoresTokens
  BY <1>1, <1>7 DEF StoresTokens, Replies, NoRequest
<1> QED BY <1>2, <1>3, <1>4, <1>5, <1>6, <1>7 DEF WorkerStep

LEMMA WorkerReads ==
    ASSUME TokenTypes, Ordered, ReadIsCurrent, WorkerStep
    PROVE  ReadIsCurrent'
<1>1. UNCHANGED <<doc, semantics, indexGeneration, content, handling>>
  BY DEF WorkerStep, TakesRequest, ReadsTokens, CommitsTokens, RepliesRange, ChecksIdentity,
       StoresTokens, OnWorker, stores
<1>2. \A u \in Uris : /\ doc[u] \in Nat /\ semantics[u] \in Nat /\ doc[u] <= handling.id
                      /\ semantics[u] <= handling.id
  BY DEF TokenTypes, Ordered
<1>3. indexGeneration \in Nat
  BY DEF TokenTypes
<1>4. CASE job'.at = "idle"
  BY <1>4 DEF ReadIsCurrent
<1>5. CASE /\ job'.at = "reading" /\ job'.u \in Uris
           /\ job'.identity = <<doc[job'.u], semantics[job'.u], indexGeneration>>
  BY <1>1, <1>2, <1>3, <1>5 DEF ReadIsCurrent, Gone, Took
<1>6. CASE /\ job.at # "idle" /\ job'.at # "idle" /\ job'.at # "reading" /\ job'.u = job.u
           /\ job'.identity = job.identity
           /\ \/ job.at = "reading" /\ doc[job.u] # 0 /\ job'.data = content[job.u]
              \/ job.at # "reading" /\ job'.data = job.data
  <2>1. Took' = Took /\ (Gone' <=> Gone) /\ (Opening(job.u)' <=> Opening(job.u))
    BY <1>1, <1>6 DEF Took, Gone, Opening
  <2> QED BY <1>1, <1>6, <2>1 DEF ReadIsCurrent
<1> QED BY <1>4, <1>5, <1>6, WorkerGoesOn

\* What is stored is the tokens of the document as they are now.
LEMMA StoresCurrent ==
    ASSUME TokenTypes, ReadIsCurrent, job.at = "storing", job.identity = Identity(job.u)
    PROVE  doc[job.u] # 0 /\ job.data = content[job.u]
<1>1. job.u \in Uris
  BY JobTypes
<1>2. Took[1] = doc[job.u] /\ Took[2] = semantics[job.u] /\ Took[3] = indexGeneration
  BY DEF Took, Identity
<1>3. ~Gone
  BY <1>1, <1>2 DEF Gone, TokenTypes
<1> QED BY <1>2, <1>3 DEF ReadIsCurrent

LEMMA WorkerRemembers ==
    ASSUME TokenTypes, ReadIsCurrent, RememberedOpenOrLeaving, WorkerStep
    PROVE  RememberedOpenOrLeaving'
<1>1. UNCHANGED <<doc, handling>>
  BY DEF WorkerStep, TakesRequest, ReadsTokens, CommitsTokens, RepliesRange, ChecksIdentity,
       StoresTokens, OnWorker, stores
<1>2. CASE UNCHANGED results
  BY <1>1, <1>2 DEF RememberedOpenOrLeaving
<1>3. CASE StoresTokens /\ results' # results
  <2>1. DOMAIN results' = DOMAIN results \cup {job.u} /\ doc[job.u] # 0
    BY <1>3, StoresCurrent DEF StoresTokens, cache
  <2> QED BY <1>1, <2>1 DEF RememberedOpenOrLeaving
<1> QED BY <1>2, <1>3 DEF WorkerStep, TakesRequest, ReadsTokens, CommitsTokens, RepliesRange, ChecksIdentity, cache

-----------------------------------------------------------------------------
(***************************************************************************)
(* One data per id.                                                        *)
(***************************************************************************)

LEMMA AskedFacts ==
    ASSUME NEW S, NEW ms \in Seq(S)
    PROVE  /\ \A m \in S : Asked(Append(ms, m)) \subseteq
                             Asked(ms) \cup (IF m \in Questions THEN {m.base} ELSE {})
           /\ ms # <<>> => /\ Asked(Tail(ms)) \subseteq Asked(ms)
                           /\ Head(ms) \in Questions => Head(ms).base \in Asked(ms)
<1>1. ASSUME NEW m \in S
      PROVE  Asked(Append(ms, m)) \subseteq Asked(ms) \cup (IF m \in Questions THEN {m.base} ELSE {})
  <2>1. /\ DOMAIN Append(ms, m) = 1 .. Len(ms) + 1 /\ DOMAIN ms = 1 .. Len(ms) /\ Len(ms) \in Nat
        /\ \A i \in 1 .. Len(ms) : Append(ms, m)[i] = ms[i]
        /\ Append(ms, m)[Len(ms) + 1] = m
    BY AppendProperties, LenProperties
  <2>2. \A i \in 1 .. Len(ms) + 1 : i \in 1 .. Len(ms) \/ i = Len(ms) + 1
    BY <2>1
  <2> QED BY <2>1, <2>2 DEF Asked
<1>2. ASSUME ms # <<>>
      PROVE  /\ Asked(Tail(ms)) \subseteq Asked(ms)
             /\ Head(ms) \in Questions => Head(ms).base \in Asked(ms)
  <2>1. /\ DOMAIN ms = 1 .. Len(ms) /\ Len(ms) \in Nat /\ Len(ms) >= 1
        /\ DOMAIN Tail(ms) = 1 .. Len(ms) - 1
        /\ \A i \in 1 .. Len(ms) - 1 : Tail(ms)[i] = ms[i + 1]
        /\ Head(ms) = ms[1]
    BY <1>2, HeadTailProperties, LenProperties, EmptySeq
  <2>2. \A i \in 1 .. Len(ms) - 1 : i + 1 \in 1 .. Len(ms)
    BY <2>1
  <2> QED BY <2>1, <2>2 DEF Asked
<1> QED BY <1>1, <1>2

LEMMA AnsweredFacts ==
    ASSUME NEW S, NEW rs \in Seq(S)
    PROVE  /\ \A r \in S : Answered(Append(rs, r)) \subseteq
                             Answered(rs) \cup (IF r.k \in {"edits", "data"} THEN {Given(r)} ELSE {})
           /\ rs # <<>> => /\ Answered(Tail(rs)) \subseteq Answered(rs)
                           /\ Head(rs).k \in {"edits", "data"} => Given(Head(rs)) \in Answered(rs)
<1>1. ASSUME NEW r \in S
      PROVE  Answered(Append(rs, r)) \subseteq
                Answered(rs) \cup (IF r.k \in {"edits", "data"} THEN {Given(r)} ELSE {})
  <2>1. /\ DOMAIN Append(rs, r) = 1 .. Len(rs) + 1 /\ DOMAIN rs = 1 .. Len(rs) /\ Len(rs) \in Nat
        /\ \A i \in 1 .. Len(rs) : Append(rs, r)[i] = rs[i]
        /\ Append(rs, r)[Len(rs) + 1] = r
    BY AppendProperties, LenProperties
  <2>2. \A i \in 1 .. Len(rs) + 1 : i \in 1 .. Len(rs) \/ i = Len(rs) + 1
    BY <2>1
  <2> QED BY <2>1, <2>2 DEF Answered
<1>2. ASSUME rs # <<>>
      PROVE  /\ Answered(Tail(rs)) \subseteq Answered(rs)
             /\ Head(rs).k \in {"edits", "data"} => Given(Head(rs)) \in Answered(rs)
  <2>1. /\ DOMAIN rs = 1 .. Len(rs) /\ Len(rs) \in Nat /\ Len(rs) >= 1
        /\ DOMAIN Tail(rs) = 1 .. Len(rs) - 1
        /\ \A i \in 1 .. Len(rs) - 1 : Tail(rs)[i] = rs[i + 1]
        /\ Head(rs) = rs[1]
    BY <1>2, HeadTailProperties, LenProperties, EmptySeq
  <2>2. \A i \in 1 .. Len(rs) - 1 : i + 1 \in 1 .. Len(rs)
    BY <2>1
  <2> QED BY <2>1, <2>2 DEF Answered
<1> QED BY <1>1, <1>2

\* No new pairs: still one data per id.
LEMMA FewerPairs ==
    ASSUME OneDataPerId, Pairs' \subseteq Pairs, counter' = counter,
           \A u \in DOMAIN results' : u \in DOMAIN results /\ results'[u] = results[u]
    PROVE  OneDataPerId'
BY DEF OneDataPerId

LEMMA PairTypes ==
    ASSUME TokenTypes
    PROVE  \A a \in Pairs : a \in Results
<1>1. ASSUME NEW a \in Asked(messages) PROVE a \in Results
  BY <1>1 DEF Asked, Questions
<1>2. ASSUME NEW a \in Asked(queue) PROVE a \in Results
  BY <1>2 DEF Asked, Questions
<1>3. ASSUME NEW a \in Answered(replies) PROVE a \in Results
  BY <1>3, ReplyFacts, ElementOfSeq, LenProperties DEF Answered, TokenTypes
<1>4. job.at # "idle" => job.base \in Results
  BY JobTypes DEF Jobs
<1> QED BY <1>1, <1>2, <1>3, <1>4 DEF Pairs, TokenTypes

LEMMA SentPairs ==
    ASSUME TokenTypes, NEW m \in Questions \cup Notices, m \in Questions => m.base \in Pairs,
           SendsMessage(m), UNCHANGED held, ServerUnchanged
    PROVE  Pairs' \subseteq Pairs
<1>1. messages' = Append(messages, m)
  BY DEF SendsMessage
<1>2. Asked(messages') \subseteq Asked(messages) \cup (IF m \in Questions THEN {m.base} ELSE {})
  BY <1>1, AskedFacts DEF TokenTypes
<1> QED BY <1>2 DEF Pairs, ServerUnchanged, cache

LEMMA ClientPairs ==
    ASSUME TokenTypes, OneDataPerId,
           Opens \/ Changes \/ Closes \/ Renames \/ AsksFull \/ AsksDelta \/ AsksRange
    PROVE  OneDataPerId'
<1>0. ServerUnchanged
  BY DEF Opens, Changes, Closes, Renames, AsksFull, AsksDelta, AsksRange
<1>1. \E m \in Questions \cup Notices :
        (m \in Questions => m.base \in Pairs) /\ SendsMessage(m) /\ UNCHANGED held
  <2>1. ASSUME NEW u \in Uris, NEW k \in {"text", "close"}
        PROVE  LET m == [k |-> k, u |-> u]
               IN  m \in Questions \cup Notices /\ (m \in Questions => m.base \in Pairs)
    BY DEF Notices, Questions
  <2>2. ASSUME NEW u \in Uris, NEW v \in Uris, u # v
        PROVE  LET m == [k |-> "rename", u |-> u, v |-> v]
               IN  m \in Questions \cup Notices /\ (m \in Questions => m.base \in Pairs)
    BY <2>2 DEF Notices, Renamings, Questions
  <2>3. ASSUME NEW u \in Uris, NEW k \in {"full", "delta", "range"}
        PROVE  LET m == [k |-> k, u |-> u, base |-> held[u]]
               IN  m \in Questions \cup Notices /\ (m \in Questions => m.base \in Pairs)
    BY DEF Questions, Pairs, TokenTypes
  <2>4. CASE Opens
    BY <2>1, <2>4 DEF Opens
  <2>5. CASE Changes
    BY <2>1, <2>5 DEF Changes, TokenTypes
  <2>6. CASE Closes
    BY <2>1, <2>6 DEF Closes, TokenTypes
  <2>7. CASE Renames
    BY <2>2, <2>7 DEF Renames, TokenTypes
  <2>8. CASE AsksFull
    BY <2>3, <2>8 DEF AsksFull, TokenTypes
  <2>9. CASE AsksDelta
    BY <2>3, <2>9 DEF AsksDelta, TokenTypes
  <2>10. CASE AsksRange
    BY <2>3, <2>10 DEF AsksRange, TokenTypes
  <2> QED BY <2>4, <2>5, <2>6, <2>7, <2>8, <2>9, <2>10
<1>2. Pairs' \subseteq Pairs
  BY <1>0, <1>1, SentPairs
<1> QED BY <1>0, <1>2, FewerPairs DEF ServerUnchanged, cache

LEMMA WirePairs ==
    ASSUME TokenTypes, OneDataPerId, Receives \/ Refreshes \/ Dispatches \/ RefreshCompleted
    PROVE  OneDataPerId'
<1>0. UNCHANGED <<results, counter, job>>
  BY DEF Receives, Refreshes, Dispatches, RefreshCompleted, OnMain, cache
<1>1. CASE Receives
  <2>1. Head(replies) \in Replied /\ Answered(replies') \subseteq Answered(replies)
        /\ (Head(replies).k \in {"edits", "data"} => Given(Head(replies)) \in Answered(replies))
    BY <1>1, TakeFacts, AnsweredFacts DEF Receives, TokenTypes
  <2>2. \A u \in Uris : held'[u] \in Pairs
    <3>1. CASE Head(replies).k \in {"edits", "data"}
      <4>1. held' = [held EXCEPT ![Head(replies).u] = Given(Head(replies))]
        BY <1>1, <3>1 DEF Receives, Given
      <4> QED BY <2>1, <3>1, <4>1 DEF Pairs, TokenTypes
    <3>2. CASE Head(replies).k \notin {"edits", "data"}
      BY <1>1, <3>2 DEF Receives, Pairs
    <3> QED BY <3>1, <3>2
  <2>3. Pairs' \subseteq Pairs
    BY <1>0, <1>1, <2>1, <2>2 DEF Pairs, Receives
  <2> QED BY <1>0, <2>3, FewerPairs
<1>2. CASE Refreshes
  <2>1. [k |-> "refreshed"] \in Questions \cup Notices /\ [k |-> "refreshed"] \notin Questions
    BY DEF Notices, Questions
  <2>2. Asked(messages') \subseteq Asked(messages)
    BY <1>2, <2>1, AskedFacts DEF Refreshes, TokenTypes
  <2>3. Pairs' \subseteq Pairs
    BY <1>0, <1>2, <2>2 DEF Pairs, Refreshes
  <2> QED BY <1>0, <2>3, FewerPairs
<1>3. CASE Dispatches
  <2>1. /\ Asked(messages') \subseteq Asked(messages)
        /\ Head(messages) \in Questions => Head(messages).base \in Asked(messages)
    BY <1>3, AskedFacts DEF Dispatches, TokenTypes
  <2>2. Head(messages) \in Questions
    <3>1. Head(messages) \in Questions \cup Notices /\ Head(messages).k \in {"full", "delta", "range"}
      BY <1>3, TakeFacts DEF Dispatches, TokenTypes
    <3> QED BY <3>1 DEF Notices, Renamings
  <2>3. Asked(queue') \subseteq Asked(queue) \cup {Head(messages).base}
    BY <1>3, <2>2, AskedFacts DEF Dispatches, TokenTypes
  <2>4. Pairs' \subseteq Pairs
    BY <1>0, <1>3, <2>1, <2>2, <2>3 DEF Pairs, Dispatches, OnMain, editorVars
  <2> QED BY <1>0, <2>4, FewerPairs
<1>4. CASE RefreshCompleted
  <2>1. Asked(messages') \subseteq Asked(messages)
    BY <1>4, AskedFacts DEF RefreshCompleted, TokenTypes
  <2>2. Pairs' \subseteq Pairs
    BY <1>0, <1>4, <2>1 DEF Pairs, RefreshCompleted, OnMain, editorVars
  <2> QED BY <1>0, <2>2, FewerPairs
<1> QED BY <1>1, <1>2, <1>3, <1>4

LEMMA MainPairs ==
    ASSUME TokenTypes, OneDataPerId, MainStep
    PROVE  OneDataPerId'
<1>0. UNCHANGED <<held, replies, job, queue, counter>>
  BY DEF MainStep, TextArrives, Publishes, Reindexes, DocumentCloses, Unindexes,
         EndsChange, Forgets, RenameArrives, MovesAway, OnMain, editorVars, cache
<1>1. Asked(messages') \subseteq Asked(messages)
  <2>1. ASSUME NEW m, ReadsMessage(m) PROVE Asked(messages') \subseteq Asked(messages)
    BY <2>1, AskedFacts DEF ReadsMessage, TokenTypes
  <2>2. CASE UNCHANGED messages
    BY <2>2
  <2> QED BY <2>1, <2>2 DEF MainStep, TextArrives, Publishes, Reindexes, DocumentCloses, Unindexes,
         EndsChange, Forgets, RenameArrives, MovesAway
<1>2. \A u \in DOMAIN results' : u \in DOMAIN results /\ results'[u] = results[u]
  <2>1. ASSUME NEW us, results' = Without(results, us)
        PROVE  \A u \in DOMAIN results' : u \in DOMAIN results /\ results'[u] = results[u]
    BY <2>1 DEF Without
  <2> QED BY <2>1 DEF MainStep, TextArrives, Publishes, Reindexes, DocumentCloses, Unindexes,
         EndsChange, Forgets, RenameArrives, MovesAway, cache
<1>3. Pairs' \subseteq Pairs
  BY <1>0, <1>1, <1>2 DEF Pairs
<1> QED BY <1>0, <1>2, <1>3, FewerPairs

LEMMA WorkerPairs ==
    ASSUME TokenTypes, OneDataPerId, WorkerStep
    PROVE  OneDataPerId'
<1>0. UNCHANGED <<held, messages>>
  BY DEF WorkerStep, TakesRequest, ReadsTokens, CommitsTokens, RepliesRange, ChecksIdentity,
       StoresTokens, OnWorker, editorVars
<1>1. Asked(queue') \subseteq Asked(queue)
  BY AskedFacts DEF WorkerStep, TakesRequest, ReadsTokens, CommitsTokens, RepliesRange, ChecksIdentity,
       StoresTokens, TokenTypes
<1>2. job'.at # "idle" => job'.base \in Pairs
  BY WorkerGoesOn DEF Pairs
<1>3. ASSUME NEW r \in Replied, Replies(r), r.k \in {"error", "range"}
      PROVE  Answered(replies') \subseteq Answered(replies)
  BY <1>3, AnsweredFacts DEF Replies, TokenTypes
<1>4. ASSUME job.at # "idle", Fails
      PROVE  Answered(replies') \subseteq Answered(replies)
  <2>1. [k |-> "error", u |-> job.u] \in Replied
    BY <1>4, JobTypes DEF Replied
  <2> QED BY <1>3, <1>4, <2>1 DEF Fails
<1>5. ASSUME UNCHANGED cache, Answered(replies') \subseteq Answered(replies)
      PROVE  OneDataPerId'
  <2>1. Pairs' \subseteq Pairs
    BY <1>0, <1>1, <1>2, <1>5 DEF Pairs, cache
  <2> QED BY <1>5, <2>1, FewerPairs DEF cache
<1>6. CASE TakesRequest
  BY <1>5, <1>6 DEF TakesRequest
<1>7. CASE ReadsTokens
  BY <1>4, <1>5, <1>7 DEF ReadsTokens
<1>8. CASE CommitsTokens
  BY <1>4, <1>5, <1>8 DEF CommitsTokens
<1>9. CASE RepliesRange
  <2>1. [k |-> "range", u |-> job.u] \in Replied
    BY <1>9, JobTypes DEF RepliesRange, Replied
  <2> QED BY <1>3, <1>5, <1>9, <2>1 DEF RepliesRange
<1>10. CASE ChecksIdentity
  BY <1>4, <1>5, <1>10 DEF ChecksIdentity
<1>11. CASE StoresTokens
  <2>1. CASE job.identity # Identity(job.u)
    BY <1>4, <1>5, <1>11, <2>1 DEF StoresTokens
  <2>2. CASE job.identity = Identity(job.u)
    <3> DEFINE new == [id |-> counter + 1, data |-> job.data]
    <3>1. counter \in Nat /\ counter' = counter + 1
      BY <1>11, <2>2 DEF StoresTokens, TokenTypes
    <3>2. PICK r \in Replied : Replies(r) /\ r.id = counter + 1 /\ Denoted(r) = job.data
      BY <1>11, <2>2, <3>1, KnownFacts, StoredTypes DEF StoresTokens
    <3>3. Answered(replies') \subseteq Answered(replies) \cup {new}
      BY <3>2, AnsweredFacts DEF Replies, Given, TokenTypes
    <3>4. \A u \in DOMAIN results' : \/ u \in DOMAIN results /\ results'[u] = results[u]
                                     \/ results'[u] = new
      BY <1>11, <2>2 DEF StoresTokens
    <3> HIDE DEF new
    <3>5. Pairs' \subseteq Pairs \cup {new}
      BY <1>0, <1>1, <1>2, <3>3, <3>4 DEF Pairs
    <3>6. \A a \in Pairs : a.id <= counter /\ a.id \in Nat
      BY PairTypes DEF OneDataPerId, Results
    <3>7. new.id = counter + 1
      BY DEF new
    <3>8. \A a \in Pairs : a.id <= counter + 1 /\ a.id # new.id
      BY <3>1, <3>6, <3>7
    <3>9. new.id <= counter + 1 /\ new.id # 0
      BY <3>1, <3>7
    <3>10. \A a \in Pairs' : a.id <= counter'
      BY <3>1, <3>5, <3>8, <3>9
    <3>11. \A a, b \in Pairs' : a.id = b.id /\ a.id # 0 => a.data = b.data
      BY <3>5, <3>8 DEF OneDataPerId
    <3>12. \A u \in DOMAIN results' : results'[u].id # 0
      BY <3>4, <3>9 DEF OneDataPerId
    <3> QED BY <3>10, <3>11, <3>12 DEF OneDataPerId
  <2> QED BY <2>1, <2>2
<1> QED BY <1>6, <1>7, <1>8, <1>9, <1>10, <1>11 DEF WorkerStep

-----------------------------------------------------------------------------
(***************************************************************************)
(* The invariant.                                                          *)
(***************************************************************************)

LEMMA TokenInvInit == TokenInit => TokenInv
<1> SUFFICES ASSUME TokenInit PROVE TokenInv
  OBVIOUS
<1>1. TokenTypes
  BY InitTypes
<1>2. Ordered /\ ReadIsCurrent /\ RememberedOpenOrLeaving
  BY DEF TokenInit, Ordered, ReadIsCurrent, RememberedOpenOrLeaving, Waiting, NoRequest
<1>3. OneDataPerId
  <2>1. Asked(<<>>) = {} /\ Answered(<<>>) = {}
    BY DEF Asked, Answered
  <2>2. Pairs \subseteq {Nothing} /\ DOMAIN results = {}
    BY <2>1 DEF TokenInit, Pairs, NoRequest
  <2> QED BY <2>2 DEF OneDataPerId, Nothing, TokenInit
<1> QED BY <1>1, <1>2, <1>3 DEF TokenInv

LEMMA TokenInvNext == TokenInv /\ [TokenNext]_tokenVars => TokenInv'
<1> SUFFICES ASSUME TokenInv, [TokenNext]_tokenVars PROVE TokenInv'
  OBVIOUS
<1>0. TokenTypes /\ Ordered /\ ReadIsCurrent /\ RememberedOpenOrLeaving /\ OneDataPerId
  BY DEF TokenInv
<1>1. ASSUME UNCHANGED <<stores, handling, job, cache>>
      PROVE  Ordered' /\ ReadIsCurrent' /\ RememberedOpenOrLeaving'
  BY <1>0, <1>1 DEF stores, cache, Ordered, ReadIsCurrent, Took, Gone, Opening, RememberedOpenOrLeaving
<1>2. CASE Opens \/ Changes \/ Closes \/ Renames \/ AsksFull \/ AsksDelta \/ AsksRange
  <2>1. UNCHANGED <<stores, handling, job, cache>>
    BY <1>2 DEF Opens, Changes, Closes, Renames, AsksFull, AsksDelta, AsksRange, ServerUnchanged
  <2>2. TokenTypes' /\ OneDataPerId'
    BY <1>0, <1>2, ClientTypes, ClientPairs
  <2> QED BY <1>1, <2>1, <2>2 DEF TokenInv
<1>3. CASE Receives \/ Refreshes \/ Dispatches \/ RefreshCompleted
  <2>1. UNCHANGED <<stores, handling, job, cache>>
    BY <1>3 DEF Receives, Refreshes, Dispatches, RefreshCompleted, OnMain
  <2>2. TokenTypes' /\ OneDataPerId'
    BY <1>0, <1>3, WireTypes, WirePairs
  <2> QED BY <1>1, <2>1, <2>2 DEF TokenInv
<1>4. CASE MainStep
  <2>1. TokenTypes'
    BY <1>0, <1>4, ArriveTypes, AdvanceTypes DEF MainStep
  <2> QED BY <1>0, <1>4, <2>1, MainOrdered, MainReads, MainRemembers, MainPairs DEF TokenInv
<1>5. CASE WorkerStep
  <2>1. TokenTypes'
    BY <1>0, <1>5, WorkerTypes DEF WorkerStep
  <2> QED BY <1>0, <1>5, <2>1, WorkerOrdered, WorkerReads, WorkerRemembers, WorkerPairs DEF TokenInv
<1>6. CASE UNCHANGED tokenVars
  <2>1. UNCHANGED <<stores, handling, job, cache>>
    BY <1>6 DEF tokenVars
  <2>2. TokenTypes' /\ OneDataPerId'
    BY <1>0, <1>6 DEF tokenVars, editorVars, stores, cache, TokenTypes, OneDataPerId, Pairs
  <2> QED BY <1>1, <2>1, <2>2 DEF TokenInv
<1> QED BY <1>2, <1>3, <1>4, <1>5, <1>6 DEF TokenNext, MainStep, WorkerStep

\* The invariant, with the types: identities come in order, what the worker has read is
\* the document's tokens as long as the identity it took is that of now, and an id is
\* never given to two results (semantic_token_delta.py:82-156, server.py:430-466).
THEOREM TokensKeepInvariant == TokenSpec => []TokenInv
BY TokenInvInit, TokenInvNext, PTL DEF TokenSpec

\* A request that races with the close or the rename of its document leaves no result
\* behind: whenever no notification is being handled, results are remembered of open
\* documents only (semantic_token_delta.py:107, 130).
THEOREM NothingRememberedOfClosed == TokenSpec => []RememberedAreOpen
<1>1. TokenInv => RememberedAreOpen
  BY DEF TokenInv, RememberedOpenOrLeaving, RememberedAreOpen
<1> QED BY <1>1, TokensKeepInvariant, PTL

-----------------------------------------------------------------------------
(***************************************************************************)
(* The refinement: what the client is shown.                               *)
(***************************************************************************)

ShownOf(rs) == [i \in DOMAIN rs |-> Shown(rs[i])]
ShownNow == [u \in Uris |-> held[u].data]

LEMMA ShownSeq ==
    ASSUME NEW S, NEW x \in Seq(S)
    PROVE  /\ ShownOf(x) \in Seq({Shown(r) : r \in S}) /\ Len(ShownOf(x)) = Len(x)
           /\ \A i \in 1 .. Len(x) : ShownOf(x)[i] = Shown(x[i])
<1> DEFINE T == {Shown(r) : r \in S}
<1>1. DOMAIN x = 1 .. Len(x) /\ Len(x) \in Nat /\ \A i \in 1 .. Len(x) : x[i] \in S
  BY LenProperties, ElementOfSeq
<1>2. ShownOf(x) = [i \in 1 .. Len(x) |-> Shown(x[i])]
  BY <1>1 DEF ShownOf
<1>3. \A i \in 1 .. Len(x) : Shown(x[i]) \in T
  BY <1>1
<1> HIDE DEF T
<1>4. ShownOf(x) \in [1 .. Len(x) -> T]
  BY <1>2, <1>3
<1>5. ShownOf(x) \in Seq(T)
  BY <1>1, <1>4, SeqDef
<1>6. DOMAIN ShownOf(x) = 1 .. Len(ShownOf(x)) /\ Len(ShownOf(x)) \in Nat
  BY <1>5, LenProperties
<1>7. DOMAIN ShownOf(x) = 1 .. Len(x)
  BY <1>2
<1>8. Len(ShownOf(x)) = Len(x)
  <2>1. ASSUME NEW n \in Nat, NEW m \in Nat, 1 .. n = 1 .. m PROVE n = m
    <3>1. n = 0 \/ n \in 1 .. m
      BY <2>1
    <3>2. m = 0 \/ m \in 1 .. n
      BY <2>1
    <3> QED BY <3>1, <3>2
  <2> QED BY <1>1, <1>6, <1>7, <2>1
<1> QED BY <1>2, <1>5, <1>8 DEF T

LEMMA ShownAppend ==
    ASSUME NEW S, NEW rs \in Seq(S), NEW r \in S
    PROVE  ShownOf(Append(rs, r)) = Append(ShownOf(rs), Shown(r))
<1> DEFINE T == {Shown(x) : x \in S}
           a == ShownOf(Append(rs, r))
           b == Append(ShownOf(rs), Shown(r))
<1>1. /\ Append(rs, r) \in Seq(S) /\ Len(Append(rs, r)) = Len(rs) + 1 /\ Len(rs) \in Nat
      /\ \A i \in 1 .. Len(rs) : Append(rs, r)[i] = rs[i]
      /\ Append(rs, r)[Len(rs) + 1] = r
  BY AppendProperties, LenProperties
<1>2. /\ ShownOf(rs) \in Seq(T) /\ Len(ShownOf(rs)) = Len(rs)
      /\ \A i \in 1 .. Len(rs) : ShownOf(rs)[i] = Shown(rs[i])
  BY ShownSeq
<1>3. a \in Seq(T) /\ Len(a) = Len(rs) + 1
      /\ \A i \in 1 .. Len(rs) + 1 : a[i] = Shown(Append(rs, r)[i])
  BY <1>1, ShownSeq
<1>4. Shown(r) \in T
  OBVIOUS
<1> HIDE DEF T
<1>5. /\ b \in Seq(T) /\ Len(b) = Len(rs) + 1
      /\ \A i \in 1 .. Len(rs) : b[i] = ShownOf(rs)[i]
      /\ b[Len(rs) + 1] = Shown(r)
  BY <1>1, <1>2, <1>4, AppendProperties
<1> HIDE DEF a, b
<1>6. ASSUME NEW i \in 1 .. Len(rs) + 1 PROVE a[i] = b[i]
  <2>1. CASE i \in 1 .. Len(rs)
    BY <1>1, <1>2, <1>3, <1>5, <2>1
  <2>2. CASE i = Len(rs) + 1
    BY <1>1, <1>3, <1>5, <2>2
  <2>3. i \in 1 .. Len(rs) \/ i = Len(rs) + 1
    BY <1>1
  <2> QED BY <2>1, <2>2, <2>3
<1>7. a = b
  BY <1>1, <1>3, <1>5, <1>6, SeqEqual
<1> QED BY <1>7 DEF a, b

LEMMA ShownTail ==
    ASSUME NEW S, NEW rs \in Seq(S), rs # <<>>
    PROVE  /\ ShownOf(rs) # <<>> /\ Head(ShownOf(rs)) = Shown(Head(rs))
           /\ ShownOf(Tail(rs)) = Tail(ShownOf(rs))
<1> DEFINE T == {Shown(x) : x \in S}
           a == ShownOf(Tail(rs))
           b == Tail(ShownOf(rs))
<1>1. /\ Len(rs) \in Nat /\ Len(rs) >= 1 /\ Head(rs) = rs[1] /\ Tail(rs) \in Seq(S)
      /\ Len(Tail(rs)) = Len(rs) - 1 /\ \A i \in 1 .. Len(rs) - 1 : Tail(rs)[i] = rs[i + 1]
  BY EmptySeq, LenProperties, HeadTailProperties
<1>2. /\ ShownOf(rs) \in Seq(T) /\ Len(ShownOf(rs)) = Len(rs)
      /\ \A i \in 1 .. Len(rs) : ShownOf(rs)[i] = Shown(rs[i])
  BY ShownSeq
<1>3. a \in Seq(T) /\ Len(a) = Len(rs) - 1
      /\ \A i \in 1 .. Len(rs) - 1 : a[i] = Shown(Tail(rs)[i])
  BY <1>1, ShownSeq
<1> HIDE DEF T
<1>4. ShownOf(rs) # <<>> /\ Head(ShownOf(rs)) = Shown(Head(rs))
  BY <1>1, <1>2
<1>5. /\ b \in Seq(T) /\ Len(b) = Len(rs) - 1
      /\ \A i \in 1 .. Len(rs) - 1 : b[i] = ShownOf(rs)[i + 1]
  BY <1>1, <1>2, <1>4, HeadTailProperties
<1> HIDE DEF a, b
<1>6. ASSUME NEW i \in 1 .. Len(rs) - 1 PROVE a[i] = b[i]
  <2>1. i + 1 \in 1 .. Len(rs)
    BY <1>1
  <2> QED BY <1>1, <1>2, <1>3, <1>5, <2>1
<1>7. a = b
  BY <1>1, <1>3, <1>5, <1>6, SeqEqual
<1> QED BY <1>4, <1>7 DEF a, b

\* A step of the worker answers with the tokens of now, or with nothing, or not at all.
LEMMA WorkerAnswers ==
    ASSUME TokenInv, WorkerStep
    PROVE  \/ UNCHANGED replies
           \/ \E r \in Replied :
                /\ replies' = Append(replies, r) /\ r.u = job.u
                /\ \/ Shown(r) = [uri |-> r.u, whole |-> TRUE, data |-> content[r.u]]
                   \/ Shown(r) = [uri |-> r.u, whole |-> FALSE, data |-> <<>>]
<1> USE DEF TokenInv
<1>1. ASSUME NEW k \in {"error", "range"}, job.at # "idle", Replies([k |-> k, u |-> job.u])
      PROVE  \E r \in Replied :
                /\ replies' = Append(replies, r) /\ r.u = job.u
                /\ Shown(r) = [uri |-> r.u, whole |-> FALSE, data |-> <<>>]
  <2> DEFINE r == [k |-> k, u |-> job.u]
  <2>1. r \in Replied
    BY <1>1, JobTypes DEF Replied
  <2>2. Shown(r) = [uri |-> r.u, whole |-> FALSE, data |-> <<>>]
    <3>1. (r.k \in {"edits", "data"}) = FALSE
      OBVIOUS
    <3> HIDE DEF r
    <3> QED BY <3>1 DEF Shown
  <2> QED BY <1>1, <2>1, <2>2 DEF Replies
<1>2. CASE TakesRequest
  BY <1>2 DEF TakesRequest
<1>3. CASE ReadsTokens
  BY <1>1, <1>3 DEF ReadsTokens, Fails
<1>4. CASE CommitsTokens
  BY <1>1, <1>4 DEF CommitsTokens, Fails
<1>5. CASE RepliesRange
  BY <1>1, <1>5 DEF RepliesRange
<1>6. CASE ChecksIdentity
  BY <1>1, <1>6 DEF ChecksIdentity, Fails
<1>7. CASE StoresTokens
  <2>1. CASE job.identity # Identity(job.u)
    BY <1>1, <1>7, <2>1 DEF StoresTokens, Fails
  <2>2. CASE job.identity = Identity(job.u)
    <3>1. counter + 1 \in Nat
      BY DEF TokenTypes
    <3>2. PICK r \in Replied : /\ Replies(r) /\ r.k \in {"edits", "data"} /\ r.u = job.u
                               /\ Denoted(r) = job.data
      BY <1>7, <2>2, <3>1, KnownFacts, StoredTypes DEF StoresTokens
    <3>3. job.data = content[job.u]
      BY <1>7, <2>2, StoresCurrent DEF StoresTokens
    <3>4. Shown(r) = [uri |-> r.u, whole |-> TRUE, data |-> content[r.u]]
      BY <3>2, <3>3 DEF Shown
    <3> QED BY <3>2, <3>4 DEF Replies
  <2> QED BY <2>1, <2>2
<1> QED BY <1>2, <1>3, <1>4, <1>5, <1>6, <1>7 DEF WorkerStep

LEMMA ViewInits == TokenInit => View!ViewInit
<1> SUFFICES ASSUME TokenInit PROVE View!ViewInit
  OBVIOUS
<1>1. [i \in DOMAIN replies |-> Shown(replies[i])] = <<>>
  BY DEF TokenInit
<1>2. [u \in Uris |-> held[u].data] = [u \in Uris |-> <<>>]
  BY DEF TokenInit, Nothing
<1> QED BY <1>1, <1>2 DEF View!ViewInit, TokenInit

LEMMA ViewSteps ==
    TokenInv /\ TokenInv' /\ [TokenNext]_tokenVars => [View!ViewNext]_View!viewVars
<1> SUFFICES ASSUME TokenInv, TokenInv', [TokenNext]_tokenVars
             PROVE  View!ViewNext \/ UNCHANGED View!viewVars
  OBVIOUS
<1>0. replies \in Seq(Replied) /\ content' \in [Uris -> Data]
  BY DEF TokenInv, TokenTypes
<1>1. ASSUME UNCHANGED <<held, replies>>, content' = content \/ content' \in [Uris -> Tokens \cup {<<>>}]
      PROVE  View!ViewNext \/ UNCHANGED View!viewVars
  BY <1>1 DEF View!ViewNext, View!Changes, View!viewVars
<1>2. CASE Opens \/ Changes \/ Closes \/ Renames \/ AsksFull \/ AsksDelta \/ AsksRange
  BY <1>1, <1>2 DEF Opens, Changes, Closes, Renames, AsksFull, AsksDelta, AsksRange, ServerUnchanged, stores
<1>3. CASE Receives
  <2>1. /\ ShownOf(replies) # <<>> /\ Head(ShownOf(replies)) = Shown(Head(replies))
        /\ ShownOf(replies') = Tail(ShownOf(replies))
    BY <1>0, <1>3, ShownTail DEF Receives
  <2>2. ShownNow' = IF Shown(Head(replies)).whole
                    THEN [ShownNow EXCEPT ![Shown(Head(replies)).uri] = Shown(Head(replies)).data]
                    ELSE ShownNow
    <3> DEFINE r == Head(replies)
    <3>1. r \in Replied /\ r.u \in Uris
      BY <1>0, <1>3, TakeFacts, ReplyFacts DEF Receives
    <3>2. Shown(r).uri = r.u /\ (Shown(r).whole <=> r.k \in {"edits", "data"})
      BY DEF Shown
    <3>3. CASE r.k \in {"edits", "data"}
      <4>1. Shown(r).data = Denoted(r)
        BY <3>3 DEF Shown
      <4>2. held' = [held EXCEPT ![r.u] = Given(r)] /\ Given(r).data = Denoted(r)
        BY <1>3, <3>3 DEF Receives, Given
      <4> HIDE DEF r
      <4>3. \A u \in Uris : held'[u].data = IF u = r.u THEN Denoted(r) ELSE held[u].data
        BY <3>1, <4>2 DEF TokenInv, TokenTypes
      <4> QED BY <3>1, <3>2, <3>3, <4>1, <4>3 DEF ShownNow, r
    <3>4. CASE r.k \notin {"edits", "data"}
      BY <1>3, <3>2, <3>4 DEF Receives, ShownNow
    <3> QED BY <3>3, <3>4
  <2>3. UNCHANGED content
    BY <1>3 DEF Receives, stores
  <2>4. View!Shows
    BY <2>1, <2>2, <2>3 DEF View!Shows, ShownOf, ShownNow
  <2> QED BY <2>4 DEF View!ViewNext
<1>4. CASE Refreshes \/ Dispatches \/ RefreshCompleted
  BY <1>1, <1>4 DEF Refreshes, Dispatches, RefreshCompleted, OnMain, editorVars, stores
<1>5. CASE MainStep
  <2>1. UNCHANGED <<held, replies>>
    BY <1>5 DEF MainStep, TextArrives, Publishes, Reindexes, DocumentCloses, Unindexes,
         EndsChange, Forgets, RenameArrives, MovesAway, OnMain, editorVars
  <2> QED BY <1>0, <1>1, <2>1 DEF Data
<1>6. CASE WorkerStep
  <2>1. UNCHANGED <<held, content>>
    BY <1>6 DEF WorkerStep, TakesRequest, ReadsTokens, CommitsTokens, RepliesRange, ChecksIdentity,
         StoresTokens, OnWorker, editorVars, stores
  <2>2. CASE UNCHANGED replies
    BY <1>1, <2>1, <2>2
  <2>3. ASSUME NEW r \in Replied, replies' = Append(replies, r),
               \/ Shown(r) = [uri |-> r.u, whole |-> TRUE, data |-> content[r.u]]
               \/ Shown(r) = [uri |-> r.u, whole |-> FALSE, data |-> <<>>]
        PROVE  View!ViewNext
    <3>1. ShownOf(replies') = Append(ShownOf(replies), Shown(r)) /\ r.u \in Uris
      BY <1>0, <2>3, ShownAppend, ReplyFacts
    <3>2. View!Answers(r.u) \/ View!AnswersNothing(r.u)
      BY <2>1, <2>3, <3>1 DEF View!Answers, View!AnswersNothing, ShownOf
    <3> QED BY <3>1, <3>2 DEF View!ViewNext
  <2> QED BY <1>6, <2>2, <2>3, WorkerAnswers
<1>7. CASE UNCHANGED tokenVars
  BY <1>1, <1>7 DEF tokenVars, editorVars, stores
<1> QED BY <1>2, <1>3, <1>4, <1>5, <1>6, <1>7 DEF TokenNext, MainStep, WorkerStep

\* Deltas implement whole results: whatever is sent, the client is shown the tokens its
\* documents had when the requests were answered, in that order, or nothing
\* (semantic_token_delta.py:82-120, 158-187).
THEOREM DeltasShowWhatWasCurrent == TokenSpec => ShowsWhatWasCurrent
BY ViewInits, ViewSteps, TokensKeepInvariant, PTL DEF TokenSpec, ShowsWhatWasCurrent, View!ViewSpec

-----------------------------------------------------------------------------
(***************************************************************************)
(* Stale tokens are noticed.  A document the client means to ask for no    *)
(* more is asked for on the wire, or being answered, or shown as it is, or *)
(* a refresh is on its way.                                                *)
(***************************************************************************)
Replaces(m, u) == (m.k = "text" /\ m.u = u) \/ (m.k = "rename" /\ m.v = u)
Removes(m, u) == m.k \in {"close", "rename"} /\ m.u = u
AsksAbout(m, u) == m.k \in {"full", "delta"} /\ m.u = u
Notifies(m) == m.k \in {"text", "close", "rename"}

\* Whether u is open once the first i - 1 messages of ms are handled, if it is now or not.
OpenBefore(ms, now, u, i) ==
  \/ now /\ \A j \in DOMAIN ms : j < i => ~Removes(ms[j], u)
  \/ \E k \in DOMAIN ms :
       k < i /\ Replaces(ms[k], u) /\ \A j \in DOMAIN ms : k < j /\ j < i => ~Removes(ms[j], u)

\* Server and client agree on what is open: what the client has open will be, and what
\* it closes or renames will be until then.
Agreed ==
  /\ \A u \in wanted : OpenBefore(messages, doc[u] # 0, u, Len(messages) + 1)
  /\ \A u \in Uris : \A i \in DOMAIN messages :
       Removes(messages[i], u) => OpenBefore(messages, doc[u] # 0, u, i)

\* An open document is analysed and indexed unless main is on its way to it, and then the
\* change main is at is one that asks for a refresh.
Ready ==
  /\ \A u \in Uris : doc[u] # 0 /\ ~Opening(u) =>
       /\ semantics[u] = doc[u] /\ u \in indexed
       /\ handling.at # "idle" /\ u # handling.u => handling.others
  /\ handling.at = "indexing" => semantics[handling.u] = doc[handling.u]
  /\ handling.at # "idle" => handling.before <= indexGeneration

\* An acknowledgement is on its way for as long as the refresh is pending, and there is one.
Acknowledgement(i) == i \in DOMAIN messages /\ messages[i].k = "refreshed"
OneRefresh ==
  /\ refresh \in {"none", "sent", "acknowledged"}
  /\ refresh = "acknowledged" => \E i \in DOMAIN messages : Acknowledgement(i)
  /\ \A i \in DOMAIN messages : Acknowledgement(i) => refresh = "acknowledged"
  /\ \A i, j \in DOMAIN messages : Acknowledgement(i) /\ Acknowledgement(j) => i = j

\* The change main is at will ask for a refresh when it ends.
WillRefresh ==
  /\ handling.at # "idle" /\ handling.others
  /\ \/ handling.at \in {"moving", "parsing", "indexing"}
     \/ handling.at = "closing" /\ handling.u \in indexed
     \/ handling.at = "refreshing" /\ handling.before # indexGeneration
RefreshComing ==
  refresh = "sent" \/ WillRefresh \/ \E i \in DOMAIN messages : Notifies(messages[i])

AskedFor(u) == \E i \in DOMAIN messages : AsksAbout(messages[i], u)
BeingAnswered(u) ==
  \/ \E i \in DOMAIN queue : AsksAbout(queue[i], u)
  \/ job.at # "idle" /\ AsksAbout(job, u)
  \/ \E i \in DOMAIN replies : replies[i].u = u /\ replies[i].k = "error"

\* What the client shows of u once it has read the replies rs, when it shows `data` now.
WholeOf(r, u) == r.u = u /\ r.k \in {"edits", "data"}
Shows(rs, data, u, due) ==
  \/ data = due /\ \A i \in DOMAIN rs : ~WholeOf(rs[i], u)
  \/ \E i \in DOMAIN rs :
       /\ WholeOf(rs[i], u) /\ Denoted(rs[i]) = due
       /\ \A j \in DOMAIN rs : i < j => ~WholeOf(rs[j], u)

\* A text or an acknowledgement is followed by a request for the document.
Followed(u) ==
  /\ \A i \in DOMAIN messages : Replaces(messages[i], u) \/ Acknowledgement(i) =>
       \E j \in DOMAIN messages : i < j /\ AsksAbout(messages[j], u)
  /\ Opening(u) => AskedFor(u)
Served(u) ==
  AskedFor(u) \/ BeingAnswered(u) \/ Shows(replies, held[u].data, u, content[u]) \/ RefreshComing

NoticeInv ==
  Agreed /\ Ready /\ OneRefresh /\ \A u \in wanted \ dirty : Followed(u) /\ Served(u)

\* What is appended to a sequence, and what is left of one, element by element.
LEMMA AppendedFacts ==
    ASSUME NEW S, NEW s \in Seq(S), NEW x \in S
    PROVE  /\ Len(s) \in Nat /\ DOMAIN s = 1 .. Len(s) /\ DOMAIN Append(s, x) = 1 .. Len(s) + 1
           /\ Len(Append(s, x)) = Len(s) + 1
           /\ \A i \in 1 .. Len(s) : i \in DOMAIN Append(s, x) /\ Append(s, x)[i] = s[i]
           /\ Len(s) + 1 \in DOMAIN Append(s, x) /\ Append(s, x)[Len(s) + 1] = x
           /\ \A i \in DOMAIN Append(s, x) : i \in 1 .. Len(s) \/ i = Len(s) + 1
<1>1. /\ Len(s) \in Nat /\ DOMAIN s = 1 .. Len(s) /\ DOMAIN Append(s, x) = 1 .. Len(s) + 1
      /\ Len(Append(s, x)) = Len(s) + 1
      /\ \A i \in 1 .. Len(s) : Append(s, x)[i] = s[i]
      /\ Append(s, x)[Len(s) + 1] = x
  BY AppendProperties, LenProperties
<1> QED BY <1>1

LEMMA TakenFacts ==
    ASSUME NEW S, NEW s \in Seq(S), s # <<>>
    PROVE  /\ Len(s) \in Nat /\ DOMAIN s = 1 .. Len(s) /\ 1 \in DOMAIN s /\ Head(s) = s[1]
           /\ DOMAIN Tail(s) = 1 .. Len(s) - 1 /\ Len(Tail(s)) = Len(s) - 1
           /\ \A i \in DOMAIN Tail(s) : i + 1 \in DOMAIN s /\ Tail(s)[i] = s[i + 1]
           /\ \A i \in DOMAIN s : i = 1 \/ (i - 1 \in DOMAIN Tail(s) /\ Tail(s)[i - 1] = s[i])
<1>1. /\ Len(s) \in Nat /\ Len(s) >= 1 /\ DOMAIN s = 1 .. Len(s) /\ Head(s) = s[1]
      /\ DOMAIN Tail(s) = 1 .. Len(s) - 1 /\ Len(Tail(s)) = Len(s) - 1
      /\ \A i \in 1 .. Len(s) - 1 : Tail(s)[i] = s[i + 1]
  BY HeadTailProperties, LenProperties, EmptySeq
<1>2. \A i \in DOMAIN s : i = 1 \/ (i - 1 \in 1 .. Len(s) - 1 /\ (i - 1) + 1 = i)
  BY <1>1
<1> QED BY <1>1, <1>2

(***************************************************************************)
(* Server and client agree on what is open.                                *)
(***************************************************************************)
LEMMA OpenAppended ==
    ASSUME NEW S, NEW ms \in Seq(S), NEW m \in S, NEW now, NEW u
    PROVE  /\ \A i \in 1 .. Len(ms) + 1 :
                OpenBefore(ms, now, u, i) => OpenBefore(Append(ms, m), now, u, i)
           /\ Replaces(m, u) \/ (OpenBefore(ms, now, u, Len(ms) + 1) /\ ~Removes(m, u)) =>
                OpenBefore(Append(ms, m), now, u, Len(ms) + 2)
<1> DEFINE t == Append(ms, m)
<1>1. /\ Len(ms) \in Nat /\ DOMAIN ms = 1 .. Len(ms) /\ DOMAIN t = 1 .. Len(ms) + 1
      /\ \A i \in 1 .. Len(ms) : t[i] = ms[i]
      /\ t[Len(ms) + 1] = m
  BY AppendedFacts
<1> HIDE DEF t
<1>2. ASSUME NEW i \in 1 .. Len(ms) + 1, OpenBefore(ms, now, u, i)
      PROVE  OpenBefore(t, now, u, i)
  <2>1. CASE now /\ \A j \in DOMAIN ms : j < i => ~Removes(ms[j], u)
    <3>1. \A j \in DOMAIN t : j < i => j \in 1 .. Len(ms)
      BY <1>1
    <3> QED BY <1>1, <2>1, <3>1 DEF OpenBefore
  <2>2. ASSUME NEW k \in DOMAIN ms, k < i, Replaces(ms[k], u),
               \A j \in DOMAIN ms : k < j /\ j < i => ~Removes(ms[j], u)
        PROVE  OpenBefore(t, now, u, i)
    <3>1. \A j \in DOMAIN t : j < i => j \in 1 .. Len(ms)
      BY <1>1
    <3>2. k \in DOMAIN t /\ t[k] = ms[k]
      BY <1>1
    <3> QED BY <1>1, <2>2, <3>1, <3>2 DEF OpenBefore
  <2> QED BY <1>2, <2>1, <2>2 DEF OpenBefore
<1>3. ASSUME Replaces(m, u) PROVE OpenBefore(t, now, u, Len(ms) + 2)
  <2>1. \A j \in DOMAIN t : ~(Len(ms) + 1 < j /\ j < Len(ms) + 2)
    BY <1>1
  <2>2. Len(ms) + 1 \in DOMAIN t /\ Len(ms) + 1 < Len(ms) + 2
    BY <1>1
  <2> QED BY <1>1, <1>3, <2>1, <2>2 DEF OpenBefore
<1>4. ASSUME OpenBefore(ms, now, u, Len(ms) + 1), ~Removes(m, u)
      PROVE  OpenBefore(t, now, u, Len(ms) + 2)
  <2>1. \A j \in DOMAIN t : (j \in DOMAIN ms /\ t[j] = ms[j] /\ j < Len(ms) + 1) \/ ~Removes(t[j], u)
    BY <1>1, <1>4
  <2>2. CASE now /\ \A j \in DOMAIN ms : j < Len(ms) + 1 => ~Removes(ms[j], u)
    BY <2>1, <2>2 DEF OpenBefore
  <2>3. ASSUME NEW k \in DOMAIN ms, Replaces(ms[k], u),
               \A j \in DOMAIN ms : k < j /\ j < Len(ms) + 1 => ~Removes(ms[j], u)
        PROVE  OpenBefore(t, now, u, Len(ms) + 2)
    <3>1. k \in DOMAIN t /\ t[k] = ms[k] /\ k < Len(ms) + 2
      BY <1>1
    <3> QED BY <2>1, <2>3, <3>1 DEF OpenBefore
  <2> QED BY <1>4, <2>2, <2>3 DEF OpenBefore
<1> QED BY <1>2, <1>3, <1>4 DEF t

LEMMA OpenTaken ==
    ASSUME NEW S, NEW ms \in Seq(S), ms # <<>>, NEW now, NEW later, NEW u, NEW i \in Nat,
           i + 1 \in 1 .. Len(ms) + 1, i >= 1, OpenBefore(ms, now, u, i + 1),
           Replaces(Head(ms), u) \/ (now /\ ~Removes(Head(ms), u)) => later
    PROVE  OpenBefore(Tail(ms), later, u, i)
<1> DEFINE t == Tail(ms)
<1>1. /\ Len(ms) \in Nat /\ DOMAIN ms = 1 .. Len(ms) /\ 1 \in DOMAIN ms /\ Head(ms) = ms[1]
      /\ DOMAIN t = 1 .. Len(ms) - 1 /\ \A j \in DOMAIN t : j + 1 \in DOMAIN ms /\ t[j] = ms[j + 1]
  BY TakenFacts
<1> HIDE DEF t
<1>2. \A j \in DOMAIN t : (j < i <=> j + 1 < i + 1) /\ 1 < j + 1
  BY <1>1
<1>3. 1 < i + 1
  OBVIOUS
<1>4. CASE now /\ \A j \in DOMAIN ms : j < i + 1 => ~Removes(ms[j], u)
  BY <1>1, <1>2, <1>3, <1>4 DEF OpenBefore, t
<1>5. ASSUME NEW k \in DOMAIN ms, k < i + 1, Replaces(ms[k], u),
             \A j \in DOMAIN ms : k < j /\ j < i + 1 => ~Removes(ms[j], u)
      PROVE  OpenBefore(t, later, u, i)
  <2>1. CASE k = 1
    BY <1>1, <1>2, <1>5, <2>1 DEF OpenBefore
  <2>2. CASE k # 1
    <3>1. k - 1 \in DOMAIN t /\ t[k - 1] = ms[k] /\ k - 1 < i
      BY <1>1, <1>5, <2>2
    <3>2. \A j \in DOMAIN t : k - 1 < j /\ j < i => ~Removes(t[j], u)
      <4>1. \A j \in DOMAIN t : k - 1 < j => k < j + 1
        BY <1>1
      <4> QED BY <1>1, <1>2, <1>5, <4>1
    <3> QED BY <1>5, <3>1, <3>2 DEF OpenBefore
  <2> QED BY <2>1, <2>2
<1> QED BY <1>4, <1>5 DEF OpenBefore, t

LEMMA AgreedSent ==
    ASSUME TokenTypes, Agreed, NEW m \in Questions \cup Notices,
           messages' = Append(messages, m), UNCHANGED doc, wanted' \subseteq Uris,
           \A u \in wanted' : Replaces(m, u) \/ (u \in wanted /\ ~Removes(m, u)),
           \A u \in Uris : Removes(m, u) => u \in wanted
    PROVE  Agreed'
<1>1. messages \in Seq(Questions \cup Notices)
  BY DEF TokenTypes
<1>2. /\ Len(messages) \in Nat /\ Len(messages') = Len(messages) + 1 /\ DOMAIN messages = 1 .. Len(messages)
      /\ \A i \in 1 .. Len(messages) : messages'[i] = messages[i]
      /\ messages'[Len(messages) + 1] = m
      /\ \A i \in DOMAIN messages' : i \in 1 .. Len(messages) \/ i = Len(messages) + 1
  BY <1>1, AppendedFacts
<1>3. ASSUME NEW u \in wanted' PROVE OpenBefore(messages', doc'[u] # 0, u, Len(messages') + 1)
  <2>1. Replaces(m, u) \/ (OpenBefore(messages, doc[u] # 0, u, Len(messages) + 1) /\ ~Removes(m, u))
    BY DEF Agreed
  <2>2. OpenBefore(messages', doc[u] # 0, u, Len(messages) + 2)
    BY <1>1, <2>1, OpenAppended
  <2>3. Len(messages') + 1 = Len(messages) + 2
    BY <1>2
  <2> QED BY <2>2, <2>3
<1>4. ASSUME NEW u \in Uris, NEW i \in DOMAIN messages', Removes(messages'[i], u)
      PROVE  OpenBefore(messages', doc'[u] # 0, u, i)
  <2>1. i \in 1 .. Len(messages) + 1
    BY <1>2
  <2>2. OpenBefore(messages, doc[u] # 0, u, i)
    BY <1>2, <1>4 DEF Agreed
  <2> QED BY <1>1, <2>1, <2>2, OpenAppended
<1> QED BY <1>3, <1>4 DEF Agreed

LEMMA AgreedTaken ==
    ASSUME TokenTypes, Agreed, messages # <<>>, messages' = Tail(messages), UNCHANGED wanted,
           \A u \in Uris : Replaces(Head(messages), u) \/ (doc[u] # 0 /\ ~Removes(Head(messages), u))
                             => doc'[u] # 0
    PROVE  Agreed'
<1>1. messages \in Seq(Questions \cup Notices) /\ wanted \subseteq Uris
  BY DEF TokenTypes
<1>2. /\ Len(messages) \in Nat /\ Len(messages') = Len(messages) - 1 /\ DOMAIN messages = 1 .. Len(messages)
      /\ 1 \in DOMAIN messages /\ DOMAIN messages' = 1 .. Len(messages) - 1
      /\ \A i \in DOMAIN messages' : i + 1 \in DOMAIN messages /\ messages'[i] = messages[i + 1]
  BY <1>1, TakenFacts
<1>3. ASSUME NEW u \in Uris, NEW i \in Nat, i >= 1, i + 1 \in 1 .. Len(messages) + 1,
             OpenBefore(messages, doc[u] # 0, u, i + 1)
      PROVE  OpenBefore(messages', doc'[u] # 0, u, i)
  BY <1>1, <1>3, OpenTaken
<1>4. ASSUME NEW u \in wanted' PROVE OpenBefore(messages', doc'[u] # 0, u, Len(messages') + 1)
  <2>1. /\ Len(messages') + 1 \in Nat /\ Len(messages') + 1 >= 1
        /\ (Len(messages') + 1) + 1 \in 1 .. Len(messages) + 1
        /\ (Len(messages') + 1) + 1 = Len(messages) + 1
    BY <1>2
  <2>2. u \in Uris /\ OpenBefore(messages, doc[u] # 0, u, (Len(messages') + 1) + 1)
    BY <1>1, <2>1 DEF Agreed
  <2> QED BY <1>3, <2>1, <2>2
<1>5. ASSUME NEW u \in Uris, NEW i \in DOMAIN messages', Removes(messages'[i], u)
      PROVE  OpenBefore(messages', doc'[u] # 0, u, i)
  <2>1. i \in Nat /\ i >= 1 /\ i + 1 \in 1 .. Len(messages) + 1
    BY <1>2
  <2>2. OpenBefore(messages, doc[u] # 0, u, i + 1)
    BY <1>2, <1>5 DEF Agreed
  <2> QED BY <1>3, <2>1, <2>2
<1> QED BY <1>4, <1>5 DEF Agreed

LEMMA AgreedStays ==
    ASSUME Agreed, UNCHANGED <<messages, doc, wanted>>
    PROVE  Agreed'
BY DEF Agreed

(***************************************************************************)
(* What the client sends.                                                  *)
(***************************************************************************)
ClientStep == Opens \/ Changes \/ Closes \/ Renames \/ AsksFull \/ AsksDelta \/ AsksRange

\* A document that is sent is dirty; it is clean when it is asked for.
Sends(m) ==
  /\ m.k # "refreshed" /\ messages' = Append(messages, m)
  /\ wanted' \subseteq Uris
  /\ \A u \in wanted' : Replaces(m, u) \/ (u \in wanted /\ ~Removes(m, u))
  /\ \A u \in Uris : Removes(m, u) => u \in wanted
  /\ \A u \in wanted' \ dirty' : ~Replaces(m, u) /\ (AsksAbout(m, u) \/ u \in wanted \ dirty)

LEMMA ClientSendsOne ==
    ASSUME TokenTypes, ClientStep
    PROVE  UNCHANGED held /\ ServerUnchanged /\ \E m \in Questions \cup Notices : Sends(m)
<1>0. wanted \subseteq Uris /\ dirty \subseteq Uris
  BY DEF TokenTypes
<1>1. UNCHANGED held /\ ServerUnchanged
  BY DEF ClientStep, Opens, Changes, Closes, Renames, AsksFull, AsksDelta, AsksRange
<1> USE DEF SendsMessage, Sends, Replaces, Removes, AsksAbout
<1>2. CASE Opens
  <2>1. PICK u \in Uris \ wanted : /\ SendsMessage([k |-> "text", u |-> u])
                                   /\ wanted' = wanted \cup {u} /\ dirty' = dirty \cup {u}
    BY <1>2 DEF Opens
  <2>2. [k |-> "text", u |-> u] \in Questions \cup Notices
    BY DEF Notices
  <2>3. Sends([k |-> "text", u |-> u])
    BY <1>0, <2>1
  <2> QED BY <1>1, <2>2, <2>3
<1>3. CASE Changes
  <2>1. PICK u \in wanted : /\ SendsMessage([k |-> "text", u |-> u])
                            /\ wanted' = wanted /\ dirty' = dirty \cup {u}
    BY <1>3 DEF Changes
  <2>2. [k |-> "text", u |-> u] \in Questions \cup Notices
    BY <1>0 DEF Notices
  <2>3. Sends([k |-> "text", u |-> u])
    BY <1>0, <2>1
  <2> QED BY <1>1, <2>2, <2>3
<1>4. CASE Closes
  <2>1. PICK u \in wanted : /\ SendsMessage([k |-> "close", u |-> u])
                            /\ wanted' = wanted \ {u} /\ dirty' = dirty \ {u}
    BY <1>4 DEF Closes
  <2>2. [k |-> "close", u |-> u] \in Questions \cup Notices
    BY <1>0 DEF Notices
  <2>3. Sends([k |-> "close", u |-> u])
    BY <1>0, <2>1
  <2> QED BY <1>1, <2>2, <2>3
<1>5. CASE Renames
  <2>1. PICK u \in wanted, v \in Uris \ wanted :
          /\ SendsMessage([k |-> "rename", u |-> u, v |-> v])
          /\ wanted' = (wanted \ {u}) \cup {v} /\ dirty' = (dirty \ {u}) \cup {v}
    BY <1>5 DEF Renames
  <2>2. [k |-> "rename", u |-> u, v |-> v] \in Questions \cup Notices
    BY <1>0 DEF Notices, Renamings
  <2>3. Sends([k |-> "rename", u |-> u, v |-> v])
    BY <1>0, <2>1
  <2> QED BY <1>1, <2>2, <2>3
<1>6. ASSUME NEW u \in Uris, NEW k \in {"full", "delta", "range"},
             SendsMessage([k |-> k, u |-> u, base |-> held[u]]), wanted' = wanted,
             dirty' = (IF k = "range" THEN dirty ELSE dirty \ {u})
      PROVE  \E m \in Questions \cup Notices : Sends(m)
  <2>1. [k |-> k, u |-> u, base |-> held[u]] \in Questions \cup Notices
    BY DEF Questions, TokenTypes
  <2>2. Sends([k |-> k, u |-> u, base |-> held[u]])
    BY <1>0, <1>6
  <2> QED BY <2>1, <2>2
<1>7. CASE AsksFull
  BY <1>0, <1>1, <1>6, <1>7 DEF AsksFull
<1>8. CASE AsksDelta
  BY <1>0, <1>1, <1>6, <1>8 DEF AsksDelta
<1>9. CASE AsksRange
  BY <1>0, <1>1, <1>6, <1>9 DEF AsksRange
<1> QED BY <1>2, <1>3, <1>4, <1>5, <1>7, <1>8, <1>9 DEF ClientStep

LEMMA FollowedSent ==
    ASSUME TokenTypes, NEW m \in Questions \cup Notices, messages' = Append(messages, m),
           UNCHANGED handling, NEW u, ~Replaces(m, u), m.k # "refreshed",
           AsksAbout(m, u) \/ Followed(u)
    PROVE  Followed(u)'
<1>1. /\ Len(messages) \in Nat /\ DOMAIN messages = 1 .. Len(messages)
      /\ \A i \in 1 .. Len(messages) : i \in DOMAIN messages' /\ messages'[i] = messages[i]
      /\ Len(messages) + 1 \in DOMAIN messages' /\ messages'[Len(messages) + 1] = m
      /\ \A i \in DOMAIN messages' : i \in 1 .. Len(messages) \/ i = Len(messages) + 1
  BY AppendedFacts DEF TokenTypes
<1>2. ASSUME NEW i \in DOMAIN messages', Replaces(messages'[i], u) \/ Acknowledgement(i)'
      PROVE  \E j \in DOMAIN messages' : i < j /\ AsksAbout(messages'[j], u)
  <2>1. i \in 1 .. Len(messages) /\ (Replaces(messages[i], u) \/ Acknowledgement(i))
    BY <1>1, <1>2 DEF Acknowledgement
  <2>2. CASE AsksAbout(m, u)
    <3>1. i < Len(messages) + 1
      BY <1>1, <2>1
    <3> QED BY <1>1, <2>2, <3>1
  <2>3. CASE Followed(u)
    <3>1. PICK j \in DOMAIN messages : i < j /\ AsksAbout(messages[j], u)
      BY <1>1, <2>1, <2>3 DEF Followed
    <3> QED BY <1>1, <3>1
  <2> QED BY <2>2, <2>3
<1>3. AskedFor(u) \/ AsksAbout(m, u) => AskedFor(u)'
  BY <1>1 DEF AskedFor
<1>4. Opening(u)' <=> Opening(u)
  BY DEF Opening
<1> QED BY <1>2, <1>3, <1>4 DEF Followed

LEMMA ServedSent ==
    ASSUME TokenTypes, NEW m \in Questions \cup Notices, messages' = Append(messages, m), NEW u,
           AsksAbout(m, u) \/ Served(u),
           UNCHANGED <<held, queue, replies, job, content, refresh, handling, indexed, indexGeneration>>
    PROVE  Served(u)'
<1>1. /\ \A i \in DOMAIN messages : i \in DOMAIN messages' /\ messages'[i] = messages[i]
      /\ Len(messages) + 1 \in DOMAIN messages' /\ messages'[Len(messages) + 1] = m
  BY AppendedFacts DEF TokenTypes
<1>2. AskedFor(u) \/ AsksAbout(m, u) => AskedFor(u)'
  BY <1>1 DEF AskedFor
<1>3. RefreshComing => RefreshComing'
  BY <1>1 DEF RefreshComing, WillRefresh
<1> QED BY <1>2, <1>3 DEF Served, BeingAnswered

LEMMA OneRefreshSent ==
    ASSUME TokenTypes, OneRefresh, NEW m \in Questions \cup Notices,
           messages' = Append(messages, m), m.k # "refreshed", UNCHANGED refresh
    PROVE  OneRefresh'
<1>1. /\ Len(messages) \in Nat /\ DOMAIN messages = 1 .. Len(messages)
      /\ \A i \in 1 .. Len(messages) : i \in DOMAIN messages' /\ messages'[i] = messages[i]
      /\ messages'[Len(messages) + 1] = m
      /\ \A i \in DOMAIN messages' : i \in 1 .. Len(messages) \/ i = Len(messages) + 1
  BY AppendedFacts DEF TokenTypes
<1>2. \A i : Acknowledgement(i)' <=> Acknowledgement(i)
  BY <1>1 DEF Acknowledgement
<1> QED BY <1>1, <1>2 DEF OneRefresh, Acknowledgement

\* Only main and the notification it handles make a document ready.
LEMMA ReadyStays ==
    ASSUME Ready, UNCHANGED <<doc, semantics, indexed, indexGeneration, handling>>
    PROVE  Ready'
BY DEF Ready, Opening

LEMMA ClientNotices ==
    ASSUME TokenTypes, NoticeInv, ClientStep
    PROVE  NoticeInv'
<1>1. PICK m \in Questions \cup Notices : UNCHANGED held /\ ServerUnchanged /\ Sends(m)
  BY ClientSendsOne
<1>2. /\ messages' = Append(messages, m) /\ m.k # "refreshed"
      /\ UNCHANGED <<held, queue, replies, job, doc, semantics, content, refresh, handling, indexed,
                     indexGeneration>>
  BY <1>1 DEF Sends, ServerUnchanged, stores
<1>3. Agreed'
  BY <1>1, <1>2, AgreedSent DEF Sends, NoticeInv
<1>4. Ready' /\ OneRefresh'
  BY <1>2, ReadyStays, OneRefreshSent DEF NoticeInv
<1>5. ASSUME NEW u \in wanted' \ dirty' PROVE Followed(u)' /\ Served(u)'
  <2>1. ~Replaces(m, u) /\ (AsksAbout(m, u) \/ (Followed(u) /\ Served(u)))
    BY <1>1 DEF Sends, NoticeInv
  <2> QED BY <1>2, <2>1, FollowedSent, ServedSent
<1> QED BY <1>3, <1>4, <1>5 DEF NoticeInv

(***************************************************************************)
(* What is taken from the wire.                                            *)
(***************************************************************************)
LEMMA MessageTaken ==
    ASSUME TokenTypes, messages # <<>>, messages' = Tail(messages)
    PROVE  /\ 1 \in DOMAIN messages /\ Head(messages) = messages[1]
           /\ \A i \in DOMAIN messages : i \in Nat /\ i >= 1
           /\ \A i \in DOMAIN messages' : i \in Nat /\ i + 1 \in DOMAIN messages /\ messages'[i] = messages[i + 1]
           /\ \A i \in DOMAIN messages :
                i = 1 \/ (i - 1 \in DOMAIN messages' /\ messages'[i - 1] = messages[i])
<1>1. messages \in Seq(Questions \cup Notices)
  BY DEF TokenTypes
<1> QED BY <1>1, TakenFacts

LEMMA FollowedTaken ==
    ASSUME TokenTypes, messages # <<>>, messages' = Tail(messages), NEW u, Followed(u),
           Opening(u)' => Replaces(Head(messages), u)
    PROVE  /\ Followed(u)'
           /\ Replaces(Head(messages), u) \/ Head(messages).k = "refreshed" => AskedFor(u)'
<1>1. /\ 1 \in DOMAIN messages /\ Head(messages) = messages[1]
      /\ \A i \in DOMAIN messages : i \in Nat /\ i >= 1
      /\ \A i \in DOMAIN messages' : i \in Nat /\ i + 1 \in DOMAIN messages /\ messages'[i] = messages[i + 1]
      /\ \A i \in DOMAIN messages :
           i = 1 \/ (i - 1 \in DOMAIN messages' /\ messages'[i - 1] = messages[i])
  BY MessageTaken
<1>2. ASSUME NEW i \in DOMAIN messages', Replaces(messages'[i], u) \/ Acknowledgement(i)'
      PROVE  \E j \in DOMAIN messages' : i < j /\ AsksAbout(messages'[j], u)
  <2>1. i + 1 \in DOMAIN messages /\ (Replaces(messages[i + 1], u) \/ Acknowledgement(i + 1))
    BY <1>1, <1>2 DEF Acknowledgement
  <2>2. PICK j \in DOMAIN messages : i + 1 < j /\ AsksAbout(messages[j], u)
    BY <2>1 DEF Followed
  <2>3. j - 1 \in DOMAIN messages' /\ messages'[j - 1] = messages[j] /\ i < j - 1
    BY <1>1, <2>2
  <2> QED BY <2>2, <2>3
<1>3. ASSUME Replaces(Head(messages), u) \/ Head(messages).k = "refreshed"
      PROVE  AskedFor(u)'
  <2>1. PICK j \in DOMAIN messages : 1 < j /\ AsksAbout(messages[j], u)
    BY <1>1, <1>3 DEF Followed, Acknowledgement
  <2>2. j - 1 \in DOMAIN messages' /\ messages'[j - 1] = messages[j]
    BY <1>1, <2>1
  <2> QED BY <2>1, <2>2 DEF AskedFor
<1> QED BY <1>2, <1>3 DEF Followed

\* What waits behind the message that is taken still waits.
LEMMA WaitsTaken ==
    ASSUME TokenTypes, messages # <<>>, messages' = Tail(messages), NEW u
    PROVE  /\ AskedFor(u) => AskedFor(u)' \/ AsksAbout(Head(messages), u)
           /\ (\E i \in DOMAIN messages : Notifies(messages[i])) =>
                Notifies(Head(messages)) \/ \E i \in DOMAIN messages' : Notifies(messages'[i])
<1>1. /\ Head(messages) = messages[1]
      /\ \A i \in DOMAIN messages :
           i = 1 \/ (i - 1 \in DOMAIN messages' /\ messages'[i - 1] = messages[i])
  BY MessageTaken
<1> QED BY <1>1 DEF AskedFor

LEMMA OneRefreshTaken ==
    ASSUME TokenTypes, OneRefresh, messages # <<>>, messages' = Tail(messages),
           \/ Head(messages).k # "refreshed" /\ UNCHANGED refresh
           \/ Head(messages).k = "refreshed" /\ refresh' = "none"
    PROVE  OneRefresh'
<1>1. /\ 1 \in DOMAIN messages /\ Head(messages) = messages[1]
      /\ \A i \in DOMAIN messages' : i \in Nat /\ i + 1 \in DOMAIN messages /\ messages'[i] = messages[i + 1]
      /\ \A i \in DOMAIN messages : i \in Nat /\ i >= 1
      /\ \A i \in DOMAIN messages :
           i = 1 \/ (i - 1 \in DOMAIN messages' /\ messages'[i - 1] = messages[i])
  BY MessageTaken
<1>2. \A i \in DOMAIN messages' : i \in Nat /\ (Acknowledgement(i)' <=> Acknowledgement(i + 1))
  BY <1>1 DEF Acknowledgement
<1>3. \A i, j \in DOMAIN messages' : Acknowledgement(i)' /\ Acknowledgement(j)' => i = j
  <2>1. ASSUME NEW i \in DOMAIN messages', NEW j \in DOMAIN messages', Acknowledgement(i)', Acknowledgement(j)'
        PROVE  i = j
    <3>1. i + 1 = j + 1
      BY <1>1, <1>2, <2>1 DEF OneRefresh
    <3> QED BY <1>2, <3>1
  <2> QED BY <2>1
<1>4. CASE Head(messages).k # "refreshed" /\ UNCHANGED refresh
  <2>1. ASSUME refresh' = "acknowledged" PROVE \E i \in DOMAIN messages' : Acknowledgement(i)'
    <3>1. PICK i \in DOMAIN messages : Acknowledgement(i)
      BY <1>4, <2>1 DEF OneRefresh
    <3>2. i # 1
      BY <1>1, <1>4, <3>1 DEF Acknowledgement
    <3>3. i - 1 \in DOMAIN messages' /\ messages'[i - 1] = messages[i]
      BY <1>1, <3>2
    <3> QED BY <3>1, <3>3 DEF Acknowledgement
  <2>2. \A i \in DOMAIN messages' : Acknowledgement(i)' => refresh' = "acknowledged"
    BY <1>1, <1>2, <1>4 DEF OneRefresh
  <2> QED BY <1>3, <1>4, <2>1, <2>2 DEF OneRefresh
<1>5. CASE Head(messages).k = "refreshed" /\ refresh' = "none"
  <2>1. Acknowledgement(1)
    BY <1>1, <1>5 DEF Acknowledgement
  <2>2. ASSUME NEW i \in DOMAIN messages', Acknowledgement(i)' PROVE FALSE
    <3>1. i + 1 = 1
      BY <1>1, <1>2, <2>1, <2>2 DEF OneRefresh
    <3> QED BY <1>1, <3>1
  <2> QED BY <1>3, <1>5, <2>2 DEF OneRefresh
<1> QED BY <1>4, <1>5

\* What the client will show, as an answer is sent and as one arrives.
LEMMA ShowsAppended ==
    ASSUME NEW S, NEW rs \in Seq(S), NEW r \in S, NEW data, NEW u, NEW due,
           \/ WholeOf(r, u) /\ Denoted(r) = due
           \/ ~WholeOf(r, u) /\ Shows(rs, data, u, due)
    PROVE  Shows(Append(rs, r), data, u, due)
<1> DEFINE t == Append(rs, r)
<1>1. /\ Len(rs) \in Nat /\ DOMAIN rs = 1 .. Len(rs)
      /\ \A i \in 1 .. Len(rs) : i \in DOMAIN t /\ t[i] = rs[i]
      /\ Len(rs) + 1 \in DOMAIN t /\ t[Len(rs) + 1] = r
      /\ \A i \in DOMAIN t : i \in 1 .. Len(rs) \/ i = Len(rs) + 1
  BY AppendedFacts
<1> HIDE DEF t
<1>2. CASE WholeOf(r, u) /\ Denoted(r) = due
  <2>1. \A j \in DOMAIN t : ~(Len(rs) + 1 < j)
    BY <1>1
  <2> QED BY <1>1, <1>2, <2>1 DEF Shows, t
<1>3. CASE ~WholeOf(r, u) /\ Shows(rs, data, u, due)
  <2>1. \A i \in DOMAIN t : WholeOf(t[i], u) => i \in DOMAIN rs /\ t[i] = rs[i]
    BY <1>1, <1>3
  <2> QED BY <1>1, <1>3, <2>1 DEF Shows, t
<1> QED BY <1>2, <1>3

LEMMA ShowsTaken ==
    ASSUME NEW S, NEW rs \in Seq(S), rs # <<>>, NEW data, NEW later, NEW u, NEW due,
           Shows(rs, data, u, due),
           later = IF WholeOf(Head(rs), u) THEN Denoted(Head(rs)) ELSE data
    PROVE  Shows(Tail(rs), later, u, due)
<1> DEFINE t == Tail(rs)
<1>1. /\ DOMAIN rs = 1 .. Len(rs) /\ Len(rs) \in Nat /\ Head(rs) = rs[1] /\ 1 \in DOMAIN rs
      /\ DOMAIN t = 1 .. Len(rs) - 1
      /\ \A i \in DOMAIN t : i + 1 \in DOMAIN rs /\ t[i] = rs[i + 1]
      /\ \A i \in DOMAIN rs : i = 1 \/ (i - 1 \in DOMAIN t /\ t[i - 1] = rs[i])
  BY TakenFacts
<1> HIDE DEF t
<1>2. CASE data = due /\ \A i \in DOMAIN rs : ~WholeOf(rs[i], u)
  BY <1>1, <1>2 DEF Shows, t
<1>3. ASSUME NEW i \in DOMAIN rs, WholeOf(rs[i], u), Denoted(rs[i]) = due,
             \A j \in DOMAIN rs : i < j => ~WholeOf(rs[j], u)
      PROVE  Shows(t, later, u, due)
  <2>1. CASE i = 1
    <3>1. \A j \in DOMAIN t : 1 < j + 1
      BY <1>1
    <3>2. \A j \in DOMAIN t : ~WholeOf(t[j], u)
      BY <1>1, <1>3, <2>1, <3>1
    <3>3. later = due
      BY <1>1, <1>3, <2>1
    <3> QED BY <3>2, <3>3 DEF Shows
  <2>2. CASE i # 1
    <3>1. i - 1 \in DOMAIN t /\ t[i - 1] = rs[i]
      BY <1>1, <2>2
    <3>2. \A j \in DOMAIN t : i - 1 < j => i < j + 1
      BY <1>1
    <3>3. \A j \in DOMAIN t : i - 1 < j => ~WholeOf(t[j], u)
      BY <1>1, <1>3, <3>2
    <3> QED BY <1>3, <3>1, <3>3 DEF Shows
  <2> QED BY <2>1, <2>2
<1> QED BY <1>2, <1>3 DEF Shows, t

\* A refusal, once received, makes the client ask again; an answer is shown.
LEMMA ReceivesNotices ==
    ASSUME TokenTypes, NoticeInv, Receives
    PROVE  NoticeInv'
<1> DEFINE r == Head(replies)
<1>1. /\ replies # <<>> /\ replies' = Tail(replies)
      /\ held' = IF r.k \in {"edits", "data"}
                 THEN [held EXCEPT ![r.u] = [id |-> r.id, data |-> Denoted(r)]] ELSE held
      /\ dirty' = IF r.k = "error" /\ r.u \in wanted THEN dirty \cup {r.u} ELSE dirty
      /\ UNCHANGED <<wanted, messages, queue, doc, semantics, indexed, indexGeneration, content,
                     handling, job, refresh>>
  BY DEF Receives, stores
<1>2. replies \in Seq(Replied) /\ r \in Replied /\ r.u \in Uris
  BY <1>1, TakeFacts, ReplyFacts DEF TokenTypes
<1>3. Agreed' /\ Ready' /\ OneRefresh'
  BY <1>1, AgreedStays, ReadyStays DEF NoticeInv, OneRefresh, Acknowledgement
<1>4. ASSUME NEW u \in wanted' \ dirty' PROVE Followed(u)' /\ Served(u)'
  <2>1. u \in wanted \ dirty /\ u \in Uris /\ ~(r.k = "error" /\ r.u = u)
    BY <1>1 DEF TokenTypes
  <2>2. Followed(u) /\ Served(u)
    BY <2>1 DEF NoticeInv
  <2>3. Followed(u)'
    BY <1>1, <2>2 DEF Followed, Acknowledgement, Opening, AskedFor
  <2>4. CASE AskedFor(u) \/ RefreshComing
    BY <1>1, <2>3, <2>4 DEF Served, AskedFor, RefreshComing, WillRefresh
  <2>5. CASE BeingAnswered(u)
    <3>1. /\ replies[1] = r
          /\ \A i \in DOMAIN replies :
               i = 1 \/ (i - 1 \in DOMAIN replies' /\ replies'[i - 1] = replies[i])
      BY <1>1, <1>2, TakenFacts
    <3>2. (\E i \in DOMAIN replies : replies[i].u = u /\ replies[i].k = "error")
            => \E i \in DOMAIN replies' : replies'[i].u = u /\ replies'[i].k = "error"
      BY <2>1, <3>1
    <3> QED BY <1>1, <2>3, <2>5, <3>2 DEF Served, BeingAnswered
  <2>6. CASE Shows(replies, held[u].data, u, content[u])
    <3>1. held'[u].data = IF WholeOf(r, u) THEN Denoted(r) ELSE held[u].data
      <4>1. CASE r.k \in {"edits", "data"}
        <5>1. held' = [held EXCEPT ![r.u] = [id |-> r.id, data |-> Denoted(r)]]
          BY <1>1, <4>1
        <5> HIDE DEF r
        <5> QED BY <1>2, <2>1, <4>1, <5>1 DEF TokenTypes, WholeOf
      <4>2. CASE r.k \notin {"edits", "data"}
        BY <1>1, <4>2 DEF WholeOf
      <4> QED BY <4>1, <4>2
    <3>2. Shows(replies', held'[u].data, u, content[u])
      BY <1>1, <1>2, <2>6, <3>1, ShowsTaken
    <3> QED BY <1>1, <2>3, <3>2 DEF Served
  <2> QED BY <2>2, <2>3, <2>4, <2>5, <2>6 DEF Served
<1> QED BY <1>3, <1>4 DEF NoticeInv

\* Once the refresh is acknowledged, every document is to be asked for.
LEMMA RefreshesNotices ==
    ASSUME TokenTypes, NoticeInv, Refreshes
    PROVE  NoticeInv'
<1> DEFINE m == [k |-> "refreshed"]
<1>1. /\ refresh = "sent" /\ refresh' = "acknowledged" /\ messages' = Append(messages, m)
      /\ dirty' = wanted
      /\ UNCHANGED <<wanted, doc, semantics, indexed, indexGeneration, handling>>
  BY DEF Refreshes, stores
<1>2. m \in Questions \cup Notices /\ m.k = "refreshed"
  BY DEF Notices
<1>3. Agreed'
  <2>1. \A u : ~Removes(m, u)
    BY DEF Removes
  <2> QED BY <1>1, <1>2, <2>1, AgreedSent DEF NoticeInv, TokenTypes
<1>4. OneRefresh'
  <2>1. PICK n : n = Len(messages) + 1
    OBVIOUS
  <2>2. /\ \A i \in DOMAIN messages' : (i \in DOMAIN messages /\ messages'[i] = messages[i]) \/ i = n
        /\ n \in DOMAIN messages' /\ messages'[n] = m
    BY <1>1, <1>2, <2>1, AppendedFacts DEF TokenTypes
  <2>3. \A i \in DOMAIN messages : ~Acknowledgement(i)
    BY <1>1 DEF NoticeInv, OneRefresh
  <2>4. \A i \in DOMAIN messages' : Acknowledgement(i)' => i = n
    BY <2>2, <2>3 DEF Acknowledgement
  <2>5. n \in DOMAIN messages' /\ Acknowledgement(n)'
    BY <1>2, <2>2 DEF Acknowledgement
  <2> QED BY <1>1, <2>4, <2>5 DEF OneRefresh
<1>5. Ready'
  BY <1>1, ReadyStays DEF NoticeInv
<1>6. wanted' \ dirty' = {}
  BY <1>1
<1> QED BY <1>3, <1>4, <1>5, <1>6 DEF NoticeInv

LEMMA DispatchesNotices ==
    ASSUME TokenTypes, NoticeInv, Dispatches \/ RefreshCompleted
    PROVE  NoticeInv'
<1> DEFINE m == Head(messages)
<1>1. /\ handling.at = "idle" /\ messages # <<>> /\ messages' = Tail(messages)
      /\ UNCHANGED <<held, dirty, wanted, replies, job, doc, semantics, indexed, indexGeneration,
                     content, handling>>
      /\ \/ m.k \in {"full", "delta", "range"} /\ queue' = Append(queue, m) /\ refresh' = refresh
         \/ m.k = "refreshed" /\ refresh' = "none" /\ queue' = queue
  BY DEF Dispatches, RefreshCompleted, OnMain, editorVars, stores
<1>2. ~Notifies(m) /\ \A u : ~Replaces(m, u) /\ ~Removes(m, u) /\ ~Opening(u)'
  BY <1>1 DEF Notifies, Replaces, Removes, Opening
<1>3. m.k \in {"full", "delta", "range"} => m \in Questions
  <2>1. m \in Questions \cup Notices
    BY <1>1, TakeFacts DEF TokenTypes
  <2> QED BY <2>1 DEF Notices, Renamings
<1>4. Agreed'
  BY <1>1, <1>2, AgreedTaken DEF NoticeInv
<1>5. Ready' /\ OneRefresh'
  BY <1>1, ReadyStays, OneRefreshTaken DEF NoticeInv
<1>6. ASSUME NEW u \in wanted' \ dirty' PROVE Followed(u)' /\ Served(u)'
  <2>1. Followed(u) /\ Served(u)
    BY <1>1, <1>6 DEF NoticeInv
  <2>2. Followed(u)' /\ (m.k = "refreshed" => AskedFor(u)')
    BY <1>1, <1>2, <2>1, FollowedTaken
  <2>3. BeingAnswered(u) => BeingAnswered(u)'
    <3>1. \A i \in DOMAIN queue : i \in DOMAIN queue' /\ queue'[i] = queue[i]
      <4>1. CASE m \in Questions /\ queue' = Append(queue, m)
        BY <4>1, AppendedFacts DEF TokenTypes
      <4>2. CASE queue' = queue
        BY <4>2
      <4> QED BY <1>1, <1>3, <4>1, <4>2
    <3> QED BY <1>1, <3>1 DEF BeingAnswered
  <2>4. AskedFor(u) => AskedFor(u)' \/ BeingAnswered(u)'
    <3>1. AskedFor(u) => AskedFor(u)' \/ AsksAbout(m, u)
      BY <1>1, WaitsTaken
    <3>2. ASSUME AsksAbout(m, u) PROVE BeingAnswered(u)'
      <4>1. m \in Questions /\ queue' = Append(queue, m)
        BY <1>1, <1>3, <3>2 DEF AsksAbout
      <4>2. Len(queue) + 1 \in DOMAIN queue' /\ queue'[Len(queue) + 1] = m
        BY <4>1, AppendedFacts DEF TokenTypes
      <4> QED BY <3>2, <4>2 DEF BeingAnswered
    <3> QED BY <3>1, <3>2
  <2>5. RefreshComing => RefreshComing' \/ AskedFor(u)'
    BY <1>1, <1>2, <2>2, WaitsTaken DEF RefreshComing, WillRefresh
  <2> QED BY <1>1, <2>1, <2>2, <2>3, <2>4, <2>5 DEF Served
<1> QED BY <1>4, <1>5, <1>6 DEF NoticeInv

\* A job that ends is answered or refused.
LEMMA WorkerServes ==
    ASSUME TokenInv, WorkerStep, NEW u \in Uris,
           BeingAnswered(u) \/ Shows(replies, held[u].data, u, content[u])
    PROVE  BeingAnswered(u)' \/ Shows(replies, held[u].data, u, content[u])'
<1>0. TokenTypes /\ ReadIsCurrent /\ OneDataPerId /\ replies \in Seq(Replied)
  BY DEF TokenInv, TokenTypes
<1>1. UNCHANGED <<held, content>>
  BY DEF WorkerStep, TakesRequest, ReadsTokens, CommitsTokens, RepliesRange, ChecksIdentity,
       StoresTokens, OnWorker, editorVars, stores
\* An answer to one request leaves what the others wait for.
<1>2. ASSUME job.at # "idle", UNCHANGED queue, NEW r \in Replied, Replies(r), r.u = job.u,
             \/ r.k = "error"
             \/ r.k = "range" /\ job.k = "range"
             \/ WholeOf(r, job.u) /\ Denoted(r) = content[job.u]
      PROVE  BeingAnswered(u)' \/ Shows(replies, held[u].data, u, content[u])'
  <2>1. replies' = Append(replies, r)
    BY <1>2 DEF Replies
  <2>2. /\ \A i \in DOMAIN replies : i \in DOMAIN replies' /\ replies'[i] = replies[i]
        /\ Len(replies) + 1 \in DOMAIN replies' /\ replies'[Len(replies) + 1] = r
    BY <1>0, <2>1, AppendedFacts
  <2>3. CASE u = job.u /\ r.k = "error"
    BY <2>2, <2>3, <1>2 DEF BeingAnswered
  <2>4. CASE u = job.u /\ WholeOf(r, job.u) /\ Denoted(r) = content[job.u]
    BY <1>0, <1>1, <2>1, <2>4, ShowsAppended
  <2>5. CASE u # job.u \/ job.k = "range"
    <3>1. ~AsksAbout(job, u)
      BY <2>5 DEF AsksAbout
    <3>2. CASE BeingAnswered(u)
      BY <1>2, <2>2, <3>1, <3>2 DEF BeingAnswered
    <3>3. CASE Shows(replies, held[u].data, u, content[u])
      <4>1. CASE WholeOf(r, u)
        BY <1>0, <1>1, <1>2, <2>1, <4>1, ShowsAppended DEF WholeOf
      <4>2. CASE ~WholeOf(r, u)
        BY <1>0, <1>1, <2>1, <3>3, <4>2, ShowsAppended
      <4> QED BY <4>1, <4>2
    <3> QED BY <3>2, <3>3
  <2> QED BY <1>2, <2>3, <2>4, <2>5
<1>3. ASSUME job.at # "idle", UNCHANGED queue, Fails
      PROVE  BeingAnswered(u)' \/ Shows(replies, held[u].data, u, content[u])'
  <2>1. [k |-> "error", u |-> job.u] \in Replied
    BY <1>0, <1>3, JobTypes DEF Replied
  <2> QED BY <1>2, <1>3, <2>1 DEF Fails
\* A job that goes on is still about the same document.
<1>4. ASSUME job.at # "idle", UNCHANGED <<queue, replies>>, job'.at # "idle",
             job'.k = job.k, job'.u = job.u
      PROVE  BeingAnswered(u)' \/ Shows(replies, held[u].data, u, content[u])'
  BY <1>1, <1>4 DEF BeingAnswered, AsksAbout
<1>5. CASE TakesRequest
  <2>1. /\ job.at = "idle" /\ queue # <<>> /\ queue' = Tail(queue)
        /\ job'.at = "reading" /\ job'.k = Head(queue).k /\ job'.u = Head(queue).u
        /\ UNCHANGED replies
    BY <1>5 DEF TakesRequest
  <2>2. /\ Head(queue) = queue[1]
        /\ \A i \in DOMAIN queue : i = 1 \/ (i - 1 \in DOMAIN queue' /\ queue'[i - 1] = queue[i])
    BY <1>0, <2>1, TakenFacts DEF TokenTypes
  <2>3. BeingAnswered(u) => BeingAnswered(u)'
    BY <2>1, <2>2 DEF BeingAnswered, AsksAbout
  <2> QED BY <1>1, <2>1, <2>3
<1>6. CASE ReadsTokens
  <2>1. CASE doc[job.u] = 0
    BY <1>3, <1>6, <2>1 DEF ReadsTokens
  <2>2. CASE doc[job.u] # 0
    <3>1. job \in Jobs
      BY <1>0, <1>6, JobTypes DEF ReadsTokens
    <3>2. job'.at # "idle" /\ job'.k = job.k /\ job'.u = job.u
      BY <1>6, <2>2, <3>1 DEF ReadsTokens, Jobs
    <3> QED BY <1>4, <1>6, <2>2, <3>2 DEF ReadsTokens
  <2> QED BY <2>1, <2>2
<1>7. CASE CommitsTokens
  <2>1. CASE job.read # Identity(job.u)
    BY <1>3, <1>7, <2>1 DEF CommitsTokens
  <2>2. CASE job.read = Identity(job.u)
    <3>1. job \in Jobs
      BY <1>0, <1>7, JobTypes DEF CommitsTokens
    <3>2. job'.at # "idle" /\ job'.k = job.k /\ job'.u = job.u
      BY <1>7, <2>2, <3>1 DEF CommitsTokens, Jobs
    <3> QED BY <1>4, <1>7, <2>2, <3>2 DEF CommitsTokens
  <2> QED BY <2>1, <2>2
<1>8. CASE RepliesRange
  <2>1. [k |-> "range", u |-> job.u] \in Replied
    BY <1>0, <1>8, JobTypes DEF RepliesRange, Replied
  <2> QED BY <1>2, <1>8, <2>1 DEF RepliesRange
<1>9. CASE ChecksIdentity
  <2>1. CASE job.identity # Identity(job.u)
    BY <1>3, <1>9, <2>1 DEF ChecksIdentity
  <2>2. CASE job.identity = Identity(job.u)
    <3>1. job \in Jobs
      BY <1>0, <1>9, JobTypes DEF ChecksIdentity
    <3>2. job'.at # "idle" /\ job'.k = job.k /\ job'.u = job.u
      BY <1>9, <2>2, <3>1 DEF ChecksIdentity, Jobs
    <3> QED BY <1>4, <1>9, <2>2, <3>2 DEF ChecksIdentity
  <2> QED BY <2>1, <2>2
<1>10. CASE StoresTokens
  <2>1. CASE job.identity # Identity(job.u)
    BY <1>3, <1>10, <2>1 DEF StoresTokens
  <2>2. CASE job.identity = Identity(job.u)
    <3>1. counter + 1 \in Nat
      BY <1>0 DEF TokenTypes
    <3>2. PICK r \in Replied : /\ Replies(r) /\ r.k \in {"edits", "data"} /\ r.u = job.u
                               /\ Denoted(r) = job.data
      BY <1>0, <1>10, <2>2, <3>1, KnownFacts, StoredTypes DEF StoresTokens
    <3>3. job.data = content[job.u]
      BY <1>0, <1>10, <2>2, StoresCurrent DEF StoresTokens
    <3>4. WholeOf(r, job.u) /\ Denoted(r) = content[job.u]
      BY <3>2, <3>3 DEF WholeOf
    <3> QED BY <1>2, <1>10, <3>2, <3>4 DEF StoresTokens
  <2> QED BY <2>1, <2>2
<1> QED BY <1>5, <1>6, <1>7, <1>8, <1>9, <1>10 DEF WorkerStep

LEMMA WorkerNotices ==
    ASSUME TokenInv, NoticeInv, WorkerStep
    PROVE  NoticeInv'
<1>1. UNCHANGED <<held, dirty, wanted, messages, doc, semantics, indexed, indexGeneration, content,
                  handling, refresh>>
  BY DEF WorkerStep, TakesRequest, ReadsTokens, CommitsTokens, RepliesRange, ChecksIdentity,
       StoresTokens, OnWorker, editorVars, stores
<1>2. Agreed' /\ Ready' /\ OneRefresh'
  BY <1>1, AgreedStays, ReadyStays DEF NoticeInv, OneRefresh, Acknowledgement
<1>3. ASSUME NEW u \in wanted' \ dirty' PROVE Followed(u)' /\ Served(u)'
  <2>1. Followed(u) /\ Served(u) /\ u \in Uris
    BY <1>1, <1>3 DEF NoticeInv, TokenInv, TokenTypes
  <2>2. Followed(u)'
    BY <1>1, <2>1 DEF Followed, Acknowledgement, Opening, AskedFor
  <2>3. AskedFor(u) \/ RefreshComing => Served(u)'
    BY <1>1 DEF Served, AskedFor, RefreshComing, WillRefresh
  <2> QED BY <2>1, <2>2, <2>3, WorkerServes DEF Served
<1> QED BY <1>2, <1>3 DEF NoticeInv

(***************************************************************************)
(* What main does.                                                         *)
(***************************************************************************)
Arrives == TextArrives \/ DocumentCloses \/ RenameArrives
Advances == Publishes \/ Reindexes \/ Unindexes \/ EndsChange \/ Forgets \/ MovesAway

LEMMA MainLeaves ==
    ASSUME MainStep
    PROVE  UNCHANGED <<held, dirty, wanted, sent, replies, job, queue>>
BY DEF MainStep, TextArrives, Publishes, Reindexes, DocumentCloses, Unindexes,
       EndsChange, Forgets, RenameArrives, MovesAway, OnMain, editorVars

\* What a notification that arrives replaces and removes.
LEMMA ArrivesFacts ==
    ASSUME TokenTypes, Ordered, Arrives
    PROVE  LET m == Head(messages) IN
           /\ messages # <<>> /\ messages' = Tail(messages) /\ handling.at = "idle"
           /\ Notifies(m) /\ m.u \in Uris
           /\ UNCHANGED <<semantics, indexed, indexGeneration, refresh>>
           /\ doc' \in [Uris -> Nat]
           /\ \A u \in Uris : (doc'[u] # 0 <=> Replaces(m, u) \/ (doc[u] # 0 /\ ~Removes(m, u)))
           /\ \A u \in Uris : Replaces(m, u) => Opening(u)'
           /\ \A u \in Uris : ~Replaces(m, u) => ~Opening(u)'
           /\ \A u \in Uris : ~Replaces(m, u) /\ ~Removes(m, u) => doc'[u] = doc[u] /\ content'[u] = content[u]
           /\ handling'.at \in {"parsing", "closing", "moving"} /\ handling'.u = m.u
           /\ handling'.at = "closing" => Removes(m, m.u)
           /\ handling'.before = indexGeneration
           /\ handling'.others <=> OthersIndexed(m.u) \/ m.k = "rename"
<1>0. /\ doc \in [Uris -> Nat] /\ content \in [Uris -> Data] /\ Fresh = handling.id + 1 /\ handling.id \in Nat
  BY FreshIsNext DEF TokenTypes
<1>1. Fresh \in Nat /\ Fresh # 0
  BY <1>0
<1> USE DEF Replaces, Removes, Notifies, Opening, ReadsMessage, Handles
<1>2. CASE TextArrives
  <2>1. PICK u \in Uris :
          /\ ReadsMessage([k |-> "text", u |-> u])
          /\ doc' = [doc EXCEPT ![u] = Fresh] /\ content' = [content EXCEPT ![u] = <<>>]
          /\ handling' = Handles("parsing", u, u, Fresh, OthersIndexed(u))
          /\ UNCHANGED <<semantics, indexed, indexGeneration, refresh>>
    BY <1>2 DEF TextArrives
  <2>2. Head(messages).k = "text" /\ Head(messages).u = u
    BY <2>1
  <2>3. doc' \in [Uris -> Nat] /\ \A w \in Uris : /\ doc'[w] = IF w = u THEN Fresh ELSE doc[w]
                                                  /\ w # u => content'[w] = content[w]
    BY <1>0, <1>1, <2>1
  <2>4. /\ handling'.at = "parsing" /\ handling'.u = u /\ handling'.before = indexGeneration
        /\ handling'.others = OthersIndexed(u)
    BY <2>1
  <2> QED BY <1>1, <2>1, <2>2, <2>3, <2>4
<1>3. CASE DocumentCloses
  <2>1. PICK u \in Uris :
          /\ ReadsMessage([k |-> "close", u |-> u])
          /\ doc' = [doc EXCEPT ![u] = 0] /\ content' = [content EXCEPT ![u] = <<>>]
          /\ handling' = Handles("closing", u, u, handling.id, OthersIndexed(u))
          /\ UNCHANGED <<semantics, indexed, indexGeneration, refresh>>
    BY <1>3 DEF DocumentCloses
  <2>2. Head(messages).k = "close" /\ Head(messages).u = u
    BY <2>1
  <2>3. doc' \in [Uris -> Nat] /\ \A w \in Uris : /\ doc'[w] = IF w = u THEN 0 ELSE doc[w]
                                                  /\ w # u => content'[w] = content[w]
    BY <1>0, <2>1
  <2>4. /\ handling'.at = "closing" /\ handling'.u = u /\ handling'.before = indexGeneration
        /\ handling'.others = OthersIndexed(u)
    BY <2>1
  <2> QED BY <2>1, <2>2, <2>3, <2>4
<1>4. CASE RenameArrives
  <2>1. PICK u \in Uris, v \in Uris :
          /\ ReadsMessage([k |-> "rename", u |-> u, v |-> v])
          /\ doc' = [doc EXCEPT ![u] = 0, ![v] = Fresh] /\ content' = [content EXCEPT ![u] = <<>>]
          /\ handling' = Handles("moving", u, v, Fresh, TRUE)
          /\ UNCHANGED <<semantics, indexed, indexGeneration, refresh>>
    BY <1>4 DEF RenameArrives
  <2>2. Head(messages).k = "rename" /\ Head(messages).u = u /\ Head(messages).v = v
    BY <2>1
  <2>3. doc' \in [Uris -> Nat] /\ \A w \in Uris : /\ doc'[w] = IF w = v THEN Fresh ELSE IF w = u THEN 0 ELSE doc[w]
                                                  /\ w # u => content'[w] = content[w]
    BY <1>0, <1>1, <2>1
  <2>4. /\ handling'.at = "moving" /\ handling'.u = u /\ handling'.v = v
        /\ handling'.before = indexGeneration /\ handling'.others
    BY <2>1
  <2> QED BY <1>1, <2>1, <2>2, <2>3, <2>4
<1> QED BY <1>2, <1>3, <1>4 DEF Arrives

LEMMA ArrivesNotices ==
    ASSUME TokenTypes, Ordered, NoticeInv, Arrives
    PROVE  NoticeInv'
<1> DEFINE m == Head(messages)
<1>1. /\ messages # <<>> /\ messages' = Tail(messages) /\ handling.at = "idle"
      /\ Notifies(m) /\ m.u \in Uris
      /\ UNCHANGED <<semantics, indexed, indexGeneration, refresh>>
      /\ doc' \in [Uris -> Nat]
      /\ \A u \in Uris : (doc'[u] # 0 <=> Replaces(m, u) \/ (doc[u] # 0 /\ ~Removes(m, u)))
      /\ \A u \in Uris : Replaces(m, u) => Opening(u)'
      /\ \A u \in Uris : ~Replaces(m, u) => ~Opening(u)'
      /\ \A u \in Uris : ~Replaces(m, u) /\ ~Removes(m, u) => doc'[u] = doc[u] /\ content'[u] = content[u]
      /\ handling'.at \in {"parsing", "closing", "moving"} /\ handling'.u = m.u
      /\ handling'.at = "closing" => Removes(m, m.u)
      /\ handling'.before = indexGeneration
      /\ handling'.others <=> OthersIndexed(m.u) \/ m.k = "rename"
  BY ArrivesFacts
<1>2. UNCHANGED <<held, dirty, wanted, replies, job, queue>> /\ wanted \subseteq Uris /\ indexGeneration \in Nat
  BY MainLeaves DEF Arrives, MainStep, TokenTypes
<1>3. /\ Agreed /\ Ready /\ OneRefresh /\ \A u : ~Opening(u)
      /\ 1 \in DOMAIN messages /\ m = messages[1]
      /\ \A i \in DOMAIN messages : i \in Nat /\ i >= 1 /\ i < Len(messages) + 1
  <2>1. messages \in Seq(Questions \cup Notices)
    BY DEF TokenTypes
  <2> QED BY <1>1, <2>1, TakenFacts DEF NoticeInv, Opening
<1> HIDE DEF m
<1>4. Agreed'
  BY <1>1, <1>2, <1>3, AgreedTaken DEF m
\* What is open and not about to be read again is another one that is indexed.
<1>5. ASSUME NEW u \in Uris, doc[u] # 0
      PROVE  semantics[u] = doc[u] /\ u \in indexed /\ (u # m.u => OthersIndexed(m.u))
  BY <1>3, <1>5 DEF Ready, OthersIndexed
<1>6. Ready'
  <2>1. ASSUME NEW u \in Uris, doc'[u] # 0, ~Opening(u)'
        PROVE  /\ semantics'[u] = doc'[u] /\ u \in indexed'
               /\ u # handling'.u => handling'.others
    BY <1>1, <1>5, <2>1
  <2> QED BY <1>1, <1>2, <2>1 DEF Ready
<1>7. OneRefresh'
  BY <1>1, <1>3, OneRefreshTaken DEF m, Notifies
<1>8. ASSUME NEW u \in wanted' \ dirty' PROVE Followed(u)' /\ Served(u)'
  <2>1. u \in Uris /\ u \in wanted /\ Followed(u)
    BY <1>2, <1>8 DEF NoticeInv
  <2>2. Followed(u)' /\ (Replaces(m, u) => AskedFor(u)')
    BY <1>1, <2>1, FollowedTaken DEF m
  <2>3. CASE \E i \in DOMAIN messages : Replaces(messages[i], u)
    <3>1. PICK j \in DOMAIN messages : AsksAbout(messages[j], u) /\ 1 < j
      BY <1>3, <2>1, <2>3 DEF Followed
    <3>2. j - 1 \in DOMAIN messages' /\ messages'[j - 1] = messages[j]
      BY <1>1, <3>1, MessageTaken
    <3> QED BY <2>2, <3>1, <3>2 DEF Served, AskedFor
  <2>4. CASE \A i \in DOMAIN messages : ~Replaces(messages[i], u)
    <3>1. doc[u] # 0 /\ ~Removes(m, u)
      BY <1>3, <2>1, <2>4 DEF Agreed, OpenBefore
    <3>2. u # m.u
      BY <1>1, <1>3, <2>4, <3>1 DEF Notifies, Replaces, Removes
    <3>3. handling'.others
      BY <1>1, <1>5, <2>1, <3>1, <3>2
    <3>4. handling'.at = "closing" => m.u \in indexed
      <4>1. ASSUME Removes(m, m.u) PROVE doc[m.u] # 0
        <5>1. OpenBefore(messages, doc[m.u] # 0, m.u, 1)
          BY <1>1, <1>3, <4>1 DEF Agreed
        <5>2. \A k \in DOMAIN messages : ~(k < 1)
          BY <1>3
        <5> QED BY <5>1, <5>2 DEF OpenBefore
      <4> QED BY <1>1, <1>5, <4>1
    <3>5. WillRefresh'
      BY <1>1, <3>3, <3>4 DEF WillRefresh
    <3> QED BY <2>2, <3>5 DEF Served, RefreshComing
  <2> QED BY <2>3, <2>4
<1> QED BY <1>4, <1>6, <1>7, <1>8 DEF NoticeInv

\* How a change goes on: what it knows stays, until it ends.
LEMMA AdvancesFacts ==
    ASSUME TokenTypes, Ordered, Advances
    PROVE  /\ UNCHANGED <<messages, doc>> /\ handling \in Changing /\ handling.u \in Uris
           /\ handling'.at # "idle" =>
                handling'.others = handling.others /\ handling'.before = handling.before
           /\ \A u \in Uris : Opening(u)' => Opening(u)
           /\ indexGeneration \in Nat /\ indexGeneration' \in Nat /\ indexGeneration' >= indexGeneration
           /\ ~EndsChange => UNCHANGED refresh
<1>1. UNCHANGED <<messages, doc>> /\ handling \in Changing /\ handling.u \in Uris /\ indexGeneration \in Nat
  BY MovingTypes DEF Advances, Publishes, Reindexes, Unindexes, EndsChange, Forgets, MovesAway, OnMain, stores, TokenTypes
<1>2. handling'.at # "idle" => handling'.others = handling.others /\ handling'.before = handling.before
  <2>1. ASSUME NEW at, handling' = [handling EXCEPT !.at = at]
        PROVE  handling'.others = handling.others /\ handling'.before = handling.before
    BY <1>1, <2>1 DEF Changing
  <2>2. ASSUME handling' = [handling EXCEPT !.at = "parsing", !.u = handling.v]
        PROVE  handling'.others = handling.others /\ handling'.before = handling.before
    BY <1>1, <2>2 DEF Changing
  <2>3. CASE handling' = Waiting(handling.id)
    BY <2>3 DEF Waiting
  <2> QED BY <2>1, <2>2, <2>3
         DEF Advances, Publishes, Reindexes, Unindexes, EndsChange, Forgets, MovesAway
<1>3. \A u \in Uris : Opening(u)' => Opening(u)
  BY AdvanceFacts DEF Advances, Opening
<1>4. indexGeneration' \in Nat /\ indexGeneration' >= indexGeneration
  BY <1>1 DEF Advances, Publishes, Reindexes, Unindexes, EndsChange, Forgets, MovesAway, stores
<1>5. ~EndsChange => UNCHANGED refresh
  BY DEF Advances, Publishes, Reindexes, Unindexes, EndsChange, Forgets, MovesAway
<1> QED BY <1>1, <1>2, <1>3, <1>4, <1>5

LEMMA AdvancesReady ==
    ASSUME TokenTypes, Ordered, Ready, Advances
    PROVE  Ready'
<1>0. /\ UNCHANGED <<messages, doc>> /\ handling \in Changing /\ handling.u \in Uris
      /\ handling'.at # "idle" => handling'.others = handling.others /\ handling'.before = handling.before
      /\ \A u \in Uris : Opening(u)' => Opening(u)
      /\ indexGeneration \in Nat /\ indexGeneration' \in Nat /\ indexGeneration' >= indexGeneration
      /\ handling.before \in Nat /\ handling.at # "idle"
      /\ doc \in [Uris -> Nat] /\ semantics \in [Uris -> Nat]
  BY AdvancesFacts DEF Changing, TokenTypes
<1>1. handling.before <= indexGeneration
  BY <1>0 DEF Ready
<1>2. handling'.at # "idle" => handling'.before <= indexGeneration'
  BY <1>0, <1>1
<1>3. handling.others \/ \A u \in Uris : doc[u] # 0 /\ ~Opening(u) => u = handling.u
  BY <1>0 DEF Ready
<1>4. CASE Publishes
  <2>1. /\ handling.at = "parsing" /\ handling'.at = "indexing" /\ handling'.u = handling.u
        /\ semantics' = [semantics EXCEPT ![handling.u] = doc[handling.u]] /\ indexed' = indexed
    BY <1>4, AdvanceFacts DEF Publishes
  <2>2. \A u \in Uris : Opening(u)' <=> Opening(u)
    BY <2>1 DEF Opening
  <2>3. semantics'[handling.u] = doc[handling.u] /\ \A u \in Uris : u # handling.u => semantics'[u] = semantics[u]
    BY <1>0, <2>1
  <2>4. Opening(handling.u)
    BY <2>1 DEF Opening
  <2> QED BY <1>0, <1>2, <2>1, <2>2, <2>3, <2>4 DEF Ready
<1>5. CASE Reindexes
  <2>1. /\ handling.at = "indexing" /\ handling'.at = "refreshing" /\ handling'.u = handling.u
        /\ semantics' = semantics /\ indexed' = indexed \cup {handling.u}
    BY <1>5, AdvanceFacts DEF Reindexes
  <2>2. \A u \in Uris : Opening(u) => u = handling.u
    BY <2>1 DEF Opening
  <2> QED BY <1>0, <1>2, <2>1, <2>2 DEF Ready
<1>6. CASE Unindexes
  <2>1. /\ handling.at = "closing" /\ handling'.at = "refreshing" /\ handling'.u = handling.u
        /\ semantics' = [semantics EXCEPT ![handling.u] = 0] /\ indexed' = indexed \ {handling.u}
    BY <1>6, AdvanceFacts DEF Unindexes
  <2>2. doc[handling.u] = 0 /\ \A u \in Uris : ~Opening(u)
    BY <2>1 DEF Opening, Ordered
  <2>3. \A u \in Uris : u # handling.u => semantics'[u] = semantics[u]
    BY <1>0, <2>1
  <2> QED BY <1>0, <1>2, <2>1, <2>2, <2>3 DEF Ready
<1>7. CASE EndsChange
  <2>1. /\ handling.at = "refreshing" /\ UNCHANGED <<semantics, indexed>>
        /\ (handling'.at = "forgetting" /\ handling'.u = handling.u) \/ handling'.at = "idle"
    BY <1>7, AdvanceFacts DEF EndsChange, stores
  <2>2. \A u \in Uris : ~Opening(u)
    BY <2>1 DEF Opening
  <2> QED BY <1>0, <1>2, <2>1, <2>2 DEF Ready
<1>8. CASE Forgets
  <2>1. handling.at = "forgetting" /\ handling'.at = "idle" /\ UNCHANGED <<semantics, indexed>>
    BY <1>8, AdvanceFacts DEF Forgets, stores
  <2>2. \A u \in Uris : ~Opening(u)
    BY <2>1 DEF Opening
  <2> QED BY <1>0, <2>1, <2>2 DEF Ready
<1>9. CASE MovesAway
  <2>1. /\ handling.at = "moving" /\ handling'.at = "parsing" /\ handling'.u = handling.v
        /\ semantics' = [semantics EXCEPT ![handling.u] = 0] /\ indexed' = indexed \ {handling.u}
    BY <1>9, AdvanceFacts DEF MovesAway
  <2>2. doc[handling.u] = 0 /\ \A u \in Uris : Opening(u)' <=> Opening(u)
    BY <2>1 DEF Opening, Ordered
  <2>3. \A u \in Uris : u # handling.u => semantics'[u] = semantics[u]
    BY <1>0, <2>1
  <2> QED BY <1>0, <1>2, <2>1, <2>2, <2>3 DEF Ready
<1> QED BY <1>4, <1>5, <1>6, <1>7, <1>8, <1>9 DEF Advances

\* Tokens change where a document is opened, or else with the index, and then a refresh is
\* to come of it.
LEMMA AdvancesContent ==
    ASSUME TokenTypes, Ordered, Ready, Advances, NEW u \in Uris, content'[u] # content[u]
    PROVE  Opening(u) \/ WillRefresh'
<1>0. /\ UNCHANGED <<messages, doc>> /\ handling \in Changing /\ handling.u \in Uris
      /\ handling'.at # "idle" => handling'.others = handling.others /\ handling'.before = handling.before
      /\ indexGeneration \in Nat /\ handling.before \in Nat /\ handling.at # "idle"
      /\ handling.before <= indexGeneration
      /\ content \in [Uris -> Data]
  BY AdvancesFacts DEF Changing, TokenTypes, Ready
<1> SUFFICES ASSUME ~Opening(u) PROVE WillRefresh'
  OBVIOUS
<1>1. u \in Analysed /\ u # handling.u => handling.others
  BY <1>0 DEF Analysed, Ready
<1>2. CASE Publishes
  <2>1. handling.at = "parsing" /\ \E t \in Tokens : content' = [content EXCEPT ![handling.u] = t]
    BY <1>2 DEF Publishes
  <2>2. u # handling.u
    BY <2>1 DEF Opening
  <2> QED BY <1>0, <2>1, <2>2
<1>3. CASE Reindexes
  <2>1. /\ handling.at = "indexing" /\ handling'.at = "refreshing"
        /\ indexGeneration' = indexGeneration + 1 /\ Reclassifies(Analysed \ {handling.u})
    BY <1>3, AdvanceFacts DEF Reindexes
  <2>2. u \in Analysed \ {handling.u}
    BY <2>1, ReclassifiedTypes
  <2>3. handling'.others /\ handling'.before # indexGeneration'
    BY <1>0, <1>1, <2>1, <2>2
  <2> QED BY <2>1, <2>3 DEF WillRefresh
<1>4. CASE Unindexes
  <2>1. /\ handling.at = "closing" /\ handling'.at = "refreshing" /\ doc[handling.u] = 0
        /\ \/ indexGeneration' = indexGeneration + 1 /\ Reclassifies(Analysed)
           \/ content' = content
    BY <1>4, AdvanceFacts DEF Unindexes, Ordered
  <2>2. u \in Analysed /\ u # handling.u /\ indexGeneration' = indexGeneration + 1
    BY <2>1, ReclassifiedTypes DEF Analysed
  <2>3. handling'.others /\ handling'.before # indexGeneration'
    BY <1>0, <1>1, <2>1, <2>2
  <2> QED BY <2>1, <2>3 DEF WillRefresh
<1>5. CASE EndsChange \/ Forgets
  BY <1>5 DEF EndsChange, Forgets, stores
<1>6. CASE MovesAway
  <2>1. /\ handling.at = "moving" /\ handling'.at = "parsing" /\ doc[handling.u] = 0
        /\ Reclassifies(Analysed) \/ content' = content
    BY <1>6, AdvanceFacts DEF MovesAway, Ordered
  <2>2. u \in Analysed /\ u # handling.u
    BY <2>1, ReclassifiedTypes DEF Analysed
  <2>3. handling'.others
    BY <1>0, <1>1, <2>1, <2>2
  <2> QED BY <2>1, <2>3 DEF WillRefresh
<1> QED BY <1>2, <1>3, <1>4, <1>5, <1>6 DEF Advances

\* A refresh that is to come is sent when the change ends, unless one is acknowledged: then
\* the acknowledgement is on its way, and with it requests for the documents.
LEMMA AdvancesRefresh ==
    ASSUME TokenTypes, Ordered, Ready, OneRefresh, Advances
    PROVE  /\ WillRefresh => WillRefresh' \/ refresh' = "sent" \/ refresh = "acknowledged"
           /\ refresh = "sent" => refresh' = "sent"
           /\ OneRefresh'
<1>0. /\ UNCHANGED <<messages, doc>> /\ handling \in Changing /\ handling.u \in Uris
      /\ handling'.at # "idle" => handling'.others = handling.others /\ handling'.before = handling.before
      /\ indexGeneration \in Nat /\ handling.before \in Nat /\ handling.at # "idle"
      /\ handling.before <= indexGeneration
      /\ ~EndsChange => UNCHANGED refresh
  BY AdvancesFacts DEF Changing, Ready
<1>1. CASE EndsChange
  <2>1. /\ handling.at = "refreshing"
        /\ refresh' = IF MustRefresh THEN "sent" ELSE refresh
    BY <1>1 DEF EndsChange
  <2>2. WillRefresh /\ refresh = "none" => MustRefresh
    BY <2>1 DEF WillRefresh, MustRefresh
  <2>3. MustRefresh => refresh = "none"
    BY DEF MustRefresh
  <2> QED BY <1>0, <2>1, <2>2, <2>3 DEF OneRefresh, Acknowledgement
<1>2. CASE ~EndsChange
  <2>1. OneRefresh' /\ refresh' = refresh
    BY <1>0, <1>2 DEF OneRefresh, Acknowledgement
  <2>2. WillRefresh => WillRefresh'
    <3>1. CASE Publishes
      BY <1>0, <3>1, AdvanceFacts DEF WillRefresh
    <3>2. CASE Reindexes
      BY <1>0, <3>2, AdvanceFacts DEF WillRefresh, Reindexes
    <3>3. CASE Unindexes
      BY <1>0, <3>3, AdvanceFacts DEF WillRefresh, Unindexes
    <3>4. CASE Forgets
      BY <3>4, AdvanceFacts DEF WillRefresh
    <3>5. CASE MovesAway
      BY <1>0, <3>5, AdvanceFacts DEF WillRefresh
    <3> QED BY <1>2, <3>1, <3>2, <3>3, <3>4, <3>5 DEF Advances
  <2> QED BY <2>1, <2>2
<1> QED BY <1>1, <1>2

LEMMA AdvancesNotices ==
    ASSUME TokenTypes, Ordered, NoticeInv, Advances
    PROVE  NoticeInv'
<1>1. /\ Agreed /\ Ready /\ OneRefresh
      /\ UNCHANGED <<held, dirty, wanted, replies, job, queue, messages, doc>> /\ wanted \subseteq Uris
      /\ \A u \in Uris : Opening(u)' => Opening(u)
  BY MainLeaves, AdvancesFacts DEF Advances, MainStep, NoticeInv, TokenTypes
<1>2. Agreed' /\ Ready' /\ OneRefresh'
  BY <1>1, AgreedStays, AdvancesReady, AdvancesRefresh
<1>3. ASSUME NEW u \in wanted' \ dirty' PROVE Followed(u)' /\ Served(u)'
  <2>1. u \in Uris /\ Followed(u) /\ Served(u)
    BY <1>1, <1>3 DEF NoticeInv
  <2>2. AskedFor(u) => AskedFor(u)'
    BY <1>1 DEF AskedFor
  <2>3. Followed(u)'
    BY <1>1, <2>1, <2>2 DEF Followed, Acknowledgement
  <2>4. BeingAnswered(u) => BeingAnswered(u)'
    BY <1>1 DEF BeingAnswered
  <2>5. refresh = "acknowledged" => AskedFor(u)
    BY <1>1, <2>1 DEF OneRefresh, Followed, AskedFor
  <2>6. RefreshComing => RefreshComing' \/ AskedFor(u)'
    BY <1>1, <2>2, <2>5, AdvancesRefresh DEF RefreshComing
  <2>7. Shows(replies, held[u].data, u, content[u]) => Served(u)'
    <3>1. CASE content'[u] = content[u]
      BY <1>1, <3>1 DEF Served
    <3>2. CASE content'[u] # content[u]
      BY <1>1, <2>1, <2>2, <3>2, AdvancesContent DEF Followed, Served, RefreshComing
    <3> QED BY <3>1, <3>2
  <2> QED BY <2>1, <2>2, <2>3, <2>4, <2>6, <2>7 DEF Served
<1> QED BY <1>2, <1>3 DEF NoticeInv

LEMMA NoticeInit == TokenInit => NoticeInv
<1> SUFFICES ASSUME TokenInit PROVE NoticeInv
  OBVIOUS
<1>1. DOMAIN messages = {} /\ handling.at = "idle" /\ wanted = {} /\ refresh = "none"
      /\ \A u \in Uris : doc[u] = 0
  BY DEF TokenInit, Waiting
<1> QED BY <1>1 DEF NoticeInv, Agreed, Ready, OneRefresh, Acknowledgement

LEMMA NoticeNext == TokenInv /\ NoticeInv /\ [TokenNext]_tokenVars => NoticeInv'
<1> SUFFICES ASSUME TokenInv, NoticeInv, [TokenNext]_tokenVars PROVE NoticeInv'
  OBVIOUS
<1>0. TokenTypes /\ Ordered
  BY DEF TokenInv
<1>1. CASE ClientStep
  BY <1>0, <1>1, ClientNotices
<1>2. CASE Receives
  BY <1>0, <1>2, ReceivesNotices
<1>3. CASE Refreshes
  BY <1>0, <1>3, RefreshesNotices
<1>4. CASE Dispatches \/ RefreshCompleted
  BY <1>0, <1>4, DispatchesNotices
<1>5. CASE Arrives
  BY <1>0, <1>5, ArrivesNotices
<1>6. CASE Advances
  BY <1>0, <1>6, AdvancesNotices
<1>7. CASE WorkerStep
  BY <1>7, WorkerNotices
<1>8. CASE UNCHANGED tokenVars
  <2>1. UNCHANGED <<held, dirty, wanted, messages, queue, replies, doc, semantics, indexed,
                    indexGeneration, content, handling, job, refresh>>
    BY <1>8 DEF tokenVars, editorVars, stores
  <2>2. Agreed' /\ Ready' /\ OneRefresh'
    BY <2>1, AgreedStays, ReadyStays DEF NoticeInv, OneRefresh, Acknowledgement
  <2>3. \A u \in wanted \ dirty : Followed(u)' /\ Served(u)'
    BY <2>1 DEF NoticeInv, Followed, Acknowledgement, Opening, AskedFor, Served, BeingAnswered,
                RefreshComing, WillRefresh
  <2> QED BY <2>1, <2>2, <2>3 DEF NoticeInv
<1> QED BY <1>1, <1>2, <1>3, <1>4, <1>5, <1>6, <1>7, <1>8
    DEF TokenNext, ClientStep, Arrives, Advances, WorkerStep

\* A client that acknowledges a refresh before it asks again never keeps tokens that
\* another document has made stale: a refresh is on its way whenever nothing else will
\* correct them (_queue_semantic_token_refresh skips a refresh while one is pending).
THEOREM StaleTokensAreNoticed == TokenSpec => []StaleTokensNoticed
<1>1. TokenInv /\ NoticeInv => StaleTokensNoticed
  <2> SUFFICES ASSUME TokenInv, NoticeInv, handling.at = "idle", NEW u \in wanted \ dirty,
                      held[u].data # content[u], ~InFlight(u)
               PROVE  refresh = "sent" \/ \E i \in DOMAIN messages : messages[i].k \in {"text", "close", "rename"}
    BY DEF StaleTokensNoticed
  <2>1. ~AskedFor(u) /\ ~BeingAnswered(u)
    <3>1. ASSUME NEW i \in DOMAIN messages, AsksAbout(messages[i], u) PROVE "u" \in DOMAIN messages[i]
      <4>1. messages[i] \in Questions \cup Notices
        BY ElementOfSeq, LenProperties DEF TokenInv, TokenTypes
      <4>2. messages[i] \in Questions
        BY <3>1, <4>1 DEF AsksAbout, Notices, Renamings
      <4> QED BY <4>2 DEF Questions
    <3> QED BY <3>1 DEF InFlight, AskedFor, BeingAnswered, AsksAbout
  <2>2. ~Shows(replies, held[u].data, u, content[u])
    BY DEF InFlight, Shows, WholeOf
  <2>3. RefreshComing
    BY <2>1, <2>2 DEF NoticeInv, Served
  <2> QED BY <2>3 DEF RefreshComing, WillRefresh, Notifies
<1>2. TokenSpec => []NoticeInv
  BY NoticeInit, NoticeNext, TokensKeepInvariant, PTL DEF TokenSpec
<1> QED BY <1>1, <1>2, TokensKeepInvariant, PTL
=============================================================================
