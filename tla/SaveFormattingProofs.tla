------------------------- MODULE SaveFormattingProofs -------------------------
(***************************************************************************)
(* Theorems about SaveFormatting, for any folders, settings, search roots, *)
(* and number of notifications and edits.                                  *)
(*                                                                         *)
(* Of the requests for the configuration only the last one is ever         *)
(* pending, and it is of the current generations (Asking); its answer is   *)
(* what the client's configuration says until the client says that it has  *)
(* changed (Agreed).  A save that has read the generations has read the    *)
(* settings of the folders that went with them (Reading).                  *)
(***************************************************************************)
EXTENDS SaveFormatting, FiniteSetTheorems, WellFoundedInduction, TLAPS

-----------------------------------------------------------------------------
(***************************************************************************)
(* The inductive invariant.                                                *)
(***************************************************************************)
Results ==
    [values : UNION {[ScopesOf(fs) -> Values \cup {Invalid}] : fs \in SUBSET Folders},
     roots : Roots \cup {Session}]
Replies == [k : {"reply"}, id : Nat, result : Seq(Results)]
Messages == [k : {"configuration"}] \cup [k : {"folders"}, f : Folders] \cup Replies

Members(s) == {s[i] : i \in 1..Len(s)}
Transit == Members(wire) \cup Members(deferred)

Typed ==
    /\ client \in [values : [Everywhere -> Values \cup {Invalid}],
                   roots : Roots \cup {Session}, told : SUBSET Nat]
    /\ wire \in Seq(Messages) /\ deferred \in Seq(Messages)
    /\ folders \in SUBSET Folders
    /\ foldersGeneration \in Nat /\ generation \in Nat /\ moduleGeneration \in Nat
    /\ requested \in Nat
    /\ \A id \in DOMAIN asked : asked[id] \in SUBSET Folders
    /\ main \in {"idle", "scoping"}

\* Each request is on its way to the client, or answered, and the one that is pending
\* is the last: nothing was invalidated since.
Asking ==
    /\ pending \in {{}, {requested}}
    /\ DOMAIN asked \subseteq 1..requested /\ client.told \subseteq (1..requested) \ DOMAIN asked
    /\ requested \in DOMAIN asked =>
          pending = {requested} /\ (main = "idle" => asked[requested] = folders)
    /\ pending = {requested} =>
          /\ records[requested].generation = generation
          /\ records[requested].module = moduleGeneration
          /\ main = "idle" => records[requested].folders = folders
          /\ requested \in DOMAIN asked \/ \E m \in Transit : m.k = "reply" /\ m.id = requested
    /\ \A m \in Transit : m.k = "reply" =>
          /\ m.id \in (1..requested) \ DOMAIN asked
          /\ m.result = <<>> => m.id \notin client.told

\* The server has the configuration of the client.
Agrees ==
    /\ DOMAIN settings = ScopesOf(folders)
    /\ \A f \in ScopesOf(folders) : client.values[f] # Invalid => settings[f] = client.values[f]
    /\ optedIn => roots = client.roots

Answer == [values |-> [s \in ScopesOf(folders) |-> client.values[s]], roots |-> client.roots]

\* Once the client has answered the last request and says nothing more, the answer is
\* its configuration, on the way and installed.
Agreed ==
    (requested \in client.told /\ main = "idle" /\ \A m \in Members(wire) : m.k = "reply") =>
        /\ pending = {} => Agrees
        /\ \A m \in Transit : m.k = "reply" /\ m.id = requested => m.result = <<Answer>>

\* What a save has read belongs to the generations it has read.
Reading ==
    /\ Lookup(folders, settings) \in inForce
    /\ save.at = "formatting" => save.kind # "save"
    /\ save.at \in {"generation", "scope", "settings", "commit"} =>
          save.folders \in Nat /\ save.folders <= foldersGeneration
    /\ save.at \in {"scope", "settings", "commit"} =>
          save.generation \in Nat /\ save.generation <= generation
    /\ save.at = "settings" /\ save.folders = foldersGeneration => save.scope = ScopeOf(folders)
    /\ save.at = "commit" /\ save.folders = foldersGeneration /\ save.generation = generation =>
          save.used \in inForce

Settling == Typed /\ Asking /\ Agreed

-----------------------------------------------------------------------------
(***************************************************************************)
(* Queues of messages.                                                     *)
(***************************************************************************)
LEMMA MembersOfAppend ==
    ASSUME NEW S, NEW s \in Seq(S), NEW e \in S
    PROVE  Append(s, e) \in Seq(S) /\ Members(Append(s, e)) = Members(s) \cup {e}
<1>1. /\ Append(s, e) \in Seq(S) /\ Len(Append(s, e)) = Len(s) + 1
      /\ \A i \in 1..Len(s) : Append(s, e)[i] = s[i]
      /\ Append(s, e)[Len(s) + 1] = e /\ Len(s) \in Nat
  OBVIOUS
<1>2. 1..(Len(s) + 1) = (1..Len(s)) \cup {Len(s) + 1}
  BY <1>1
<1> QED BY <1>1, <1>2 DEF Members

LEMMA MembersOfTail ==
    ASSUME NEW S, NEW s \in Seq(S), s # <<>>
    PROVE  Head(s) \in S /\ Tail(s) \in Seq(S) /\ Members(s) = Members(Tail(s)) \cup {Head(s)}
<1>1. /\ Head(s) = s[1] /\ Head(s) \in S /\ Tail(s) \in Seq(S) /\ Len(Tail(s)) = Len(s) - 1
      /\ \A i \in 1..(Len(s) - 1) : Tail(s)[i] = s[i + 1]
      /\ Len(s) \in Nat \ {0}
  OBVIOUS
<1>2. ASSUME NEW m \in Members(s) PROVE m \in Members(Tail(s)) \cup {Head(s)}
  <2>1. PICK i \in 1..Len(s) : m = s[i]
    BY <1>2 DEF Members
  <2>2. CASE i = 1
    BY <1>1, <2>1, <2>2
  <2>3. CASE i # 1
    <3>1. i - 1 \in 1..(Len(s) - 1) /\ (i - 1) + 1 = i
      BY <1>1, <2>1, <2>3
    <3> QED BY <1>1, <2>1, <3>1 DEF Members
  <2> QED BY <2>2, <2>3
<1>3. ASSUME NEW m \in Members(Tail(s)) \cup {Head(s)} PROVE m \in Members(s)
  <2>1. CASE m = Head(s)
    BY <1>1, <2>1 DEF Members
  <2>2. CASE m \in Members(Tail(s))
    <3>1. PICK i \in 1..(Len(s) - 1) : m = Tail(s)[i]
      BY <1>1, <2>2 DEF Members
    <3> QED BY <1>1, <3>1 DEF Members
  <2> QED BY <1>3, <2>1, <2>2
<1> QED BY <1>1, <1>2, <1>3

LEMMA MembersTyped == ASSUME NEW S, NEW s \in Seq(S) PROVE Members(s) \subseteq S
BY DEF Members

-----------------------------------------------------------------------------
(***************************************************************************)
(* Requests and their answers.                                             *)
(***************************************************************************)

\* Everything that was asked for before is superseded.
LEMMA InvalidatesSettles ==
    ASSUME Settling, NEW mg \in Nat, Invalidates(folders, mg), UNCHANGED <<client, folders, foldersGeneration>>,
           wire' \in Seq(Messages), deferred' \in Seq(Messages), Transit' \subseteq Transit, main' = "idle"
    PROVE  Settling'
<1>1. /\ requested' = requested + 1 /\ requested \in Nat /\ generation' = generation + 1 /\ moduleGeneration' = mg
      /\ pending' = {requested'} /\ DOMAIN asked' = DOMAIN asked \cup {requested'}
      /\ asked'[requested'] = folders /\ \A id \in DOMAIN asked : id # requested' => asked'[id] = asked[id]
      /\ records'[requested'] = [generation |-> generation', module |-> mg, folders |-> folders]
  BY DEF Invalidates, Queues, Settling, Typed
<1>2. Typed'
  BY <1>1 DEF Settling, Typed
<1>3. \A id \in 1..requested : id \in 1..requested' /\ id # requested'
  BY <1>1
<1>4. requested' \in 1..requested' /\ requested' \notin client'.told
  BY <1>1, <1>3 DEF Settling, Asking, Typed
<1>5. Asking'
  BY <1>1, <1>3, <1>4 DEF Settling, Asking
<1> QED BY <1>2, <1>4, <1>5 DEF Settling, Agreed

LEMMA CompletesSettles ==
    ASSUME Settling, NEW m \in Transit, m \in Messages, Completes(m), main = "idle", UNCHANGED <<client, optedIn>>,
           wire' \in Seq(Messages), deferred' \in Seq(Messages),
           Transit' \subseteq Transit, Transit \subseteq Transit' \cup {m},
           Members(wire') \subseteq Members(wire), Members(wire) \subseteq Members(wire') \cup {m}
    PROVE  Settling'
<1>1. /\ UNCHANGED <<folders, foldersGeneration, main, generation, moduleGeneration>>
      /\ m.k = "reply" /\ m.id \in (1..requested) \ DOMAIN asked
  BY DEF Completes, scope, configuration, Settling, Asking
<1>2. CASE m.id \notin pending
  <2>1. UNCHANGED <<configuration, asked>>
    BY <1>2 DEF Completes
  <2>2. Typed'
    BY <1>1, <2>1 DEF configuration, Settling, Typed
  <2>3. pending = {requested} => m.id # requested
    BY <1>2
  <2>4. Asking'
    BY <1>1, <2>1, <2>3 DEF configuration, Settling, Asking
  <2>5. Agreed'
    BY <1>1, <2>1 DEF configuration, Settling, Agreed, Agrees, Answer
  <2> QED BY <2>2, <2>4, <2>5 DEF Settling
<1>3. CASE m.id \in pending
  <2>1. /\ m.id = requested /\ pending = {requested}
        /\ records[m.id].generation = generation /\ records[m.id].module = moduleGeneration
        /\ records[m.id].folders = folders
    BY <1>3 DEF Settling, Asking
  <2>2. /\ pending' = {} /\ records' = <<>> /\ UNCHANGED <<requested, asked>>
        /\ m.result # <<>> => /\ settings' = Installed(records[m.id], m.result[1].values)
                              /\ optedIn => roots' = m.result[1].roots
    BY <1>3, <2>1 DEF Completes
  <2>3. Typed'
    BY <1>1, <2>2 DEF Settling, Typed
  <2>4. Asking'
    BY <1>1, <2>1, <2>2 DEF Settling, Asking
  <2>5. ASSUME requested \in client.told, \A w \in Members(wire') : w.k = "reply" PROVE Agrees'
    <3>1. m.result = <<Answer>> /\ m.result # <<>>
      BY <1>1, <2>1, <2>5 DEF Settling, Agreed, Asking
    <3>2. m.result[1].values = [s \in ScopesOf(folders) |-> client.values[s]] /\ m.result[1].roots = client.roots
      BY <3>1 DEF Answer
    <3>3. settings' = [s \in ScopesOf(folders) |-> Parsed(s, client.values[s])]
      BY <2>1, <2>2, <3>1, <3>2 DEF Installed
    <3> QED BY <1>1, <2>2, <3>1, <3>2, <3>3 DEF Agrees, Parsed
  <2>6. Agreed'
    BY <1>1, <2>2, <2>5 DEF Settling, Agreed, Answer
  <2> QED BY <2>3, <2>4, <2>6 DEF Settling
<1> QED BY <1>2, <1>3

LEMMA TakesSettles ==
    ASSUME Settling, NEW m \in Transit, m \in Messages, Takes(m), main = "idle", UNCHANGED <<client, optedIn>>,
           wire' \in Seq(Messages), deferred' \in Seq(Messages),
           Transit' \subseteq Transit, Transit \subseteq Transit' \cup {m},
           Members(wire') \subseteq Members(wire), Members(wire) \subseteq Members(wire') \cup {m}
    PROVE  Settling'
<1>1. CASE Notified(m)
  <2>1. moduleGeneration + (IF optedIn THEN 1 ELSE 0) \in Nat
    BY DEF Settling, Typed
  <2> QED BY <1>1, <2>1, InvalidatesSettles DEF Notified, scope
<1>2. CASE FoldersArrive(m)
  <2>1. m.f \in Folders
    BY <1>2 DEF FoldersArrive, Messages, Replies
  <2>2. folders' \in SUBSET Folders /\ foldersGeneration' \in Nat /\ main' = "scoping"
    BY <1>2, <2>1 DEF FoldersArrive, Settling, Typed
  <2>3. Typed'
    BY <1>2, <2>2 DEF FoldersArrive, configuration, Settling, Typed
  <2>4. m.k # "reply"
    BY <1>2 DEF FoldersArrive
  <2>5. Asking'
    BY <1>2, <2>2, <2>4 DEF FoldersArrive, configuration, Settling, Asking
  <2> QED BY <2>2, <2>3, <2>5 DEF Settling, Agreed
<1>3. CASE Completes(m)
  BY <1>3, CompletesSettles
<1> QED BY <1>1, <1>2, <1>3 DEF Takes

LEMMA ReadsSettles == ASSUME Settling, Reads \/ ReadsDeferred PROVE Settling'
<1>1. wire \in Seq(Messages) /\ deferred \in Seq(Messages) /\ main = "idle" /\ UNCHANGED <<client, optedIn>>
  BY DEF Settling, Typed, Reads, ReadsDeferred, clientVars
<1>2. CASE Reads
  <2>1. PICK m : m = Head(wire)
    OBVIOUS
  <2>2. /\ m \in Messages /\ wire' = Tail(wire) /\ wire' \in Seq(Messages)
        /\ Members(wire) = Members(wire') \cup {m}
    BY <1>1, <1>2, <2>1, MembersOfTail DEF Reads
  <2>3. CASE Waits(m)
    <3>1. /\ deferred' = Append(deferred, m)
          /\ UNCHANGED <<client, asked, scope, configuration, main, optedIn>>
      BY <1>2, <2>1, <2>3 DEF Reads, clientVars
    <3>2. deferred' \in Seq(Messages) /\ Members(deferred') = Members(deferred) \cup {m}
      BY <1>1, <2>2, <3>1, MembersOfAppend
    <3>3. Transit' = Transit /\ m.k = "reply"
      BY <2>2, <2>3, <3>2 DEF Transit, Waits
    <3>4. Typed'
      BY <2>2, <3>1, <3>2 DEF scope, configuration, Settling, Typed
    <3>5. Asking'
      BY <3>1, <3>3 DEF scope, configuration, Settling, Asking
    <3>6. Agreed'
      BY <2>2, <3>1, <3>3 DEF scope, configuration, Settling, Agreed, Agrees, Answer
    <3> QED BY <3>4, <3>5, <3>6 DEF Settling
  <2>4. CASE ~Waits(m)
    <3>1. Takes(m) /\ UNCHANGED deferred
      BY <1>2, <2>1, <2>4 DEF Reads
    <3> QED BY <1>1, <2>2, <3>1, TakesSettles DEF Transit
  <2> QED BY <2>3, <2>4
<1>3. CASE ReadsDeferred
  <2>1. PICK m : m = Head(deferred)
    OBVIOUS
  <2>2. /\ m \in Messages /\ deferred' = Tail(deferred) /\ deferred' \in Seq(Messages)
        /\ Members(deferred) = Members(deferred') \cup {m}
    BY <1>1, <1>3, <2>1, MembersOfTail DEF ReadsDeferred
  <2>3. Takes(m) /\ UNCHANGED wire
    BY <1>3, <2>1 DEF ReadsDeferred
  <2> QED BY <1>1, <2>2, <2>3, TakesSettles DEF Transit
<1> QED BY <1>2, <1>3

-----------------------------------------------------------------------------
(***************************************************************************)
(* The client.                                                             *)
(***************************************************************************)
LEMMA SaysSettles ==
    ASSUME Settling, ChangesConfiguration \/ ChangesRoots \/ ChangesFolders PROVE Settling'
<1>1. PICK m \in Messages : wire' = Append(wire, m) /\ m.k # "reply"
  <2>1. CASE ChangesConfiguration \/ ChangesRoots
    BY <2>1 DEF ChangesConfiguration, ChangesRoots, Sends, Messages
  <2>2. CASE ChangesFolders
    BY <2>2 DEF ChangesFolders, Sends, Messages
  <2> QED BY <2>1, <2>2
<1>2. wire' \in Seq(Messages) /\ Members(wire') = Members(wire) \cup {m}
  BY <1>1, MembersOfAppend DEF Settling, Typed
<1>3. UNCHANGED <<asked, deferred, optedIn, scope, configuration, main>>
  BY DEF ChangesConfiguration, ChangesRoots, ChangesFolders, ServerIdle
<1>4. /\ client' \in [values : [Everywhere -> Values \cup {Invalid}], roots : Roots \cup {Session}, told : SUBSET Nat]
      /\ client'.told = client.told
  <2>1. CASE ChangesConfiguration
    <3>1. PICK s \in Everywhere, v \in Values \cup {Invalid} : client' = [client EXCEPT !.values[s] = v]
      BY <2>1 DEF ChangesConfiguration
    <3> QED BY <3>1 DEF Settling, Typed
  <2>2. CASE ChangesRoots
    <3>1. PICK r \in Roots \cup {Session} : client' = [client EXCEPT !.roots = r]
      BY <2>2 DEF ChangesRoots
    <3> QED BY <3>1 DEF Settling, Typed
  <2>3. CASE ChangesFolders
    BY <2>3 DEF ChangesFolders, Settling, Typed
  <2> QED BY <2>1, <2>2, <2>3
<1>5. Typed'
  BY <1>2, <1>3, <1>4 DEF scope, configuration, Settling, Typed
<1>6. Transit' = Transit \cup {m}
  BY <1>2, <1>3 DEF Transit
<1>7. Asking'
  BY <1>1, <1>3, <1>4, <1>6 DEF scope, configuration, Settling, Asking
<1> QED BY <1>1, <1>2, <1>5, <1>7 DEF Settling, Agreed

LEMMA AnswersSettles ==
    ASSUME Settling, AnswersValues \/ AnswersError PROVE Settling'
<1>1. PICK id, result, told :
         /\ id \in DOMAIN asked
         /\ Answers(id, result, told)
         /\ \/ told = {} /\ result = <<>>
            \/ told = {id} /\ result = <<[values |-> [s \in ScopesOf(asked[id]) |-> client.values[s]],
                                          roots |-> client.roots]>>
  BY DEF AnswersValues, AnswersError
<1>2. id \in 1..requested /\ id \in Nat /\ asked[id] \in SUBSET Folders
  BY <1>1 DEF Settling, Typed, Asking
<1>3. result \in Seq(Results)
  <2>1. [s \in ScopesOf(asked[id]) |-> client.values[s]] \in [ScopesOf(asked[id]) -> Values \cup {Invalid}]
    BY <1>2 DEF Settling, Typed, ScopesOf, Everywhere
  <2>2. [values |-> [s \in ScopesOf(asked[id]) |-> client.values[s]], roots |-> client.roots] \in Results
    BY <1>2, <2>1 DEF Settling, Typed, Results
  <2>3. \A r \in Results : <<r>> \in Seq(Results)
    OBVIOUS
  <2>4. <<>> \in Seq(Results)
    OBVIOUS
  <2> QED BY <1>1, <2>2, <2>3, <2>4
<1>4. PICK m : m = [k |-> "reply", id |-> id, result |-> result]
  OBVIOUS
<1>5. m \in Messages /\ m.k = "reply" /\ m.id = id /\ m.result = result
  BY <1>2, <1>3, <1>4 DEF Messages, Replies
<1>6. wire' = Append(wire, m) /\ wire' \in Seq(Messages) /\ Members(wire') = Members(wire) \cup {m}
  BY <1>1, <1>4, <1>5, MembersOfAppend DEF Answers, Settling, Typed
<1>7. /\ UNCHANGED <<deferred, optedIn, scope, configuration, main>>
      /\ DOMAIN asked' = DOMAIN asked \ {id} /\ \A i \in DOMAIN asked' : asked'[i] = asked[i]
  BY <1>1 DEF Answers, ServerIdle
<1>8. /\ client' \in [values : [Everywhere -> Values \cup {Invalid}], roots : Roots \cup {Session}, told : SUBSET Nat]
      /\ client'.told = client.told \cup told /\ client'.values = client.values /\ client'.roots = client.roots
  <2>1. told \subseteq Nat /\ client' = [client EXCEPT !.told = client.told \cup told]
    BY <1>1, <1>2 DEF Answers
  <2> QED BY <2>1 DEF Settling, Typed
<1>9. Typed'
  BY <1>6, <1>7, <1>8 DEF scope, configuration, Settling, Typed
<1>10. Transit' = Transit \cup {m}
  BY <1>6, <1>7 DEF Transit
<1>11. id \notin client.told /\ \A w \in Transit : w.k = "reply" => w.id # id
  BY <1>1 DEF Settling, Asking
<1>12. result = <<>> => told = {}
  BY <1>1
<1>13. Asking'
  <2>1. /\ requested' = requested /\ pending' = pending /\ records' = records /\ generation' = generation
        /\ moduleGeneration' = moduleGeneration /\ folders' = folders /\ main' = main
    BY <1>7 DEF scope, configuration
  <2>2. DOMAIN asked' \subseteq 1..requested' /\ client'.told \subseteq (1..requested') \ DOMAIN asked'
    BY <1>1, <1>2, <1>7, <1>8, <2>1 DEF Settling, Asking
  <2>3. requested' \in DOMAIN asked' => pending' = {requested'} /\ (main' = "idle" => asked'[requested'] = folders')
    BY <1>7, <2>1 DEF Settling, Asking
  <2>4. pending' = {requested'} => requested' \in DOMAIN asked' \/ \E w \in Transit' : w.k = "reply" /\ w.id = requested'
    BY <1>5, <1>7, <1>10, <2>1 DEF Settling, Asking
  <2>5. ASSUME NEW w \in Transit', w.k = "reply"
        PROVE  w.id \in (1..requested') \ DOMAIN asked' /\ (w.result = <<>> => w.id \notin client'.told)
    <3>1. CASE w = m
      BY <1>2, <1>5, <1>7, <1>8, <1>11, <1>12, <2>1, <3>1
    <3>2. CASE w # m
      BY <1>1, <1>7, <1>8, <1>10, <1>11, <2>1, <2>5, <3>2 DEF Settling, Asking
    <3> QED BY <3>1, <3>2
  <2> QED BY <2>1, <2>2, <2>3, <2>4, <2>5 DEF Settling, Asking
<1>14. Agreed'
  <2>1. /\ requested' = requested /\ pending' = pending /\ folders' = folders /\ main' = main
        /\ settings' = settings /\ roots' = roots /\ optedIn' = optedIn
    BY <1>7 DEF scope, configuration
  <2>2. Answer' = Answer
    BY <1>8, <2>1 DEF Answer
  <2>3. Agrees => Agrees'
    BY <1>8, <2>1 DEF Agrees
  <2>4. CASE id # requested
    BY <1>1, <1>5, <1>6, <1>8, <1>10, <2>1, <2>2, <2>3, <2>4 DEF Settling, Agreed
  <2>5. CASE id = requested
    <3>1. pending = {requested} /\ (main = "idle" => asked[id] = folders)
      BY <1>1, <2>5 DEF Settling, Asking
    <3>2. requested \in client'.told => told = {id}
      BY <1>8, <1>11, <1>1, <2>5
    <3>3. main = "idle" /\ told = {id} => m.result = <<Answer>>
      BY <1>1, <1>5, <3>1 DEF Answer
    <3> QED BY <1>5, <1>10, <1>11, <2>1, <2>2, <2>5, <3>1, <3>2, <3>3 DEF Agreed
  <2> QED BY <2>4, <2>5
<1> QED BY <1>9, <1>13, <1>14 DEF Settling

-----------------------------------------------------------------------------
(***************************************************************************)
(* The settings settle.                                                    *)
(***************************************************************************)
LEMMA NothingSettles ==
    ASSUME Settling, UNCHANGED <<client, asked, wire, deferred, optedIn, scope, configuration, main>> PROVE Settling'
<1>1. Transit' = Transit /\ Members(wire') = Members(wire)
  BY DEF Transit
<1>2. Typed'
  BY DEF Settling, Typed, scope, configuration
<1>3. Asking'
  BY <1>1 DEF Settling, Asking, scope, configuration
<1>4. Agreed'
  BY <1>1 DEF Settling, Agreed, Agrees, Answer, scope, configuration
<1> QED BY <1>2, <1>3, <1>4 DEF Settling

LEMMA InitSettles == ASSUME SaveInit PROVE Settling
<1>1. Members(wire) = {} /\ Members(deferred) = {}
  BY DEF SaveInit, Members
<1>2. Typed
  BY DefaultAssumption DEF SaveInit, Typed, Messages
<1>3. Asking
  BY <1>1 DEF SaveInit, Asking, Transit
<1>4. Agreed
  BY DEF SaveInit, Agreed
<1> QED BY <1>2, <1>3, <1>4 DEF Settling

Executes ==
    \/ FormatsDocument \/ FormatsRange \/ FormatsRanges \/ FormatsOnType \/ AnswersManual
    \/ StartsSave \/ ReadsSemantics \/ ReadsFolderGeneration \/ ReadsGeneration \/ ReadsScope
    \/ ReadsSettings \/ AnswersSave

LEMMA NextSettles == ASSUME Settling, [SaveNext]_saveVars PROVE Settling'
<1>1. CASE ChangesConfiguration \/ ChangesRoots \/ ChangesFolders
  BY <1>1, SaysSettles
<1>2. CASE AnswersValues \/ AnswersError
  BY <1>2, AnswersSettles
<1>3. CASE Reads \/ ReadsDeferred
  BY <1>3, ReadsSettles
<1>4. CASE InvalidatesScope
  BY <1>4, InvalidatesSettles DEF InvalidatesScope, clientVars, scope, Settling, Typed, Transit
<1>5. CASE EditsText
  BY <1>5, NothingSettles DEF EditsText, clientVars
<1>6. CASE Executes
  <2>1. UNCHANGED <<client, asked, wire, deferred, optedIn, scope, configuration, main>>
    BY <1>6 DEF Executes, FormatsDocument, FormatsRange, FormatsRanges, FormatsOnType, StartsManual, AnswersManual,
       StartsSave, ReadsSemantics, ReadsFolderGeneration, ReadsGeneration, ReadsScope, ReadsSettings, AnswersSave,
       Works, clientVars
  <2> QED BY <2>1, NothingSettles
<1>7. CASE UNCHANGED saveVars
  BY <1>7, NothingSettles DEF saveVars, clientVars
<1> QED BY <1>1, <1>2, <1>3, <1>4, <1>5, <1>6, <1>7 DEF SaveNext, Executes

\* Whatever replies are superseded, late or deferred behind a running request,
\* once everything the client sent is handled and its last answer carried values, the
\* formatting settings and the module search roots of the server are the client's.
THEOREM ConfigurationSettles == SaveSpec => []SettingsSettle
<1>1. SaveInit => Settling
  BY InitSettles
<1>2. Settling /\ [SaveNext]_saveVars => Settling'
  BY NextSettles
<1>3. ASSUME Settling PROVE SettingsSettle
  <2>1. SUFFICES ASSUME wire = <<>>, deferred = <<>>, main = "idle", requested \in client.told PROVE Agrees
    BY DEF SettingsSettle, Agrees
  <2>2. Members(wire) = {} /\ Transit = {}
    BY <2>1 DEF Members, Transit
  <2>3. pending = {}
    BY <1>3, <2>1, <2>2 DEF Settling, Asking
  <2> QED BY <1>3, <2>1, <2>2, <2>3 DEF Settling, Agreed
<1> QED BY <1>1, <1>2, <1>3, PTL DEF SaveSpec

-----------------------------------------------------------------------------
(***************************************************************************)
(* What a save has read.                                                   *)
(***************************************************************************)
LEMMA InnermostExists ==
    ASSUME NEW fs \in SUBSET Folders
    PROVE  \E f \in ScopesOf(fs) : \A g \in ScopesOf(fs) : f >= g
<1>1. PICK depth \in Nat : Folders = 1..depth
  BY FoldersAssumption, FS_CardinalityType
<1> DEFINE T == {depth - f : f \in ScopesOf(fs)}
<1>2. ScopesOf(fs) \subseteq 0..depth /\ Global \in ScopesOf(fs)
  BY <1>1 DEF ScopesOf, Global
<1>3. T \subseteq Nat /\ T # {}
  BY <1>2
<1>4. \E x \in T : \A y \in T : <<y, x>> \notin OpToRel(<, Nat)
  BY <1>3, NatLessThanWellFounded, WFMin
<1>5. PICK x \in T : \A y \in T : ~(y < x)
  BY <1>3, <1>4 DEF OpToRel
<1>6. PICK f \in ScopesOf(fs) : x = depth - f
  OBVIOUS
<1>7. ASSUME NEW g \in ScopesOf(fs) PROVE f >= g
  <2>1. ~(depth - g < depth - f)
    BY <1>5, <1>6
  <2> QED BY <1>2, <2>1
<1> QED BY <1>7

\* The scope of the innermost folder stands for the folders.
LEMMA ScopeStands ==
    ASSUME NEW fs \in SUBSET Folders, NEW s
    PROVE  Lookup(IF ScopeOf(fs) = Global THEN {} ELSE {ScopeOf(fs)}, s) = Lookup(fs, s)
<1>1. PICK f : f = ScopeOf(fs)
  OBVIOUS
<1>2. f \in ScopesOf(fs)
  BY <1>1, InnermostExists DEF ScopeOf
<1>3. Folders \subseteq Nat \ {0}
  BY FoldersAssumption, FS_CardinalityType
<1>4. PICK gs : gs = (IF f = Global THEN {} ELSE {f})
  OBVIOUS
<1>5. gs \in SUBSET Folders
  BY <1>2, <1>4 DEF ScopesOf
<1>6. ScopeOf(gs) \in ScopesOf(gs) /\ \A g \in ScopesOf(gs) : ScopeOf(gs) >= g
  BY <1>5, InnermostExists DEF ScopeOf
<1>7. ScopeOf(gs) = f
  <2>1. CASE f = Global
    BY <1>4, <1>6, <2>1 DEF ScopesOf
  <2>2. CASE f # Global
    <3>1. f \in Nat \ {0} /\ ScopesOf(gs) = {0, f}
      BY <1>2, <1>3, <1>4, <2>2 DEF ScopesOf, Global
    <3> QED BY <1>6, <3>1
  <2> QED BY <2>1, <2>2
<1> QED BY <1>1, <1>4, <1>7 DEF Lookup

LEMMA InvalidatesReading ==
    ASSUME Typed, Reading, NEW mg, Invalidates(folders, mg), UNCHANGED <<folders, foldersGeneration, save>> PROVE Reading'
<1>1. generation' = generation + 1 /\ generation \in Nat /\ settings' = settings /\ inForce' = {Lookup(folders, settings)}
  BY DEF Invalidates, Typed
<1>2. Lookup(folders', settings') = Lookup(folders, settings)
  BY <1>1 DEF Lookup
<1>3. save.at \in {"scope", "settings", "commit"} =>
        save.generation \in Nat /\ save.generation <= generation' /\ save.generation # generation'
  BY <1>1 DEF Reading
<1> QED BY <1>1, <1>2, <1>3 DEF Reading

LEMMA TakesReading ==
    ASSUME Typed, Asking, Reading, NEW m \in Transit, m \in Messages, Takes(m), UNCHANGED save PROVE Reading'
<1>1. CASE Notified(m)
  BY <1>1, InvalidatesReading DEF Notified, scope
<1>2. CASE FoldersArrive(m)
  <2>1. /\ foldersGeneration' = foldersGeneration + 1 /\ foldersGeneration \in Nat /\ UNCHANGED <<generation, settings>>
        /\ inForce' = inForce \cup {Lookup(folders', settings)}
    BY <1>2 DEF FoldersArrive, configuration, Typed
  <2>2. Lookup(folders', settings') = Lookup(folders', settings)
    BY <2>1 DEF Lookup
  <2>3. save.at \in {"generation", "scope", "settings", "commit"} =>
          save.folders \in Nat /\ save.folders <= foldersGeneration' /\ save.folders # foldersGeneration'
    BY <2>1 DEF Reading
  <2> QED BY <2>1, <2>2, <2>3 DEF Reading
<1>3. CASE Completes(m)
  <2>1. /\ UNCHANGED <<folders, foldersGeneration, generation>>
        /\ \/ inForce \subseteq inForce' /\ Lookup(folders, settings') \in inForce'
           \/ UNCHANGED <<inForce, settings>>
    BY <1>3 DEF Completes, scope, configuration
  <2>2. inForce \subseteq inForce'
    BY <2>1
  <2>3. Lookup(folders', settings') \in inForce'
    BY <2>1 DEF Reading, Lookup
  <2> QED BY <2>1, <2>2, <2>3 DEF Reading
<1> QED BY <1>1, <1>2, <1>3 DEF Takes

LEMMA ReadingSame ==
    ASSUME Reading, UNCHANGED <<folders, foldersGeneration, generation, settings, inForce, save>> PROVE Reading'
BY DEF Reading, Lookup

LEMMA ExecutesReading == ASSUME Typed, Reading, Executes PROVE Reading'
<1>1. UNCHANGED <<folders, foldersGeneration, generation, settings, inForce>>
  BY DEF Executes, FormatsDocument, FormatsRange, FormatsRanges, FormatsOnType, StartsManual, AnswersManual,
     StartsSave, ReadsSemantics, ReadsFolderGeneration, ReadsGeneration, ReadsScope, ReadsSettings, AnswersSave,
     Works, scope, configuration
<1>2. Lookup(folders', settings') = Lookup(folders, settings) /\ foldersGeneration \in Nat /\ generation \in Nat
  BY <1>1 DEF Lookup, Typed
<1>3. CASE FormatsDocument \/ FormatsRange \/ FormatsRanges \/ FormatsOnType
  <2>1. PICK kind \in {"document", "range", "ranges", "on type"} :
          save' = [at |-> "formatting", kind |-> kind, text |-> text]
    BY <1>3 DEF FormatsDocument, FormatsRange, FormatsRanges, FormatsOnType, StartsManual, Works
  <2>2. save'.at = "formatting" /\ save'.kind # "save"
    BY <2>1
  <2> QED BY <1>1, <1>2, <2>2 DEF Reading
<1>4. CASE AnswersManual \/ StartsSave \/ ReadsSemantics \/ AnswersSave
  BY <1>1, <1>2, <1>4 DEF AnswersManual, StartsSave, ReadsSemantics, AnswersSave, Works, Idle, Reading
<1>5. CASE ReadsFolderGeneration \/ ReadsGeneration
  BY <1>1, <1>2, <1>5 DEF ReadsFolderGeneration, ReadsGeneration, Works, Reading
<1>6. CASE ReadsScope
  <2>1. save'.scope = ScopeOf(folders) /\ ScopeOf(folders') = ScopeOf(folders)
    BY <1>1, <1>6 DEF ReadsScope, Works
  <2> QED BY <1>1, <1>2, <1>6, <2>1 DEF ReadsScope, Works, Reading
<1>7. CASE ReadsSettings
  <2>1. PICK used : used = Lookup(IF save.scope = Global THEN {} ELSE {save.scope}, settings)
    OBVIOUS
  <2>2. /\ save.at = "settings"
        /\ save' = [at |-> "commit", text |-> save.text, folders |-> save.folders, generation |-> save.generation,
                    used |-> used]
    BY <1>7, <2>1 DEF ReadsSettings, Works
  <2>3. save.folders = foldersGeneration => used \in inForce
    BY <2>1, <2>2, ScopeStands DEF Reading, Typed
  <2> QED BY <1>1, <1>2, <2>2, <2>3 DEF Reading
<1> QED BY <1>3, <1>4, <1>5, <1>6, <1>7 DEF Executes

LEMMA NextReading == ASSUME Settling, Reading, [SaveNext]_saveVars PROVE Reading'
<1>1. Typed /\ Asking
  BY DEF Settling
<1>2. CASE Reads \/ ReadsDeferred
  <2>1. UNCHANGED save
    BY <1>2 DEF Reads, ReadsDeferred
  <2>2. CASE Reads /\ Waits(Head(wire))
    BY <2>1, <2>2, ReadingSame DEF Reads, scope, configuration
  <2>3. CASE Reads /\ ~Waits(Head(wire))
    <3>1. Head(wire) \in Transit /\ Head(wire) \in Messages
      BY <1>1, <2>3, MembersOfTail DEF Reads, Transit, Typed
    <3> QED BY <1>1, <2>1, <2>3, <3>1, TakesReading DEF Reads
  <2>4. CASE ReadsDeferred
    <3>1. Head(deferred) \in Transit /\ Head(deferred) \in Messages
      BY <1>1, <2>4, MembersOfTail DEF ReadsDeferred, Transit, Typed
    <3> QED BY <1>1, <2>1, <2>4, <3>1, TakesReading DEF ReadsDeferred
  <2> QED BY <1>2, <2>2, <2>3, <2>4
<1>3. CASE InvalidatesScope
  BY <1>1, <1>3, InvalidatesReading DEF InvalidatesScope, scope
<1>4. CASE Executes
  BY <1>1, <1>4, ExecutesReading
<1>5. CASE \/ ChangesConfiguration \/ ChangesRoots \/ ChangesFolders \/ AnswersValues \/ AnswersError \/ EditsText
           \/ UNCHANGED saveVars
  BY <1>5, ReadingSame DEF ChangesConfiguration, ChangesRoots, ChangesFolders, AnswersValues, AnswersError, Answers,
     EditsText, saveVars, ServerIdle, scope, configuration
<1> QED BY <1>2, <1>3, <1>4, <1>5 DEF SaveNext, Executes

LEMMA InitReading == ASSUME SaveInit PROVE Reading
<1>1. Lookup(folders, settings) = Default
  BY DEF SaveInit, Lookup, Global
<1> QED BY <1>1 DEF SaveInit, Reading, Idle

\* A save reads the semantics, the generation of the folders, that of the settings,
\* its scope and its settings one after the other while main handles notifications
\* and replies: if it is answered with edits, they are of the current text and use
\* settings that were in force for the document since the last invalidation.
THEOREM SavesAreOfCurrentSettings == SaveSpec => SavedSinceInvalidation
<1>1. SaveInit => Settling /\ Reading
  BY InitSettles, InitReading
<1>2. (Settling /\ Reading) /\ [SaveNext]_saveVars => (Settling /\ Reading)'
  BY NextSettles, NextReading
<1> DEFINE Fresh == answer = None /\ answer' # None =>
                      save.text = text /\ (answer' = "save" => save.used \in inForce)
<1>3. ASSUME Settling, Reading, [SaveNext]_saveVars PROVE [Fresh]_saveVars
  <2>1. CASE AnswersManual
    BY <1>3, <2>1 DEF AnswersManual, Reading, None
  <2>2. CASE AnswersSave
    BY <1>3, <2>2 DEF AnswersSave, SaveCurrent, Reading
  <2>3. CASE answer' = answer \/ answer' = None
    BY <2>3
  <2>4. AnswersManual \/ AnswersSave \/ answer' = answer \/ answer' = None
    BY <1>3 DEF SaveNext, ChangesConfiguration, ChangesRoots, ChangesFolders, AnswersValues, AnswersError, Answers,
       ServerIdle, Reads, ReadsDeferred, InvalidatesScope, EditsText, FormatsDocument, FormatsRange, FormatsRanges,
       FormatsOnType, StartsManual, StartsSave, ReadsSemantics, ReadsFolderGeneration, ReadsGeneration, ReadsScope,
       ReadsSettings, saveVars
  <2> QED BY <2>1, <2>2, <2>3, <2>4
<1> QED BY <1>1, <1>2, <1>3, PTL DEF SaveSpec, SavedSinceInvalidation
=============================================================================
