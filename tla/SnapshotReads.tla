---------------------------- MODULE SnapshotReads ----------------------------
(***************************************************************************)
(* What a get of the snapshot chain promises.  A get keeps no lock from    *)
(* one layer to the next, so the stores may change between any two of its  *)
(* reads; still, what it returns was all current together at one instant   *)
(* of the call.  The auxiliary variable "witnessed" records, for each get  *)
(* under way, every snapshot of its URI and layer of which that was true   *)
(* at some instant since its first read.                                   *)
(***************************************************************************)
EXTENDS SnapshotChain

VARIABLE witnessed

readVars == <<vars, witnessed>>

\* Current, and for diagnostics every related semantic current as well.
WhollyCurrent(s, k) ==
    /\ Current(s)
    /\ k = Depth => \A g \in related[s.line[k]] : Current(g)

CurrentNow(t) ==
    {s \in made : /\ s.uri = call[t].focus.uri
                  /\ DOMAIN s.line = 0..call[t].layer
                  /\ WhollyCurrent(s, call[t].layer)}

Witness ==
    witnessed' = [t \in Threads |->
        IF call'[t].op # "get" THEN {}
        ELSE CurrentNow(t)' \cup (IF call[t].op = "get" THEN witnessed[t] ELSE {})]

ReadNext == Next /\ Witness

ReadInit == Init /\ witnessed = [t \in Threads |-> {}]

ReadSpec == ReadInit /\ [][ReadNext]_readVars

\* A get answers with a snapshot that was current, with its whole ancestry and
\* every related semantic, at one instant between its first read and its return,
\* although each layer was read under a lock of its own.
GetAnswersOneInstant ==
    \A t \in Threads : Answers(t) => call[t].focus \in witnessed[t]

=============================================================================
