------------------------------ MODULE MCFeatures ------------------------------
(***************************************************************************)
(* Values and bounds for TLC, and one run over parts of the server that    *)
(* share nothing: in a session of one part the others stand still.         *)
(***************************************************************************)
EXTENDS SaveFormatting, TokenDeltas, FileOperations, TLC

CONSTANTS u1, u2,
  Parts            \* the parts of the server that sessions may be about

VARIABLE part

Two == {u1, u2}
Few == {<<1>>, <<1, 1>>}
Symmetric == Permutations(Two)

Operation(k, files, leaving) == [k |-> k, files |-> files, leaving |-> leaving]
\* Two files to create, one to delete, and the renames of one file and of two that
\* change their names.
AllOperations ==
  {Operation("create", <<Destination, Source>>, {}),
   Operation("delete", <<Source>>, {Source}),
   Operation("rename", <<Source, Destination>>, {Source}),
   Operation("rename", <<Source, Destination>>, {Source, Destination})}
Imported == {Importer, Source}

FeatureInit ==
  /\ part \in Parts /\ SaveInit /\ TokenInit /\ FileInit
  /\ part = "formatting" => (optedIn <=> folders = {})
  /\ part # "formatting" => ~optedIn /\ folders = {}
  /\ IF part = "files" THEN disk[Importer] # NoText
     ELSE \A f \in Files : buffer[f] = Absent /\ disk[f] = NoText

FeatureNext ==
  \/ part = "formatting" /\ SaveNext /\ UNCHANGED <<part, tokenVars, fileVars>>
  \/ part = "tokens" /\ TokenNext /\ UNCHANGED <<part, saveVars, fileVars>>
  \/ part = "files" /\ FileNext /\ UNCHANGED <<part, saveVars, tokenVars>>

FeatureSpec == FeatureInit /\ [][FeatureNext]_<<part, saveVars, tokenVars, fileVars>>
=============================================================================
