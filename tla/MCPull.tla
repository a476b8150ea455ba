------------------------------- MODULE MCPull -------------------------------
(***************************************************************************)
(* Values and bounds for TLC.  A session asks for the diagnostics of its   *)
(* documents or of the workspace.                                          *)
(***************************************************************************)
EXTENDS PullDiagnostics, TLC

CONSTANTS u1, u2

Two == {u1, u2}
Symmetric == Permutations(Two)

\* Sessions that start with nothing open, and with both documents analysed.
Either == {{}, Two}

Bounds == [document |-> 4, workspace |-> 3]
=============================================================================
