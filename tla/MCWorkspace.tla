------------------------------ MODULE MCWorkspace ------------------------------
(***************************************************************************)
(* Small workspaces for TLC.                                               *)
(***************************************************************************)
EXTENDS WorkspaceSession, TLC

Symmetry == Permutations(Uris)

AllRequests == AllOrders

NoRequests == {}

=============================================================================
