---------------------------- MODULE MCStdioRuntime ----------------------------
(***************************************************************************)
(* Instances of StdioRuntime for TLC; ids are interchangeable.             *)
(***************************************************************************)
EXTENDS StdioRuntime, TLC

CONSTANTS
    BriefFrames     \* bound: frames of a session that ends or asks the client

Symmetry == Permutations(Ids)

\* The last frames of a long session are about the lanes alone: its input goes on,
\* its output works and no refresh was requested.
Explored ==
    \/ frames <= BriefFrames
    \/ /\ reader.pc # "stopped"
       /\ nextRequest = 1
       /\ refresh = [t \in {"main", "worker"} |-> "none"]
       /\ main.cause # "abort"

=============================================================================
