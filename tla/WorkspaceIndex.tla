---------------------------- MODULE WorkspaceIndex ----------------------------
(***************************************************************************)
(* The workspace symbol index (workspace.py) and the folder scope          *)
(* (workspace_folders.py): state and operations.  The index holds one      *)
(* semantic snapshot per URI, of an open buffer or of a file on disk; both *)
(* parts count their changes, so that a result computed from all of the    *)
(* workspace can be refused once any of it has changed.                    *)
(*                                                                         *)
(* A snapshot carries the identity of its document, 0 for the detached     *)
(* snapshot of a file.                                                     *)
(***************************************************************************)
EXTENDS Naturals, FiniteSets

CONSTANTS
    Uris,       \* URIs of Nova sources
    MaxId,      \* bound: how many objects a behaviour may allocate
    None        \* "no such thing"

VARIABLES
    index,              \* index[u]: the snapshot the index holds for the URI
    generation,         \* of the index
    scope,              \* the URIs contained in the workspace folders
    scopeGeneration     \* of the folders

indexVars == <<index, generation>>
scopeVars == <<scope, scopeGeneration>>

Snapshots == [uri : Uris, doc : 0..MaxId, id : 1..MaxId]

Detached(s) == s.doc = 0

Indexed == {index[u] : u \in Uris} \ {None}

\* snapshots(): everything that is indexed, with the generation it belongs to.
Capture == [snapshots |-> Indexed, generation |-> generation]

WorkspaceTypeOK ==
    /\ index \in [Uris -> Snapshots \cup {None}]
    /\ \A u \in Uris : index[u] # None => index[u].uri = u
    /\ generation \in Nat /\ scopeGeneration \in Nat
    /\ scope \in SUBSET Uris

WorkspaceInit ==
    /\ index = [u \in Uris |-> None]
    /\ generation = 0
    /\ scope \in SUBSET Uris
    /\ scopeGeneration = 0

\* The entry of u is not the one the caller knows.  None means that the caller
\* expects nothing in particular, not that it expects no entry.
Refuses(u, expected) == expected # None /\ index[u] # expected

Replace(s, expected) ==
    /\ ~Refuses(s.uri, expected)
    /\ index' = [index EXCEPT ![s.uri] = s]
    /\ generation' = IF index[s.uri] = s THEN generation ELSE generation + 1

Remove(u, expected) ==
    /\ ~Refuses(u, expected)
    /\ index' = [index EXCEPT ![u] = None]
    /\ generation' = IF index[u] = None THEN generation ELSE generation + 1

\* invalidate_complete_queries
Invalidate ==
    /\ generation' = generation + 1
    /\ UNCHANGED index

\* apply_change: nothing is counted when nothing changes.
ChangeScope(s) ==
    /\ s # scope
    /\ scope' = s
    /\ scopeGeneration' = scopeGeneration + 1

\* Fault: the snapshots are compared, the generation is not.
CompleteBySnapshots(c) == c.snapshots = Indexed

\* Fault: every captured snapshot is compared, what was added is not.
CompleteForCaptured(c) == c.snapshots \subseteq Indexed

\* What commit_snapshots_if_current compares.
Complete(c) == c.snapshots = Indexed /\ c.generation = generation

\* What the folders' commit_if_current compares.
ScopeCurrent(g) == g = scopeGeneration

=============================================================================
