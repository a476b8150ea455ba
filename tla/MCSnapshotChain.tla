--------------------------- MODULE MCSnapshotChain ---------------------------
(***************************************************************************)
(* Instances of the snapshot chain for TLC.  URIs and threads are          *)
(* interchangeable.                                                        *)
(***************************************************************************)
EXTENDS SnapshotReads, TLC

Symmetry == Permutations(Uris) \cup Permutations(Threads)

\* Bound: the last object of a behaviour is one of its only URI.
OneUriAtLast == nextId > MaxId => \E u \in Uris : \A s \in made : s.uri = u

BoundedSpec == ReadInit /\ [][ReadNext /\ OneUriAtLast']_readVars
=============================================================================
