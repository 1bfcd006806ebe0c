--------------------------- MODULE MCTaskListCache ---------------------------
(***************************************************************************)
(* Instances of TaskListCache for TLC.                                     *)
(***************************************************************************)
EXTENDS TaskListCache, TLC

\* Requests of one kind are interchangeable, and so are fingerprints.
Symmetry == Permutations(Readers) \cup Permutations(Writers) \cup Permutations(Queries)
=============================================================================
