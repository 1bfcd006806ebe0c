-------------------------- MODULE MCRefreshSessions --------------------------
(***************************************************************************)
(* Instances of RefreshSessions for TLC.                                   *)
(***************************************************************************)
EXTENDS RefreshSessions, TLC

\* Requests are interchangeable.
Symmetry == Permutations(Requests)
=============================================================================
