----------------------------- MODULE MCComments -----------------------------
(***************************************************************************)
(* An instance of Comments, and of the members it rests on, for TLC.       *)
(***************************************************************************)
EXTENDS Comments, TLC

\* Requests, users and ids are interchangeable.
Symmetry == Permutations(Admins) \cup Permutations(Writers) \cup Permutations(Users)
            \cup Permutations(Rows) \cup Permutations(Comments)
=============================================================================
