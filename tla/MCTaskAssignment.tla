-------------------------- MODULE MCTaskAssignment --------------------------
(***************************************************************************)
(* Instances of TaskAssignment for TLC.                                    *)
(***************************************************************************)
EXTENDS TaskAssignment, TLC

CONSTANTS owner, ann, gus, t1, t2

\* Payloads for the assignee alone, for the title alone, and for both.
Assign == {[assignee |-> u] : u \in {ann, Nobody}}
Rename == {[title |-> t1]}
Both   == {[assignee |-> ann, title |-> t2]}

\* One more account, which cannot be assigned to.
ToInactive == {[assignee |-> gus]}

MCPatches  == Assign \cup Rename \cup Both \cup ToInactive
FewPatches == Assign \cup Both

\* Requests are interchangeable.
Symmetry == Permutations(Requests)
=============================================================================
