---------------------------- MODULE MCTaskLabels ----------------------------
(***************************************************************************)
(* Instances of TaskLabels for TLC.                                        *)
(***************************************************************************)
EXTENDS TaskLabels, TLC

\* Transactions, tasks, labels and projects are interchangeable, each among
\* themselves.
Symmetry == Permutations(Requests) \cup Permutations(Tasks)
            \cup Permutations(Labels) \cup Permutations(Projects)
=============================================================================
