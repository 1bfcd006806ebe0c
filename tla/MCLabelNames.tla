---------------------------- MODULE MCLabelNames ----------------------------
(***************************************************************************)
(* An instance of LabelNames for TLC.                                      *)
(***************************************************************************)
EXTENDS LabelNames, TLC

\* Requests, labels and names are interchangeable, each among themselves.
Symmetry == Permutations(Requests) \cup Permutations(Labels) \cup Permutations(Names)
=============================================================================
