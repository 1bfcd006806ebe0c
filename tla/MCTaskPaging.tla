---------------------------- MODULE MCTaskPaging ----------------------------
(***************************************************************************)
(* An instance of TaskPaging for TLC.                                      *)
(***************************************************************************)
EXTENDS TaskPaging
=============================================================================
