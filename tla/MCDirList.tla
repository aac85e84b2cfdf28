------------------------------ MODULE MCDirList ------------------------------
(* Instances of DirList for TLC. *)
EXTENDS DirList
=============================================================================
