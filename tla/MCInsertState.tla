---------------------------- MODULE MCInsertState ----------------------------
(* Two tables, three statements nested up to three deep, four rows. *)
EXTENDS InsertState
=============================================================================
