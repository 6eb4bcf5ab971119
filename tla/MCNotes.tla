------------------------------- MODULE MCNotes -------------------------------
(* An instance of Notes for TLC. *)
EXTENDS Notes
==============================================================================
