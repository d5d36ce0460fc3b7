--------------------------- MODULE MCFileIdentity ---------------------------
(* FileIdentity for TLC: one executable with two contents; paths share nothing. *)
EXTENDS FileIdentity

CONSTANTS app, old, new
=============================================================================
