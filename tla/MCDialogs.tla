----------------------------- MODULE MCDialogs -----------------------------
(* Two operations and two recovery keys at a time, two nested event loops.    *)
EXTENDS Dialogs

CONSTANTS op1, op2, key1, key2
MCOps == {op1, op2}
MCKeys == {key1, key2}
=============================================================================
