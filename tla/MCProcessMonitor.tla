-------------------------- MODULE MCProcessMonitor --------------------------
(* Instances of ProcessMonitor for TLC: word and note are applications, p1 to *)
(* p3 process ids.                                                            *)
EXTENDS ProcessMonitor, TLC

CONSTANTS word, note, p1, p2, p3

=============================================================================
