---------------------------- MODULE MCLifecycle ----------------------------
(* Lifecycle for TLC: enough processes for every start, handover and fault.  *)
EXTENDS Lifecycle

MCProcs == 1..(MaxStarts + MaxHandovers + MaxFaults)
=============================================================================
