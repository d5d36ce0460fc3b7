-------------------------- MODULE MCPromptSessions --------------------------
(* Instances of PromptSessions for TLC: word and note are applications, p1 to *)
(* p3 process ids.  Apps and pids are interchangeable.                        *)
EXTENDS PromptSessions, TLC

CONSTANTS word, note, p1, p2, p3

Symmetry == Permutations(Apps) \union Permutations(Pids)
=============================================================================
