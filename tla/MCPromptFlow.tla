---------------------------- MODULE MCPromptFlow ----------------------------
(* Instances of PromptFlow for TLC.  word and copy are two records with the   *)
(* same executable name at different paths; note is a record without a path.  *)
EXTENDS PromptFlow

CONSTANTS word, copy, note, wordPath, copyPath, wordExe, noteName

MCAliasesOf ==
  [app \in Apps |-> CASE app = word -> {wordPath, wordExe}
                      [] app = copy -> {copyPath, wordExe}
                      [] app = note -> {noteName}]
=============================================================================
