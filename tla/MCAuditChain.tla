---------------------------- MODULE MCAuditChain ----------------------------
(* AuditChain for TLC: details of one and two words, with blanks to spare,    *)
(* that fit or are cut inside a word; and a text that is cut at a blank.      *)
EXTENDS AuditChain

CONSTANTS ui, monitor, x, blank

Short == {<<x>>, <<blank, x, blank, blank, x>>, <<x, x, x, x>>}
CutAtBlank == {<<x>>, <<x, x, blank, x>>}

Old == {<<>>, <<<<x>>>>, <<<<x, blank>>, <<x>>>>}
=============================================================================
