---------------------------- MODULE MCPolicyStore ----------------------------
(* Instances of PolicyStore for TLC: two executables of the same name, and a  *)
(* name (paint) that only a rule of an earlier version has.                   *)
EXTENDS PolicyStore

CONSTANTS system, copy, edit, paint

Same == [a \in Apps |-> edit]

ByName(name) == [app |-> NoApp, name |-> name, digest |-> NoDigest]
ByPath(a, digest) == [app |-> a, name |-> Same[a], digest |-> digest]

\* Two rules by name and one by path, and a rule that is there twice.
Old == {{ByName(edit), ByName(paint), ByPath(copy, CHOOSE d \in Digests : TRUE)},
        {ByPath(system, d) : d \in Digests}}
=============================================================================
