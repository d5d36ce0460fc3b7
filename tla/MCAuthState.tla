----------------------------- MODULE MCAuthState -----------------------------
(* Instances of AuthState for TLC: cat and dog are strong passwords, ox a    *)
(* weak one.                                                                 *)
EXTENDS AuthState, TLC

CONSTANTS cat, dog, ox

Symmetry == Permutations(Strong)
=============================================================================
