----------------------------- MODULE MCModelStore -----------------------------
(* TLC instances of ModelStore. *)
EXTENDS ModelStore, TLC

CONSTANTS c1, c2, c3, m1, m2, away, root, default, none

ClientSymmetry == Permutations(Clients)
ModelSymmetry  == Permutations(Models)
Symmetry       == ClientSymmetry \cup ModelSymmetry
=============================================================================
