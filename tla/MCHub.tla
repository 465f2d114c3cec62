------------------------------- MODULE MCHub -------------------------------
(* Hub on small instances.  Clients are model values and no property that  *)
(* is checked under Symmetry tells one from another.                       *)
EXTENDS Hub, TLC

Symmetry == Permutations(Clients)
=============================================================================
