--------------------------- MODULE MCVaultEngine ---------------------------
(***************************************************************************)
(* Symmetry for TLC: no definition orders ids, texts or the pages besides  *)
(* the roots.                                                              *)
(***************************************************************************)
EXTENDS VaultEngine, TLC

Symmetry == Permutations(Ids) \cup Permutations(Texts) \cup Permutations(Pool)
=============================================================================
