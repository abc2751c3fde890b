----------------------------- MODULE MCVaultIndex -----------------------------
(* VaultIndex with bytes 1 ("A"), 2 ("a"), 3 ("b") and 4 (the greatest).     *)
EXTENDS VaultIndex, TLC

MCUpperCase == {1}
MCNames     == {<<1>>, <<2, 4>>, <<4>>}
MCQueries   == {<<>>, <<1>>, <<2, 4>>, <<3>>, <<4>>}

IdSymmetry == Permutations(Ids)

===============================================================================
