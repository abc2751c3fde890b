--------------------------- MODULE MCSlottedPage ---------------------------
(* SlottedPage with a few short records.                                    *)
EXTENDS SlottedPage, TLC

RecSymmetry == Permutations(Recs)

=============================================================================
