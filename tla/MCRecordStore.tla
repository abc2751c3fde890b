--------------------------- MODULE MCRecordStore ---------------------------
(* RecordStore on a file of a few pages.                                    *)
EXTENDS RecordStore, TLC

\* Keys are interchangeable, and so are the pages other than the root.
StoreSymmetry == Permutations(Keys) \cup Permutations(Pages \ {Root})

=============================================================================
