---------------------------- MODULE MCPagerCache ----------------------------
(* PagerCache: the two roots are interchangeable, and so are other pages.   *)
EXTENDS PagerCache, TLC

PageSymmetry == Permutations(Roots) \cup Permutations(Pages \ Roots)

=============================================================================
