----------------------------- MODULE PageSupply -----------------------------
(***************************************************************************)
(* What the managers rely on when they ask the pager for pages: a page     *)
(* they are given is not in use, and stays theirs until they give it back. *)
(***************************************************************************)
CONSTANTS All, Roots

VARIABLES used, avail

Init == used = Roots /\ avail \in SUBSET (All \ used)

Take == \E p \in avail : used' = used \cup {p} /\ avail' = avail \ {p}

Give ==
  \E p \in used \ Roots : used' = used \ {p} /\ avail' = avail \cup {p}

(* The pager keeps some pages for itself, returns them, or loses some when  *)
(* the vault is reopened.                                                   *)
Housekeeping == used' = used /\ avail' \in SUBSET (All \ used)

Next == Take \/ Give \/ Housekeeping

Spec == Init /\ [][Next]_<<used, avail>>

=============================================================================
