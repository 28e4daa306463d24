--------------------------- MODULE MCReviewSession ---------------------------
(* Instances of ReviewSession for TLC. *)
EXTENDS ReviewSession, TLC

CONSTANTS t1, t2, c1, c2, c3

TwoTabs     == {t1, t2}
ThreeClicks == {c1, c2, c3}

(* Tabs and clicks are interchangeable. *)
Symmetry == Permutations(TwoTabs) \cup Permutations(ThreeClicks)
=============================================================================
