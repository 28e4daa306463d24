--------------------------- MODULE MCStripeBilling ---------------------------
(* Instances of StripeBilling for TLC. *)
EXTENDS StripeBilling, TLC

CONSTANTS c1, c2

TwoCheckouts == {c1, c2}

(* Checkouts are interchangeable. *)
Symmetry == Permutations(TwoCheckouts)
=============================================================================
