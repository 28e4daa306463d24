----------------------------- MODULE MCAccounts -----------------------------
(* Instances of Accounts for TLC. *)
EXTENDS Accounts, TLC

CONSTANTS r1, r2, r3, r4, r5

FiveReq == {r1, r2, r3, r4, r5}

(* Requests are interchangeable. *)
Symmetry == Permutations(FiveReq)
=============================================================================
