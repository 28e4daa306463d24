---------------------------- MODULE MCReviewFields ----------------------------
(* Instances of ReviewFields for TLC. *)
EXTENDS ReviewFields

Loads(name, tin, address, amount) ==
  [seller |-> name # None, money |-> amount # None,
   value |-> [f \in Field |-> CASE f = "name" -> name [] f = "tin" -> tin
                               [] f = "address" -> address [] OTHER -> amount]]

(* A complete document, and what may be missing or odd in one. *)
Documents == {Loads("good", "odd", "good", "good"), Loads("good", None, "dash", None),
              Loads("dash", "blank", "good", None), Loads(None, None, None, "good")}
=============================================================================
