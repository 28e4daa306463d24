-------------------------- MODULE MCDocumentLibrary --------------------------
(* Instances of DocumentLibrary for TLC. *)
EXTENDS DocumentLibrary

CONSTANTS d1, d2, r1

Documents == {d1, d2}
OneRequest == {r1}

(* One extraction per document. *)
OnePerDocument == [e \in Row |-> IF e = 2 THEN d2 ELSE d1]
FoundOld == {1}
TypeOfNew == {e \in Row : e > 1}
=============================================================================
