--------------------------- MODULE MCDocumentViewer ---------------------------
(* Instances of DocumentViewer for TLC: the cfg gives all constants. *)
EXTENDS DocumentViewer
=============================================================================
