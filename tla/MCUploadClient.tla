---------------------------- MODULE MCUploadClient ----------------------------
(* Instances of UploadClient for TLC. *)
EXTENDS UploadClient

CONSTANT c1

OneContent == {c1}
=============================================================================
