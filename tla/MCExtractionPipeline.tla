------------------------ MODULE MCExtractionPipeline ------------------------
(* Instances of ExtractionPipeline for TLC. *)
EXTENDS ExtractionPipeline, TLC

CONSTANTS r1, r2, r3, f1, f2

TwoReq    == {r1, r2}
ThreeReq  == {r1, r2, r3}
OneFile   == {f1}
TwoFiles  == {f1, f2}

OnePlan   == {2}
TwoPlans  == {1, 2}

(* Every error the extractor can raise. *)
AllFailures == ErrorCode

(* One error of each class: the slot is consumed, the slot is given back.  *)
OneOfEach == {"MALFORMED_PDF", "UNKNOWN"}

(* Requests and contents are interchangeable. *)
SymmetryReq  == Permutations(ThreeReq)
SymmetryBoth == Permutations(ThreeReq) \cup Permutations(TwoFiles)
=============================================================================
