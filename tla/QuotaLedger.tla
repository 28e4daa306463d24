---------------------------- MODULE QuotaLedger ----------------------------
(***************************************************************************)
(* What the quota gate of backend/quota.py promises, without saying how:   *)
(* within one window an organization is billed for at most `quota`         *)
(* extractions, an extraction that fails on our side stops being billed,   *)
(* and a new window starts from an empty bill.  ExtractionPipeline is      *)
(* shown to implement this module when one request is served at a time.    *)
(***************************************************************************)
EXTENDS Naturals, FiniteSets

CONSTANTS Extraction,  \* the extractions an organization may ask for
          PlanQuotas   \* the quotas a plan may grant

VARIABLES quota,       \* what the current plan grants per window
          billed       \* the extractions billed in the current window

vars == <<quota, billed>>

Init == /\ quota \in PlanQuotas
        /\ billed = {}

(* One more extraction is billed, only while the window has room for it. *)
Bill(e) == /\ e \notin billed
           /\ Cardinality(billed) < quota
           /\ billed' = billed \cup {e}
           /\ UNCHANGED quota

(* The organization does not pay for our outage. *)
Refund(e) == /\ e \in billed
             /\ billed' = billed \ {e}
             /\ UNCHANGED quota

(* The rolling window elapses; the code notices when the next extraction  *)
(* is asked for, so a window may open with that extraction on its bill.   *)
NewWindow == /\ billed' \in {{}} \cup {{e} : e \in Extraction}
             /\ UNCHANGED quota

(* A plan is bought or cancelled: new quota, empty bill. *)
NewPlan == /\ quota' \in PlanQuotas
           /\ billed' = {}

Next == \/ \E e \in Extraction : Bill(e) \/ Refund(e)
        \/ NewWindow
        \/ NewPlan

Spec == Init /\ [][Next]_vars

(* Never more billed extractions in a window than the plan grants. *)
WithinQuota == Cardinality(billed) <= quota
============================================================================
