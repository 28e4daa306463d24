---------------------- MODULE ExtractionPipelineProofs ----------------------
(***************************************************************************)
(* Safety of ExtractionPipeline for every set of requests and contents,    *)
(* every list of plans, every window length and every bound: the state is  *)
(* well typed, the counter never passes the largest plan, rows never point *)
(* at missing files, and a content is extracted by one upload at most.  At *)
(* the end, for requests served one at a time: the bill is exact and never *)
(* past the plan.                                                          *)
(***************************************************************************)
EXTENDS ExtractionPipeline, FiniteSetTheorems, TLAPS

-----------------------------------------------------------------------------
(* The quota arithmetic. *)

(* reset_if_due moves an elapsed reset time to a moment that is after now  *)
(* and at most one window away, however many windows were missed.          *)
LEMMA NextResetInWindow ==
  ASSUME NEW t \in Int, NEW n \in Int, t <= n
  PROVE  NextReset(t, n) \in n + 1 .. n + Roll
<1> DEFINE q == (n - t) \div Roll
<1>1. /\ q \in Int
      /\ Roll * q <= n - t
      /\ n - t < Roll * q + Roll
  BY RollAssumption
<1>2. Roll * (q + 1) = Roll * q + Roll
  BY <1>1, RollAssumption
<1> QED
  BY <1>1, <1>2, RollAssumption DEF NextReset

(* Rolling the window keeps an organization record well formed. *)
LEMMA ResetType ==
  ASSUME now \in Nat, NEW o \in Org
  PROVE  /\ reset_if_due(o) \in Org
         /\ reset_if_due(o).quota = o.quota
         /\ reset_if_due(o).used <= o.used
<1>1. CASE o.resetAt > now
  BY <1>1 DEF reset_if_due, Org
<1>2. CASE ~(o.resetAt > now)
  <2>1. NextReset(o.resetAt, now) \in now + 1 .. now + Roll
    BY <1>2, NextResetInWindow DEF Org
  <2>2. NextReset(o.resetAt, now) \in Nat
    BY <2>1, RollAssumption
  <2>3. PICK m \in Nat : reset_if_due(o) = [o EXCEPT !.used = 0, !.resetAt = m]
    BY <1>2, <2>2 DEF reset_if_due
  <2>4. o.used \in Nat
    BY DEF Org
  <2>5. reset_if_due(o) \in Org
    <3>1. PICK z \in Org : z = [o EXCEPT !.used = 0]
      BY DEF Org
    <3>2. reset_if_due(o) = [z EXCEPT !.resetAt = m]
      BY <2>3, <3>1 DEF Org
    <3> QED
      BY <3>2 DEF Org
  <2>6. reset_if_due(o).quota = o.quota /\ reset_if_due(o).used = 0
    BY <2>3 DEF Org
  <2> QED
    BY <2>4, <2>5, <2>6
<1> QED
  BY <1>1, <1>2

(* Bumping and refunding keep an organization record well formed. *)
LEMMA IncrementType ==
  ASSUME now \in Nat, NEW o \in Org
  PROVE  increment(o) \in Org
BY ResetType DEF increment, Org

LEMMA RefundType ==
  ASSUME NEW o \in Org
  PROVE  /\ refund_quota(o) \in Org
         /\ refund_quota(o).used <= o.used
BY DEF refund_quota, Org

(* A flush mixes columns of well formed records into a well formed record. *)
LEMMA FlushType ==
  ASSUME org \in Org, NEW before \in Org, NEW after \in Org
  PROVE  /\ Flush(before, after) \in Org
         /\ Flush(before, after).used \in {org.used, after.used}
BY DEF Flush, Org

(* What a commit of the organization does to the types. *)
LEMMA CommitType ==
  ASSUME TypeOK, NEW r \in Req, NEW after \in Org, NEW created \in SUBSET Req,
         CommitOrg(r, after, created)
  PROVE  /\ org' \in Org
         /\ loaded' \in [Req -> Org]
         /\ mem' \in [Req -> Org]
         /\ window' \subseteq Req
<1>1. FreshOrg \in Org
  BY PlanAssumption, RollAssumption DEF FreshOrg, Org
<1>2. org' \in Org
  BY FlushType DEF CommitOrg, TypeOK
<1> QED
  BY <1>1, <1>2 DEF CommitOrg, TypeOK

(* A job is about one of the contents. *)
LEMMA JobFile ==
  ASSUME TypeOK, NEW r \in Req
  PROVE  job[r].file \in File
<1>1. job[r] \in Job
  BY DEF TypeOK
<1> QED
  BY <1>1 DEF Job

(* The state is well typed in every reachable state. *)
THEOREM TypeCorrect == Spec => []TypeOK
<1> USE DEF InFlight, Refused, Answered, Status
<1>0. FreshOrg \in Org
  BY PlanAssumption, RollAssumption DEF FreshOrg, Org
<1>1. Init => TypeOK
  BY <1>0 DEF Init, TypeOK, NoRow
<1>2. TypeOK /\ [Next]_vars => TypeOK'
  <2> SUFFICES ASSUME TypeOK, [Next]_vars PROVE TypeOK'
    OBVIOUS
  <2>1. ASSUME NEW r \in Req, Arrive(r) PROVE TypeOK'
    BY <2>1 DEF Arrive, Goto, Environment, TypeOK
  <2>2. ASSUME NEW r \in Req, upload_document(r) PROVE TypeOK'
    <3>1. CASE UploadExhausted(r)
      BY <1>0, <3>1 DEF UploadExhausted, Abandon, Goto, Environment, TypeOK
    <3>2. CASE UploadRejected(r)
      <4>1. refund_quota(increment(loaded[r])) \in Org
        BY IncrementType, RefundType DEF TypeOK
      <4> QED
        BY <3>2, <4>1, CommitType DEF UploadRejected, Goto, Environment, TypeOK
    <3>3. CASE UploadDuplicate(r)
      <4>1. refund_quota(increment(loaded[r])) \in Org
        BY IncrementType, RefundType DEF TypeOK
      <4> QED
        BY <3>3, <4>1, CommitType DEF UploadDuplicate, Goto, Environment, TypeOK
    <3>4. CASE UploadStored(r)
      <4>1. increment(loaded[r]) \in Org
        BY IncrementType DEF TypeOK
      <4> QED
        BY <3>4, <4>1, CommitType, JobFile
        DEF UploadStored, store, _create_extraction, Goto, Environment, TypeOK
    <3>5. CASE UploadCollides(r)
      BY <1>0, <3>5 DEF UploadCollides, Abandon, Goto, Environment, TypeOK
    <3> QED
      BY <2>2, <3>1, <3>2, <3>3, <3>4, <3>5 DEF upload_document
  <2>3. ASSUME NEW r \in Req, reextract_document(r) PROVE TypeOK'
    <3>1. CASE ReextractMissing(r)
      BY <1>0, <3>1 DEF ReextractMissing, Abandon, Goto, Environment, TypeOK
    <3>2. CASE ReextractExhausted(r)
      BY <1>0, <3>2 DEF ReextractExhausted, Abandon, Goto, Environment, TypeOK
    <3>3. CASE ReextractChecked(r)
      <4>1. increment(loaded[r]) \in Org
        BY IncrementType DEF TypeOK
      <4> QED
        BY <3>3, <4>1 DEF ReextractChecked, Goto, Environment, TypeOK
    <3>4. CASE ReextractCreated(r)
      BY <3>4, CommitType
      DEF ReextractCreated, _create_extraction, Goto, Environment, TypeOK
    <3>5. CASE ReextractRefused(r)
      <4>1. refund_quota(mem[r]) \in Org
        BY RefundType DEF TypeOK
      <4> QED
        BY <3>5, <4>1, CommitType DEF ReextractRefused, Goto, Environment, TypeOK
    <3> QED
      BY <2>3, <3>1, <3>2, <3>3, <3>4, <3>5 DEF reextract_document
  <2>4. ASSUME NEW r \in Req, run_extraction(r) PROVE TypeOK'
    <3>1. CASE RunStarts(r)
      BY <3>1 DEF RunStarts, Goto, Environment, TypeOK
    <3>2. CASE RunCompletes(r)
      BY <3>2 DEF RunCompletes, Goto, Environment, TypeOK
    <3>3. CASE RunFails(r)
      BY <3>3, FailuresAssumption DEF RunFails, Goto, Environment, TypeOK
    <3>4. CASE RunRefunds(r)
      <4>1. refund_quota(org) \in Org
        BY RefundType DEF TypeOK
      <4> QED
        BY <3>4, <4>1, FailuresAssumption DEF RunRefunds, Goto, Environment, TypeOK
    <3>5. CASE RunRefunded(r)
      BY <3>5, CommitType DEF RunRefunded, Goto, Environment, TypeOK
    <3> QED
      BY <2>4, <3>1, <3>2, <3>3, <3>4, <3>5 DEF run_extraction
  <2>5. ASSUME NEW r \in Req, UploadDiskFails(r) PROVE TypeOK'
    BY <1>0, <2>5, JobFile DEF UploadDiskFails, Abandon, Goto, TypeOK
  <2>6. CASE bulk_delete
    BY <2>6 DEF bulk_delete, Environment, TypeOK
  <2>7. CASE _apply_plan_to_org
    BY <2>7, RollAssumption DEF _apply_plan_to_org, Org, TypeOK
  <2>8. CASE Tick
    BY <2>8 DEF Tick, TypeOK
  <2>9. CASE Crash
    BY <1>0, <2>9 DEF Crash, TypeOK, Busy
  <2>10. CASE UNCHANGED vars
    BY <2>10 DEF vars, TypeOK
  <2> QED
    BY <2>1, <2>2, <2>3, <2>4, <2>5, <2>6, <2>7, <2>8, <2>9, <2>10
    DEF Next, Serve
<1> QED
  BY <1>1, <1>2, PTL DEF Spec

-----------------------------------------------------------------------------
(* The counter. *)

Within(o) == \E q \in PlanQuotas : o.used <= q

(* UsedWithinPlan alone is not inductive: a stale copy in some session is  *)
(* written later, so every copy has to be within a plan as well.           *)
CountersWithinPlan == /\ Within(org)
                      /\ \A r \in Req : Within(loaded[r]) /\ Within(mem[r])

(* What passes the gate is bumped to at most the quota that was read.      *)
LEMMA IncrementWithin ==
  ASSUME now \in Nat, NEW o \in Org, HasQuota(o)
  PROVE  Within(increment(o))
<1>1. /\ reset_if_due(o) \in Org
      /\ reset_if_due(o).used < o.quota
      /\ o.quota \in PlanQuotas
  BY ResetType DEF HasQuota, Org
<1>2. increment(o).used = reset_if_due(o).used + 1
  BY <1>1 DEF increment, Org
<1>3. reset_if_due(o).used \in Nat /\ o.quota \in Nat
  BY <1>1, PlanAssumption DEF Org
<1>4. increment(o).used <= o.quota
  BY <1>1, <1>2, <1>3
<1> QED
  BY <1>1, <1>4 DEF Within

LEMMA RefundWithin ==
  ASSUME NEW o \in Org, Within(o)
  PROVE  Within(refund_quota(o))
<1>1. refund_quota(o).used <= o.used /\ refund_quota(o).used \in Nat /\ o.used \in Nat
  BY RefundType DEF Org
<1> QED
  BY <1>1, PlanAssumption DEF Within

LEMMA FreshWithin == FreshOrg \in Org /\ Within(FreshOrg)
BY PlanAssumption, RollAssumption DEF FreshOrg, Org, Within

LEMMA CommitWithin ==
  ASSUME TypeOK, CountersWithinPlan, NEW r \in Req, NEW created,
         NEW after \in Org, Within(after), CommitOrg(r, after, created)
  PROVE  CountersWithinPlan'
<1>1. org'.used \in {org.used, after.used}
  BY FlushType DEF CommitOrg, TypeOK
<1>2. Within(org)'
  BY <1>1 DEF CountersWithinPlan, Within
<1>3. \A s \in Req : (Within(loaded[s]) /\ Within(mem[s]))'
  BY FreshWithin DEF CommitOrg, CountersWithinPlan, TypeOK, Within
<1> QED
  BY <1>2, <1>3 DEF CountersWithinPlan

(* A request that ends without a commit forgets its copies. *)
LEMMA AbandonWithin ==
  ASSUME TypeOK, CountersWithinPlan, NEW r \in Req, NEW answer,
         Abandon(r, answer), org' = org
  PROVE  CountersWithinPlan'
BY FreshWithin DEF Abandon, CountersWithinPlan, TypeOK, Within

(* The counter never passes the largest quota on sale, whatever stale      *)
(* values requests, refunds and the webhook write over each other.         *)
THEOREM CounterWithinPlan == Spec => []UsedWithinPlan
<1>1. Init => CountersWithinPlan
  BY FreshWithin DEF Init, CountersWithinPlan
<1>2. TypeOK /\ CountersWithinPlan /\ [Next]_vars => CountersWithinPlan'
  <2> SUFFICES ASSUME TypeOK, CountersWithinPlan, [Next]_vars
               PROVE  CountersWithinPlan'
    OBVIOUS
  <2>0. now \in Nat /\ org \in Org /\ \A r \in Req : loaded[r] \in Org /\ mem[r] \in Org
    BY DEF TypeOK
  <2>1. ASSUME NEW r \in Req, Arrive(r) PROVE CountersWithinPlan'
    BY <2>1 DEF Arrive, CountersWithinPlan, TypeOK, Within
  <2>2. ASSUME NEW r \in Req, UploadRejected(r) \/ UploadDuplicate(r)
        PROVE  CountersWithinPlan'
    <3>1. HasQuota(loaded[r])
      BY <2>2 DEF UploadRejected, UploadDuplicate, Admitted
    <3>2. increment(loaded[r]) \in Org /\ Within(increment(loaded[r]))
      BY <2>0, <3>1, IncrementType, IncrementWithin
    <3>3. /\ refund_quota(increment(loaded[r])) \in Org
          /\ Within(refund_quota(increment(loaded[r])))
      BY <3>2, RefundType, RefundWithin
    <3> QED
      BY <2>2, <3>3, CommitWithin DEF UploadRejected, UploadDuplicate
  <2>3. ASSUME NEW r \in Req, UploadStored(r) PROVE CountersWithinPlan'
    <3>1. increment(loaded[r]) \in Org /\ Within(increment(loaded[r]))
      BY <2>0, <2>3, IncrementType, IncrementWithin
      DEF UploadStored, Storing, Admitted
    <3> QED
      BY <2>3, <3>1, CommitWithin DEF UploadStored
  <2>4. ASSUME NEW r \in Req,
               \/ UploadExhausted(r) \/ UploadCollides(r) \/ UploadDiskFails(r)
               \/ ReextractMissing(r) \/ ReextractExhausted(r)
        PROVE  CountersWithinPlan'
    BY <2>4, AbandonWithin
    DEF UploadExhausted, UploadCollides, UploadDiskFails, ReextractMissing,
        ReextractExhausted
  <2>5. ASSUME NEW r \in Req, ReextractChecked(r) PROVE CountersWithinPlan'
    <3>1. Within(increment(loaded[r]))
      BY <2>0, <2>5, IncrementWithin DEF ReextractChecked
    <3> QED
      BY <2>5, <3>1 DEF ReextractChecked, CountersWithinPlan, TypeOK, Within
  <2>6. ASSUME NEW r \in Req, ReextractCreated(r) PROVE CountersWithinPlan'
    BY <2>0, <2>6, CommitWithin DEF ReextractCreated, CountersWithinPlan
  <2>7. ASSUME NEW r \in Req, ReextractRefused(r) PROVE CountersWithinPlan'
    <3>1. refund_quota(mem[r]) \in Org /\ Within(refund_quota(mem[r]))
      BY <2>0, RefundType, RefundWithin DEF CountersWithinPlan
    <3> QED
      BY <2>7, <3>1, CommitWithin DEF ReextractRefused
  <2>8. ASSUME NEW r \in Req, RunStarts(r) \/ RunCompletes(r) \/ RunFails(r)
        PROVE  CountersWithinPlan'
    BY <2>8 DEF RunStarts, RunCompletes, RunFails, CountersWithinPlan, Within
  <2>9. ASSUME NEW r \in Req, RunRefunds(r) PROVE CountersWithinPlan'
    <3>1. Within(refund_quota(org))
      BY <2>0, RefundWithin DEF CountersWithinPlan
    <3> QED
      BY <2>9, <3>1 DEF RunRefunds, CountersWithinPlan, TypeOK, Within
  <2>10. ASSUME NEW r \in Req, RunRefunded(r) PROVE CountersWithinPlan'
    BY <2>0, <2>10, CommitWithin DEF RunRefunded, CountersWithinPlan
  <2>11. CASE _apply_plan_to_org
    BY <2>11, PlanAssumption DEF _apply_plan_to_org, CountersWithinPlan, Within
  <2>12. CASE bulk_delete \/ Tick \/ UNCHANGED vars
    BY <2>12 DEF bulk_delete, Tick, vars, CountersWithinPlan, Within
  <2>13. CASE Crash
    BY <2>13, FreshWithin DEF Crash, CountersWithinPlan, Within
  <2> QED
    BY <2>1, <2>2, <2>3, <2>4, <2>5, <2>6, <2>7, <2>8, <2>9, <2>10, <2>11,
       <2>12, <2>13
    DEF Next, Serve, upload_document, reextract_document, run_extraction
<1>3. CountersWithinPlan => UsedWithinPlan
  BY DEF CountersWithinPlan, UsedWithinPlan, Within
<1> QED
  BY <1>1, <1>2, <1>3, TypeCorrect, PTL DEF Spec

-----------------------------------------------------------------------------
(* Documents, files and extractions. *)

(* An extraction row created by an upload belongs to a document that is    *)
(* still in the table (soft-deleted at most): what the unique constraint   *)
(* then keeps from being uploaded again.                                   *)
UploadRowHasDoc ==
  \A r \in Req : job[r].kind = "upload" /\ row[r] # NoRow
                  => doc[job[r].file] # "none"

(* run_extraction only runs for a row that is committed. *)
RunnerHasRow ==
  \A r \in Req : pc[r] \in {"created", "calling", "refunding"} => row[r] # NoRow

(* The two labels between check and commit belong to re-extractions. *)
CheckedIsReextract ==
  \A r \in Req : pc[r] \in {"creating", "refusing"} => job[r].kind = "reextract"

DocumentInv == /\ RowsHaveFiles
               /\ LiveDocHasExtraction
               /\ OneUploadPerContent
               /\ UploadRowHasDoc
               /\ RunnerHasRow
               /\ CheckedIsReextract

docVars == <<doc, blob, row, job>>

(* Documents, files and rows untouched, no request starts to run or to     *)
(* re-extract: nothing can break.                                          *)
LEMMA DocumentsUntouched ==
  ASSUME TypeOK, DocumentInv, UNCHANGED docVars,
         \A r \in Req :
            pc'[r] = pc[r] \/ pc'[r] \in {"loaded", "lost", "accepted"} \cup Refused
  PROVE  DocumentInv'
BY DEF DocumentInv, RowsHaveFiles, LiveDocHasExtraction, OneUploadPerContent,
       UploadRowHasDoc, RunnerHasRow, CheckedIsReextract, docVars, Refused

(* A row that exists changes its status, and nothing else moves.           *)
LEMMA RowProgress ==
  ASSUME TypeOK, DocumentInv, NEW r \in Req, row[r] # NoRow,
         NEW new, new # NoRow, row' = [row EXCEPT ![r] = new],
         NEW label, label \notin {"creating", "refusing"}, Goto(r, label),
         UNCHANGED <<doc, blob, job>>
  PROVE  DocumentInv'
BY DEF DocumentInv, RowsHaveFiles, LiveDocHasExtraction, OneUploadPerContent,
       UploadRowHasDoc, RunnerHasRow, CheckedIsReextract, Goto, TypeOK

(* The inductive invariant of the documents. *)
THEOREM DocumentsConsistent == Spec => []DocumentInv
<1>1. Init => DocumentInv
  BY DEF Init, DocumentInv, RowsHaveFiles, LiveDocHasExtraction,
         OneUploadPerContent, UploadRowHasDoc, RunnerHasRow, CheckedIsReextract
<1>2. TypeOK /\ DocumentInv /\ [Next]_vars => DocumentInv'
  <2> SUFFICES ASSUME TypeOK, DocumentInv, [Next]_vars
               PROVE  DocumentInv'
    OBVIOUS
  <2>1. ASSUME NEW r \in Req,
               \/ Arrive(r) \/ UploadExhausted(r) \/ UploadRejected(r)
               \/ UploadDuplicate(r) \/ UploadCollides(r) \/ ReextractMissing(r)
               \/ ReextractExhausted(r) \/ ReextractRefused(r)
        PROVE  DocumentInv'
    BY <2>1, DocumentsUntouched
    DEF Arrive, UploadExhausted, UploadRejected, UploadDuplicate,
        UploadCollides, ReextractMissing, ReextractExhausted, ReextractRefused,
        Abandon, Goto, Environment, docVars, Refused, TypeOK
  <2>2. ASSUME NEW r \in Req, UploadStored(r) PROVE DocumentInv'
    <3> DEFINE f == job[r].file
    <3>1. /\ f \in File
          /\ job[r].kind = "upload"
          /\ pc[r] = "loaded"
          /\ doc[f] = "none"
          /\ blob[f] \in {"absent", "full"}
      BY <2>2, JobFile DEF UploadStored, Storing, Admitted, Uploading,
         StoreRefuses, UniqueViolation, TypeOK
    <3>2. /\ doc' = [doc EXCEPT ![f] = "live"]
          /\ blob' = [blob EXCEPT ![f] = "full"]
          /\ row' = [row EXCEPT ![r] = [status |-> "pending", error |-> "none"]]
          /\ pc' = [pc EXCEPT ![r] = "created"]
          /\ job' = job
      BY <2>2, <3>1 DEF UploadStored, store, _create_extraction, Goto,
         Environment, TypeOK
    <3>3. [status |-> "pending", error |-> "none"] # NoRow
      BY DEF NoRow
    <3>4. /\ RowsHaveFiles'
          /\ LiveDocHasExtraction'
          /\ UploadRowHasDoc'
      BY <3>1, <3>2, <3>3, JobFile DEF DocumentInv, RowsHaveFiles,
         LiveDocHasExtraction, UploadRowHasDoc, NoRow, TypeOK
    <3>5. OneUploadPerContent'
      <4>1. \A s \in Req : s # r /\ job[s].kind = "upload" /\ row'[s] # NoRow
                             => job[s].file # f
        BY <3>1, <3>2 DEF DocumentInv, UploadRowHasDoc, TypeOK
      <4>2. \A s \in Req : s # r => row'[s] = row[s]
        BY <3>2 DEF TypeOK
      <4> QED
        BY <3>2, <4>1, <4>2 DEF DocumentInv, OneUploadPerContent, NoRow
    <3>6. RunnerHasRow' /\ CheckedIsReextract'
      BY <3>2, <3>3 DEF DocumentInv, RunnerHasRow, CheckedIsReextract, NoRow, TypeOK
    <3> QED
      BY <3>4, <3>5, <3>6 DEF DocumentInv
  <2>3. ASSUME NEW r \in Req, ReextractChecked(r) PROVE DocumentInv'
    BY <2>3 DEF ReextractChecked, Reextracting, Goto, Environment, TypeOK,
       DocumentInv, RowsHaveFiles, LiveDocHasExtraction, OneUploadPerContent,
       UploadRowHasDoc, RunnerHasRow, CheckedIsReextract
  <2>4. ASSUME NEW r \in Req, ReextractCreated(r) PROVE DocumentInv'
    <3>1. [status |-> "pending", error |-> "none"] # NoRow
      BY DEF NoRow
    <3>2. job[r].kind = "reextract"
      BY <2>4 DEF ReextractCreated, DocumentInv, CheckedIsReextract
    <3> QED
      BY <2>4, <3>1, <3>2
      DEF ReextractCreated, _create_extraction, Goto, Environment, TypeOK,
          DocumentInv, RowsHaveFiles, LiveDocHasExtraction, OneUploadPerContent,
          UploadRowHasDoc, RunnerHasRow, CheckedIsReextract, NoRow
  <2>5. ASSUME NEW r \in Req, RunStarts(r) PROVE DocumentInv'
    <3>1. row[r] # NoRow
      BY <2>5 DEF RunStarts, DocumentInv, RunnerHasRow
    <3>2. [row[r] EXCEPT !.status = "running"] # NoRow
      BY DEF NoRow, TypeOK
    <3>3. row' = [row EXCEPT ![r] = [row[r] EXCEPT !.status = "running"]]
      BY <2>5 DEF RunStarts
    <3> QED
      BY <2>5, <3>1, <3>2, <3>3, RowProgress DEF RunStarts, Environment
  <2>6. ASSUME NEW r \in Req, RunCompletes(r) PROVE DocumentInv'
    <3>1. row[r] # NoRow
      BY <2>6 DEF RunCompletes, DocumentInv, RunnerHasRow
    <3>2. [row[r] EXCEPT !.status = "completed"] # NoRow
      BY DEF NoRow, TypeOK
    <3>3. row' = [row EXCEPT ![r] = [row[r] EXCEPT !.status = "completed"]]
      BY <2>6 DEF RunCompletes
    <3> QED
      BY <2>6, <3>1, <3>2, <3>3, RowProgress DEF RunCompletes, Environment
  <2>7. ASSUME NEW r \in Req, RunFails(r) PROVE DocumentInv'
    <3>1. row[r] # NoRow
      BY <2>7 DEF RunFails, DocumentInv, RunnerHasRow
    <3>2. PICK e : row' = [row EXCEPT ![r] = [status |-> "failed", error |-> e]]
      BY <2>7 DEF RunFails
    <3>3. [status |-> "failed", error |-> e] # NoRow
      BY DEF NoRow
    <3> QED
      BY <2>7, <3>1, <3>2, <3>3, RowProgress DEF RunFails, Environment
  <2>8. ASSUME NEW r \in Req, RunRefunds(r) PROVE DocumentInv'
    BY <2>8 DEF RunRefunds, Goto, Environment, TypeOK,
       DocumentInv, RowsHaveFiles, LiveDocHasExtraction, OneUploadPerContent,
       UploadRowHasDoc, RunnerHasRow, CheckedIsReextract
  <2>9. ASSUME NEW r \in Req, RunRefunded(r) PROVE DocumentInv'
    <3>1. row[r] # NoRow
      BY <2>9 DEF RunRefunded, DocumentInv, RunnerHasRow
    <3>2. [status |-> "failed", error |-> raised[r]] # NoRow
      BY DEF NoRow
    <3> QED
      BY <2>9, <3>1, <3>2, RowProgress DEF RunRefunded, Environment
  <2>10. ASSUME NEW r \in Req, UploadDiskFails(r) PROVE DocumentInv'
    <3>1. /\ job[r].file \in File
          /\ doc[job[r].file] = "none"
      BY <2>10, JobFile DEF UploadDiskFails, DocumentInv, RowsHaveFiles
    <3> QED
      BY <2>10, <3>1 DEF UploadDiskFails, Abandon, Goto, TypeOK,
         DocumentInv, RowsHaveFiles, LiveDocHasExtraction, OneUploadPerContent,
         UploadRowHasDoc, RunnerHasRow, CheckedIsReextract
  <2>11. CASE bulk_delete
    <3>1. \A f \in File : doc'[f] # "none" <=> doc[f] # "none"
      BY <2>11 DEF bulk_delete, TypeOK
    <3> QED
      BY <2>11, <3>1, JobFile DEF bulk_delete, Environment,
         DocumentInv, RowsHaveFiles, LiveDocHasExtraction, OneUploadPerContent,
         UploadRowHasDoc, RunnerHasRow, CheckedIsReextract
  <2>12. CASE _apply_plan_to_org \/ Tick \/ UNCHANGED vars
    BY <2>12, DocumentsUntouched DEF _apply_plan_to_org, Tick, vars, docVars
  <2>13. CASE Crash
    <3>1. \A f \in File : doc[f] # "none" => blob'[f] = "full"
      BY <2>13, JobFile DEF Crash, Busy, DocumentInv, RowsHaveFiles, TypeOK
    <3> QED
      BY <2>13, <3>1 DEF Crash, DocumentInv, RowsHaveFiles,
         LiveDocHasExtraction, OneUploadPerContent, UploadRowHasDoc,
         RunnerHasRow, CheckedIsReextract
  <2> QED
    BY <2>1, <2>2, <2>3, <2>4, <2>5, <2>6, <2>7, <2>8, <2>9, <2>10, <2>11,
       <2>12, <2>13
    DEF Next, Serve, upload_document, reextract_document, run_extraction
<1> QED
  BY <1>1, <1>2, TypeCorrect, PTL DEF Spec

(* Whatever a crash or a failed write leaves behind, a document row means  *)
(* that the whole file is in the store.                                    *)
THEOREM FilesBeforeRows == Spec => []RowsHaveFiles
<1>1. DocumentInv => RowsHaveFiles
  BY DEF DocumentInv
<1> QED
  BY <1>1, DocumentsConsistent, PTL

(* A document is never without extraction: the fallback branch of          *)
(* store_uploaded_file is dead code.                                       *)
THEOREM NoOrphanDocument == Spec => []LiveDocHasExtraction
<1>1. DocumentInv => LiveDocHasExtraction
  BY DEF DocumentInv
<1> QED
  BY <1>1, DocumentsConsistent, PTL

(* However many uploads of one content race, and across deletes and        *)
(* crashes, one of them at most creates an extraction.                     *)
THEOREM UploadsDeduplicated == Spec => []OneUploadPerContent
<1>1. DocumentInv => OneUploadPerContent
  BY DEF DocumentInv
<1> QED
  BY <1>1, DocumentsConsistent, PTL

-----------------------------------------------------------------------------
(* Refusals. *)

(* The bump of a re-extraction that is going to be refused is still on its *)
(* copy: undoing it gives the value that was read, or zero after a reset.  *)
BumpUndoable ==
  \A r \in Req : pc[r] = "refusing" =>
     /\ mem[r].used > 0
     /\ mem[r].used - 1 \in {loaded[r].used, 0}

LEMMA IncrementUndoable ==
  ASSUME now \in Nat, NEW o \in Org
  PROVE  /\ increment(o).used > 0
         /\ increment(o).used - 1 \in {o.used, 0}
<1>1. /\ reset_if_due(o) \in Org
      /\ reset_if_due(o).used \in {o.used, 0}
  BY ResetType DEF reset_if_due, Org
<1>2. increment(o).used = reset_if_due(o).used + 1
  BY <1>1 DEF increment, Org
<1>3. reset_if_due(o).used \in Nat
  BY <1>1 DEF Org
<1> QED
  BY <1>1, <1>2, <1>3

(* A flush of an undone bump leaves the counter alone, or zeroes it.       *)
LEMMA UndoneFlush ==
  ASSUME org \in Org, NEW o \in Org, NEW m \in Org,
         m.used > 0, m.used - 1 \in {o.used, 0}
  PROVE  Flush(o, refund_quota(m)).used <= org.used
<1>1. /\ refund_quota(m) \in Org
      /\ refund_quota(m).used = m.used - 1
  BY RefundType DEF refund_quota, Org
<1>2. Flush(o, refund_quota(m)).used =
        IF m.used - 1 # o.used THEN m.used - 1 ELSE org.used
  BY <1>1 DEF Flush, Org
<1> QED
  BY <1>1, <1>2 DEF Org

(* Every step keeps the bump of a refused re-extraction undoable. *)
LEMMA BumpStaysUndoable ==
  TypeOK /\ BumpUndoable /\ [Next]_vars => BumpUndoable'
<1> SUFFICES ASSUME TypeOK, BumpUndoable, [Next]_vars PROVE BumpUndoable'
  OBVIOUS
<1>1. ASSUME NEW r \in Req, ReextractChecked(r) PROVE BumpUndoable'
  <2>1. /\ increment(loaded[r]).used > 0
        /\ increment(loaded[r]).used - 1 \in {loaded[r].used, 0}
    BY IncrementUndoable DEF TypeOK
  <2> QED
    BY <1>1, <2>1 DEF ReextractChecked, Goto, BumpUndoable, TypeOK
<1>2. ASSUME NEW r \in Req,
             \/ Arrive(r) \/ UploadExhausted(r) \/ UploadRejected(r)
             \/ UploadDuplicate(r) \/ UploadStored(r) \/ UploadCollides(r)
             \/ UploadDiskFails(r)
      PROVE  BumpUndoable'
  BY <1>2 DEF Arrive, UploadExhausted, UploadRejected, UploadDuplicate,
     UploadStored, UploadCollides, UploadDiskFails, Abandon, CommitOrg, Goto,
     BumpUndoable, TypeOK
<1>3. ASSUME NEW r \in Req,
             \/ ReextractMissing(r) \/ ReextractExhausted(r)
             \/ ReextractCreated(r) \/ ReextractRefused(r)
             \/ RunStarts(r) \/ RunCompletes(r) \/ RunFails(r)
             \/ RunRefunds(r) \/ RunRefunded(r)
      PROVE  BumpUndoable'
  BY <1>3 DEF ReextractMissing, ReextractExhausted, ReextractCreated,
     ReextractRefused, RunStarts, RunCompletes, RunFails, RunRefunds,
     RunRefunded, Abandon, CommitOrg, Goto, BumpUndoable, TypeOK
<1>4. CASE bulk_delete \/ _apply_plan_to_org \/ Tick \/ UNCHANGED vars
  BY <1>4 DEF bulk_delete, _apply_plan_to_org, Tick, vars, BumpUndoable
<1>5. CASE Crash
  BY <1>5 DEF Crash, Busy, InFlight, BumpUndoable
<1> QED
  BY <1>1, <1>2, <1>3, <1>4, <1>5
  DEF Next, Serve, upload_document, reextract_document, run_extraction

(* A refused or deduplicated request leaves no row behind and never raises *)
(* the counter, however stale the copy it computed on.                     *)
THEOREM RefusalsAreFree == Spec => RefusalIsFree
<1> DEFINE Free(r) == pc[r] \in InFlight /\ pc'[r] \in Refused
                       => row' = row /\ doc' = doc /\ org'.used <= org.used
<1>1. Init => BumpUndoable
  BY DEF Init, BumpUndoable
<1>2. TypeOK /\ BumpUndoable /\ [Next]_vars => \A r \in Req : Free(r)
  <2> SUFFICES ASSUME TypeOK, BumpUndoable, [Next]_vars, NEW r \in Req,
                      pc[r] \in InFlight, pc'[r] \in Refused
               PROVE  row' = row /\ doc' = doc /\ org'.used <= org.used
    OBVIOUS
  <2>0. /\ now \in Nat /\ org \in Org /\ org.used \in Nat
        /\ loaded[r] \in Org /\ mem[r] \in Org
        /\ pc[r] \notin Refused
    BY DEF TypeOK, Org, InFlight, Refused
  <2>1. CASE UploadRejected(r) \/ UploadDuplicate(r)
    <3>1. /\ increment(loaded[r]) \in Org
          /\ increment(loaded[r]).used > 0
          /\ increment(loaded[r]).used - 1 \in {loaded[r].used, 0}
      BY <2>0, IncrementType, IncrementUndoable
    <3>2. org' = Flush(loaded[r], refund_quota(increment(loaded[r])))
      BY <2>1 DEF UploadRejected, UploadDuplicate, CommitOrg
    <3>3. org'.used <= org.used
      BY <2>0, <3>1, <3>2, UndoneFlush
    <3> QED
      BY <2>1, <3>3 DEF UploadRejected, UploadDuplicate
  <2>2. CASE ReextractRefused(r)
    <3>1. mem[r].used > 0 /\ mem[r].used - 1 \in {loaded[r].used, 0}
      BY <2>2 DEF ReextractRefused, BumpUndoable
    <3>2. org' = Flush(loaded[r], refund_quota(mem[r]))
      BY <2>2 DEF ReextractRefused, CommitOrg
    <3>3. org'.used <= org.used
      BY <2>0, <3>1, <3>2, UndoneFlush
    <3> QED
      BY <2>2, <3>3 DEF ReextractRefused
  <2>3. CASE \/ UploadExhausted(r) \/ UploadCollides(r) \/ UploadDiskFails(r)
             \/ ReextractMissing(r) \/ ReextractExhausted(r)
    BY <2>0, <2>3 DEF UploadExhausted, UploadCollides, UploadDiskFails,
       ReextractMissing, ReextractExhausted
  <2>4. CASE \/ Arrive(r) \/ UploadStored(r) \/ ReextractChecked(r)
             \/ ReextractCreated(r) \/ run_extraction(r)
    BY <2>4 DEF Arrive, UploadStored, ReextractChecked, ReextractCreated,
       run_extraction, RunStarts, RunCompletes, RunFails, RunRefunds,
       RunRefunded, Goto, Refused, TypeOK
  <2>5. ASSUME NEW s \in Req, s # r, Arrive(s) \/ Serve(s) \/ UploadDiskFails(s)
        PROVE  FALSE
    <3>1. pc'[r] = pc[r]
      BY <2>5 DEF Arrive, Serve, upload_document, reextract_document,
         run_extraction, UploadExhausted, UploadRejected, UploadDuplicate,
         UploadStored, UploadCollides, UploadDiskFails, ReextractMissing,
         ReextractExhausted, ReextractChecked, ReextractCreated,
         ReextractRefused, RunStarts, RunCompletes, RunFails, RunRefunds,
         RunRefunded, Abandon, Goto, TypeOK
    <3> QED
      BY <2>0, <3>1
  <2>6. CASE bulk_delete \/ _apply_plan_to_org \/ Tick \/ UNCHANGED vars
    BY <2>0, <2>6 DEF bulk_delete, _apply_plan_to_org, Tick, vars
  <2>7. CASE Crash
    BY <2>0, <2>7 DEF Crash, Refused
  <2> QED
    BY <2>1, <2>2, <2>3, <2>4, <2>5, <2>6, <2>7
    DEF Next, Serve, upload_document, reextract_document
<1> QED
  BY <1>1, <1>2, BumpStaysUndoable, TypeCorrect, PTL DEF Spec, RefusalIsFree

-----------------------------------------------------------------------------
(* Billing, one request at a time.                                          *)
(*                                                                          *)
(* When requests are served one at a time (MaxInFlight = 1) the quota       *)
(* counter is exactly the bill of the current window, and the pipeline      *)
(* implements QuotaLedger: for any number of requests, any plans, any       *)
(* window length and any extraction errors, across crashes and failed       *)
(* writes.  Two requests at a time are enough to refute both.               *)

(* Read o, bumped to m: by one in the same window, or to one in a later one. *)
Bumped(o, m) == /\ m.quota = o.quota
                /\ m.used <= m.quota
                /\ \/ m.resetAt = o.resetAt /\ m.used = o.used + 1
                   \/ m.resetAt > o.resetAt /\ m.used = 1

(* What a single request in flight knows about the database: nobody else   *)
(* writes, so its copy of the organization is the organization, its bump   *)
(* is against the current counter, and its row is on the current bill.     *)
Alone == \A r, s \in Req : pc[r] \in InFlight /\ pc[s] \in InFlight => r = s

WindowHasRows == \A r \in window : row[r] # NoRow

RowsFollowPc ==
  \A r \in Req :
     /\ pc[r] \in {"idle", "loaded", "creating", "refusing"} => row[r] = NoRow
     /\ pc[r] \in {"created", "calling", "refunding"}
          => r \in window /\ row[r] # NoRow /\ row[r].error = "none"

CopiesAreFresh ==
  \A r \in Req :
     /\ pc[r] \in {"loaded", "creating", "refusing", "refunding"} => loaded[r] = org
     /\ pc[r] \in {"creating", "refusing"} => Bumped(org, mem[r])
     /\ pc[r] = "refunding" => mem[r] = refund_quota(org) /\ raised[r] \in OurFailures

SerialInv == Alone /\ WindowHasRows /\ RowsFollowPc /\ CopiesAreFresh /\ ExactBilling

-----------------------------------------------------------------------------
LEMMA BilledFinite ==
  ASSUME TypeOK, IsFiniteSet(Req)
  PROVE  IsFiniteSet(Billed)
BY FS_Subset DEF Billed, TypeOK

(* The gate bumps the copy it was given. *)
LEMMA IncrementBumps ==
  ASSUME now \in Nat, NEW o \in Org, HasQuota(o)
  PROVE  increment(o) \in Org /\ Bumped(o, increment(o))
<1> DEFINE z == reset_if_due(o)
<1>1. /\ z \in Org
      /\ z.quota = o.quota
      /\ z.used < o.quota
  BY ResetType DEF HasQuota
<1>2. z.used \in Nat /\ o.quota \in Nat
  BY <1>1, PlanAssumption DEF Org
<1>3. \/ z.resetAt = o.resetAt /\ z.used = o.used
      \/ z.resetAt > o.resetAt /\ z.used = 0
  <2>1. CASE o.resetAt > now
    BY <2>1 DEF reset_if_due
  <2>2. CASE ~(o.resetAt > now)
    <3>1. o.resetAt \in Nat /\ o.resetAt <= now
      BY <2>2 DEF Org
    <3>2. NextReset(o.resetAt, now) \in now + 1 .. now + Roll
      BY <2>2, NextResetInWindow DEF Org
    <3>4. NextReset(o.resetAt, now) > o.resetAt
      BY <3>1, <3>2, RollAssumption
    <3>3. z.used = 0 /\ z.resetAt = NextReset(o.resetAt, now)
      BY <2>2 DEF reset_if_due, Org
    <3> QED
      BY <3>3, <3>4
  <2> QED
    BY <2>1, <2>2
<1>4. increment(o) = [z EXCEPT !.used = z.used + 1]
  BY DEF increment
<1> HIDE DEF z
<1>5. /\ increment(o) \in Org
      /\ increment(o).quota = z.quota
      /\ increment(o).used = z.used + 1
      /\ increment(o).resetAt = z.resetAt
  BY <1>1, <1>2, <1>4 DEF Org
<1> QED
  BY <1>1, <1>2, <1>3, <1>5 DEF Bumped

(* With a fresh copy, a flush writes the copy. *)
LEMMA FreshFlush ==
  ASSUME org \in Org, NEW m \in Org
  PROVE  Flush(org, m) = m
BY DEF Flush, Org

(* Undoing a bump: the old record, or an empty bill in a later window. *)
LEMMA UnbumpFields ==
  ASSUME NEW o \in Org, NEW m \in Org, Bumped(o, m)
  PROVE  /\ refund_quota(m) \in Org
         /\ refund_quota(m).quota = o.quota
         /\ \/ refund_quota(m).resetAt = o.resetAt /\ refund_quota(m).used = o.used
            \/ refund_quota(m).resetAt # o.resetAt /\ refund_quota(m).used = 0
<1>1. m.used > 0 /\ m.used \in Nat /\ o.used \in Nat /\ m.resetAt \in Nat /\ o.resetAt \in Nat
  BY DEF Bumped, Org
<1>2. refund_quota(m) = [m EXCEPT !.used = m.used - 1]
  BY <1>1 DEF refund_quota
<1>3. /\ refund_quota(m).quota = m.quota
      /\ refund_quota(m).resetAt = m.resetAt
      /\ refund_quota(m).used = m.used - 1
  BY <1>2 DEF Org
<1> QED
  BY <1>1, <1>3, RefundType DEF Bumped

-----------------------------------------------------------------------------
(* What the three kinds of commit do to the bill. *)

(* An extraction is created: it joins the bill, which had room for it, or  *)
(* it opens the bill of a new window.                                      *)
LEMMA CreateBills ==
  ASSUME TypeOK, SerialInv, IsFiniteSet(Req), NEW r \in Req, NEW m \in Org,
         row[r] = NoRow, loaded[r] = org, Bumped(org, m),
         CommitOrg(r, m, {r}), _create_extraction(r)
  PROVE  /\ org' = m
         /\ ExactBilling'
         /\ r \in window' /\ window' \subseteq window \cup {r}
         /\ \/ /\ r \notin Billed
               /\ Cardinality(Billed) < org.quota
               /\ Billed' = Billed \cup {r}
            \/ Billed' = {r}
<1>1. org' = m
  BY FreshFlush DEF CommitOrg, TypeOK
<1>2. r \notin window
  BY DEF SerialInv, WindowHasRows
<1>3. /\ row'[r].error = "none"
      /\ \A s \in Req : s # r => row'[s] = row[s]
  BY DEF _create_extraction, TypeOK
<1>4. org.used = Cardinality(Billed) /\ org.used \in Nat /\ m.used \in Nat
  BY DEF SerialInv, ExactBilling, TypeOK, Org
<1>5. CASE m.resetAt = org.resetAt /\ m.used = org.used + 1
  <2>1. window' = window \cup {r}
    BY <1>1, <1>5 DEF CommitOrg
  <2>2. r \notin Billed /\ Billed' = Billed \cup {r}
    BY <1>2, <1>3, <2>1 DEF Billed, OurFailures, TypeOK
  <2>3. Cardinality(Billed') = Cardinality(Billed) + 1
    BY <2>2, BilledFinite, FS_AddElement
  <2>4. Cardinality(Billed) < org.quota
    <3>1. m.used <= org.quota /\ org.quota \in Nat
      BY PlanAssumption DEF Bumped, TypeOK, Org
    <3> QED
      BY <1>4, <1>5, <3>1
  <2> QED
    BY <1>1, <1>4, <1>5, <2>1, <2>2, <2>3, <2>4 DEF ExactBilling
<1>6. CASE m.resetAt > org.resetAt /\ m.used = 1
  <2>1. window' = {r}
    BY <1>1, <1>6 DEF CommitOrg, TypeOK, Org
  <2>2. Billed' = {r}
    BY <1>3, <2>1 DEF Billed, OurFailures
  <2>3. Cardinality(Billed') = 1
    BY <2>2, FS_Singleton
  <2> QED
    BY <1>1, <1>6, <2>1, <2>2, <2>3 DEF ExactBilling
<1> QED
  BY <1>5, <1>6 DEF Bumped

(* A bump is undone: the bill is what it was, or empty in a new window. *)
LEMMA RefusalBills ==
  ASSUME TypeOK, SerialInv, NEW r \in Req, NEW m \in Org,
         loaded[r] = org, Bumped(org, m),
         CommitOrg(r, refund_quota(m), {}), row' = row
  PROVE  /\ org'.quota = org.quota
         /\ ExactBilling'
         /\ window' \subseteq window
         /\ Billed' = Billed \/ Billed' = {}
<1>1. org \in Org
  BY DEF TypeOK
<1>2. refund_quota(m) \in Org
  BY RefundType
<1>3. org' = refund_quota(m)
  BY <1>1, <1>2, FreshFlush DEF CommitOrg
<1>4. CASE refund_quota(m).resetAt = org.resetAt /\ refund_quota(m).used = org.used
  <2>1. window' = window
    BY <1>3, <1>4 DEF CommitOrg
  <2>2. Billed' = Billed
    BY <2>1 DEF Billed
  <2> QED
    BY <1>1, <1>3, <1>4, <2>1, <2>2, UnbumpFields DEF SerialInv, ExactBilling
<1>5. CASE refund_quota(m).resetAt # org.resetAt /\ refund_quota(m).used = 0
  <2>1. window' = {}
    BY <1>3, <1>5 DEF CommitOrg
  <2>2. Billed' = {}
    BY <2>1 DEF Billed
  <2> QED
    BY <1>1, <1>3, <1>5, <2>1, <2>2, UnbumpFields, FS_EmptySet DEF ExactBilling
<1> QED
  BY <1>1, <1>4, <1>5, UnbumpFields

(* A failure of ours: the extraction leaves the bill. *)
LEMMA RefundBills ==
  ASSUME TypeOK, SerialInv, IsFiniteSet(Req), NEW r \in Req, RunRefunded(r)
  PROVE  /\ org'.quota = org.quota
         /\ ExactBilling'
         /\ window' = window
         /\ r \in Billed
         /\ Billed' = Billed \ {r}
<1>1. /\ r \in window
      /\ row[r].error = "none"
      /\ loaded[r] = org
      /\ mem[r] = refund_quota(org)
      /\ raised[r] \in OurFailures
  BY DEF RunRefunded, SerialInv, RowsFollowPc, CopiesAreFresh
<1>2. r \in Billed
  BY <1>1 DEF Billed, OurFailures
<1>3. /\ org \in Org
      /\ org.used = Cardinality(Billed)
      /\ org.used \in Nat
  BY DEF SerialInv, ExactBilling, TypeOK, Org
<1>4. Cardinality(Billed \ {r}) = Cardinality(Billed) - 1 /\ Cardinality(Billed) > 0
  <2>1. Cardinality(Billed) # 0
    BY <1>2, BilledFinite, FS_EmptySet
  <2> QED
    <3>1. Cardinality(Billed \ {r}) =
            IF r \in Billed THEN Cardinality(Billed) - 1 ELSE Cardinality(Billed)
      BY BilledFinite, FS_RemoveElement
    <3> QED
      BY <1>2, <1>3, <2>1, <3>1
<1>5. refund_quota(org) \in Org /\ refund_quota(org) = [org EXCEPT !.used = org.used - 1]
  BY <1>3, <1>4, RefundType DEF refund_quota
<1>6. org' = refund_quota(org)
  BY <1>1, <1>3, <1>5, FreshFlush DEF RunRefunded, CommitOrg
<1>7. /\ org'.quota = org.quota
      /\ org'.resetAt = org.resetAt
      /\ org'.used = org.used - 1
  BY <1>3, <1>5, <1>6 DEF Org
<1>8. window' = window
  BY <1>7 DEF RunRefunded, CommitOrg
<1>9. /\ row'[r].error = raised[r]
      /\ \A s \in Req : s # r => row'[s] = row[s]
  BY DEF RunRefunded, TypeOK
<1>10. Billed' = Billed \ {r}
  BY <1>1, <1>8, <1>9 DEF Billed, TypeOK
<1> QED
  BY <1>2, <1>3, <1>4, <1>7, <1>8, <1>10 DEF ExactBilling

(* Neither rows, window nor organization move: neither does the bill. *)
LEMMA BillUntouched ==
  ASSUME SerialInv, UNCHANGED <<org, row, window>>
  PROVE  ExactBilling' /\ Billed' = Billed
BY DEF SerialInv, ExactBilling, Billed

(* A row moves on without an error of ours. *)
LEMMA RunBills ==
  ASSUME TypeOK, SerialInv, NEW r \in Req, NEW new,
         row[r].error \notin OurFailures, new.error \notin OurFailures,
         row' = [row EXCEPT ![r] = new], UNCHANGED <<org, window>>
  PROVE  ExactBilling' /\ Billed' = Billed
<1>1. Billed' = Billed
  BY DEF Billed, TypeOK
<1> QED
  BY <1>1 DEF SerialInv, ExactBilling

-----------------------------------------------------------------------------
(* The shape of the state around the single request in flight. *)

SerialShape == Alone /\ WindowHasRows /\ RowsFollowPc /\ CopiesAreFresh

(* A request that is in flight is the only one. *)
LEMMA OthersIdle ==
  ASSUME SerialInv, NEW r \in Req, pc[r] \in InFlight
  PROVE  \A s \in Req : s # r => pc[s] \notin InFlight
BY DEF SerialInv, Alone

(* A request that ends leaves no obligation behind. *)
LEMMA RequestEnds ==
  ASSUME TypeOK, SerialInv, NEW r \in Req, pc[r] \in InFlight,
         NEW answer, answer \in Answered, Goto(r, answer),
         window' \subseteq window,
         \A s \in Req : row'[s] = row[s] \/ row'[s] # NoRow,
         \A s \in Req : s # r => row'[s] = row[s]
  PROVE  SerialShape'
<1>1. \A s \in Req : pc'[s] \notin InFlight
  BY OthersIdle DEF Goto, TypeOK, Answered, Refused, InFlight
<1>2. \A s \in Req : pc'[s] = "idle" => pc[s] = "idle" /\ row'[s] = row[s]
  BY DEF Goto, TypeOK, Answered, Refused
<1>3. Alone' /\ CopiesAreFresh'
  BY <1>1 DEF Alone, CopiesAreFresh, InFlight
<1>4. WindowHasRows'
  BY DEF WindowHasRows, SerialInv, TypeOK
<1>5. RowsFollowPc'
  BY <1>1, <1>2 DEF RowsFollowPc, SerialInv, InFlight
<1> QED
  BY <1>3, <1>4, <1>5 DEF SerialShape

(* A request that has created its row knows it is on the bill. *)
LEMMA RequestCreated ==
  ASSUME TypeOK, SerialInv, NEW r \in Req, pc[r] \in InFlight,
         Goto(r, "created"), _create_extraction(r),
         r \in window', window' \subseteq window \cup {r}
  PROVE  SerialShape'
<1>1. \A s \in Req : s # r => pc'[s] = pc[s] /\ pc[s] \notin InFlight /\ row'[s] = row[s]
  BY OthersIdle DEF Goto, _create_extraction, TypeOK
<1>2. pc'[r] = "created" /\ row'[r] # NoRow /\ row'[r].error = "none"
  BY DEF Goto, _create_extraction, TypeOK, NoRow
<1>3. Alone'
  BY <1>1 DEF Alone
<1>4. CopiesAreFresh'
  BY <1>1, <1>2 DEF CopiesAreFresh, InFlight
<1>5. WindowHasRows'
  BY <1>1, <1>2 DEF WindowHasRows, SerialInv, TypeOK
<1>6. RowsFollowPc'
  BY <1>1, <1>2 DEF RowsFollowPc, SerialInv, InFlight
<1> QED
  BY <1>3, <1>4, <1>5, <1>6 DEF SerialShape

-----------------------------------------------------------------------------
(* Every step keeps the invariant and is a step of the ledger. *)

LedgerStep == [Ledger!Next]_(Ledger!vars)

LEMMA LedgerStutters ==
  ASSUME org'.quota = org.quota, Billed' = Billed
  PROVE  LedgerStep
BY DEF LedgerStep, Ledger!vars

(* A flushed bump that creates an extraction is a bill, or opens a window. *)
LEMMA CreateIsLedgerStep ==
  ASSUME NEW r \in Req, NEW m, Bumped(org, m), org' = m,
         \/ /\ r \notin Billed
            /\ Cardinality(Billed) < org.quota
            /\ Billed' = Billed \cup {r}
         \/ Billed' = {r}
  PROVE  LedgerStep
<1>1. org'.quota = org.quota
  BY DEF Bumped
<1>2. CASE /\ r \notin Billed
           /\ Cardinality(Billed) < org.quota
           /\ Billed' = Billed \cup {r}
  <2>1. Ledger!Bill(r)
    BY <1>1, <1>2 DEF Ledger!Bill, Ledger!Cardinality, Cardinality
  <2> QED
    BY <2>1 DEF LedgerStep, Ledger!Next
<1>3. CASE Billed' = {r}
  <2>1. Ledger!NewWindow
    BY <1>1, <1>3, Zenon DEF Ledger!NewWindow
  <2> QED
    BY <2>1 DEF LedgerStep, Ledger!Next
<1> QED
  BY <1>2, <1>3

(* Arrivals, deletes and webhooks find nobody in flight. *)
LEMMA NobodyInFlight ==
  ASSUME TypeOK, IsFiniteSet(Req), MaxInFlight = 1, HasWorker
  PROVE  \A r \in Req : pc[r] \notin InFlight
<1>1. IsFiniteSet(Busy)
  BY FS_Subset DEF Busy
<1>2. Cardinality(Busy) \in Nat /\ Cardinality(Busy) < 1
  BY <1>1, FS_CardinalityType DEF HasWorker
<1>3. Cardinality(Busy) = 0
  BY <1>2
<1>4. Busy = {}
  BY <1>1, <1>3, FS_EmptySet
<1> QED
  BY <1>4 DEF Busy

LEMMA UploadSerial ==
  ASSUME TypeOK, SerialInv, IsFiniteSet(Req), NEW r \in Req,
         upload_document(r) \/ UploadDiskFails(r)
  PROVE  SerialInv' /\ LedgerStep
<1>1. /\ pc[r] = "loaded" /\ pc[r] \in InFlight
      /\ loaded[r] = org /\ row[r] = NoRow
      /\ now \in Nat /\ org \in Org
  BY DEF upload_document, UploadExhausted, UploadRejected, UploadDuplicate,
     UploadStored, UploadCollides, UploadDiskFails, Storing, Admitted, Uploading,
     SerialInv, RowsFollowPc, CopiesAreFresh, InFlight, TypeOK
<1>2. CASE UploadExhausted(r) \/ UploadCollides(r) \/ UploadDiskFails(r)
  <2>1. PICK answer \in Answered : Goto(r, answer)
    BY <1>2 DEF UploadExhausted, UploadCollides, UploadDiskFails, Abandon,
       Answered, Refused
  <2>2. UNCHANGED <<org, row, window>>
    BY <1>2 DEF UploadExhausted, UploadCollides, UploadDiskFails
  <2> QED
    BY <1>1, <2>1, <2>2, RequestEnds, BillUntouched, LedgerStutters
    DEF SerialInv, SerialShape
<1>3. CASE UploadRejected(r) \/ UploadDuplicate(r)
  <2> DEFINE m == increment(loaded[r])
  <2>1. /\ HasQuota(loaded[r])
        /\ CommitOrg(r, refund_quota(m), {})
        /\ row' = row
    BY <1>3 DEF UploadRejected, UploadDuplicate, Admitted
  <2>2. PICK answer \in Answered : Goto(r, answer)
    BY <1>3 DEF UploadRejected, UploadDuplicate, Answered, Refused
  <2>3. m \in Org /\ Bumped(org, m)
    BY <1>1, <2>1, IncrementBumps
  <2> HIDE DEF m
  <2>4. /\ org'.quota = org.quota
        /\ ExactBilling'
        /\ window' \subseteq window
        /\ Billed' = Billed \/ Billed' = {}
    BY <1>1, <2>1, <2>3, RefusalBills
  <2>5. SerialShape'
    BY <1>1, <2>1, <2>2, <2>4, RequestEnds
  <2>6. LedgerStep
    BY <2>4 DEF LedgerStep, Ledger!Next, Ledger!NewWindow, Ledger!vars
  <2> QED
    BY <2>4, <2>5, <2>6 DEF SerialInv, SerialShape
<1>4. CASE UploadStored(r)
  <2> DEFINE m == increment(loaded[r])
  <2>1. /\ HasQuota(loaded[r])
        /\ CommitOrg(r, m, {r})
        /\ _create_extraction(r)
        /\ Goto(r, "created")
    BY <1>4 DEF UploadStored, Storing, Admitted
  <2>2. m \in Org /\ Bumped(org, m)
    BY <1>1, <2>1, IncrementBumps
  <2> HIDE DEF m
  <2>3. /\ org' = m
        /\ ExactBilling'
        /\ r \in window' /\ window' \subseteq window \cup {r}
        /\ \/ /\ r \notin Billed
              /\ Cardinality(Billed) < org.quota
              /\ Billed' = Billed \cup {r}
           \/ Billed' = {r}
    BY <1>1, <2>1, <2>2, CreateBills
  <2>4. SerialShape'
    BY <1>1, <2>1, <2>3, RequestCreated
  <2>5. LedgerStep
    BY <2>2, <2>3, CreateIsLedgerStep
  <2> QED
    BY <2>3, <2>4, <2>5 DEF SerialInv, SerialShape
<1> QED
  BY <1>2, <1>3, <1>4 DEF upload_document

LEMMA ReextractSerial ==
  ASSUME TypeOK, SerialInv, IsFiniteSet(Req), NEW r \in Req, reextract_document(r)
  PROVE  SerialInv' /\ LedgerStep
<1>1. /\ pc[r] \in {"loaded", "creating", "refusing"} /\ pc[r] \in InFlight
      /\ loaded[r] = org /\ row[r] = NoRow
      /\ now \in Nat /\ org \in Org /\ mem[r] \in Org
      /\ pc[r] \in {"creating", "refusing"} => Bumped(org, mem[r])
  BY DEF reextract_document, ReextractMissing, ReextractExhausted,
     ReextractChecked, ReextractCreated, ReextractRefused, Reextracting,
     SerialInv, RowsFollowPc, CopiesAreFresh, InFlight, TypeOK
<1>2. CASE ReextractMissing(r) \/ ReextractExhausted(r)
  <2>1. PICK answer \in Answered : Goto(r, answer)
    BY <1>2 DEF ReextractMissing, ReextractExhausted, Abandon, Answered, Refused
  <2>2. UNCHANGED <<org, row, window>>
    BY <1>2 DEF ReextractMissing, ReextractExhausted
  <2> QED
    BY <1>1, <2>1, <2>2, RequestEnds, BillUntouched, LedgerStutters
    DEF SerialInv, SerialShape
<1>3. CASE ReextractChecked(r)
  <2>1. /\ mem' = [mem EXCEPT ![r] = increment(org)]
        /\ pc'[r] \in {"creating", "refusing"}
        /\ \A s \in Req : s # r => pc'[s] = pc[s] /\ pc[s] \notin InFlight
        /\ UNCHANGED <<org, row, window, loaded>>
    BY <1>1, <1>3, OthersIdle DEF ReextractChecked, Goto, TypeOK
  <2>2. Bumped(org, increment(org))
    BY <1>1, <1>3, IncrementBumps DEF ReextractChecked
  <2>3. Alone'
    BY <2>1 DEF Alone
  <2>4. WindowHasRows' /\ RowsFollowPc'
    BY <1>1, <2>1 DEF SerialInv, WindowHasRows, RowsFollowPc
  <2>5. CopiesAreFresh'
    BY <1>1, <2>1, <2>2 DEF CopiesAreFresh, InFlight, TypeOK, Bumped
  <2> QED
    BY <2>1, <2>3, <2>4, <2>5, BillUntouched, LedgerStutters DEF SerialInv
<1>4. CASE ReextractCreated(r)
  <2>1. /\ Bumped(org, mem[r])
        /\ CommitOrg(r, mem[r], {r})
        /\ _create_extraction(r)
        /\ Goto(r, "created")
    BY <1>1, <1>4 DEF ReextractCreated
  <2>2. /\ org' = mem[r]
        /\ ExactBilling'
        /\ r \in window' /\ window' \subseteq window \cup {r}
        /\ \/ /\ r \notin Billed
              /\ Cardinality(Billed) < org.quota
              /\ Billed' = Billed \cup {r}
           \/ Billed' = {r}
    BY <1>1, <2>1, CreateBills
  <2>3. SerialShape'
    BY <1>1, <2>1, <2>2, RequestCreated
  <2>4. LedgerStep
    BY <2>1, <2>2, CreateIsLedgerStep
  <2> QED
    BY <2>2, <2>3, <2>4 DEF SerialInv, SerialShape
<1>5. CASE ReextractRefused(r)
  <2>1. /\ Bumped(org, mem[r])
        /\ CommitOrg(r, refund_quota(mem[r]), {})
        /\ row' = row
        /\ Goto(r, "not_found")
    BY <1>1, <1>5 DEF ReextractRefused
  <2>2. /\ org'.quota = org.quota
        /\ ExactBilling'
        /\ window' \subseteq window
        /\ Billed' = Billed \/ Billed' = {}
    BY <1>1, <2>1, RefusalBills
  <2>3. SerialShape'
    BY <1>1, <2>1, <2>2, RequestEnds DEF Answered, Refused
  <2>4. LedgerStep
    BY <2>2 DEF LedgerStep, Ledger!Next, Ledger!NewWindow, Ledger!vars
  <2> QED
    BY <2>2, <2>3, <2>4 DEF SerialInv, SerialShape
<1> QED
  BY <1>2, <1>3, <1>4, <1>5 DEF reextract_document

LEMMA RunSerial ==
  ASSUME TypeOK, SerialInv, IsFiniteSet(Req), NEW r \in Req, run_extraction(r)
  PROVE  SerialInv' /\ LedgerStep
<1>1. /\ pc[r] \in {"created", "calling", "refunding"} /\ pc[r] \in InFlight
      /\ r \in window /\ row[r] # NoRow /\ row[r].error = "none"
      /\ row[r] \in [status : Status, error : ErrorCode \cup {"none"}]
      /\ \A s \in Req : s # r => pc[s] \notin InFlight
  BY OthersIdle DEF run_extraction, RunStarts, RunCompletes, RunFails,
     RunRefunds, RunRefunded, SerialInv, RowsFollowPc, InFlight, TypeOK
<1>2. "none" \notin OurFailures
  BY DEF OurFailures
<1>3. CASE RunStarts(r)
  <2> DEFINE new == [row[r] EXCEPT !.status = "running"]
  <2>1. /\ row' = [row EXCEPT ![r] = new]
        /\ Goto(r, "calling")
        /\ UNCHANGED <<org, window>>
    BY <1>3 DEF RunStarts
  <2>2. new.error = "none" /\ new # NoRow
    BY <1>1 DEF NoRow
  <2> HIDE DEF new
  <2>3. /\ row'[r] = new /\ pc'[r] = "calling"
        /\ \A s \in Req : s # r => row'[s] = row[s] /\ pc'[s] = pc[s]
    BY <2>1 DEF Goto, TypeOK
  <2>4. Alone' /\ CopiesAreFresh'
    BY <1>1, <2>3 DEF Alone, CopiesAreFresh, InFlight
  <2>5. WindowHasRows' /\ RowsFollowPc'
    BY <1>1, <2>1, <2>2, <2>3 DEF SerialInv, WindowHasRows, RowsFollowPc, TypeOK
  <2>6. ExactBilling' /\ Billed' = Billed
    BY <1>1, <1>2, <2>1, <2>2, RunBills
  <2> QED
    BY <2>1, <2>4, <2>5, <2>6, LedgerStutters DEF SerialInv
<1>4. CASE RunCompletes(r)
  <2> DEFINE new == [row[r] EXCEPT !.status = "completed"]
  <2>1. /\ row' = [row EXCEPT ![r] = new]
        /\ Goto(r, "accepted")
        /\ UNCHANGED <<org, window>>
    BY <1>4 DEF RunCompletes
  <2>2. new.error = "none" /\ new # NoRow
    BY <1>1 DEF NoRow
  <2> HIDE DEF new
  <2>3. /\ \A s \in Req : s # r => row'[s] = row[s]
        /\ row'[r] # NoRow
    BY <2>1, <2>2 DEF TypeOK
  <2>4. SerialShape'
    BY <1>1, <2>1, <2>3, RequestEnds DEF Answered
  <2>5. ExactBilling' /\ Billed' = Billed
    BY <1>1, <1>2, <2>1, <2>2, RunBills
  <2> QED
    BY <2>1, <2>4, <2>5, LedgerStutters DEF SerialInv, SerialShape
<1>5. CASE RunFails(r)
  <2>1. PICK e \in Failures :
           /\ ~Refundable(e)
           /\ row' = [row EXCEPT ![r] = [status |-> "failed", error |-> e]]
    BY <1>5 DEF RunFails
  <2> DEFINE new == [status |-> "failed", error |-> e]
  <2>2. new.error \notin OurFailures /\ new # NoRow
    BY <2>1 DEF Refundable, is_transient, OurFailures, NoRow
  <2>3. row' = [row EXCEPT ![r] = new] /\ Goto(r, "accepted") /\ UNCHANGED <<org, window>>
    BY <1>5, <2>1 DEF RunFails
  <2> HIDE DEF new
  <2>4. /\ \A s \in Req : s # r => row'[s] = row[s]
        /\ row'[r] # NoRow
    BY <2>2, <2>3 DEF TypeOK
  <2>5. SerialShape'
    BY <1>1, <2>3, <2>4, RequestEnds DEF Answered
  <2>6. ExactBilling' /\ Billed' = Billed
    BY <1>1, <1>2, <2>2, <2>3, RunBills
  <2> QED
    BY <2>3, <2>5, <2>6, LedgerStutters DEF SerialInv, SerialShape
<1>6. CASE RunRefunds(r)
  <2>1. PICK e \in Failures :
           /\ Refundable(e)
           /\ raised' = [raised EXCEPT ![r] = e]
    BY <1>6 DEF RunRefunds
  <2>2. e \in OurFailures
    BY <2>1 DEF Refundable, is_transient, OurFailures
  <2>3. /\ pc'[r] = "refunding" /\ loaded'[r] = org
        /\ mem'[r] = refund_quota(org) /\ raised'[r] = e
        /\ \A s \in Req : s # r => pc'[s] = pc[s]
        /\ UNCHANGED <<org, row, window>>
    BY <1>6, <2>1 DEF RunRefunds, Goto, TypeOK
  <2>4. Alone'
    BY <1>1, <2>3 DEF Alone
  <2>5. WindowHasRows' /\ RowsFollowPc'
    BY <1>1, <2>3 DEF SerialInv, WindowHasRows, RowsFollowPc
  <2>6. CopiesAreFresh'
    BY <1>1, <2>2, <2>3 DEF CopiesAreFresh, InFlight, refund_quota
  <2> QED
    BY <2>3, <2>4, <2>5, <2>6, BillUntouched, LedgerStutters DEF SerialInv
<1>7. CASE RunRefunded(r)
  <2>1. /\ org'.quota = org.quota
        /\ ExactBilling'
        /\ window' = window
        /\ r \in Billed
        /\ Billed' = Billed \ {r}
    BY <1>7, RefundBills
  <2>2. /\ Goto(r, "accepted")
        /\ row' = [row EXCEPT ![r] = [status |-> "failed", error |-> raised[r]]]
    BY <1>7 DEF RunRefunded
  <2>3. /\ \A s \in Req : s # r => row'[s] = row[s]
        /\ row'[r] # NoRow
    BY <2>2 DEF TypeOK, NoRow
  <2>4. SerialShape'
    BY <1>1, <2>1, <2>2, <2>3, RequestEnds DEF Answered
  <2>5. LedgerStep
    BY <2>1 DEF LedgerStep, Ledger!Next, Ledger!Refund
  <2> QED
    BY <2>1, <2>4, <2>5 DEF SerialInv, SerialShape
<1> QED
  BY <1>3, <1>4, <1>5, <1>6, <1>7 DEF run_extraction

LEMMA OtherSerial ==
  ASSUME TypeOK, SerialInv, IsFiniteSet(Req), MaxInFlight = 1,
         \/ \E r \in Req : Arrive(r)
         \/ bulk_delete \/ _apply_plan_to_org \/ Tick \/ Crash
         \/ UNCHANGED vars
  PROVE  SerialInv' /\ LedgerStep
<1>1. ASSUME NEW r \in Req, Arrive(r) PROVE SerialInv' /\ LedgerStep
  <2>1. \A s \in Req : pc[s] \notin InFlight
    BY <1>1, NobodyInFlight DEF Arrive
  <2>2. /\ pc[r] = "idle" /\ pc'[r] = "loaded" /\ loaded'[r] = org
        /\ \A s \in Req : s # r => pc'[s] = pc[s]
        /\ UNCHANGED <<org, row, window>>
    BY <1>1 DEF Arrive, Goto, TypeOK
  <2>3. Alone'
    BY <2>1, <2>2 DEF Alone
  <2>4. WindowHasRows' /\ RowsFollowPc'
    BY <2>1, <2>2 DEF SerialInv, WindowHasRows, RowsFollowPc
  <2>5. CopiesAreFresh'
    BY <2>1, <2>2 DEF CopiesAreFresh, InFlight
  <2> QED
    BY <2>2, <2>3, <2>4, <2>5, BillUntouched, LedgerStutters DEF SerialInv
<1>2. CASE bulk_delete \/ Tick \/ UNCHANGED vars
  <2>1. UNCHANGED <<org, row, pc, loaded, mem, raised, window>>
    BY <1>2 DEF bulk_delete, Tick, vars
  <2>2. Alone' /\ WindowHasRows' /\ RowsFollowPc'
    BY <2>1 DEF SerialInv, Alone, WindowHasRows, RowsFollowPc
  <2>3. CopiesAreFresh'
    BY <2>1 DEF SerialInv, CopiesAreFresh, Bumped, refund_quota
  <2> QED
    BY <2>1, <2>2, <2>3, BillUntouched, LedgerStutters DEF SerialInv
<1>3. CASE _apply_plan_to_org
  <2>1. \A s \in Req : pc[s] \notin InFlight
    BY <1>3, NobodyInFlight DEF _apply_plan_to_org
  <2>2. /\ org'.used = 0 /\ org'.quota \in PlanQuotas
        /\ window' = {}
        /\ UNCHANGED <<row, pc, loaded, mem, raised>>
    BY <1>3 DEF _apply_plan_to_org
  <2>3. Billed' = {}
    BY <2>2 DEF Billed
  <2>4. Alone' /\ WindowHasRows' /\ RowsFollowPc' /\ CopiesAreFresh'
    BY <2>1, <2>2 DEF SerialInv, Alone, WindowHasRows, RowsFollowPc,
       CopiesAreFresh, InFlight
  <2>5. ExactBilling'
    BY <2>2, <2>3, FS_EmptySet DEF ExactBilling
  <2>6. LedgerStep
    BY <2>2, <2>3 DEF LedgerStep, Ledger!Next, Ledger!NewPlan
  <2> QED
    BY <2>4, <2>5, <2>6 DEF SerialInv
<1>4. CASE Crash
  <2>1. /\ \A s \in Req : pc'[s] \notin InFlight
        /\ \A s \in Req : pc'[s] = "idle" => pc[s] = "idle"
        /\ UNCHANGED <<org, row, window>>
    BY <1>4 DEF Crash, Busy, InFlight
  <2>2. Alone' /\ CopiesAreFresh'
    BY <2>1 DEF Alone, CopiesAreFresh, InFlight
  <2>3. WindowHasRows' /\ RowsFollowPc'
    BY <2>1 DEF SerialInv, WindowHasRows, RowsFollowPc, InFlight
  <2> QED
    BY <2>1, <2>2, <2>3, BillUntouched, LedgerStutters DEF SerialInv
<1> QED
  BY <1>1, <1>2, <1>3, <1>4

LEMMA SerialStep ==
  ASSUME IsFiniteSet(Req), MaxInFlight = 1, TypeOK, SerialInv, [Next]_vars
  PROVE  SerialInv' /\ LedgerStep
BY UploadSerial, ReextractSerial, RunSerial, OtherSerial DEF Next, Serve

LEMMA SerialInit == Init => SerialInv /\ Ledger!Init
<1> SUFFICES ASSUME Init PROVE SerialInv /\ Ledger!Init
  OBVIOUS
<1>1. Billed = {} /\ org.used = 0 /\ org.quota \in PlanQuotas
  BY PlanAssumption DEF Init, Billed, FreshOrg
<1>2. ExactBilling
  BY <1>1, FS_EmptySet DEF ExactBilling
<1>3. Alone /\ WindowHasRows /\ RowsFollowPc /\ CopiesAreFresh
  BY DEF Init, Alone, WindowHasRows, RowsFollowPc, CopiesAreFresh, InFlight
<1> QED
  BY <1>1, <1>2, <1>3 DEF SerialInv, Ledger!Init

(* One request at a time, for any finite number of requests: the counter   *)
(* is exactly the number of extractions the window is billed for.          *)
THEOREM BillingIsExact ==
  ASSUME IsFiniteSet(Req), MaxInFlight = 1
  PROVE  Spec => []ExactBilling
<1>1. Init => SerialInv
  BY SerialInit
<1>2. TypeOK /\ SerialInv /\ [Next]_vars => SerialInv'
  BY SerialStep
<1>3. SerialInv => ExactBilling
  BY DEF SerialInv
<1> QED
  BY <1>1, <1>2, <1>3, TypeCorrect, PTL DEF Spec

(* One request at a time the pipeline implements the ledger: no window is  *)
(* ever billed past its plan's quota, and a failure of ours is taken back. *)
THEOREM PipelineImplementsLedger ==
  ASSUME IsFiniteSet(Req), MaxInFlight = 1
  PROVE  Spec => ImplementsLedger
<1>1. Init => SerialInv /\ Ledger!Init
  BY SerialInit
<1>2. TypeOK /\ SerialInv /\ [Next]_vars => SerialInv' /\ [Ledger!Next]_(Ledger!vars)
  BY SerialStep DEF LedgerStep
<1> QED
  BY <1>1, <1>2, TypeCorrect, PTL DEF Spec, ImplementsLedger, Ledger!Spec

(* What the ledger promises: no step of it bills past the plan. *)
BillWithinPlan == org.quota \in PlanQuotas /\ IsFiniteSet(Billed) /\ BilledWithinQuota

LEMMA LedgerPromise == Ledger!Spec => []BillWithinPlan
<1>1. Ledger!Init => BillWithinPlan
  <2> SUFFICES ASSUME Ledger!Init PROVE BillWithinPlan
    OBVIOUS
  <2>1. org.quota \in PlanQuotas /\ Billed = {}
    BY DEF Ledger!Init
  <2>2. org.quota \in Nat /\ IsFiniteSet(Billed) /\ Cardinality(Billed) = 0
    BY <2>1, FS_EmptySet, PlanAssumption
  <2> QED
    BY <2>1, <2>2 DEF BillWithinPlan, BilledWithinQuota
<1>2. BillWithinPlan /\ [Ledger!Next]_(Ledger!vars) => BillWithinPlan'
  <2> SUFFICES ASSUME BillWithinPlan, [Ledger!Next]_(Ledger!vars) PROVE BillWithinPlan'
    OBVIOUS
  <2>1. /\ org.quota \in PlanQuotas /\ org.quota \in Nat \ {0}
        /\ IsFiniteSet(Billed) /\ Cardinality(Billed) <= org.quota
    BY PlanAssumption DEF BillWithinPlan, BilledWithinQuota
  <2>2. Cardinality(Billed) \in Nat
    BY <2>1, FS_CardinalityType
  <2>3. ASSUME NEW e \in Req, Ledger!Bill(e) PROVE BillWithinPlan'
    <3>1. /\ Billed' = Billed \cup {e} /\ e \notin Billed /\ org'.quota = org.quota
          /\ Cardinality(Billed) < org.quota
      BY <2>3 DEF Ledger!Bill, Ledger!Cardinality, Cardinality
    <3>2. IsFiniteSet(Billed') /\ Cardinality(Billed') = Cardinality(Billed) + 1
      BY <2>1, <3>1, FS_AddElement
    <3> QED
      BY <2>1, <2>2, <3>1, <3>2 DEF BillWithinPlan, BilledWithinQuota
  <2>4. ASSUME NEW e \in Req, Ledger!Refund(e) PROVE BillWithinPlan'
    <3>1. /\ Billed' = Billed \ {e} /\ e \in Billed /\ org'.quota = org.quota
      BY <2>4 DEF Ledger!Refund
    <3>2. IsFiniteSet(Billed') /\ Cardinality(Billed') = Cardinality(Billed) - 1
      BY <2>1, <3>1, FS_RemoveElement
    <3> QED
      BY <2>1, <2>2, <3>1, <3>2 DEF BillWithinPlan, BilledWithinQuota
  <2>5. CASE Ledger!NewWindow
    <3>1. (Billed' = {} \/ \E e \in Req : Billed' = {e}) /\ org'.quota = org.quota
      BY <2>5 DEF Ledger!NewWindow
    <3>2. IsFiniteSet(Billed') /\ Cardinality(Billed') \in {0, 1}
      BY <3>1, FS_EmptySet, FS_Singleton
    <3> QED
      BY <2>1, <3>1, <3>2 DEF BillWithinPlan, BilledWithinQuota
  <2>6. CASE Ledger!NewPlan
    <3>1. Billed' = {} /\ org'.quota \in PlanQuotas
      BY <2>6 DEF Ledger!NewPlan
    <3>2. org'.quota \in Nat /\ IsFiniteSet(Billed') /\ Cardinality(Billed') = 0
      BY <3>1, FS_EmptySet, PlanAssumption
    <3> QED
      BY <3>1, <3>2 DEF BillWithinPlan, BilledWithinQuota
  <2>7. CASE UNCHANGED Ledger!vars
    BY <2>1, <2>7 DEF Ledger!vars, BillWithinPlan, BilledWithinQuota
  <2> QED
    BY <2>3, <2>4, <2>5, <2>6, <2>7 DEF Ledger!Next
<1> QED
  BY <1>1, <1>2, PTL DEF Ledger!Spec

(* One request at a time the promise of quota.py:3 is kept: no window is    *)
(* billed for more extractions than the plan grants.  Two at a time break   *)
(* it: what costs the promise is the stale copy the gate computes on.       *)
THEOREM OneAtATimeKeepsTheQuota ==
  ASSUME IsFiniteSet(Req), MaxInFlight = 1
  PROVE  Spec => []BilledWithinQuota
<1>1. BillWithinPlan => BilledWithinQuota
  BY DEF BillWithinPlan
<1> QED
  BY <1>1, LedgerPromise, PipelineImplementsLedger, PTL DEF ImplementsLedger
============================================================================
