------------------------- MODULE ExtractionPipeline -------------------------
(***************************************************************************)
(* The life of an upload or a re-extraction inside the backend, for one    *)
(* organization: the quota gate (backend/quota.py), the file store         *)
(* (backend/storage.py), the documents and extractions tables, the model   *)
(* call and its outcome (backend/extraction_service.py), and the routes    *)
(* that drive them (backend/routes/extraction.py).                         *)
(*                                                                         *)
(* A request works on a request-scoped SQLAlchemy session.  It reads the   *)
(* organization row once, while the dependencies are resolved, computes on *)
(* that copy, and writes back at commit the columns it changed, with the   *)
(* values it computed; the commit expires the copy.  Another request, the  *)
(* Stripe webhook or the clock may move between the read and the write.    *)
(***************************************************************************)
EXTENDS Integers, FiniteSets

CONSTANTS Req,            \* the requests clients may send; each is sent once
          File,           \* the distinct file contents they may upload
          PlanQuotas,     \* the quotas of the plans (PLAN_QUOTAS)
          FirstQuota,     \* the quota the organization starts with
          Roll,           \* the length of a quota window (30 days)
          Failures,       \* the extraction errors that may occur
          MaxInFlight,    \* bound: requests served at the same time
          MaxTime,        \* bound: the clock
          MaxPlanChanges, \* bound: plan changes applied by the webhook
          MaxFaults       \* bound: process crashes and failed disk writes

(* The error codes of angar_extraction/errors.py, and the two that          *)
(* run_extraction itself writes.                                            *)
ErrorCode == {"ANTHROPIC_AUTH", "ANTHROPIC_RATE_LIMIT", "ANTHROPIC_OVERLOADED",
              "ANTHROPIC_API", "MALFORMED_PDF", "PARSE_ERROR", "UNKNOWN"}

ASSUME PlanAssumption == /\ PlanQuotas \subseteq Nat \ {0}
                         /\ FirstQuota \in PlanQuotas
ASSUME RollAssumption == Roll \in Nat \ {0}
ASSUME FailuresAssumption == Failures \subseteq ErrorCode
ASSUME BoundsAssumption == /\ MaxInFlight \in Nat
                           /\ MaxTime \in Nat
                           /\ MaxPlanChanges \in Nat
                           /\ MaxFaults \in Nat

VARIABLES
  now,      \* the clock
  org,      \* the organizations row: quota, used, resetAt
  doc,      \* the documents row of each content
  blob,     \* the stored file of each content
  row,      \* the extractions row a request created
  job,      \* what each request asks for
  pc,       \* how far each request is, then how it was answered
  loaded,   \* the session's copy of the organization, as it was read
  mem,      \* the same copy with the request's uncommitted changes
  raised,   \* the error the extractor raised, before it is committed
  window,   \* history: the rows created in the current quota window
  changes,  \* how many plan changes the webhook has applied
  faults    \* how many crashes and disk failures have happened

vars == <<now, org, doc, blob, row, job, pc, loaded, mem, raised, window,
          changes, faults>>

-----------------------------------------------------------------------------
(* States and inputs. *)

Job == [kind : {"upload"}, file : File, valid : BOOLEAN]
         \cup [kind : {"reextract"}, file : File, valid : {TRUE}]

InFlight == {"loaded", "creating", "refusing", "created", "calling", "refunding"}
Refused  == {"exhausted", "rejected", "duplicate", "not_found", "error"}
Answered == Refused \cup {"accepted", "lost"}

Status == {"none", "pending", "running", "completed", "failed"}

FreshOrg == [quota |-> FirstQuota, used |-> 0, resetAt |-> Roll]
NoRow    == [status |-> "none", error |-> "none"]

Busy == {r \in Req : pc[r] \in InFlight}

(* The server takes one more request: an upload, a re-extraction, a delete *)
(* or a webhook.                                                           *)
HasWorker == Cardinality(Busy) < MaxInFlight

Init == /\ now = 0
        /\ org = FreshOrg
        /\ doc = [f \in File |-> "none"]
        /\ blob = [f \in File |-> "absent"]
        /\ row = [r \in Req |-> NoRow]
        /\ job \in [Req -> Job]
        /\ pc = [r \in Req |-> "idle"]
        /\ loaded = [r \in Req |-> FreshOrg]
        /\ mem = [r \in Req |-> FreshOrg]
        /\ raised = [r \in Req |-> "none"]
        /\ window = {}
        /\ changes = 0
        /\ faults = 0

-----------------------------------------------------------------------------
(* The quota gate, on a copy o of the organization. *)

(* The first of t + Roll, t + 2 * Roll, ... that is after n. *)
NextReset(t, n) == t + Roll * (((n - t) \div Roll) + 1)

(* Bug: the counter is zeroed but the window is not rolled forward. *)
Bug_reset_without_roll(o) == IF o.resetAt > now THEN o ELSE [o EXCEPT !.used = 0]

reset_if_due(o) ==
  IF o.resetAt > now THEN o
  ELSE [o EXCEPT !.used = 0, !.resetAt = NextReset(o.resetAt, now)]

(* Bug: the last slot is given away twice. *)
Bug_quota_off_by_one(o) == reset_if_due(o).used <= o.quota

HasQuota(o) == reset_if_due(o).used < o.quota

increment(o) == [reset_if_due(o) EXCEPT !.used = @ + 1]

(* Bug: the refund has no floor. *)
Bug_refund_below_zero(o) == [o EXCEPT !.used = @ - 1]

refund_quota(o) == IF o.used > 0 THEN [o EXCEPT !.used = @ - 1] ELSE o

(* Bug: every column is written, stale or not. *)
Bug_flush_whole_row(before, after) == after

(* A flush writes the columns of the copy that differ from what was read. *)
Flush(before, after) ==
  [c \in DOMAIN org |-> IF after[c] # before[c] THEN after[c] ELSE org[c]]

(* Request r commits the copy `after` of the organization together with    *)
(* the rows it creates; the session forgets what it had read.              *)
CommitOrg(r, after, created) ==
  /\ org' = Flush(loaded[r], after)
  /\ window' = (IF org'.resetAt # org.resetAt THEN {} ELSE window) \cup created
  /\ loaded' = [loaded EXCEPT ![r] = FreshOrg]
  /\ mem' = [mem EXCEPT ![r] = FreshOrg]

Goto(r, label) == pc' = [pc EXCEPT ![r] = label]

(* The request ends without a commit; its session is rolled back. *)
Abandon(r, answer) ==
  /\ Goto(r, answer)
  /\ loaded' = [loaded EXCEPT ![r] = FreshOrg]
  /\ mem' = [mem EXCEPT ![r] = FreshOrg]

(* Bug: the document is committed before its extraction is inserted. *)
Bug_extraction_not_created(r) == UNCHANGED row

_create_extraction(r) ==
  row' = [row EXCEPT ![r] = [status |-> "pending", error |-> "none"]]

Environment == <<now, job, changes, faults>>

-----------------------------------------------------------------------------
(* A request arrives: the dependencies authenticate it and read the        *)
(* organization.                                                           *)
Arrive(r) ==
  /\ pc[r] = "idle"
  /\ HasWorker
  /\ Goto(r, "loaded")
  /\ loaded' = [loaded EXCEPT ![r] = org]
  /\ UNCHANGED <<org, doc, blob, row, mem, raised, window, Environment>>

-----------------------------------------------------------------------------
(* POST /documents.  From the end of file.read() to the first commit the   *)
(* coroutine does not yield: each outcome is one step.                     *)

Uploading(r) == pc[r] = "loaded" /\ job[r].kind = "upload"

Admitted(r) == Uploading(r) /\ HasQuota(loaded[r])

(* store_uploaded_file finds no live document and reaches the file store. *)
Storing(r) == /\ Admitted(r)
              /\ job[r].valid
              /\ doc[job[r].file] # "live"

UploadExhausted(r) ==
  /\ Uploading(r)
  /\ ~HasQuota(loaded[r])
  /\ Abandon(r, "exhausted")
  /\ UNCHANGED <<org, doc, blob, row, raised, window, Environment>>

(* Too large or of a type not allowed (413, 415): the bump is undone. *)
UploadRejected(r) ==
  /\ Admitted(r)
  /\ ~job[r].valid
  /\ CommitOrg(r, refund_quota(increment(loaded[r])), {})
  /\ Goto(r, "rejected")
  /\ UNCHANGED <<doc, blob, row, raised, Environment>>

(* The content is known: its latest extraction is returned, the bump is    *)
(* undone.  The branch for a live document without any extraction is dead: *)
(* see LiveDocHasExtraction.                                               *)
UploadDuplicate(r) ==
  /\ Admitted(r)
  /\ job[r].valid
  /\ doc[job[r].file] = "live"
  /\ CommitOrg(r, refund_quota(increment(loaded[r])), {})
  /\ Goto(r, "duplicate")
  /\ UNCHANGED <<doc, blob, row, raised, Environment>>

(* Bug: whatever exists under the key is taken for the content. *)
Bug_store_trusts_existing(f) == FALSE

(* The store holds other bytes under this key: it refuses to overwrite. *)
StoreRefuses(f) == blob[f] = "partial"

(* It writes the content unless it is already there. *)
store(f) == blob' = [blob EXCEPT ![f] = IF @ = "absent" THEN "full" ELSE @]

(* Bug: no unique constraint. *)
Bug_no_unique_constraint(f) == FALSE

(* uq_doc_org_sha spans soft-deleted documents too. *)
UniqueViolation(f) == doc[f] = "deleted"

(* A fresh document: file, document row, extraction row and charge. *)
UploadStored(r) ==
  LET f == job[r].file IN
  /\ Storing(r)
  /\ ~StoreRefuses(f)
  /\ ~UniqueViolation(f)
  /\ store(f)
  /\ doc' = [doc EXCEPT ![f] = "live"]
  /\ _create_extraction(r)
  /\ CommitOrg(r, increment(loaded[r]), {r})
  /\ Goto(r, "created")
  /\ UNCHANGED <<raised, Environment>>

(* An exception leaves the route (500): the store refuses, or the new row  *)
(* collides with a soft-deleted one on (organization_id, file_sha256).     *)
UploadCollides(r) ==
  LET f == job[r].file IN
  /\ Storing(r)
  /\ StoreRefuses(f) \/ UniqueViolation(f)
  /\ Abandon(r, "error")
  /\ UNCHANGED <<org, doc, blob, row, raised, window, Environment>>

(* Writing the file fails half-way: the exception leaves the route, the    *)
(* bytes written stay.                                                     *)
UploadDiskFails(r) ==
  LET f == job[r].file IN
  /\ Storing(r)
  /\ blob[f] = "absent"
  /\ faults < MaxFaults
  /\ faults' = faults + 1
  /\ blob' = [blob EXCEPT ![f] = "partial"]
  /\ Abandon(r, "error")
  /\ UNCHANGED <<now, org, doc, row, job, raised, window, changes>>

-----------------------------------------------------------------------------
(* POST /documents/{id}/extract, in a worker thread. *)

Reextracting(r) == pc[r] = "loaded" /\ job[r].kind = "reextract"

ReextractMissing(r) ==
  /\ Reextracting(r)
  /\ doc[job[r].file] = "none"
  /\ Abandon(r, "not_found")
  /\ UNCHANGED <<org, doc, blob, row, raised, window, Environment>>

ReextractExhausted(r) ==
  /\ Reextracting(r)
  /\ doc[job[r].file] # "none"
  /\ ~HasQuota(loaded[r])
  /\ Abandon(r, "exhausted")
  /\ UNCHANGED <<org, doc, blob, row, raised, window, Environment>>

(* The document is read once; create_reextract finds it again in the       *)
(* session's identity map, so what it checks is what was read here.        *)
ReextractChecked(r) ==
  /\ Reextracting(r)
  /\ doc[job[r].file] # "none"
  /\ HasQuota(loaded[r])
  /\ mem' = [mem EXCEPT ![r] = increment(loaded[r])]
  /\ Goto(r, IF doc[job[r].file] = "live" THEN "creating" ELSE "refusing")
  /\ UNCHANGED <<org, doc, blob, row, loaded, raised, window, Environment>>

ReextractCreated(r) ==
  /\ pc[r] = "creating"
  /\ _create_extraction(r)
  /\ CommitOrg(r, mem[r], {r})
  /\ Goto(r, "created")
  /\ UNCHANGED <<doc, blob, raised, Environment>>

(* Bug: the refusal waits for the document to come back. *)
Bug_refusal_waits(r) ==
  /\ pc[r] = "refusing"
  /\ doc[job[r].file] = "live"
  /\ CommitOrg(r, refund_quota(mem[r]), {})
  /\ Goto(r, "not_found")
  /\ UNCHANGED <<doc, blob, row, raised, Environment>>

ReextractRefused(r) ==
  /\ pc[r] = "refusing"
  /\ CommitOrg(r, refund_quota(mem[r]), {})
  /\ Goto(r, "not_found")
  /\ UNCHANGED <<doc, blob, row, raised, Environment>>

-----------------------------------------------------------------------------
(* run_extraction, in a worker thread for both routes. *)

(* Bug: the catch-all SDK error is not marked transient. *)
Bug_api_error_not_transient(e) == e \in {"ANTHROPIC_RATE_LIMIT", "ANTHROPIC_OVERLOADED"}

(* is_transient in angar_extraction/errors.py *)
is_transient(e) == e \in {"ANTHROPIC_RATE_LIMIT", "ANTHROPIC_OVERLOADED",
                          "ANTHROPIC_API"}

(* The errors after which run_extraction calls refund_quota. *)
Refundable(e) == is_transient(e) \/ e \in {"ANTHROPIC_AUTH", "UNKNOWN"}

RunStarts(r) ==
  /\ pc[r] = "created"
  /\ row' = [row EXCEPT ![r].status = "running"]
  /\ Goto(r, "calling")
  /\ UNCHANGED <<org, doc, blob, loaded, mem, raised, window, Environment>>

RunCompletes(r) ==
  /\ pc[r] = "calling"
  /\ row' = [row EXCEPT ![r].status = "completed"]
  /\ Goto(r, "accepted")
  /\ UNCHANGED <<org, doc, blob, loaded, mem, raised, window, Environment>>

(* A failure that consumes the slot. *)
RunFails(r) ==
  /\ pc[r] = "calling"
  /\ \E e \in Failures :
       /\ ~Refundable(e)
       /\ row' = [row EXCEPT ![r] = [status |-> "failed", error |-> e]]
  /\ Goto(r, "accepted")
  /\ UNCHANGED <<org, doc, blob, loaded, mem, raised, window, Environment>>

(* Bug: the exception escapes run_extraction. *)
Bug_run_error_escapes(r) ==
  /\ pc[r] = "calling"
  /\ Abandon(r, "error")
  /\ UNCHANGED <<org, doc, blob, row, raised, window, Environment>>

(* A failure of ours: refund_quota reads the row again, since the commit   *)
(* of "running" expired the session's copy ...                             *)
RunRefunds(r) ==
  /\ pc[r] = "calling"
  /\ \E e \in Failures :
       /\ Refundable(e)
       /\ raised' = [raised EXCEPT ![r] = e]
  /\ loaded' = [loaded EXCEPT ![r] = org]
  /\ mem' = [mem EXCEPT ![r] = refund_quota(org)]
  /\ Goto(r, "refunding")
  /\ UNCHANGED <<org, doc, blob, row, window, Environment>>

(* ... and the final commit writes it with the failed status. *)
RunRefunded(r) ==
  /\ pc[r] = "refunding"
  /\ row' = [row EXCEPT ![r] = [status |-> "failed", error |-> raised[r]]]
  /\ raised' = [raised EXCEPT ![r] = "none"]
  /\ CommitOrg(r, mem[r], {})
  /\ Goto(r, "accepted")
  /\ UNCHANGED <<doc, blob, Environment>>

-----------------------------------------------------------------------------
(* The rest of the system. *)

(* POST /extractions/bulk-delete soft-deletes the live documents behind    *)
(* the selected extractions.                                               *)
bulk_delete ==
  /\ HasWorker
  /\ \E ids \in SUBSET {r \in Req : row[r] # NoRow} :
       LET docs == {job[r].file : r \in ids} IN
       doc' = [f \in File |-> IF f \in docs /\ doc[f] = "live" THEN "deleted"
                              ELSE doc[f]]
  /\ UNCHANGED <<org, blob, row, pc, loaded, mem, raised, window, Environment>>

(* The Stripe webhook gives the organization another plan, or its plan     *)
(* again.  It reads and commits without yielding.                          *)
_apply_plan_to_org ==
  /\ HasWorker
  /\ changes < MaxPlanChanges
  /\ changes' = changes + 1
  /\ org' \in [quota : PlanQuotas, used : {0}, resetAt : {now + Roll}]
  /\ window' = {}
  /\ UNCHANGED <<now, doc, blob, row, job, pc, loaded, mem, raised, faults>>

Tick ==
  /\ now < MaxTime
  /\ now' = now + 1
  /\ UNCHANGED <<org, doc, blob, row, job, pc, loaded, mem, raised, window,
                 changes, faults>>

(* The process dies and is restarted: committed rows and files remain,     *)
(* nothing resumes them.  An upload that was writing its file leaves part  *)
(* of it, or all of it without its row.                                    *)
Crash ==
  /\ faults < MaxFaults
  /\ Busy # {}
  /\ faults' = faults + 1
  /\ pc' = [r \in Req |-> IF r \in Busy THEN "lost" ELSE pc[r]]
  /\ loaded' = [r \in Req |-> FreshOrg]
  /\ mem' = [r \in Req |-> FreshOrg]
  /\ raised' = [r \in Req |-> "none"]
  /\ \/ UNCHANGED blob
     \/ \E r \in Busy :
          /\ Storing(r)
          /\ blob[job[r].file] = "absent"
          /\ \E left \in {"partial", "full"} :
               blob' = [blob EXCEPT ![job[r].file] = left]
  /\ UNCHANGED <<now, org, doc, row, job, window, changes>>

-----------------------------------------------------------------------------
(* The steps a worker takes for request r once it has arrived. *)
upload_document(r) == \/ UploadExhausted(r)
                      \/ UploadRejected(r)
                      \/ UploadDuplicate(r)
                      \/ UploadStored(r)
                      \/ UploadCollides(r)

reextract_document(r) == \/ ReextractMissing(r)
                         \/ ReextractExhausted(r)
                         \/ ReextractChecked(r)
                         \/ ReextractCreated(r)
                         \/ ReextractRefused(r)

run_extraction(r) == \/ RunStarts(r)
                     \/ RunCompletes(r)
                     \/ RunFails(r)
                     \/ RunRefunds(r)
                     \/ RunRefunded(r)

Serve(r) == upload_document(r) \/ reextract_document(r) \/ run_extraction(r)

Next == \/ \E r \in Req : Arrive(r) \/ Serve(r) \/ UploadDiskFails(r)
        \/ bulk_delete
        \/ _apply_plan_to_org
        \/ Tick
        \/ Crash

Spec == Init /\ [][Next]_vars

(* The event loop and the worker threads keep running, and the extractor   *)
(* returns or raises within its bounded retries.  Clients, the webhook,    *)
(* the clock and the faults owe nothing.                                   *)
FairSpec == Spec /\ \A r \in Req : WF_vars(Serve(r))

-----------------------------------------------------------------------------
(* Properties. *)

Org == [quota : PlanQuotas, used : Nat, resetAt : Nat]

(* Every variable has its type; in particular every organization row, and  *)
(* every copy of it in a session, carries the quota of a plan.             *)
TypeOK == /\ now \in Nat
          /\ org \in Org
          /\ doc \in [File -> {"none", "live", "deleted"}]
          /\ blob \in [File -> {"absent", "partial", "full"}]
          /\ row \in [Req -> [status : Status, error : ErrorCode \cup {"none"}]]
          /\ job \in [Req -> Job]
          /\ pc \in [Req -> {"idle"} \cup InFlight \cup Answered]
          /\ loaded \in [Req -> Org]
          /\ mem \in [Req -> Org]
          /\ raised \in [Req -> ErrorCode \cup {"none"}]
          /\ window \subseteq Req
          /\ changes \in Nat
          /\ faults \in Nat

(* However requests, refunds, plan changes and window resets overwrite     *)
(* each other's column, monthly_extractions_used never passes the largest  *)
(* quota on sale (check_and_increment_quota); with a single plan, never    *)
(* the organization's own quota.                                           *)
UsedWithinPlan == \E q \in PlanQuotas : org.used <= q

(* The file is on disk, whole, before a document row can be seen, whatever *)
(* the moment of a crash or of a failed write: run_extraction and          *)
(* get_document_file always find the bytes that were uploaded.             *)
RowsHaveFiles == \A f \in File : doc[f] # "none" => blob[f] = "full"

(* Document and first extraction appear together, so the branch of         *)
(* store_uploaded_file for a document without extraction is never taken    *)
(* (it would leave a pending row that nothing runs).                       *)
LiveDocHasExtraction ==
  \A f \in File : doc[f] # "none" =>
     \E r \in Req : job[r].file = f /\ row[r] # NoRow

(* Two uploads of the same content never both create an extraction, so the *)
(* model is called once for it unless a re-extraction is asked for.        *)
OneUploadPerContent ==
  \A r, s \in Req :
     /\ job[r].kind = "upload" /\ row[r] # NoRow
     /\ job[s].kind = "upload" /\ row[s] # NoRow
     /\ job[r].file = job[s].file
     => r = s

(* A request that is turned away (413, 415, 429, 404, 500) or deduplicated *)
(* leaves no row and never raises the counter, even when what it had read  *)
(* of the organization was stale: bump and refund cancel out in the flush. *)
RefusalIsFree ==
  [][\A r \in Req : pc[r] \in InFlight /\ pc'[r] \in Refused
       => row' = row /\ doc' = doc /\ org'.used <= org.used]_vars

(* The failures the organization does not pay for, as run_extraction's     *)
(* contract lists them (extraction_service.py:168-171).                    *)
OurFailures == {"ANTHROPIC_AUTH", "ANTHROPIC_RATE_LIMIT",
                "ANTHROPIC_OVERLOADED", "ANTHROPIC_API", "UNKNOWN"}

(* The extractions of the current window the organization pays for. *)
Billed == {r \in window : row[r].error \notin OurFailures}

(* One request at a time, webhooks included: the counter is exactly the    *)
(* number of extractions the window is to be billed for, across resets,    *)
(* refunds, refusals, duplicates, plan changes and crashes.                *)
ExactBilling == org.used = Cardinality(Billed)

(* A window is never billed for more extractions than the plan grants      *)
(* (quota.py:3).  Two requests at a time violate it.                       *)
BilledWithinQuota == Cardinality(Billed) <= org.quota

(* Served one request at a time, the pipeline implements the ledger the    *)
(* quota gate promises.                                                    *)
Ledger == INSTANCE QuotaLedger WITH Extraction <- Req, PlanQuotas <- PlanQuotas,
                                    quota <- org.quota, billed <- Billed
ImplementsLedger == Ledger!Spec

(* An upload of an acceptable file is refused only for the quota or after  *)
(* a failure of the disk or the process: re-uploading content that is      *)
(* already there is answered with its extraction.                          *)
ReuploadIsServed ==
  \A r \in Req : job[r].kind = "upload" /\ job[r].valid /\ pc[r] = "error"
                  => faults > 0

(* Without faults every extraction row reaches a terminal status, so the   *)
(* client that polls it gets its answer.                                   *)
EveryRowTerminates ==
  \A r \in Req : row[r].status \in {"pending", "running"}
                  ~> row[r].status \in {"completed", "failed"}

(* Without faults every request that arrived is answered. *)
EveryRequestAnswered ==
  \A r \in Req : pc[r] = "loaded" ~> pc[r] \in Answered
=============================================================================
