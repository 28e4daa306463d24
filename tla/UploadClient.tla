----------------------------- MODULE UploadClient -----------------------------
(***************************************************************************)
(* The browser's side of an upload: useUpload runs one task per file       *)
(* (frontend/src/hooks/use-upload.ts) and useExtraction one for the open   *)
(* review page (use-extraction.ts); both poll (lib/api.ts).  The list of   *)
(* uploads lives in the app layout and survives navigation; the upload     *)
(* page asks Next for fresh quota numbers when an outcome arrives          *)
(* (upload-shell.tsx).                                                     *)
(*                                                                         *)
(* The backend is reduced to what the answers tell: one extraction per     *)
(* content, which a second upload of that content shares, a gate that may  *)
(* be shut at any moment, and crashes that leave an extraction running for *)
(* ever.  React renders the list when it gets to it: several updates may    *)
(* become one render.                                                      *)
(***************************************************************************)
EXTENDS Naturals, FiniteSets, Sequences, SequencesExt

CONSTANTS MaxFiles, \* bound: files picked
          Content,  \* file contents
          Viewer,   \* the task of the review page
          None      \* no value

ASSUME UploadAssumption == /\ MaxFiles \in Nat
                           /\ Viewer \notin Nat
                           /\ None \notin Nat \cup Content \cup {Viewer, "extraction", "completed"}

Entry == 1 .. MaxFiles          \* the local-<n> ids
Task  == Entry \cup {Viewer}

VARIABLES
  (* the page *)
  page,     \* "upload", "review" (any page without the shell), or "login"
  order,    \* the entries ever listed, in the order of the list
  phase,    \* UploadState.phase of an entry, "none" when it is not listed
  code,     \* why an entry failed
  view,     \* State of useExtraction
  (* the tasks *)
  pc,       \* what a task awaits
  file,     \* its content, which stands for its extraction id
  aborted,  \* the tasks whose AbortController was aborted
  late,     \* the polls that have run for two minutes
  (* the quota panel *)
  exhausted, \* used >= total, of the numbers on the screen
  seen,     \* what the last render of the shell took from the list
  queued,   \* a router.refresh() is due
  fetching, \* a refresh is under way, its numbers are read
  (* history: the outcomes that were listed when the server read the numbers *)
  covered,  \* ... on the screen
  fetched,  \* ... of the refresh under way
  swapped,  \* outcomes that took the place of others within one render
  (* the backend *)
  job,      \* status of the extraction of a content
  owner,    \* the upload whose request runs it
  reply     \* the answer that travels to a task

vars == <<page, order, phase, code, view, pc, file, aborted, late,
          exhausted, seen, queued, fetching, covered, fetched, swapped, job, owner, reply>>

List    == <<order, phase, code>>
Panel   == <<exhausted, seen, queued, fetching, covered, fetched, swapped>>
Backend == <<job, owner>>

InFlight == {"queued", "uploading", "extracting"}
Terminal == {"completed", "failed"}
Idle     == {"idle", "done"}
Awaits   == {"uploading", "first", "asking"}    \* tasks with a request under way

Blank == [done |-> {}, reject |-> {}]           \* an empty list, rendered

Init == /\ page = "upload"
        /\ order = <<>>
        /\ phase = [i \in Entry |-> "none"]
        /\ code = [i \in Entry |-> None]
        /\ view = [phase |-> "none", data |-> None]
        /\ pc = [t \in Task |-> "idle"]
        /\ file = [t \in Task |-> None]
        /\ aborted = {} /\ late = {}
        /\ exhausted \in BOOLEAN
        /\ seen = Blank
        /\ queued = FALSE /\ fetching = FALSE
        /\ covered = {} /\ fetched = {} /\ swapped = {}
        /\ job = [c \in Content |-> "none"]
        /\ owner = [c \in Content |-> None]
        /\ reply = [t \in Task |-> None]

-----------------------------------------------------------------------------
(* What the upload page derives from the list. *)

Listed == {i \in Entry : phase[i] # "none"}

(* ActivityCard: two groups; only a completed row links to its review. *)
inFlight == {i \in Listed : phase[i] \in InFlight}
done     == {i \in Listed : phase[i] \in Terminal}
Completed == {i \in Listed : phase[i] = "completed"}

Refused == {i \in Listed : phase[i] = "failed" /\ code[i] = "QUOTA_EXHAUSTED"}

(* reverse().find() takes the last refusal of the list, which is the oldest: *)
(* its id, or none, as a set.                                                *)
lastQuotaRejectId ==
  {order[k] : k \in {k \in DOMAIN order :
                       /\ order[k] \in Refused
                       /\ \A l \in DOMAIN order : l > k => order[l] \notin Refused}}

Outcomes == Completed \cup Refused

(* What a render of the shell takes from the list, and the dependencies of   *)
(* its effect.  An entry is listed once: completedCount is this cardinality. *)
Rendered == [done |-> Completed, reject |-> lastQuotaRejectId]
Deps(r)  == <<Cardinality(r.done), r.reject>>

(* Bug: only refusals refresh the numbers. *)
Bug_refresh_on_refusal(r) == r.reject \notin {{}, seen.reject}

(* The effect of UploadShell: its dependencies changed and one of them is set. *)
RefreshEffect(r) ==
  /\ Deps(r) # Deps(seen)
  /\ r.done # {} \/ r.reject # {}

(* The shell renders the list as it now is.  Updates since the last render   *)
(* that leave the dependencies alike have no effect.                         *)
Render ==
  /\ page = "upload" /\ Rendered # seen
  /\ seen' = Rendered
  /\ queued' = (queued \/ RefreshEffect(Rendered))
  /\ swapped' = IF Deps(Rendered) = Deps(seen) THEN swapped \cup (Completed \ seen.done)
                                               ELSE swapped
  /\ UNCHANGED <<page, List, view, pc, file, aborted, late, exhausted, fetching, covered,
                 fetched, Backend, reply>>

(* Bug: an entry that is not listed is listed again. *)
Bug_patch_inserts(i, p, why) ==
  /\ phase' = [phase EXCEPT ![i] = p] /\ code' = [code EXCEPT ![i] = why]
  /\ UNCHANGED order

(* patch: an entry that is no longer listed stays away. *)
patch(i, p, why) ==
  /\ phase' = IF i \in Listed THEN [phase EXCEPT ![i] = p] ELSE phase
  /\ code' = IF i \in Listed THEN [code EXCEPT ![i] = why] ELSE code
  /\ UNCHANGED order

-----------------------------------------------------------------------------
(* The user. *)

(* One or two files are dropped or picked.  runOne patches "uploading" and   *)
(* sends before anything renders, so "queued" is never seen.                *)
addFiles(n, f) ==
  LET fresh == [k \in 1 .. n |-> Len(order) + k] IN
  /\ page = "upload" /\ ~exhausted
  /\ Len(order) + n <= MaxFiles
  /\ order' = fresh \o order
  /\ phase' = [i \in Entry |-> IF i \in ToSet(fresh) THEN "uploading" ELSE phase[i]]
  /\ pc' = [t \in Task |-> IF t \in ToSet(fresh) THEN "uploading" ELSE pc[t]]
  /\ file' = [t \in Task |-> IF t \in ToSet(fresh) THEN f[t - Len(order)] ELSE file[t]]
  /\ UNCHANGED <<page, code, view, aborted, late, Panel, Backend, reply>>

(* An entry is kept for RETAIN_MS; the interval removes every expired one. *)
prune(S) ==
  /\ S # {} /\ S \subseteq done
  /\ phase' = [i \in Entry |-> IF i \in S THEN "none" ELSE phase[i]]
  /\ code' = [i \in Entry |-> IF i \in S THEN None ELSE code[i]]
  /\ UNCHANGED <<page, order, view, pc, file, aborted, late, Panel, Backend, reply>>

(* Every task of the list is aborted. *)
AbortAll == aborted' = aborted \cup {i \in Entry : pc[i] \notin Idle}

(* clear() of the context; no screen calls it yet. *)
clear ==
  /\ Listed # {}
  /\ AbortAll
  /\ phase' = [i \in Entry |-> "none"] /\ code' = [i \in Entry |-> None]
  /\ UNCHANGED <<page, order, view, pc, file, late, Panel, Backend, reply>>

(* The review page goes and takes the state of its run with it. *)
CloseReview == /\ view' = [phase |-> "none", data |-> None]
               /\ pc' = [pc EXCEPT ![Viewer] = "idle"]
               /\ file' = [file EXCEPT ![Viewer] = None]
               /\ reply' = [reply EXCEPT ![Viewer] = None]
               /\ late' = late \ {Viewer}

(* The shell goes, and with it what a refresh would have brought. *)
CloseUpload == /\ seen' = Blank /\ queued' = FALSE /\ fetching' = FALSE
               /\ covered' = {} /\ fetched' = {} /\ swapped' = {}

(* The server renders the upload page, with numbers it may have read before  *)
(* the last outcome came; the effect runs on mount.                          *)
OpenUpload ==
  /\ page # "upload" /\ page' = "upload"
  /\ CloseReview
  /\ exhausted' \in BOOLEAN
  /\ seen' = Rendered
  /\ queued' = (Completed # {} \/ lastQuotaRejectId # {})
  /\ UNCHANGED <<List, aborted, fetching, covered, fetched, swapped, Backend>>

(* By a link of the activity card, or through the library. *)
OpenReview(c) ==
  /\ page = "upload" /\ page' = "review"
  /\ job[c] # "none"
  /\ view' = [phase |-> "loading", data |-> None]
  /\ pc' = [pc EXCEPT ![Viewer] = "first"]
  /\ file' = [file EXCEPT ![Viewer] = c]
  /\ CloseUpload
  /\ UNCHANGED <<List, aborted, late, exhausted, Backend, reply>>

(* The layout unmounts: signed out, or a refresh found no session. *)
Unmount ==
  /\ page # "login" /\ page' = "login"
  /\ CloseReview
  /\ AbortAll
  /\ phase' = [i \in Entry |-> "none"] /\ code' = [i \in Entry |-> None]
  /\ CloseUpload
  /\ UNCHANGED <<order, exhausted, Backend>>

-----------------------------------------------------------------------------
(* The backend, and the network. *)

(* POST /documents: the gate, the known content, or a new extraction, which *)
(* the same request runs.  Windows, plans, refunds and other requests move  *)
(* the counter at any moment (ExtractionPipeline): the gate may be shut.    *)
ServeUpload(i) ==
  /\ pc[i] = "uploading" /\ reply[i] = None
  /\ owner[file[i]] # i
  /\ \/ reply' = [reply EXCEPT ![i] = "QUOTA_EXHAUSTED"] /\ UNCHANGED Backend
     \/ /\ job[file[i]] # "none"
        /\ reply' = [reply EXCEPT ![i] = "accepted"] /\ UNCHANGED Backend
     \/ /\ job[file[i]] = "none"
        /\ job' = [job EXCEPT ![file[i]] = "running"]
        /\ owner' = [owner EXCEPT ![file[i]] = i]
        /\ UNCHANGED reply
  /\ UNCHANGED <<page, List, view, pc, file, aborted, late, Panel>>

(* The extraction ends and its request is answered. *)
FinishJob(c) ==
  /\ owner[c] # None
  /\ \E s \in Terminal : job' = [job EXCEPT ![c] = s]
  /\ owner' = [owner EXCEPT ![c] = None]
  /\ reply' = IF pc[owner[c]] = "uploading" THEN [reply EXCEPT ![owner[c]] = "accepted"]
                                            ELSE reply
  /\ UNCHANGED <<page, List, view, pc, file, aborted, late, Panel>>

(* The process dies: what it was extracting stays "running". *)
Crash ==
  /\ \E c \in Content : owner[c] # None
  /\ owner' = [c \in Content |-> None]
  /\ reply' = [t \in Task |-> IF \E c \in Content : owner[c] = t /\ pc[t] = "uploading"
                              THEN "dead" ELSE reply[t]]
  /\ UNCHANGED <<page, List, view, pc, file, aborted, late, Panel, job>>

(* Size, type or session: an error answer that leaves no trace. *)
RefuseUpload(i) ==
  /\ pc[i] = "uploading" /\ reply[i] = None /\ owner[file[i]] # i
  /\ reply' = [reply EXCEPT ![i] = "refused"]
  /\ UNCHANGED <<page, List, view, pc, file, aborted, late, Panel, Backend>>

-----------------------------------------------------------------------------
(* The tasks.  An aborted request is never received. *)

Waits(t, at) == pc[t] \in at /\ t \notin aborted

(* A task is over: its entry, or the review page, shows the outcome. *)
Finish(t, p, why) ==
  /\ pc' = [pc EXCEPT ![t] = "done"]
  /\ reply' = [reply EXCEPT ![t] = None]
  /\ late' = late \ {t}
  /\ IF t = Viewer
     THEN /\ view' = IF why = "error" THEN [phase |-> "error", data |-> None]
                                      ELSE [phase |-> "ready", data |-> p]
          /\ UNCHANGED List
     ELSE patch(t, p, why) /\ UNCHANGED view
  /\ UNCHANGED <<page, file, aborted, Panel, Backend>>

(* The network fails, whatever the server did or does with the request. *)
Lost(t) == Waits(t, Awaits) /\ Finish(t, "failed", "error")

(* The upload is refused, or a poll is (deleted, 401, 5xx).  The body of an *)
(* error answer is read before the error is thrown.                         *)
UploadRefused(i) == Waits(i, {"uploading"}) /\ reply[i] \in {"QUOTA_EXHAUSTED", "refused"}
PollRefused(t)   == Waits(t, {"first", "asking"})

ErrorAnswer(t) ==
  /\ UploadRefused(t) \/ PollRefused(t)
  /\ pc' = [pc EXCEPT ![t] = "unwrapping"]
  /\ UNCHANGED <<page, List, view, file, aborted, late, Panel, Backend, reply>>

(* Bug: whatever goes wrong with the body ends the task without a word. *)
Bug_silent_error(t) ==
  /\ pc[t] = "unwrapping"
  /\ pc' = [pc EXCEPT ![t] = "done"]
  /\ UNCHANGED <<page, List, view, file, aborted, late, Panel, Backend, reply>>

(* A body that cannot be read, also because of an abort, leaves the default *)
(* code: the error is an ApiError and never an AbortError.                  *)
unwrapError(t) ==
  /\ pc[t] = "unwrapping"
  /\ \/ Finish(t, "failed", "error")
     \/ /\ t \notin aborted /\ reply[t] = "QUOTA_EXHAUSTED"
        /\ Finish(t, "failed", "QUOTA_EXHAUSTED")

uploadDocument(i) ==
  /\ Waits(i, {"uploading"}) /\ reply[i] = "accepted"
  /\ pc' = [pc EXCEPT ![i] = "asking"]
  /\ reply' = [reply EXCEPT ![i] = None]
  /\ patch(i, "extracting", None)
  /\ UNCHANGED <<page, view, file, aborted, late, Panel, Backend>>

(* Bug: every final answer of a poll counts as a completed extraction. *)
Bug_any_answer_completes(t) ==
  /\ Waits(t, {"first", "asking"}) /\ job[file[t]] \in Terminal
  /\ Finish(t, "completed", None)

(* The final answer of a poll, or of the first fetch of the review page. *)
FinalAnswer(t) ==
  /\ Waits(t, {"first", "asking"}) /\ job[file[t]] \in Terminal
  /\ Finish(t, job[file[t]], IF job[file[t]] = "failed" THEN "extraction" ELSE None)

(* Still running: the review page starts to poll, a poll sleeps and asks    *)
(* again.                                                                   *)
StillRunning(t) ==
  /\ Waits(t, {"first", "asking"}) /\ job[file[t]] = "running"
  /\ t \notin late
  /\ pc' = [pc EXCEPT ![t] = "asking"]
  /\ view' = IF t = Viewer THEN [phase |-> "polling", data |-> "running"] ELSE view
  /\ UNCHANGED <<page, List, file, aborted, late, Panel, Backend, reply>>

(* Bug: a poll never gives up. *)
Bug_no_timeout(t) == FALSE /\ Finish(t, "failed", "poll timeout")

(* Still running after two minutes. *)
PollTimeout(t) ==
  /\ Waits(t, {"asking"}) /\ job[file[t]] = "running"
  /\ t \in late
  /\ Finish(t, "failed", "poll timeout")

TwoMinutes(t) ==
  /\ Waits(t, {"asking"}) /\ t \notin late
  /\ late' = late \cup {t}
  /\ UNCHANGED <<page, List, view, pc, file, aborted, Panel, Backend, reply>>

(* AbortError: the task returns and says nothing. *)
Abandon(t) ==
  /\ t \in aborted /\ pc[t] \in Awaits
  /\ pc' = [pc EXCEPT ![t] = "done"]
  /\ reply' = [reply EXCEPT ![t] = None]
  /\ late' = late \ {t}
  /\ UNCHANGED <<page, List, view, file, aborted, Panel, Backend>>

-----------------------------------------------------------------------------
(* router.refresh(): the server renders the page again; several that wait   *)
(* count as one.                                                            *)

RefreshRead ==
  /\ queued /\ ~fetching
  /\ queued' = FALSE /\ fetching' = TRUE
  /\ fetched' = Outcomes
  /\ UNCHANGED <<page, List, view, pc, file, aborted, late, exhausted, seen, covered, swapped,
                 Backend, reply>>

RefreshShow ==
  /\ fetching /\ fetching' = FALSE
  /\ exhausted' \in BOOLEAN
  /\ covered' = fetched /\ fetched' = {}
  /\ UNCHANGED <<page, List, view, pc, file, aborted, late, seen, queued, swapped, Backend, reply>>

-----------------------------------------------------------------------------

User     == \/ \E n \in 1 .. 2 : \E f \in [1 .. n -> Content] : addFiles(n, f)
            \/ clear \/ OpenUpload \/ Unmount
            \/ \E c \in Content : OpenReview(c)
Expiry   == \E S \in SUBSET Entry : prune(S)
Serve(i) == ServeUpload(i) \/ RefuseUpload(i)
Step(t)  == \/ (reply[t] = "dead" /\ Lost(t)) \/ (UploadRefused(t) /\ ErrorAnswer(t))
            \/ unwrapError(t) \/ FinalAnswer(t) \/ StillRunning(t) \/ PollTimeout(t)
            \/ Abandon(t)
Fault(t) == Lost(t) \/ ErrorAnswer(t)

Next == \/ User \/ Expiry \/ Crash \/ Render \/ RefreshRead \/ RefreshShow
        \/ \E c \in Content : FinishJob(c)
        \/ \E i \in Entry : Serve(i) \/ uploadDocument(i)
        \/ \E t \in Task : Step(t) \/ Fault(t) \/ TwoMinutes(t)

Spec == Init /\ [][Next]_vars

(* The event loop runs what is ready, the server answers, time passes, and  *)
(* the extractor's own timeout ends an extraction.  Neither the user nor a  *)
(* fault of the network is owed.                                            *)
Fairness == /\ \A i \in Entry : WF_vars(Serve(i) \/ uploadDocument(i))
            /\ \A t \in Task : WF_vars(Step(t)) /\ WF_vars(TwoMinutes(t))
            /\ \A c \in Content : WF_vars(FinishJob(c))

FairSpec == Spec /\ Fairness

-----------------------------------------------------------------------------
(* Properties. *)

Answers == {None, "accepted", "QUOTA_EXHAUSTED", "refused", "dead"}

(* Every variable has its type, and no spinner turns without a task: an     *)
(* entry is in flight exactly while a task that nobody aborted works on it.  *)
TypeOK ==
  /\ page \in {"upload", "review", "login"}
  /\ order \in Seq(Entry)
  /\ phase \in [Entry -> {"none"} \cup InFlight \cup Terminal]
  /\ code \in [Entry -> {None, "QUOTA_EXHAUSTED", "error", "extraction",
                         "poll timeout"}]
  /\ view.phase \in {"none", "loading", "polling", "ready", "error"}
  /\ pc \in [Task -> Idle \cup Awaits \cup {"unwrapping"}]
  /\ file \in [Task -> Content \cup {None}]
  /\ aborted \subseteq Entry /\ late \subseteq Task
  /\ exhausted \in BOOLEAN /\ queued \in BOOLEAN /\ fetching \in BOOLEAN
  /\ seen.done \subseteq Entry /\ seen.reject \subseteq Entry
  /\ covered \subseteq Entry /\ fetched \subseteq Entry /\ swapped \subseteq Entry
  /\ job \in [Content -> {"none", "running"} \cup Terminal]
  /\ owner \in [Content -> Entry \cup {None}]
  /\ reply \in [Task -> Answers]
  /\ \A i \in Entry : i \in inFlight <=> pc[i] \notin Idle /\ i \notin aborted

(* What the screen says of an extraction is what the backend decided: a     *)
(* completed one completed, and a failure that is not the client's own (no  *)
(* answer, an error answer, two minutes) failed.  Crashes, shared           *)
(* extractions and late answers included.                                   *)
OutcomeIsServers ==
  /\ \A i \in Listed : /\ phase[i] = "completed" => job[file[i]] = "completed"
                       /\ code[i] = "extraction" => job[file[i]] = "failed"
  /\ view.data = "completed" => job[file[Viewer]] = "completed"

(* With the list rendered and no refresh under way, the numbers in the panel *)
(* were read after every outcome that the activity card beside it shows as   *)
(* completed and after the oldest refusal (upload-shell.tsx:31-45), so the   *)
(* drop zone is not offered on numbers older than those.  A completed entry  *)
(* that took the place of a pruned one within one render is the exception.   *)
PanelIsFresh ==
  page = "upload" /\ seen = Rendered /\ ~queued /\ ~fetching =>
     Completed \cup lastQuotaRejectId \subseteq covered \cup swapped

(* Late answers change nothing that is over: an entry that was cleared,     *)
(* pruned or lost with the layout never comes back, and one that ended      *)
(* keeps its outcome for as long as it is listed.                           *)
OutcomeStands ==
  [][\A i \in Entry : /\ i \in ToSet(order) \ Listed => phase'[i] = "none"
                      /\ i \in done => phase'[i] \in {phase[i], "none"}]_vars

(* Every upload ends, and so does every loading review page, also when the  *)
(* server died under it: the poll gives up.                                 *)
EveryTaskEnds ==
  /\ \A i \in Entry : (i \in inFlight) ~> (i \notin inFlight)
  /\ (view.phase \in {"loading", "polling"}) ~> (view.phase \notin {"loading", "polling"})
=============================================================================
