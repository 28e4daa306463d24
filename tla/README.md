# Angar.ai: a TLA+ verification project

Angar.ai reads invoices. A client uploads a PDF or an image; the backend (FastAPI and
SQLAlchemy) charges one extraction to the organization's quota, stores the file, asks a
language model for the invoice's fields, and keeps the result for review, approval and
export. Stripe webhooks change the organization's plan. The frontend (Next.js) uploads,
polls and edits.

This directory holds the TLA+ model of that system, the TLC configurations that check it,
and the TLAPS proofs about it. Part 1 is the inventory of the system, part 2 what is
modelled, checked and proved, part 3 what could follow.

## 1. Inventory

### 1.1 Components

| Component | Source | State | Operations |
|---|---|---|---|
| Quota gate | `backend/quota.py` | three columns of the organization row: `monthly_extraction_quota`, `monthly_extractions_used`, `quota_reset_at` | `reset_if_due`, `check_and_increment_quota`, `refund_quota` |
| Upload and extraction service | `backend/extraction_service.py` | `documents`, `extractions` rows | `store_uploaded_file`, `create_reextract`, `run_extraction` |
| File store | `backend/storage.py` | one file per organization and content hash | `store`, `read`, (`delete`, never called) |
| Document routes | `backend/routes/extraction.py` | none of their own | upload, re-extract, bulk-delete, approve, corrections, export, list |
| Database session | `backend/db.py`, `backend/models.py` | the session's identity map, the schema's constraints | `get_db`, flush, commit |
| Accounts | `backend/auth.py`, `backend/routes/auth.py`, `backend/email.py` | users, memberships, one-time tokens, session cookies | register, login, verify, reset, change password, Google sign-in |
| Billing | `backend/stripe_service.py`, `backend/routes/billing.py` | customer id, subscription id and status, plan, processed webhook events | checkout, portal, webhook |
| Extractor | `angar_extraction/` | none | `extract`, up to three attempts with backoff |
| Canonical schema | `angar_schema/` | none | validation of an invoice |
| Confidence scoring | `backend/confidence.py`, `frontend/src/lib/confidence.ts` | none | a score per field |
| Export formats | `backend/export_formats.py` | none | CSV, XLSX, JSON |
| Rate limits, settings, wiring | `backend/rate_limit.py`, `settings.py`, `main.py` | counters in a library | configuration |
| Upload client | `frontend/src/hooks/use-upload.ts`, `use-extraction.ts`, `lib/api.ts`, `components/upload/` | one entry per file (uploading, extracting, completed, failed) with its task and abort controller; whether the quota panel says exhausted | add files, upload, poll, time out, prune, clear, abort, refresh the panel |
| Review client | `frontend/src/components/review/` | the draft, its dirty flag, the text of each editable field, confirmation flags, the fullscreen flag | type, blur, confirm, save, approve, export |
| Document viewer | `components/review/pdf-viewer.tsx`, `pdf-fullscreen.tsx`, `hooks/use-document-file.ts` | zoom, rotation, page, rail of each viewer; one object URL per fetched file | keys, buttons, thumbnails, open and close the overlay |
| Document library | `app/(app)/dashboard/page.tsx`, `components/dashboard/`, `lib/api-server.ts` | the URL's filters and page, the search timer, the selection, the busy flag | filter, search, page, select, export, delete |
| Other frontend pages | `app/`, `components/auth/`, `settings/`, `billing/`, `landing/` | form fields | one request each, navigation |
| Evaluation harness and gate | `eval/`, `scripts/eval_gate.py` | none | compare with the expected fields, exit code |
| Ledger adapters | `project foundation/adapters.py` | none | a prototype nothing imports |

### 1.2 How they interact

- A **route** works on a request-scoped session (`get_db`). Its dependencies read the user
  and the organization *before* the body runs (`get_current_user`, `get_current_org`), and
  the same Python object is what the quota gate computes on.
- The session has `autoflush=False` and flushes at commit. An UPDATE carries **only the
  columns whose value differs from what was read**, with the value the request computed
  (`SET used = 3`, never `used = used + 1`). There is no row lock and no version column. The
  commit expires the session's objects, so the next access reads the row again.
- The server is **one uvicorn process** (`Dockerfile:20`). `async def upload_document` runs
  on the event loop and does not yield between the end of `await file.read()` and
  `run_in_threadpool(run_extraction)`; every `def` route, the dependencies and
  `run_extraction` run in worker threads and interleave anywhere.
- **Stripe** calls the webhook, which writes the organization row the quota gate also writes.
- The **client** polls an extraction until its status is terminal or two minutes have passed.
  The list of uploads lives in the app layout, the quota numbers beside it come from the
  server with the page and are fetched again when a render shows another count of completed
  entries, or another oldest refusal, than the one before.
- The **review screen** keeps one draft in a ref. Fields write into it when they lose the
  focus; the pane that shows them is rendered when `dirty` changes, not with each edit, and is
  mounted anew in the fullscreen overlay. Two document viewers listen on the window; each is a
  dynamic import, mounted when its chunk has arrived.
- The **library** keeps its filters in the URL. Each filter pushes a URL built from the one
  the last render saw; the server renders the list; the table keeps its selection meanwhile.

### 1.3 What is hard, and what makes it correct

| Component | Hard behaviour | Correct when |
|---|---|---|
| Quota gate | read-modify-write across threads; lazy window reset; refund after a reset | the counter is the window's bill; never more billed than the plan grants |
| Upload service | file, document, extraction and charge in one step that may crash; duplicates; soft-deleted rows under a unique constraint | a row has its whole file; one extraction per uploaded content; a refusal is free; every row ends in a terminal status |
| File store | a write that stops half-way | stored bytes are the content of their key |
| Billing | duplicated, reordered, concurrent webhooks; crash between the event row and its effect | a paid plan is applied once, and stays until its own subscription ends |
| Accounts | two requests with one token; token issued while another is consumed; two registrations of one address | a one-time token works once; a reset ends the others |
| Extractor | retry or not, by the class of the error | at most three attempts; the last error's class is what the caller sees |
| Upload client | late answers, aborts, timeouts, shared extractions, a server that dies, refreshes that overlap | no answer revives a cleared entry; the outcome shown is the server's; every spinner ends; the panel's numbers are no older than the outcomes listed beside it |
| Review client | edits during a save, renders under the caret, two places of the pane, several tabs | no edit is lost silently; the screen shows what is saved; looking changes nothing |
| Document viewer | two listeners, chunks on their way, answers after a viewer is gone | no viewer reacts behind another; no URL is leaked or revoked under a viewer |
| Document library | navigations that replace each other, a timer, a selection that outlives the list | the list rests where the user asked; a bulk action hits rows that were seen; deleted rows go |

`PROJECT.json` lists each hazard at its line with the property that covers it, or says why
none does yet.

## 2. What is modelled, checked and proved

### 2.1 Modules

| Module | What it is |
|---|---|
| `QuotaLedger` | the abstract promise of the quota gate: a set of billed extractions, never more than the quota, emptied by a new window or plan, from which a failure of ours is taken back |
| `ExtractionPipeline` | the detailed model: quota gate, file store, documents, extractions, model call and the routes that drive them, for one organization |
| `MCExtractionPipeline` | the constants for TLC |
| `ExtractionPipelineProofs` | TLAPS: type correctness and the safety invariants of `ExtractionPipeline`; exact billing and the refinement of `QuotaLedger`, one request at a time |
| `StripeBilling` | checkouts, the Stripe customer, and the webhooks that move the plan, against an unordered, at-least-once Stripe |
| `Accounts` | the account behind one address: sign-up, Google sign-in, one-time links, passwords, as read-then-commit requests |
| `ReviewSession` | the review of one extraction: drafts in browser tabs, and the corrections, approve and export routes |
| `UploadClient` | the list of uploads, their tasks and polls, the review page's poll, and the quota panel, against a reduced backend that may crash |
| `ReviewFields` | the editable fields of one review: text, draft, renders, confirmations, the two places of the pane |
| `DocumentViewer` | the two viewers of the review screen, their keys, and the files they fetch |
| `DocumentLibrary` | the documents library: filters, search timer, router, selection, bulk actions |
| `MCStripeBilling`, `MCAccounts`, `MCReviewSession`, `MCUploadClient`, `MCReviewFields`, `MCDocumentViewer`, `MCDocumentLibrary` | the constants for TLC |
| `StripeBillingProofs`, `AccountsProofs`, `ReviewSessionProofs`, `UploadClientProofs`, `ReviewFieldsProofs`, `DocumentViewerProofs`, `DocumentLibraryProofs` | TLAPS: type correctness and safety properties of each |

`StripeBilling` and the pipeline meet in one row. The pipeline has the webhook as a step that
writes a plan's quota over it at any moment (`_apply_plan_to_org` there); `StripeBilling` says
when that step happens and with which plan. Whatever the pipeline writes to the counter (a charge,
a refund, a window that has elapsed, a value computed from a stale copy) is one step there,
`CounterWritten`, that may set it to anything. `Accounts` shares no row with either. `ReviewSession` starts where the pipeline ends:
its extraction is completed, and the columns it writes (`corrected_data`, `approved_at`) are
none the pipeline writes.

The client modules meet the backend in answers only. `UploadClient` reduces the pipeline to
what answers tell: one extraction per content, shared by every upload of it, a status that
moves once from running to terminal (or stays, after a crash), and a gate that may refuse an
upload at any moment. The counter itself is not part of it: windows, plans, refunds, requests of
other tabs and the overrun of finding 1 move it in ways the list does not tell. `ReviewSession` and
`ReviewFields` are the same screen seen from two sides: the first has many tabs and requests
and one version number for the data, the second one tab, saves one at a time, and the fields.
`DocumentViewer` is the screen's other half and shares with `ReviewFields` the fullscreen flag
and the focus. `DocumentLibrary` stands alone.

### 2.2 `ExtractionPipeline` and the code

One organization: every query and every unique constraint the pipeline uses is scoped by
`organization_id`, so organizations do not meet.

| Variable | In the code |
|---|---|
| `org` | the committed organization row: `quota`, `used`, `resetAt` |
| `doc[f]` | the documents row of content `f`: none, live, or soft-deleted (`deleted_at`) |
| `blob[f]` | the file under the content's key: absent, partial, full |
| `row[r]` | the extractions row request `r` created: status and error code |
| `job[r]` | what `r` asks: an upload of a content (acceptable or not), or the re-extraction of a document |
| `pc[r]` | how far `r` is, then its answer (`accepted`, `duplicate`, `exhausted` 429, `rejected` 413/415, `not_found` 404, `error` 500, or `lost` in a crash) |
| `loaded[r]`, `mem[r]` | the session's copy of the organization as read, and with its uncommitted changes |
| `raised[r]` | the error `run_extraction` caught, until the failed status is committed |
| `window` | history: the rows created since the counter was last zeroed |
| `now`, `changes`, `faults` | the clock, and counters that bound webhooks and faults |

| Action | In the code |
|---|---|
| `Arrive` | the dependencies authenticate and read the organization |
| `UploadExhausted`, `UploadRejected`, `UploadDuplicate`, `UploadStored`, `UploadCollides`, `UploadDiskFails` | the outcomes of `upload_document` up to its first commit. The stretch has no `await`, so each is one step. A worker thread's commit that falls inside it does not show: what the stretch reads of `documents` can only change by a delete, which commutes with the outcome |
| `ReextractMissing`, `ReextractExhausted`, `ReextractChecked`, `ReextractCreated`, `ReextractRefused` | `reextract_document`, a `def` route: the check and the commit are two steps, and the second sees the document as the first read it (identity map) |
| `RunStarts`, `RunCompletes`, `RunFails`, `RunRefunds`, `RunRefunded` | `run_extraction`: the "running" commit, then the model call's outcome; a refund reads the row again (the commit expired it) and the final commit writes it |
| `bulk_delete` | the soft delete of the documents behind any selection of extractions |
| `_apply_plan_to_org` | the webhook's effect on the row, the plan renewed included |
| `Tick`, `Crash` | time; a process that dies leaves commits and files, and perhaps a file without its row |

`Flush(before, after)` is the column-level UPDATE. It is what makes the interesting
behaviour possible: a stale write of one column next to another request's write of another.

A request is sent once: a client that tries again is another member of `Req`. Requests that
touch none of this state are left out.

### 2.3 `StripeBilling` and the code

One organization, and everything Stripe keeps for it. A customer, a session and a
subscription are named by the checkout they came from.

| Variable | In the code |
|---|---|
| `org` | `stripe_customer_id`, `stripe_subscription_id`, `plan`, `monthly_extractions_used` |
| `pc`, `read` | how far a checkout request is; the customer id in its session's copy of the organization |
| `session`, `sub` | at Stripe: the customer a checkout session belongs to, the state and price of the subscription bought with it |
| `events` | the events Stripe has created, in order; any of them may be delivered at any time, again and again |
| `recorded`, `processed` | the `webhook_events` table in order of insertion, and the rows with `processed_at` |

| Action | In the code |
|---|---|
| `Arrive`, `create_checkout_session`, `billing_checkout`, `CheckoutFails` | the checkout route, a `def` route: the read with the dependencies, the calls to Stripe, the commit, and a failure before it |
| `Pay`, `Update`, `Cancel`, `Invoice` | what Stripe does, each with the event it sends (external) |
| `handle_webhook` | one delivery: the idempotency row, the lookup by customer, the handler, the commit. The route is a coroutine that does not yield in between |
| `HandlerRaises` | the receipt of an invoice cannot be built or sent: logged, not stamped |
| `AlreadyProcessed` | the primary key refuses a second delivery |
| `CrashAfterRecord` | the process dies between the commit of the row and the commit of its effect |
| `CounterWritten` | the pipeline writes the counter: charge, window reset, refund, stale value |

`EventsApplyOnce` and `NoFreeRefill` therefore speak of the counter only in steps of a webhook.
The fallback of `_on_checkout_completed` for a session without metadata (`stripe_service.py:216-230`)
is left out: the sessions of this organization are those `create_checkout_session` opens, and it
always sends the plan.

`MirrorsStripe` (the organization shows the live subscription and its price, or free) is
conditional, and each condition is a hazard of the code. Dropping any one of them makes TLC find a
violation: events in order (`_on_subscription_deleted` reverts to free whichever subscription
ended; an update overtaken by an older one leaves the older plan), every event processed (a crash
after the record loses the event for good, because the retry looks already processed), one
customer (two checkouts of an organization without customer each make one, and a payment to the
loser upgrades nobody), one subscription at a time (cancelling an old one downgrades an
organization that pays for a newer one), and known prices.

### 2.4 `Accounts` and the code

One e-mail address: tokens, links and the unique constraint belong to one user.

| Variable | In the code |
|---|---|
| `user` | the users row: whether it exists, `password_hash`, `email_verified_at` |
| `token`, `used`, `expired` | the `email_tokens` rows by the request that minted them: purpose, `used_at`, past `expires_at` |
| `kind`, `link`, `pc` | the route a request calls, the token it presents, how far it is |
| `copy`, `others` | what its session has read: the users row, the outstanding reset tokens |
| `prior` | history: the reset tokens that existed when a reset was sent |

Each route is a `def` function: `register`, `google_callback`, `verify_email`,
`request_password_reset`, `reset_password` and `change_password` are its reads and its
decision; `Create`, `GoogleLinks`, `VerifyCommits`, `_new_email_token`, `ResetGathers` then
`ResetCommits`, and `ChangeCommits` what follows. Between them any other request may commit:
a password hash takes long by design. `Flush` writes the changed columns only, as in the
pipeline. `Abandon` ends a request before its commit, `Expire` lets a token lapse at any time.

A request names the password it sets, so two requests never set the same one. Sign-in,
sign-out and the profile write columns that are left out here (`last_login_at`, names).

### 2.5 `ReviewSession` and the code

One completed extraction in several browser tabs. Data is a version number: each edit makes a
new one, and a tab's later versions contain its earlier edits.

| Variable | In the code |
|---|---|
| `corrected`, `approved` | `corrected_data`, `approved_at` of the extractions row |
| `loaded` | the tabs whose GET the server has answered |
| `open`, `draft`, `dirty` | the mounted workspaces, their `draftRef` (before that, the data on its way) and `dirty` state |
| `saving`, `approving` | the flags of the mounted header, by the click whose handler raised them |
| `kind`, `tab`, `pc` | a click on Save, Approve or a download, and the request its handler awaits |
| `wire`, `committed` | the PUT requests the server has yet to commit, and those it has |
| `seen`, `result` | history: the version on the screen at the click; the version that was approved or downloaded |
| `raced` | history: the tabs in which a race happened |

`getExtraction` is the server's answer to the page's GET, `ReviewWorkspace` the mount with what was
answered; a save of another tab may commit in between and makes that tab one of `raced`.
`onSaveClick`, `onApprove` and `onExport` are the handlers up to their first request (the
`dirty` they test is that of the click); `onSave` is the continuation after a save's answer;
`save_corrections` and `Act` are the routes; `SaveRefused` and `Fail` the ways a request ends
badly. A request may fail for the browser and still commit, at any later time. `Fullscreen`
mounts a new header whose flags are down while the old handlers go on.

`CleanIsSaved` and `SignOffIsCurrent` leave out tabs in `raced`, and each of the three ways into
`raced` is necessary (without it TLC finds a violation): an edit during a save of the tab, a
save sent while an earlier one of the tab is still to commit, and a save by another tab.

### 2.6 `UploadClient` and the code

| Variable | In the code |
|---|---|
| `order`, `phase`, `code` | the `uploads` list of `useUpload`: newest first, `phase`, and why an entry failed |
| `view` | the state of `useExtraction` on the open review page |
| `pc`, `file`, `aborted` | what each task awaits, its content (which stands for the extraction id), its `AbortController` |
| `late` | the polls whose deadline of two minutes has passed |
| `exhausted` | `used >= total` of the numbers on the screen |
| `seen` | what the shell's last render took from the list: the completed entries and the oldest refusal |
| `queued`, `fetching` | a `router.refresh()` that is due, one that is under way |
| `covered`, `fetched`, `swapped` | history: the outcomes that were listed when the server read the numbers on the screen, and those of the refresh under way; completed entries that took the place of others within one render |
| `page` | the upload page, the login page, or `review` for any page without the upload shell |
| `job`, `owner`, `reply` | the backend: extraction of a content, the request that runs it, the answer under way |

| Action | In the code |
|---|---|
| `addFiles`, `prune`, `clear`, `Unmount` | the operations of the hook; `Unmount` is the layout's cleanup |
| `OpenUpload`, `OpenReview` | navigation; the upload page may be rendered with numbers older than the list |
| `ServeUpload`, `RefuseUpload`, `FinishJob`, `Crash` | the backend |
| `uploadDocument`, `FinalAnswer`, `StillRunning`, `PollTimeout`, `TwoMinutes` | the way of a task: upload, then "sleep, ask" until an answer is final or the time is up (sleep and request are one wait) |
| `ErrorAnswer`, `unwrapError`, `Lost`, `Abandon` | an error answer and the reading of its body, a network failure, an `AbortError` |
| `Render` | the shell renders the list and runs its effect |
| `RefreshRead`, `RefreshShow` | the refresh of the panel: the server reads, the page shows |

React batches: `Render` is a step of its own, so any number of list updates may become one render.
Its effect asks for a refresh when the number of completed entries, or the id of the oldest
refusal, differs from the last render (`RefreshEffect`). `ServeUpload` may answer
`QUOTA_EXHAUSTED` whenever it is asked; who may charge is `ExtractionPipeline`'s subject.

`PanelIsFresh` says what the effect is for: with the list rendered and no refresh due or under way,
the numbers were read after every completed entry and after the oldest refusal of the list. It
says nothing of their size: a counter may be below the number of completed entries after a
window reset, a change of plan or the overrun of finding 1.

### 2.7 `ReviewFields` and the code

Four fields stand for all: a required field of a party that may be missing, an optional one with a
state chip (`tin`) and one without (`address`, a row of full width), and an amount of an object that
is never made. `Row` is the rows with a score, `ChipRow` those with a chip to click. A value is white space, a placeholder, good, of an
odd format, or what was typed.

| Variable | In the code |
|---|---|
| `base` | `canonical_data` and its scores, as the model produced them |
| `server`, `wire` | what the row holds now, what a running save carries |
| `draft`, `dirty` | `draftRef` and the state that renders |
| `fullscreen`, `drawerOpen` | where the pane is mounted |
| `rendered`, `text` | the values the last render passed, and the text in the elements, which React does not control |
| `focus`, `confirmed` | the focused field; the flags in `localStorage` |

`Focus`, `Type`, `Blur` are what happens to a contentEditable element; `Blur` writes its text
into the draft, changed or not, and renders the pane only if the draft was clean. `Escape` unmounts
the pane under the caret, and no blur is reported. `Saved` renders again, also under the caret.
`Write` is React's rule: a text is replaced only if its child differs from that of the last
render. `toggle` confirms a row by its chip and renders that row alone: with the value it was last passed,
or, for an amount, with what the draft's object now holds. `summarizeFieldStates` and `fieldState`
are the two ways in which a row's state is computed; the summary counts every scored row, the
addresses included. `Drawer` opens and closes the drawer and stands, after `onToggleFullscreen`, for
the arrival of the overlay's chunk.

### 2.8 `DocumentViewer` and the code

`mount` says which life of a viewer is on the screen, `fetch` and `urls` what became of its file.
Both viewers come from dynamic imports (`review-workspace.tsx:20-37`): `chunk` says whether the code of
each is there, `Wanted` which viewers the workspace renders, and `ChunkLoads` mounts a viewer that
waited. A chunk stays loaded, so `Init` has the states an earlier screen may have left.
`EnterFullscreen`, `ExitFullscreen`, `Leave` mount and unmount; `Cancel` is the cleanup of
`useDocumentFile`; `ExitButton` is the button that replaces the data pane, which can be reached only
while the overlay is not there. `onKey` is delivered to every viewer that is `active`, `ControlBar` to the one
in front; the controls `zoomIn` to `nextPage` apply to a set of viewers for that reason. Zoom is
counted in quarters: fit to width is 4. A document that cannot be shown is an image with no pages
or a failed fetch.

### 2.9 `DocumentLibrary` and the code

| Variable | In the code |
|---|---|
| `rows`, `gone` | the extractions by age, the documents with `deleted_at` |
| `at`, `url`, `list` | the page, the URL and the items of the last render |
| `going`, `result`, `refresh` | Next's router (external): the navigation under way, what the server rendered for it, a refresh that waits |
| `search`, `timer` | the text of the search field; the pending timer with the filter of the URL it was typed on |
| `selected`, `confirming`, `busy`, `mine` | the state of the mounted table; the requests it made |
| `pc`, `ids` | bulk requests |
| `chosen`, `seen` | history: where the user asked to be; which rows were on the screen |

`setParam`, `Pagination` and `Link` push at once, `onSearch` after `SearchTimer`; a push replaces
the navigation under way. `Commit` shows the new page and keeps the table's state if the table
stays. `onExport`, `onDelete`, `bulk_delete`, `Deleted`, `Settled` are a bulk action from the
click to its answer. One filter stands for the six that are written at once.

### 2.10 Runs

| Run | Bounds | Checks | Shows |
|---|---|---|---|
| `pipeline_concurrent` (1.3M states) | 3 requests, 2 contents, plans 1 and 2, a window boundary, a plan change, a crash or disk failure, everything concurrent | `TypeOK`, `UsedWithinPlan`, `RowsHaveFiles`, `LiveDocHasExtraction`, `OneUploadPerContent`, `RefusalIsFree` | whatever overwrites whatever, the counter stays within 0 and the largest plan, rows have their files, contents are extracted once, refusals cost nothing |
| `pipeline_serial` (0.6M states) | 3 requests, 1 content, every error code, two window boundaries, a plan change, a fault; one at a time | `ExactBilling`, `ImplementsLedger` | the counter *is* the bill, and the pipeline refines `QuotaLedger` |
| `pipeline_liveness` | 3 requests, no faults, `FairSpec` | `EveryRowTerminates`, `EveryRequestAnswered` | no request hangs and no extraction stays pending |
| `quota_overrun` | 3 requests, 2 at a time | `BilledWithinQuota` **violated** | see finding 1 |
| `reupload_after_delete` | 2 requests, one at a time | `ReuploadIsServed` **violated** | see finding 2 |
| `billing_webhooks` (3.0M states) | 2 checkouts, 4 events, a crash, any order and repetition | `TypeOK`, `PlanWasPaidFor`, `MirrorsStripe`, `EventsApplyOnce`, `NoFreeRefill` | a paid plan was bought by the linked subscription, a delivery counts once, no webhook refills the counter for free, and what holds between Stripe and the organization under good conditions |
| `accounts` (47k states) | 5 requests of any kind | `TypeOK`, `OneAccount`, `ResetEndsOlderLinks`, `NoLostUpdate` | sign-ups race without a second account, a reset ends every older link, no commit undoes another |
| `review_session` (1.1M states) | 2 tabs, 3 clicks, 2 edits | `TypeOK`, `CleanIsSaved`, `SignOffIsCurrent`, `EditsStayUnsaved` | exactly which races make a clean tab or a sign-off stale; failures never do |
| `upload_client` (49k states) | 2 files, 1 content, a gate that may shut, every fault, `FairSpec` | `TypeOK`, `OutcomeIsServers`, `PanelIsFresh`, `OutcomeStands`, `EveryTaskEnds` | the list tells what the server decided, late answers change nothing, the panel is read after the outcomes beside it, every spinner ends even if the server died |
| `document_viewer` (55k states) | 2 pages, 3 mounts, 3 zoom steps, chunks in any state | `TypeOK`, `UrlsAreOwned`, `OneViewerListens` | no key reaches a viewer behind another, each reaches the one in front once the chunks are there, no object URL leaks or is revoked early |
| `review_fields` (3.2M states) | 4 documents, 2 texts typed, 1 confirmation at a time | `TypeOK`, `ScreenIsDraft`, `OnlyTypingChanges`, `DraftStaysValid`, `SummaryMatchesRows` | the screen shows what a save sends, looking and confirming change nothing, good values make a valid invoice |
| `library` (292k states) | 2 extractions, pages of 1, 1 bulk request, `FairSpec` | `TypeOK`, `SelectionWasSeen`, `UrlIsChosen`, `DeletedRowsGo` | a bulk action hits what was seen, the list rests where it was asked to, deleted rows leave it |

**Why these bounds are enough.** Every race in this model is between a read and a write of one
request and one other writer; a third request shows the damage in the counter. Plans of 1 and 2
make the quota bind with three requests and make a downgrade bite. With `Roll = 1` and `MaxTime =
1` a request can be read before a window boundary and written after it; the serial run crosses two
boundaries and lets a window lapse unnoticed. One fault is enough for a crash between any two
steps and a restart. The error codes fall into two classes (charged, refunded), so the concurrent
run takes one of each and the serial run takes all seven. Requests and contents are
interchangeable and `Init` chooses their jobs, hence the symmetry, which the liveness run does not
use. In `pipeline_liveness` the clock, the webhook and faults are off: they cannot block a worker.

Four events are a purchase, a change, a cancellation and a second purchase, or a purchase and
three changes: enough for every pair of handlers to meet in both orders. Two checkouts are
enough for the customer race and for two subscriptions. Five requests on an account are a
sign-up, two requests for a link, and two that use it while another is in flight; checkouts and
account requests are interchangeable. Three clicks and two edits in a review are two saves that
overtake each other and a sign-off after them; tabs and clicks are interchangeable too.

Two files of one content are an upload and one that shares its extraction, or one that is refused;
they complete, are refused, pruned and rendered together or apart, while a refresh runs or not.
`UploadClientProofs` has the safety properties for any number of both. Three mounts of a viewer
are the split one and the overlay twice, so that an answer for the first overlay can arrive in the
second. Zoom from 3 to 5 has both limits one step away. In `review_fields` the four documents are a
complete one with a number of odd format, one without total and number and with a placeholder for the
address, one with a placeholder for the name and white space for the number, and one without a
seller; two texts are an edit before and one after a save. In `library` two extractions
on pages of one give paging, a filter and a search that find different rows, and an upload during
any of it.

`CHECK_DEADLOCK FALSE` everywhere: when all requests are answered and the bounds are used
up, the server is idle.

**Fairness.** `FairSpec` has weak fairness on `Serve(r)` for each request that arrived: the
event loop and the worker threads keep running, and the extractor returns or raises, its
three attempts and its client timeout being bounded. Nothing else is fair: clients need not
send, Stripe need not call, the clock need not advance. There is no fairness on recovery
because there is none in the code: a row that was `running` when the process died stays
`running`, which is why the liveness run has no faults.

`UploadClient` has weak fairness on the server's answer to an upload, on each step of a task
that the event loop can run, on the poll's clock, and on the end of an extraction that a living
server runs. The user, the network's faults and a crash are not owed; after a crash the status
stays "running" and the poll's deadline is what ends the spinner. `DocumentLibrary` has weak
fairness on the router's refresh and the server's rendering, and strong fairness on `Commit`: a
user who clicks faster than every navigation for ever would starve it.

### 2.11 Findings

1. **Two requests at a time overrun the quota** (`quota_overrun`). `quota.py:3` promises N
   extractions per window. The gate compares the copy that the dependencies read; two
   requests that read the same counter both pass, both create an extraction, and the second
   commit writes the value the first one wrote. `UsedWithinPlan` still holds, which is why
   the overrun does not show in the counter. The same lost update can swallow a refund.
2. **Deleted content cannot be uploaded again** (`reupload_after_delete`). The lookup skips
   soft-deleted documents, the unique constraint `uq_doc_org_sha` does not: the insert
   fails, nothing catches it, and the client gets a 500 on every later attempt.

**What was met while modelling.** The following the model shows too, without a run of its own.

- *Quota.* A request that straddles a plan change writes its own columns over the new plan's (one
  that straddles a plan change *and* a window boundary may write the new reset time and not the
  counter, when its new value equals the stale one). After a disk failure the partial file makes
  every later upload of that content fail in `store`, although `storage.py:42` calls it idempotent.
- *Billing.* The success page says "you're upgraded". Two checkouts of an organization without
  customer (two tabs, a second click on another plan) each create one; the second commit replaces
  the first id, and the payment made through the first session arrives for an unknown customer, is
  recorded and acknowledged, and upgrades nobody.
- *Accounts.* `models.py:127` calls the tokens one-time. `used_at` is tested on a read and written
  at the commit without a condition: two requests with one token both pass the test, both succeed,
  and the password of the second stays.
- *Review.* `review-header.tsx:39` says that Approve and Export save first. They save if the tab is
  dirty, and the answer of a save clears `dirty` even if the reviewer has edited since: that edit
  is on the screen and in neither the sign-off nor the download.
- *Upload client.* The comment at `upload-shell.tsx:23-25` says that each completed upload and each
  refusal refreshes the page. `lastQuotaRejectId` is the oldest refusal in the list, so a second one
  does not (`:34-39`), and an upload that completes while another completed one is pruned within the
  same render leaves the count, and the panel, alone. These are the two reservations of
  `PanelIsFresh`. An upload that fails with a refund does not refresh either. `clear()` and the `reload` of `useExtraction` have no caller; "queued" is never rendered.
- *Viewer.* The fullscreen key on a failed extraction, which has no data for the overlay, raises the flag: no
  overlay appears and the split viewer no longer hears keys until the screen is left
  (`review-workspace.tsx:124,161`). Hence the condition `canonical` in `OneViewerListens`.
  From the click on fullscreen until the overlay's chunk has arrived nobody listens: the split
  viewer is deaf from that render on (`:124`), the overlay, which has no placeholder, is not there
  (`:34-37`). That is the second condition of `OneViewerListens`.
- *Fields.* Esc under the caret closes the overlay and loses what was typed there. While the draft is
  dirty the chips keep the state of an earlier render. The answer of a save may replace the text
  under the caret of a field edited before it (`review-edit-context.tsx:6` says that typing is
  not disturbed). A click into an empty field of a missing seller and out of it makes a
  party without name, and every save and approval is refused from then on. A value of white space
  counts as scored in the summary and as empty in its row, and confirming it brings it back over an
  edit. `confidence.ts:62-67` says that the summary mirrors the bands of the rows and leaves out
  `items`, which has no chips; the two addresses have no chips either (`confidence-row.tsx:94`) and
  are counted, so the summary is ahead of the chips on the screen by two. `SummaryMatchesRows` counts
  rows for that reason, and the cases before are the conditions in it, in `ScreenIsDraft` and in
  `DraftStaysValid`.
- *Library.* After a successful delete `busy` is never reset: Export and Delete stay off until the
  table is mounted anew (`documents-table.tsx:77-88`). A search that waits pushes a URL built
  before a filter set meanwhile and undoes it, and pulls the user back from another page
  (`archive-filters.tsx:58-65`); a second filter pushed before the first navigation is shown
  drops the first (`:46-52`). The selection survives paging and filters, so a delete may hit rows
  that are no longer visible. A page beyond the last says "No documents yet".

### 2.12 Proofs

Every invariant and every action property that a passing run checks is also a theorem, for all
values of the constants; the refinement of `QuotaLedger` is one too. Each invariant below was
given to TLC on the run of its module before it was proved.

**`ExtractionPipeline`.** Assumptions: plan quotas are positive and the first one is among
them, a window has positive length, the possible failures are error codes, the bounds are
natural numbers. `Req`, `File` and `PlanQuotas` are otherwise arbitrary.

| Theorem | States | Argument |
|---|---|---|
| `TypeCorrect` | `[]TypeOK` | inductive by itself; the facts that matter are that a refund stops at zero and that a flush takes each column from an organization-shaped record |
| `CounterWithinPlan` | `[]UsedWithinPlan` | `UsedWithinPlan` says nothing of the copies in flight. The invariant says that the row and every copy read are within the largest quota, and that a pending write is too: it passed the gate against its own quota |
| `FilesBeforeRows`, `NoOrphanDocument`, `UploadsDeduplicated` | `[]RowsHaveFiles`, `[]LiveDocHasExtraction`, `[]OneUploadPerContent` | one invariant, `DocumentInv`: to the three it adds that the row of an uploaded content implies its documents row (soft-deleted or not), so a second upload meets either the duplicate branch or the constraint |
| `RefusalsAreFree` | `RefusalIsFree` | bump then refund gives back the value read, or zero after a reset; the flush therefore writes no counter, or writes zero. The invariant records, of a re-extraction between its two steps, that its pending write can be undone this way |
| `BillingIsExact` | `[]ExactBilling` | further assumes `Req` finite and `MaxInFlight = 1`. `SerialInv`: one request in flight, its copy is the row, its bump is by one in the same window or to one in a later one, its row is on the bill, and its pending refund is of an error that is ours |
| `PipelineImplementsLedger` | `Spec => Ledger!Spec` | the same invariant; the mapping is `quota <- org.quota`, `billed <-` the rows of the window whose error is not ours |
| `OneAtATimeKeepsTheQuota` | `[]BilledWithinQuota` | from the refinement: every step of the ledger keeps `BillWithinPlan`, so what implements the ledger does too |

The last three need the serial assumption: `quota_overrun` is their counterexample without it. The
property that run refutes is the one `OneAtATimeKeepsTheQuota` proves, so the overrun of finding 1
needs two requests at a time, whatever plans are bought, windows missed or processes killed.

**`StripeBilling`.** Assumptions: `None` is not a checkout and the bounds are natural numbers.
`Checkout` is any set, so the theorems hold for any number of checkouts, events and crashes.

| Theorem | States | Argument |
|---|---|---|
| `BillingTypeCorrect` | `[]TypeOK` | inductive by itself: what matters is that only the events of known prices reach the plan, and that records stay within the events sent |
| `NoPlanWithoutPurchase` | `[]PlanWasPaidFor` | inductive with types: records only grow, so a purchase recorded once stays on record; each handler links the subscription whose event it has just recorded, or reverts to free |
| `RedeliveryChangesNothing`, `RefillsAreBought` | `EventsApplyOnce`, `NoFreeRefill` | by step: among the steps that move plan or subscription, or that record an event and move the counter, there is only `handle_webhook`, after `IntegrityError` is false; of its handlers, only a switch to another plan, a purchase and a cancellation reset the counter |
| `OrganizationMirrorsStripe` | `[]MirrorsStripe` | see below |

`MirrorsStripe` speaks of the moment when all is delivered, and of the whole history, so it is not
inductive in any simple way: an event that arrives late makes its conditions true again. Three
invariants carry it. `CustomerInv`: a session belongs to a customer that its own checkout or a
committed one made, so with one customer in the organization no other customer's payment is
recorded as ours. `StreamInv`: at Stripe, the events of a subscription start with its purchase and
stop with its end, the last one carries its price, an invoice the price of the event before it.
`MirrorInv`: *if the records so far are exactly the first n events, in order and stamped, with one
customer, known prices and an end between any two purchases*, then the organization shows what
those n events say (`Mirror(n)`). Its step is `MirrorNext`: a handler that gets event n + 1 on a
mirror of n leaves a mirror of n + 1, by the kinds of event; a `deleted` event is about the
subscription that lived because of the condition on purchases, and an invoice repeats a known
price. Events that Stripe adds, redeliveries and crashes leave `Mirror(n)` or break its
hypothesis for good (`MirrorKeeps`). When n is the number of all events, `StreamInv` turns what the
events say into what Stripe has, which is `MirrorsStripe`.

**`Accounts`.** Assumption: `None` is not a request. `Req` is any set.

| Theorem | States | Argument |
|---|---|---|
| `AccountTypeCorrect` | `[]TypeOK` | with `ConsumesItsToken`: a request past `_consume_token` holds a token of its route's purpose, and a request mints at most one |
| `AccountCreatedOnce` | `[]OneAccount` | a request that created the account implies that the account exists, and no flush unsets that |
| `ResetEndsLinks` | `[]ResetEndsOlderLinks` | `used` only grows; between the query and the commit, each older link is in `used` or among the selected ones |
| `UpdatesAreKept` | `NoLostUpdate` | a flush of a copy in which one column was set changes that column or nothing |

**`ReviewSession`.** Assumptions: `None` is no tab, click or number; the bound is a number.

| Theorem | States | Argument |
|---|---|---|
| `ReviewTypeCorrect` | `[]TypeOK` | with the shape of a click: it belongs to an open tab once it is made, and the version it saw is no newer than the tab's draft |
| `CleanTabsAreCurrent`, `SignOffCoversScreen` | `[]CleanIsSaved`, `[]SignOffIsCurrent` | `SyncInv`, for tabs without a race: a clean tab has the server's data from the answer of its GET on (`LoadedIsSaved`); a running save carries the draft as it still is; once committed, the server has it; a save still to commit carries the draft whenever the tab is clean or another save runs, and is no older than what a running approval counts on. None of these is inductive without the others |
| `FailuresKeepEdits` | `EditsStayUnsaved` | by step: only `onSave` clears `dirty`, and it needs the commit |

**`UploadClient`.** Assumptions: the bounds are numbers; the viewer's task is no entry and `None`
is no value. `Content` is any set, and there may be any number of files.

| Theorem | States | Argument |
|---|---|---|
| `ClientTypeCorrect` | `[]TypeOK` | with what ties an entry to its task: an aborted entry is not listed, a listed one has a task that has begun, ids beyond the list are untouched, a task that has begun has a content |
| `ScreenTellsTheOutcome` | `[]OutcomeIsServers` | a server moves only an extraction that some request owns, and an owned one is running (`JobShape`): so what a final answer said stays true |
| `OutcomesStand` | `OutcomeStands` | by step: a task that still works has an entry in flight or, if it was aborted, none; ids are handed out in order, so a new entry is never an old one |
| `PanelKeepsUp` | `[]PanelIsFresh` | `PanelInv`: what the shell has rendered is the outcome of a task that is over (`SeenShape`), hence can leave the list but not change (`StepOver`: ids are never used again, so what left does not come back); and with no refresh due, what was rendered and is still listed is among the outcomes the numbers on the screen, or those a running refresh has read, were read after (`PanelCovers`: a render that finds more makes a refresh due or, with the same count, puts the new entry into `swapped`; a refresh reads after all that is listed) |

**`ReviewFields`.** Assumptions: the bounds are numbers; the documents a page may load are well
formed and acceptable to the backend (it stores no others); `None` is no field, no value and no
document. `Loaded` is any set of such documents.

| Theorem | States | Argument |
|---|---|---|
| `FieldsTypeCorrect` | `[]TypeOK` | with `ShapeInv`: every document in play (draft, server, the one on the wire) is well formed and has a total if the loaded one had; `setByPath` makes a missing party but never a total, and an amount is in focus only if there is one |
| `ScreenShowsTheDraft` | `[]ScreenIsDraft` | inductive with `ContentInv`: a value is white space only if it was loaded so; hence the child of a row is its value, and `Write` either leaves a text whose value has not changed or writes the new value's |
| `OnlyTypingChangesValues` | `[]OnlyTypingChanges` | `ContentInv`: the texts on the screen, the rows as rendered and every document hold, in a field nobody typed in, what was loaded, up to placeholders. The texts and the rows must be part of it: a blur carries a text into the draft, a click a rendered value onto the screen |
| `DraftStaysAcceptable` | `[]DraftStaysValid` | the same invariant: while nothing bad was typed, the name is there and an amount is a number, in all of these places; `Saved` lets only valid documents through |
| `SummaryCountsRows` | `[]SummaryMatchesRows` | row by row: `RowIsBand`, the two thresholds against the scores, on any well formed document; the addresses are rows like the others |

**`DocumentViewer`.** Assumptions: at least one page and one mount, zoom limits around 4, `None` is
no number.

| Theorem | States | Argument |
|---|---|---|
| `ViewerTypeCorrect` | `[]TypeOK` | with the mounts below; the least and greatest of two numbers are lemmas |
| `NoUrlLeaks`, `KeysReachTheViewerInFront` | `[]UrlsAreOwned`, `[]OneViewerListens` | `MountShape`: the split viewer is mounted while the screen is open and its chunk there, the overlay's while the flag is up over data and its chunk there; the flag needs the split viewer, so it is down before that one's chunk. `FileShape`: a file is being fetched or shown only for a living mount, and mounts are numbered in order |

**`DocumentLibrary`.** Assumptions: `None` is no request, URL or search; the bounds are numbers.
Documents, filters and requests are any sets.

| Theorem | States | Argument |
|---|---|---|
| `LibraryTypeCorrect` | `[]TypeOK` | the router holds an answer only for a navigation; the total counts rows |
| `BulkActsOnWhatWasSeen` | `[]SelectionWasSeen` | the list is among what was seen, the selection among the list or itself |
| `RestsWhereChosen` | `[]UrlIsChosen` | `RestInv`, a case for each thing that may be pending: a navigation goes to the chosen URL; a timer holds the chosen search and filter, on a library whose filter, and that of any navigation under way, is the chosen one; otherwise the URL is chosen |

**Only model-checked.** The liveness properties (`EveryRowTerminates`, `EveryRequestAnswered`,
`EveryTaskEnds`, `DeletedRowsGo`): TLAPS does not reason about fairness or `ENABLED`. The two
properties of the findings are false in general (the first is a theorem for one request at a
time). What the theorems leave to TLC besides is that the models' cases occur at all.

### 2.13 Not modelled, and why

- File names, MIME strings, sizes, prompts, invoice contents, wording and layout: data the
  properties do not tell apart. A file is acceptable or not.
- The rate limiter: a library that refuses a request before it reads anything.
- SQLite's busy timeouts: a commit that fails is the same as an `Abandon` with an error, and
  production runs on PostgreSQL.
- Several server processes: the Dockerfile starts one. With more, the stretch of
  `upload_document` would have to be split, and a second upload of one content could meet
  the unique constraint.
- The sign-in, sign-up, reset, profile and plan forms: one request each. What they race with is
  on the server, in `Accounts` and `StripeBilling`; the rest is wording and navigation. The
  landing page, icons and the shell are rendering.
- The extractor's retry loop: sequential, with a constant bound, one outcome of `run_extraction`.
- The evaluation harness and gate: sequential tools for developers, no state between runs.
- Canonical schema and export formats: checked by a library, or layout. The two refusals a
  correction can meet are in `ReviewFields`, which data is exported is in `ReviewSession`.
- In the library, the navigation badge's count; in the review screen, the tabs of narrow screens and
  the re-extract button, which leaves the page.

## 3. What could follow

1. **Composition**: `UploadClient`'s backend as an abstraction of `ExtractionPipeline`
   (`job <- row`, the gate from `org`), shown with `INSTANCE ... WITH`.
2. **`ExtractorRetry`** (`extractor.py`, `errors.py`): at most three attempts, no retry of a
   document's own fault. The pipeline's `Failures` are its outcomes.
3. **`EvalGate`**: comparison and exit codes as pure operators against a reference definition.
