---------------------------- MODULE DocumentLibrary ----------------------------
(***************************************************************************)
(* The documents library (frontend/src/app/(app)/dashboard/page.tsx and    *)
(* components/dashboard): a list the server renders for the filters and    *)
(* the page in the URL, a table with a selection that is kept from one     *)
(* render to the next, and the bulk actions on it (lib/api.ts,             *)
(* backend/routes/extraction.py).                                          *)
(*                                                                         *)
(* Every filter but the search is written at once, from the URL the last   *)
(* render saw; one of them stands for all.  The search waits for a timer.  *)
(* Next's router (external) runs one navigation at a time: a newer one     *)
(* takes its place, a refresh waits for it.                                *)
(***************************************************************************)
EXTENDS Naturals, FiniteSets, FiniteSetsExt

CONSTANTS Doc, DocOf,       \* the documents, and that of each extraction
          Found, OfType,    \* the extractions the search finds, those of the type
          PAGE_SIZE,
          MaxRows,          \* bound: extractions, numbered by age
          Request,          \* bulk requests
          None              \* nothing

Row == 1 .. MaxRows

(* A URL of the library: is there a search, a filter, and which page?       *)
Url  == [q : BOOLEAN, type : BOOLEAN, page : Nat \ {0}]
Home == [q |-> FALSE, type |-> FALSE, page |-> 1]

(* What a search timer holds: the search, and the filter of its URL. *)
Search == [q : BOOLEAN, type : BOOLEAN]

ASSUME LibraryAssumption ==
  /\ MaxRows \in Nat /\ PAGE_SIZE \in Nat \ {0}
  /\ DocOf \in [Row -> Doc] /\ Found \subseteq Row /\ OfType \subseteq Row
  /\ None \notin Request \cup Url \cup Search

VARIABLES
  (* the backend *)
  rows,        \* how many extractions there are
  gone,        \* the documents with deleted_at
  (* the router *)
  at,          \* "library", or "away" on another page
  url,         \* the URL of the last render
  going,       \* the URL of the navigation, or refresh, under way
  result,      \* what the server has rendered for it
  refresh,     \* a router.refresh() waits
  (* the library *)
  list,        \* items and total of the last render, None after an error
  search,      \* the text of the search field
  timer,       \* the search that waits, with the filter of the URL it was typed on
  selected, confirming, busy,
  mine,        \* the requests of the mounted table
  pc, ids,     \* how far a request is, and the rows it is about
  (* history *)
  chosen,      \* where the user asked to be, None after a click that came
               \* while an earlier navigation or a timer was pending
  seen         \* the rows that were on the screen

vars == <<rows, gone, at, url, going, result, refresh, list, search, timer,
          selected, confirming, busy, mine, pc, ids, chosen, seen>>

Backend == <<rows, gone>>
Router  == <<at, url, going, result, refresh>>
Table   == <<selected, confirming, busy, mine>>
Bulk    == <<pc, ids>>
History == <<chosen, seen>>

-----------------------------------------------------------------------------
(* The list. *)

anyFilter(u) == u.q \/ u.type

(* GET /extractions: newest first, without those of deleted documents.      *)
Matches(u) == {e \in 1 .. rows : /\ DocOf[e] \notin gone
                                 /\ u.q => e \in Found
                                 /\ u.type => e \in OfType}

listExtractions(u) ==
  LET all     == Matches(u)
      rank(e) == Cardinality({d \in all : d >= e}) IN
  [items |-> {e \in all : rank(e) \in (u.page - 1) * PAGE_SIZE + 1 .. u.page * PAGE_SIZE},
   total |-> Cardinality(all)]

pageCount(l) == Max({1, (l.total + PAGE_SIZE - 1) \div PAGE_SIZE})

Shown(l) == IF l = None THEN {} ELSE l.items

(* The table is replaced by a message after an error, and if nothing        *)
(* matches the filters.                                                     *)
TableShown(l, u) == l # None /\ ~(l.total = 0 /\ anyFilter(u))

OnScreen   == at = "library" /\ TableShown(list, url) /\ list.items # {}
FiltersUp  == at = "library" /\ list # None
BulkBar    == OnScreen /\ selected # {}

FreshTable == /\ selected' = {} /\ confirming' = FALSE /\ busy' = FALSE /\ mine' = {}

Init == /\ rows \in 0 .. MaxRows /\ gone = {}
        /\ at = "library" /\ url = Home /\ going = None /\ result = None
        /\ refresh = FALSE
        /\ list = listExtractions(Home)
        /\ search = FALSE /\ timer = None
        /\ selected = {} /\ confirming = FALSE /\ busy = FALSE /\ mine = {}
        /\ pc = [r \in Request |-> "idle"] /\ ids = [r \in Request |-> {}]
        /\ chosen = [at |-> "library", q |-> FALSE, type |-> FALSE]
        /\ seen = Shown(list)

-----------------------------------------------------------------------------
(* The router (external). *)

push(u) == going' = u /\ result' = None /\ UNCHANGED <<at, url, refresh>>

StartRefresh ==
  /\ refresh /\ going = None
  /\ refresh' = FALSE
  /\ going' = IF at = "library" THEN url ELSE None
  /\ UNCHANGED <<Backend, at, url, result, list, search, timer, Table, Bulk, History>>

(* DashboardPage on the server; the backend may fail.                       *)
DashboardPage ==
  /\ going # None /\ result = None
  /\ \E data \in {listExtractions(going), None} : result' = [data |-> data]
  /\ UNCHANGED <<Backend, at, url, going, refresh, list, search, timer, Table, Bulk, History>>

(* The new page is shown.  The table keeps its state if it stays.           *)
Commit ==
  /\ result # None
  /\ at' = "library" /\ url' = going /\ list' = result.data
  /\ going' = None /\ result' = None
  /\ search' = IF at = "library" /\ list # None /\ url.q = going.q THEN search ELSE going.q
  /\ IF at = "library" /\ TableShown(list, url) /\ TableShown(result.data, going)
     THEN UNCHANGED Table ELSE FreshTable
  /\ seen' = seen \cup Shown(result.data)
  /\ UNCHANGED <<Backend, refresh, timer, Bulk, chosen>>

-----------------------------------------------------------------------------
(* Filters, pages, links. *)

Pending == going # None /\ going # url

(* The user asks for one thing to be x, and for the rest to stay. *)
Choose(race, part, x) ==
  chosen' = IF race \/ chosen = None THEN None ELSE [chosen EXCEPT ![part] = x]

(* A keystroke in the search field starts the timer anew, with the URL this *)
(* render has; its page will not count.                                    *)
onSearch(v) ==
  /\ FiltersUp /\ search # v
  /\ search' = v
  /\ timer' = [q |-> v, type |-> url.type]
  /\ Choose(Pending, "q", v)
  /\ UNCHANGED <<Backend, Router, list, Table, Bulk, seen>>

(* Bug: the search replaces the other filters. *)
Bug_search_alone == [Home EXCEPT !.q = timer.q]

(* What is pushed: the search, in the URL it was typed on, first page. *)
Debounced == [q |-> timer.q, type |-> timer.type, page |-> 1]

SearchTimer ==
  /\ timer # None
  /\ timer' = None
  /\ push(Debounced)
  /\ UNCHANGED <<Backend, list, search, Table, Bulk, History>>

setParam ==
  /\ FiltersUp
  /\ push([url EXCEPT !.type = ~@, !.page = 1])
  /\ Choose(Pending \/ timer # None, "type", ~url.type)
  /\ UNCHANGED <<Backend, list, search, timer, Table, Bulk, seen>>

(* A link to the library without filters: "Clear all", the navigation bar.  *)
Link ==
  /\ at = "library" => ~FiltersUp \/ anyFilter(url)
  /\ push(Home)
  /\ chosen' = IF timer # None THEN None ELSE [at |-> "library", q |-> FALSE, type |-> FALSE]
  /\ UNCHANGED <<Backend, list, search, timer, Table, Bulk, seen>>

(* Previous and next page, with the filters of this render.                 *)
Pagination ==
  /\ at = "library" /\ TableShown(list, url)
  /\ pageCount(list) > 1
  /\ \E p \in {url.page - 1, url.page + 1} \ {0} :
        /\ p > url.page => url.page < pageCount(list)
        /\ push([url EXCEPT !.page = p])
  /\ Choose(Pending, "at", "library")
  /\ UNCHANGED <<Backend, list, search, timer, Table, Bulk, seen>>

(* Another page is opened.  The search timer is not stopped. *)
Leave ==
  /\ at = "library"
  /\ at' = "away" /\ going' = None /\ result' = None /\ refresh' = FALSE
  /\ FreshTable
  /\ Choose(timer # None, "at", "away")
  /\ UNCHANGED <<Backend, url, list, search, timer, Bulk, seen>>

-----------------------------------------------------------------------------
(* The selection. *)

toggle(e) ==
  /\ OnScreen /\ e \in Shown(list)
  /\ selected' = IF e \in selected THEN selected \ {e} ELSE selected \cup {e}
  /\ UNCHANGED <<Backend, Router, list, search, timer, confirming, busy, mine, Bulk, History>>

(* Bug: "select all" selects what matches the filters on every page. *)
Bug_all_pages == Matches(url)

allItems == Shown(list)

(* The box in the header, which gives way to the bulk bar.                  *)
toggleAll ==
  /\ OnScreen /\ selected = {}
  /\ selected' = allItems
  /\ UNCHANGED <<Backend, Router, list, search, timer, confirming, busy, mine, Bulk, History>>

Confirming(b) ==
  /\ BulkBar /\ confirming = ~b
  /\ confirming' = b
  /\ UNCHANGED <<Backend, Router, list, search, timer, selected, busy, mine, Bulk, History>>

clear ==
  /\ BulkBar
  /\ selected' = {} /\ confirming' = FALSE
  /\ UNCHANGED <<Backend, Router, list, search, timer, busy, mine, Bulk, History>>

-----------------------------------------------------------------------------
(* The bulk actions, on the rows that are selected at the click.            *)

Bulked(r, step) ==
  /\ BulkBar /\ ~busy /\ pc[r] = "idle"
  /\ busy' = TRUE
  /\ mine' = mine \cup {r}
  /\ pc' = [pc EXCEPT ![r] = step]
  /\ ids' = [ids EXCEPT ![r] = selected]
  /\ UNCHANGED <<Backend, Router, list, search, timer, selected, confirming, History>>

onExport(r) == Bulked(r, "exporting")
onDelete(r) == confirming /\ Bulked(r, "deleting")

(* POST /extractions/bulk-delete hides the documents behind the rows.       *)
bulk_delete(r) ==
  /\ pc[r] = "deleting"
  /\ gone' = gone \cup {DocOf[e] : e \in ids[r]}
  /\ pc' = [pc EXCEPT ![r] = "deleted"]
  /\ UNCHANGED <<rows, Router, list, search, timer, Table, ids, History>>

(* Bug: the list is not asked for again. *)
Bug_no_refresh(r) ==
  /\ pc[r] = "deleted"
  /\ pc' = [pc EXCEPT ![r] = "cleared"]
  /\ IF r \in mine THEN selected' = {} /\ confirming' = FALSE
                   ELSE UNCHANGED <<selected, confirming>>
  /\ UNCHANGED <<Backend, Router, list, search, timer, busy, mine, ids, History>>

(* The answer to a delete, also one whose table is gone.  busy stays up.    *)
Deleted(r) ==
  /\ pc[r] = "deleted"
  /\ pc' = [pc EXCEPT ![r] = "cleared"]
  /\ IF r \in mine THEN selected' = {} /\ confirming' = FALSE
                   ELSE UNCHANGED <<selected, confirming>>
  /\ refresh' = TRUE
  /\ UNCHANGED <<Backend, at, url, going, result, list, search, timer, busy, mine, ids, History>>

(* Bug: the buttons stay off when a request fails. *)
Bug_busy_stays(r) ==
  /\ pc[r] \in {"exporting", "deleting", "deleted"}
  /\ pc' = [pc EXCEPT ![r] = "failed"]
  /\ UNCHANGED <<Backend, Router, list, search, timer, Table, ids, History>>

(* An export has its answer, or a request fails; a delete that fails for    *)
(* the browser may have been committed.                                     *)
Settled(r) ==
  /\ pc[r] \in {"exporting", "deleting", "deleted"}
  /\ pc' = [pc EXCEPT ![r] = "failed"]
  /\ busy' = IF r \in mine THEN FALSE ELSE busy
  /\ UNCHANGED <<Backend, Router, list, search, timer, selected, confirming, mine, ids, History>>

(* An upload, of this user or a colleague. *)
Upload ==
  /\ rows < MaxRows
  /\ rows' = rows + 1
  /\ UNCHANGED <<gone, Router, list, search, timer, Table, Bulk, History>>

Next == \/ StartRefresh \/ DashboardPage \/ Commit
        \/ (\E v \in BOOLEAN : onSearch(v)) \/ SearchTimer \/ setParam \/ Link
        \/ Pagination \/ Leave
        \/ (\E e \in Row : toggle(e)) \/ toggleAll \/ clear
        \/ \E b \in BOOLEAN : Confirming(b)
        \/ \E r \in Request : \/ onExport(r) \/ onDelete(r) \/ bulk_delete(r)
                              \/ Deleted(r) \/ Settled(r)
        \/ Upload

Spec == Init /\ [][Next]_vars

(* The router gets its answers, and the user does not click for ever faster *)
(* than it.                                                                 *)
FairSpec == Spec /\ WF_vars(StartRefresh) /\ WF_vars(DashboardPage) /\ SF_vars(Commit)

-----------------------------------------------------------------------------
(* Properties. *)

Steps == {"idle", "exporting", "deleting", "deleted", "cleared", "failed"}

(* Every variable has its type, and the buttons are off only while a        *)
(* request of this table runs, or after a delete that succeeded in it,      *)
(* which never turns them on again (documents-table.tsx:77-88).             *)
TypeOK ==
  /\ rows \in 0 .. MaxRows /\ gone \subseteq Doc
  /\ at \in {"library", "away"}
  /\ url \in Url /\ (going = None \/ going \in Url)
  /\ refresh \in BOOLEAN /\ search \in BOOLEAN
  /\ timer = None \/ timer \in Search
  /\ list = None \/ (Shown(list) \subseteq Row /\ list.total \in 0 .. MaxRows)
  /\ selected \subseteq Row /\ confirming \in BOOLEAN /\ busy \in BOOLEAN
  /\ mine \subseteq Request /\ pc \in [Request -> Steps]
  /\ ids \in [Request -> SUBSET Row]
  /\ busy => \E r \in mine : pc[r] \in {"exporting", "deleting", "deleted", "cleared"}

(* What is selected, exported or deleted was on the screen before, whatever *)
(* was paged, filtered, uploaded or deleted since.                          *)
SelectionWasSeen == selected \cup UNION {ids[r] : r \in Request} \subseteq seen

(* Once nothing is pending, the user is on the page and sees the filters    *)
(* that were last asked for (archive-filters.tsx:32-36), unless the timer   *)
(* of a search or another navigation was pending at that click: what is     *)
(* pushed later is built from the URL of an earlier render.                 *)
UrlIsChosen ==
  going = None /\ timer = None /\ chosen # None =>
     /\ at = chosen.at
     /\ at = "library" => url.q = chosen.q /\ url.type = chosen.type

Stale == \E r \in Request : pc[r] = "cleared" /\ at = "library" /\ ids[r] \cap Shown(list) # {}

(* Rows whose deletion was confirmed leave the list, also when another      *)
(* navigation was on its way with older data (documents-table.tsx:83).      *)
DeletedRowsGo == Stale ~> ~Stale
=============================================================================
