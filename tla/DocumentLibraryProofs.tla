------------------------ MODULE DocumentLibraryProofs ------------------------
(***************************************************************************)
(* Safety of DocumentLibrary for any documents, filters, page size and     *)
(* number of requests: a bulk action is about rows that were shown, and    *)
(* the list comes to rest where the user asked to be.                      *)
(***************************************************************************)
EXTENDS DocumentLibrary, FiniteSetTheorems, TLAPS

-----------------------------------------------------------------------------
(* Type correctness, with the answer that the router holds. *)

ListType(l) == l = None \/ (l.items \subseteq Row /\ l.total \in 0 .. MaxRows)

AnswerType == result # None => going # None /\ ListType(result.data)

Places     == [at : {"library", "away"}, q : BOOLEAN, type : BOOLEAN]
ChosenType == chosen = None \/ chosen \in Places

TypeInv == TypeOK /\ AnswerType /\ ChosenType

(* A page of the list is a set of rows, and the total counts rows. *)
LEMMA ListIsTyped ==
  ASSUME rows \in 0 .. MaxRows, NEW u \in Url
  PROVE  ListType(listExtractions(u))
<1>1. Matches(u) \subseteq 1 .. rows /\ 1 .. rows \subseteq Row
  BY LibraryAssumption DEF Matches, Row
<1>2. IsFiniteSet(1 .. rows) /\ Cardinality(1 .. rows) = rows
  BY FS_Interval, LibraryAssumption
<1>3. /\ IsFiniteSet(Matches(u))
      /\ Cardinality(Matches(u)) \in Nat /\ Cardinality(Matches(u)) <= rows
  BY <1>1, <1>2, FS_Subset, FS_CardinalityType
<1>4. listExtractions(u).total \in 0 .. MaxRows
  BY <1>3, LibraryAssumption DEF listExtractions
<1>5. listExtractions(u).items \subseteq Row
  BY <1>1 DEF listExtractions
<1> QED
  BY <1>4, <1>5 DEF ListType

LEMMA HomeIsUrl == Home \in Url
BY DEF Home, Url

(* Another filter, first page. *)
LEMMA FilteredUrl ==
  ASSUME NEW u \in Url, NEW b \in BOOLEAN
  PROVE  LET w == [u EXCEPT !.type = b, !.page = 1] IN w \in Url /\ w.q = u.q /\ w.type = b
<1> DEFINE v == [u EXCEPT !.type = b]
<1>1. v \in Url /\ v.q = u.q /\ v.type = b
  BY DEF Url
<1>2. LET w == [v EXCEPT !.page = 1] IN w \in Url /\ w.q = v.q /\ w.type = v.type
  <2> HIDE DEF v
  <2> QED
    BY <1>1 DEF Url
<1>3. [u EXCEPT !.type = b, !.page = 1] = [v EXCEPT !.page = 1]
  OBVIOUS
<1> QED
  BY <1>1, <1>2, <1>3

LEMMA InitType == Init => TypeInv
<1> SUFFICES ASSUME Init PROVE TypeInv
  OBVIOUS
<1>1. ListType(list)
  BY ListIsTyped, HomeIsUrl DEF Init
<1>2. TypeOK
  BY <1>1, HomeIsUrl DEF Init, TypeOK, Shown, ListType, Steps
<1> QED
  BY <1>2 DEF Init, TypeInv, AnswerType, ChosenType, Places

(* A navigation is started: the router holds a URL and no answer. *)
LEMMA PushType ==
  ASSUME TypeInv, NEW u \in Url, push(u), ChosenType',
         UNCHANGED <<Backend, list, search, Table, Bulk, seen>>,
         timer' \in {timer, None}
  PROVE  TypeInv'
BY DEF TypeInv, TypeOK, AnswerType, push, Backend, Table, Bulk, Shown

LEMMA ChooseType ==
  ASSUME ChosenType, NEW race, NEW part \in {"at", "q", "type"},
         NEW x \in IF part = "at" THEN {"library", "away"} ELSE BOOLEAN,
         Choose(race, part, x)
  PROVE  ChosenType'
BY DEF ChosenType, Choose, Places

LEMMA RouterType ==
  ASSUME TypeInv, StartRefresh \/ DashboardPage \/ Commit
  PROVE  TypeInv'
<1>1. CASE StartRefresh
  BY <1>1 DEF TypeInv, TypeOK, AnswerType, ChosenType, StartRefresh, Backend, Table, Bulk,
              History, Shown
<1>2. CASE DashboardPage
  <2>1. going \in Url /\ rows \in 0 .. MaxRows
    BY <1>2 DEF TypeInv, TypeOK, DashboardPage
  <2>2. ListType(result'.data)
    <3>1. PICK data \in {listExtractions(going), None} : result' = [data |-> data]
      BY <1>2 DEF DashboardPage
    <3>2. ListType(data)
      BY <2>1, <3>1, ListIsTyped DEF ListType
    <3> QED
      BY <3>1, <3>2
  <2>3. AnswerType'
    BY <1>2, <2>2 DEF AnswerType, DashboardPage, ListType
  <2> QED
    BY <1>2, <2>3 DEF TypeInv, TypeOK, ChosenType, DashboardPage, Backend, Table, Bulk,
                      History, Shown
<1>3. CASE Commit
  <2>1. going \in Url /\ ListType(result.data)
    BY <1>3 DEF TypeInv, TypeOK, AnswerType, Commit
  <2>2. list' = None \/ (Shown(list') \subseteq Row /\ list'.total \in 0 .. MaxRows)
    BY <1>3, <2>1 DEF Commit, ListType, Shown
  <2>3. /\ selected' \subseteq Row /\ confirming' \in BOOLEAN /\ busy' \in BOOLEAN
        /\ mine' \subseteq Request
        /\ busy' => \E r \in mine' : pc'[r] \in {"exporting", "deleting", "deleted", "cleared"}
    BY <1>3 DEF Commit, TypeInv, TypeOK, Table, FreshTable, Bulk
  <2>4. url' \in Url /\ search' \in BOOLEAN
    BY <1>3, <2>1 DEF Commit, TypeInv, TypeOK, Url
  <2> QED
    BY <1>3, <2>2, <2>3, <2>4 DEF Commit, TypeInv, TypeOK, AnswerType, ChosenType, Backend, Bulk,
                                  Shown
<1> QED
  BY <1>1, <1>2, <1>3

LEMMA NavigationType ==
  ASSUME TypeInv,
         (\E v \in BOOLEAN : onSearch(v)) \/ SearchTimer \/ setParam \/ Link \/ Pagination \/ Leave
  PROVE  TypeInv'
<1>0. url \in Url
  BY DEF TypeInv, TypeOK
<1>1. ASSUME NEW v \in BOOLEAN, onSearch(v) PROVE TypeInv'
  <2>1. ChosenType'
    BY <1>1, ChooseType DEF onSearch, TypeInv
  <2>2. timer' \in Search
    BY <1>0, <1>1 DEF onSearch, Url, Search
  <2> QED
    BY <1>1, <2>1, <2>2 DEF TypeInv, TypeOK, AnswerType, onSearch, Backend, Router, Table, Bulk,
                            Shown
<1>2. CASE SearchTimer
  <2>1. Debounced \in Url
    BY <1>2 DEF SearchTimer, TypeInv, TypeOK, Debounced, Search, Url
  <2> QED
    BY <1>2, <2>1, PushType DEF SearchTimer, History, TypeInv, ChosenType
<1>3. CASE setParam
  <2>0. (~url.type) \in BOOLEAN
    OBVIOUS
  <2>1. [url EXCEPT !.type = ~@, !.page = 1] \in Url
    BY <1>0, <2>0, FilteredUrl
  <2>2. ChosenType'
    BY <1>3, <2>0, ChooseType DEF setParam, TypeInv
  <2> QED
    BY <1>3, <2>1, <2>2, PushType DEF setParam
<1>4. CASE Link
  <2>1. ChosenType'
    BY <1>4 DEF Link, ChosenType, Places
  <2> QED
    BY <1>4, <2>1, HomeIsUrl, PushType DEF Link
<1>5. CASE Pagination
  <2>1. PICK p \in {url.page - 1, url.page + 1} \ {0} : push([url EXCEPT !.page = p])
    BY <1>5 DEF Pagination
  <2>2. [url EXCEPT !.page = p] \in Url
    BY <1>0 DEF Url
  <2>3. ChosenType'
    BY <1>5, ChooseType DEF Pagination, TypeInv
  <2> QED
    BY <1>5, <2>1, <2>2, <2>3, PushType DEF Pagination
<1>6. CASE Leave
  <2>1. ChosenType'
    BY <1>6, ChooseType DEF Leave, TypeInv
  <2> QED
    BY <1>6, <2>1 DEF TypeInv, TypeOK, AnswerType, Leave, FreshTable, Backend, Bulk, Shown
<1> QED
  BY <1>1, <1>2, <1>3, <1>4, <1>5, <1>6

LEMMA SelectionType ==
  ASSUME TypeInv,
         \/ (\E e \in Row : toggle(e)) \/ toggleAll \/ clear \/ (\E b \in BOOLEAN : Confirming(b))
         \/ Upload
  PROVE  TypeInv'
<1>0. Shown(list) \subseteq Row
  BY DEF TypeInv, TypeOK, Shown
<1>1. ASSUME NEW e \in Row, toggle(e) PROVE TypeInv'
  BY <1>1 DEF TypeInv, TypeOK, AnswerType, ChosenType, toggle, Backend, Router, Bulk, History, Shown
<1>2. CASE toggleAll \/ clear \/ (\E b \in BOOLEAN : Confirming(b))
  <2>1. selected' \subseteq Row /\ confirming' \in BOOLEAN
    BY <1>0, <1>2 DEF TypeInv, TypeOK, toggleAll, allItems, clear, Confirming
  <2>2. UNCHANGED <<Backend, Router, list, search, timer, busy, mine, Bulk, History>>
    BY <1>2 DEF toggleAll, clear, Confirming
  <2> QED
    BY <2>1, <2>2 DEF TypeInv, TypeOK, AnswerType, ChosenType, Backend, Router, Bulk, History, Shown
<1>3. CASE Upload
  <2>1. rows' \in 0 .. MaxRows
    BY <1>3, LibraryAssumption DEF TypeInv, TypeOK, Upload
  <2> QED
    BY <1>3, <2>1 DEF TypeInv, TypeOK, AnswerType, ChosenType, Upload, Router, Table, Bulk, History,
                      Shown
<1> QED
  BY <1>1, <1>2, <1>3

(* The buttons are off only for a request of the mounted table. *)
LEMMA BulkType ==
  ASSUME TypeInv, NEW r \in Request,
         onExport(r) \/ onDelete(r) \/ bulk_delete(r) \/ Deleted(r) \/ Settled(r)
  PROVE  TypeInv'
<1>1. ASSUME NEW step \in {"exporting", "deleting"}, Bulked(r, step) PROVE TypeInv'
  <2>1. pc'[r] = step /\ r \in mine'
    BY <1>1 DEF Bulked, TypeInv, TypeOK
  <2> QED
    BY <1>1, <2>1 DEF TypeInv, TypeOK, AnswerType, ChosenType, Bulked, Backend, Router, History,
                      Steps, Shown
<1>2. CASE bulk_delete(r)
  <2>1. gone' \subseteq Doc
    BY <1>2, LibraryAssumption DEF bulk_delete, TypeInv, TypeOK
  <2>2. busy' => \E x \in mine' : pc'[x] \in {"exporting", "deleting", "deleted", "cleared"}
    BY <1>2 DEF bulk_delete, TypeInv, TypeOK, Table
  <2> QED
    BY <1>2, <2>1, <2>2 DEF TypeInv, TypeOK, AnswerType, ChosenType, bulk_delete, Router, Table,
                            History, Steps, Shown
<1>3. CASE Deleted(r)
  <2>1. busy' => \E x \in mine' : pc'[x] \in {"exporting", "deleting", "deleted", "cleared"}
    BY <1>3 DEF Deleted, TypeInv, TypeOK
  <2> QED
    BY <1>3, <2>1 DEF TypeInv, TypeOK, AnswerType, ChosenType, Deleted, Backend, History, Steps,
                      Shown
<1>4. CASE Settled(r)
  <2>1. busy' => \E x \in mine' : pc'[x] \in {"exporting", "deleting", "deleted", "cleared"}
    BY <1>4 DEF Settled, TypeInv, TypeOK
  <2> QED
    BY <1>4, <2>1 DEF TypeInv, TypeOK, AnswerType, ChosenType, Settled, Backend, Router, History,
                      Steps, Shown
<1> QED
  BY <1>1, <1>2, <1>3, <1>4 DEF onExport, onDelete

LEMMA StepType == TypeInv /\ [Next]_vars => TypeInv'
<1> SUFFICES ASSUME TypeInv, [Next]_vars PROVE TypeInv'
  OBVIOUS
<1>1. CASE UNCHANGED vars
  BY <1>1 DEF vars, TypeInv, TypeOK, AnswerType, ChosenType, Shown
<1> QED
  BY <1>1, RouterType, NavigationType, SelectionType, BulkType DEF Next

(* The library is well typed, and the buttons of the bulk bar are off only   *)
(* for a request of the table that is mounted (documents-table.tsx:65-88).   *)
THEOREM LibraryTypeCorrect == Spec => []TypeOK
<1>1. TypeInv => TypeOK
  BY DEF TypeInv
<1> QED
  BY InitType, StepType, <1>1, PTL DEF Spec

-----------------------------------------------------------------------------
(* What is selected was on the screen. *)

SeenInv == /\ Shown(list) \subseteq seen /\ selected \subseteq seen
           /\ \A r \in Request : ids[r] \subseteq seen

LEMMA InitSeen == Init => SeenInv
BY DEF Init, SeenInv

LEMMA StepSeen == TypeInv /\ SeenInv /\ [Next]_vars => SeenInv'
<1> SUFFICES ASSUME TypeInv, SeenInv, [Next]_vars PROVE SeenInv'
  OBVIOUS
<1>0. ids \in [Request -> SUBSET Row]
  BY DEF TypeInv, TypeOK
<1>1. CASE Commit
  <2>1. list' = result.data /\ seen' = seen \cup Shown(result.data)
        /\ selected' \in {selected, {}} /\ ids' = ids
    BY <1>1 DEF Commit, Table, FreshTable, Bulk
  <2> QED
    BY <2>1 DEF SeenInv
<1>2. ASSUME UNCHANGED <<list, seen, ids>>,
             selected' \subseteq selected \cup Shown(list)
      PROVE  SeenInv'
  BY <1>2 DEF SeenInv
<1>3. ASSUME NEW r \in Request, onExport(r) \/ onDelete(r) PROVE SeenInv'
  <2>1. UNCHANGED <<list, seen, selected>> /\ ids' = [ids EXCEPT ![r] = selected]
    BY <1>3 DEF onExport, onDelete, Bulked, History
  <2> QED
    BY <1>0, <2>1 DEF SeenInv
<1>4. CASE StartRefresh \/ DashboardPage \/ (\E v \in BOOLEAN : onSearch(v)) \/ SearchTimer
           \/ setParam \/ Link \/ Pagination \/ Leave
  <2>1. UNCHANGED <<list, seen, ids>> /\ selected' \in {selected, {}}
    BY <1>4 DEF StartRefresh, DashboardPage, onSearch, SearchTimer, setParam, Link, Pagination,
                Leave, Table, FreshTable, Bulk, History
  <2> QED
    BY <1>2, <2>1
<1>5. CASE (\E e \in Row : toggle(e)) \/ toggleAll \/ clear
           \/ (\E b \in BOOLEAN : Confirming(b)) \/ Upload
  <2>1. UNCHANGED <<list, seen, ids>> /\ selected' \subseteq selected \cup Shown(list)
    BY <1>5 DEF toggle, toggleAll, allItems, clear, Confirming, Upload, Table, Bulk, History
  <2> QED
    BY <1>2, <2>1
<1>6. ASSUME NEW r \in Request, bulk_delete(r) \/ Deleted(r) \/ Settled(r) PROVE SeenInv'
  <2>1. UNCHANGED <<list, seen, ids>> /\ selected' \in {selected, {}}
    BY <1>6 DEF bulk_delete, Deleted, Settled, Table, History
  <2> QED
    BY <1>2, <2>1
<1>7. CASE UNCHANGED vars
  BY <1>2, <1>7 DEF vars
<1> QED
  BY <1>1, <1>3, <1>4, <1>5, <1>6, <1>7 DEF Next

(* A bulk action is about rows that the user has had on the screen, for any  *)
(* selection, paging, filters, uploads and deletions in between              *)
(* (documents-table.tsx:47-80).                                              *)
THEOREM BulkActsOnWhatWasSeen == Spec => []SelectionWasSeen
<1>1. SeenInv => SelectionWasSeen
  BY DEF SeenInv, SelectionWasSeen
<1> QED
  BY InitType, StepType, InitSeen, StepSeen, <1>1, PTL DEF Spec

-----------------------------------------------------------------------------
(* Where the list comes to rest.  While the choice counts (chosen # None),   *)
(* a URL that is pushed is the chosen one, and a timer holds it, on a        *)
(* library whose filter is the chosen one.                                   *)

IsChosen(u) == u.q = chosen.q /\ u.type = chosen.type

RestInv ==
  chosen # None =>
    IF timer = None
    THEN IF going = None
         THEN at = chosen.at /\ (at = "library" => IsChosen(url))
         ELSE chosen.at = "library" /\ IsChosen(going)
    ELSE /\ at = "library" /\ chosen.at = "library" /\ IsChosen(timer)
         /\ url.type = chosen.type
         /\ going # None => going.type = chosen.type

LEMMA InitRest == Init => RestInv
BY DEF Init, RestInv, IsChosen, Home

LEMMA UrlsAreNotNone == None \notin Url /\ None \notin Search
BY LibraryAssumption

(* A click that counts finds the URL of the render at what was chosen. *)
LEMMA AtRest ==
  ASSUME RestInv, chosen # None, FiltersUp, ~Pending
  PROVE  /\ chosen.at = "library" /\ url.type = chosen.type
         /\ timer = None => url.q = chosen.q
BY DEF RestInv, FiltersUp, Pending, IsChosen

LEMMA Chosen ==
  ASSUME ChosenType, NEW race, NEW part \in {"at", "q", "type"}, NEW x,
         Choose(race, part, x), chosen' # None
  PROVE  /\ ~race /\ chosen # None
         /\ chosen'.at   = IF part = "at" THEN x ELSE chosen.at
         /\ chosen'.q    = IF part = "q" THEN x ELSE chosen.q
         /\ chosen'.type = IF part = "type" THEN x ELSE chosen.type
BY DEF Choose, ChosenType, Places

LEMMA RouterRest ==
  ASSUME TypeInv, RestInv, StartRefresh \/ DashboardPage \/ Commit
  PROVE  RestInv'
<1>1. CASE StartRefresh
  BY <1>1, UrlsAreNotNone DEF StartRefresh, RestInv, IsChosen, History, TypeInv, TypeOK
<1>2. CASE DashboardPage
  BY <1>2 DEF DashboardPage, RestInv, IsChosen, History
<1>3. CASE Commit
  <2>1. going # None
    BY <1>3 DEF Commit, TypeInv, AnswerType
  <2> QED
    BY <1>3, <2>1 DEF Commit, RestInv, IsChosen
<1> QED
  BY <1>1, <1>2, <1>3

LEMMA NavigationRest ==
  ASSUME TypeInv, RestInv,
         (\E v \in BOOLEAN : onSearch(v)) \/ SearchTimer \/ setParam \/ Link \/ Pagination \/ Leave
  PROVE  RestInv'
<1>0. ChosenType /\ url \in Url
  BY DEF TypeInv, TypeOK
<1> SUFFICES ASSUME chosen' # None PROVE RestInv'
  BY DEF RestInv
<1>1. ASSUME NEW v \in BOOLEAN, onSearch(v) PROVE RestInv'
  <2>1. /\ ~Pending /\ chosen # None /\ chosen'.q = v
        /\ chosen'.at = chosen.at /\ chosen'.type = chosen.type
    BY <1>0, <1>1, Chosen DEF onSearch
  <2>2. timer' = [q |-> v, type |-> url.type] /\ timer' # None
    BY <1>0, <1>1, UrlsAreNotNone DEF onSearch, Search, Url
  <2>3. chosen.at = "library" /\ url.type = chosen.type /\ at = "library"
    BY <1>1, <2>1, AtRest DEF onSearch, FiltersUp
  <2> QED
    BY <1>1, <2>1, <2>2, <2>3 DEF onSearch, Router, RestInv, IsChosen, Pending
<1>2. CASE SearchTimer
  <2>1. Debounced \in Url
    BY <1>2 DEF SearchTimer, TypeInv, TypeOK, Debounced, Search, Url
  <2> QED
    BY <1>2, <2>1, UrlsAreNotNone DEF SearchTimer, push, Debounced, History, RestInv, IsChosen
<1>3. CASE setParam
  <2>0. (~url.type) \in BOOLEAN
    OBVIOUS
  <2>1. /\ ~Pending /\ timer = None /\ chosen # None /\ chosen'.type = ~url.type
        /\ chosen'.at = chosen.at /\ chosen'.q = chosen.q
    BY <1>0, <1>3, <2>0, Chosen DEF setParam
  <2>2. chosen.at = "library" /\ url.q = chosen.q
    BY <1>3, <2>1, AtRest DEF setParam
  <2>3. going' \in Url /\ going'.q = url.q /\ going'.type = ~url.type
    BY <1>0, <1>3, <2>0, FilteredUrl DEF setParam, push
  <2> QED
    BY <1>3, <2>1, <2>2, <2>3, UrlsAreNotNone DEF setParam, RestInv, IsChosen
<1>4. CASE Link
  BY <1>4, HomeIsUrl, UrlsAreNotNone DEF Link, push, Home, RestInv, IsChosen
<1>5. CASE Pagination
  <2>1. /\ ~Pending /\ chosen # None /\ chosen'.at = "library"
        /\ chosen'.q = chosen.q /\ chosen'.type = chosen.type
    BY <1>0, <1>5, Chosen DEF Pagination
  <2>2. FiltersUp
    BY <1>5 DEF Pagination, FiltersUp, TableShown
  <2>3. going' \in Url /\ going'.q = url.q /\ going'.type = url.type
    BY <1>0, <1>5 DEF Pagination, push, Url
  <2> QED
    BY <1>5, <2>1, <2>2, <2>3, AtRest, UrlsAreNotNone
       DEF Pagination, push, RestInv, IsChosen, FiltersUp
<1>6. CASE Leave
  <2>1. timer = None /\ chosen'.at = "away"
    BY <1>0, <1>6, Chosen DEF Leave
  <2> QED
    BY <1>6, <2>1 DEF Leave, RestInv
<1> QED
  BY <1>1, <1>2, <1>3, <1>4, <1>5, <1>6

LEMMA StepRest == TypeInv /\ RestInv /\ [Next]_vars => RestInv'
<1> SUFFICES ASSUME TypeInv, RestInv, [Next]_vars PROVE RestInv'
  OBVIOUS
<1>1. ASSUME UNCHANGED <<at, url, going, timer, chosen>> PROVE RestInv'
  BY <1>1 DEF RestInv, IsChosen
<1>2. CASE \/ (\E e \in Row : toggle(e)) \/ toggleAll \/ clear \/ (\E b \in BOOLEAN : Confirming(b))
           \/ Upload \/ UNCHANGED vars
  BY <1>1, <1>2 DEF toggle, toggleAll, clear, Confirming, Upload, vars, Router, History
<1>3. ASSUME NEW r \in Request,
             onExport(r) \/ onDelete(r) \/ bulk_delete(r) \/ Deleted(r) \/ Settled(r)
      PROVE  RestInv'
  BY <1>1, <1>3 DEF onExport, onDelete, Bulked, bulk_delete, Deleted, Settled, Router, History
<1> QED
  BY <1>2, <1>3, RouterRest, NavigationRest DEF Next

(* When the router and the search are at rest, the library shows the last    *)
(* filters the user asked for, for any order of clicks, answers, refreshes   *)
(* and pages, as long as nothing was pending at those clicks                 *)
(* (archive-filters.tsx:32-65).                                              *)
THEOREM RestsWhereChosen == Spec => []UrlIsChosen
<1>1. RestInv => UrlIsChosen
  BY DEF RestInv, UrlIsChosen, IsChosen
<1> QED
  BY InitType, StepType, InitRest, StepRest, <1>1, PTL DEF Spec
=============================================================================
