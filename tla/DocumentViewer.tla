---------------------------- MODULE DocumentViewer ----------------------------
(***************************************************************************)
(* The document side of the review screen (components/review in            *)
(* frontend/src): the viewer of the split layout and the one of the        *)
(* fullscreen overlay (pdf-viewer.tsx, pdf-fullscreen.tsx), which both      *)
(* listen for keys on the window and fetch the file on their own           *)
(* (hooks/use-document-file.ts), under the flag of review-workspace.tsx.   *)
(* Both are loaded with next/dynamic: a viewer that is wanted mounts when  *)
(* its chunk has arrived, and at once when it was there already.           *)
(*                                                                         *)
(* A mount is one life of a viewer.  Zoom is counted in quarters, so that  *)
(* fit-to-width is 4.                                                      *)
(***************************************************************************)
EXTENDS Naturals, FiniteSets, FiniteSetsExt

CONSTANTS MaxPages,         \* bound: pages of a document
          MaxMounts,        \* bound: viewers mounted
          ZOOM_MIN, ZOOM_MAX,
          None              \* no mount

ASSUME ViewerAssumption == /\ MaxPages \in Nat \ {0} /\ MaxMounts \in Nat \ {0}
                           /\ ZOOM_MIN \in 0 .. 4 /\ ZOOM_MAX \in Nat /\ ZOOM_MAX >= 4
                           /\ None \notin Nat

Viewer == {"split", "full"}
Mount  == 1 .. MaxMounts

VARIABLES
  canonical,   \* the extraction has data to show next to the document
  pages,       \* pages of the document, 0 for an image
  open,        \* the review screen is mounted
  fullscreen,  \* the flag of ReviewWorkspace
  typing,      \* a field or input has the focus
  chunk,       \* the code of each viewer: not asked for, on its way or there
  mount,       \* the current mount of each viewer
  mounts,      \* how many there were
  fetch,       \* useDocumentFile of each mount
  urls,        \* the object URLs that are not revoked, by mount
  numPages, pageNumber, zoom, rotation, railOpen

View == <<numPages, pageNumber, zoom, rotation, railOpen>>
vars == <<canonical, pages, open, fullscreen, typing, chunk, mount, mounts, fetch, urls, View>>

(* The screen opens over any document.  The chunks are there if an earlier   *)
(* screen of this visit loaded them, the overlay's never without the other.  *)
Init == /\ canonical \in BOOLEAN /\ pages \in 0 .. MaxPages
        /\ open = TRUE /\ fullscreen = FALSE /\ typing = FALSE
        /\ chunk \in [Viewer -> {"none", "loading", "loaded"}]
        /\ chunk["split"] # "none"
        /\ chunk["full"] = "none" \/ chunk["split"] = "loaded"
        /\ mounts = IF chunk["split"] = "loaded" THEN 1 ELSE 0
        /\ mount = [v \in Viewer |-> IF v = "split" /\ mounts = 1 THEN 1 ELSE None]
        /\ fetch = [m \in Mount |-> IF m = mounts THEN "fetching" ELSE "none"]
        /\ urls = {}
        /\ numPages = [v \in Viewer |-> 0]
        /\ pageNumber = [v \in Viewer |-> 1]
        /\ zoom = [v \in Viewer |-> 4]
        /\ rotation = [v \in Viewer |-> 0]
        /\ railOpen = [v \in Viewer |-> FALSE]

Mounted == {v \in Viewer : mount[v] # None}

(* The overlay covers the split layout. *)
InFront(v) == v \in Mounted /\ (v = "split" => "full" \notin Mounted)

(* Bug: the split viewer does not get the active prop. *)
Bug_always_active(v) == v \in Mounted

(* The active prop: the split viewer is deaf while the flag is up. *)
active(v) == v \in Mounted /\ (v = "split" => ~fullscreen)

multipage(v) == numPages[v] > 1

-----------------------------------------------------------------------------
(* The overlay. *)

(* A life of viewer v begins: its effect fetches the file. *)
MountViewer(v) ==
  /\ mounts < MaxMounts
  /\ mounts' = mounts + 1
  /\ mount' = [mount EXCEPT ![v] = mounts + 1]
  /\ fetch' = [fetch EXCEPT ![mounts + 1] = "fetching"]

(* The viewers the workspace renders: the overlay needs data for its drawer. *)
Wanted(v) == open /\ (v = "full" => fullscreen /\ canonical)

(* The chunk of a dynamic component arrives. *)
ChunkLoads(v) ==
  /\ chunk[v] = "loading"
  /\ chunk' = [chunk EXCEPT ![v] = "loaded"]
  /\ IF Wanted(v) THEN MountViewer(v) ELSE UNCHANGED <<mounts, mount, fetch>>
  /\ UNCHANGED <<canonical, pages, open, fullscreen, typing, urls, View>>

(* Cleanup of useDocumentFile: a late answer is ignored, the URL revoked. *)
Cancel(M) ==
  /\ fetch' = [m \in Mount |-> IF m \in M THEN "cancelled" ELSE fetch[m]]
  /\ urls' = urls \ M

(* setFullscreen(true): the overlay mounts a viewer of its own, or asks for  *)
(* the chunk it is in; a second call changes nothing.                       *)
EnterFullscreen ==
  /\ fullscreen' = TRUE
  /\ IF canonical /\ ~fullscreen /\ chunk["full"] = "loaded"
     THEN MountViewer("full") /\ UNCHANGED chunk
     ELSE /\ chunk' = [chunk EXCEPT !["full"] = IF canonical /\ @ = "none" THEN "loading" ELSE @]
          /\ UNCHANGED <<mounts, mount, fetch>>
  /\ UNCHANGED <<canonical, pages, open, typing, urls, View>>

(* onClose: the overlay and all that its viewer showed are gone. *)
ExitFullscreen ==
  /\ fullscreen' = FALSE
  /\ mount' = [mount EXCEPT !["full"] = None]
  /\ Cancel({mount["full"]} \ {None})
  /\ numPages' = [numPages EXCEPT !["full"] = 0]
  /\ pageNumber' = [pageNumber EXCEPT !["full"] = 1]
  /\ zoom' = [zoom EXCEPT !["full"] = 4]
  /\ rotation' = [rotation EXCEPT !["full"] = 0]
  /\ railOpen' = [railOpen EXCEPT !["full"] = FALSE]
  /\ UNCHANGED <<canonical, pages, open, chunk, mounts>>

onToggleFullscreen(v) ==
  IF v = "split" THEN EnterFullscreen ELSE ExitFullscreen /\ UNCHANGED typing

-----------------------------------------------------------------------------
(* What the controls do to the viewers V. *)

Apply(V, f, new) == f' = [v \in Viewer |-> IF v \in V THEN new[v] ELSE f[v]]

zoomIn(V) == /\ Apply(V, zoom, [v \in V |-> Min({ZOOM_MAX, zoom[v] + 1})])
             /\ UNCHANGED <<numPages, pageNumber, rotation, railOpen>>
zoomOut(V) == /\ Apply(V, zoom, [v \in V |-> Max({ZOOM_MIN, zoom[v] - 1})])
              /\ UNCHANGED <<numPages, pageNumber, rotation, railOpen>>
resetZoom(V) == /\ Apply(V, zoom, [v \in V |-> 4])
                /\ UNCHANGED <<numPages, pageNumber, rotation, railOpen>>
rotate(V) == /\ Apply(V, rotation, [v \in V |-> (rotation[v] + 90) % 360])
             /\ UNCHANGED <<numPages, pageNumber, zoom, railOpen>>
prevPage(V) == /\ Apply(V, pageNumber, [v \in V |-> Max({1, pageNumber[v] - 1})])
               /\ UNCHANGED <<numPages, zoom, rotation, railOpen>>

(* Bug: the page after the last one. *)
Bug_next_unbounded(V) ==
  /\ Apply(V, pageNumber, [v \in V |-> pageNumber[v] + 1])
  /\ UNCHANGED <<numPages, zoom, rotation, railOpen>>

nextPage(V) ==
  /\ Apply(V, pageNumber, [v \in V |-> Min({IF numPages[v] = 0 THEN 1 ELSE numPages[v],
                                            pageNumber[v] + 1})])
  /\ UNCHANGED <<numPages, zoom, rotation, railOpen>>

Screen == <<canonical, pages, open, fullscreen, typing, chunk, mount, mounts, fetch, urls>>

(* A key reaches the listener of every viewer that is active; none of them  *)
(* reacts while a field is edited.                                          *)
onKey ==
  LET Deaf == Viewer \ {v \in Viewer : active(v)}
      V    == Viewer \ Deaf
      Many == {v \in V : multipage(v)} IN
  /\ open /\ ~typing /\ V # {}
  /\ \/ (zoomIn(V) \/ zoomOut(V) \/ rotate(V)) /\ UNCHANGED Screen
     \/ Many # {} /\ (prevPage(Many) \/ nextPage(Many)) /\ UNCHANGED Screen
     \/ \E v \in V : onToggleFullscreen(v)

(* The buttons of the viewer in front; a click takes the focus from a field. *)
ControlBar(v) ==
  /\ InFront(v) /\ ~typing
  /\ \/ /\ \/ zoom[v] < ZOOM_MAX /\ zoomIn({v})
           \/ zoom[v] > ZOOM_MIN /\ zoomOut({v})
           \/ resetZoom({v})
           \/ rotate({v})
           \/ multipage(v) /\ pageNumber[v] > 1 /\ prevPage({v})
           \/ multipage(v) /\ pageNumber[v] < numPages[v] /\ nextPage({v})
           \/ /\ multipage(v)
              /\ railOpen' = [railOpen EXCEPT ![v] = ~@]
              /\ UNCHANGED <<numPages, pageNumber, zoom, rotation>>
        /\ UNCHANGED Screen
     \/ onToggleFullscreen(v)

(* A thumbnail of the rail. *)
Thumbnail(v, n) ==
  /\ InFront(v) /\ ~typing
  /\ multipage(v) /\ railOpen[v] /\ n \in 1 .. numPages[v]
  /\ pageNumber' = [pageNumber EXCEPT ![v] = n]
  /\ UNCHANGED <<Screen, numPages, zoom, rotation, railOpen>>

(* Esc closes the overlay, whatever has the focus. *)
Escape == "full" \in Mounted /\ ExitFullscreen /\ typing' = FALSE

(* The button that takes the place of the data pane; the overlay covers it. *)
ExitButton ==
  /\ open /\ canonical /\ fullscreen /\ "full" \notin Mounted
  /\ ExitFullscreen /\ UNCHANGED typing

(* A field of the data pane, beside the split viewer or in the drawer, gets  *)
(* or loses the focus.                                                      *)
Focus ==
  /\ open /\ canonical /\ (fullscreen => "full" \in Mounted)
  /\ typing' = ~typing
  /\ UNCHANGED <<canonical, pages, open, fullscreen, chunk, mount, mounts, fetch, urls, View>>

(* The review screen unmounts. *)
Leave ==
  /\ open
  /\ open' = FALSE /\ fullscreen' = FALSE /\ typing' = FALSE
  /\ mount' = [v \in Viewer |-> None]
  /\ Cancel({mount[v] : v \in Mounted})
  /\ UNCHANGED <<canonical, pages, chunk, mounts, View>>

-----------------------------------------------------------------------------
(* The file. *)

(* Bug: an answer that comes too late is shown to nobody and kept. *)
Bug_not_cancelled(m) ==
  /\ fetch[m] \in {"fetching", "cancelled"} /\ m \notin urls
  /\ fetch' = [fetch EXCEPT ![m] = IF @ = "cancelled" THEN @ ELSE "shown"]
  /\ urls' = urls \cup {m}
  /\ UNCHANGED <<canonical, pages, open, fullscreen, typing, chunk, mount, mounts, View>>

(* The bytes arrive; nothing happens if the effect was cleaned up. *)
Fetched(m) ==
  /\ fetch[m] = "fetching"
  /\ fetch' = [fetch EXCEPT ![m] = "shown"]
  /\ urls' = urls \cup {m}
  /\ UNCHANGED <<canonical, pages, open, fullscreen, typing, chunk, mount, mounts, View>>

FetchFailed(m) ==
  /\ fetch[m] = "fetching"
  /\ fetch' = [fetch EXCEPT ![m] = "error"]
  /\ UNCHANGED <<canonical, pages, open, fullscreen, typing, chunk, mount, mounts, urls, View>>

(* react-pdf has parsed the file. *)
onLoadSuccess(v) ==
  /\ v \in Mounted /\ fetch[mount[v]] = "shown"
  /\ pages > 0 /\ numPages[v] = 0
  /\ numPages' = [numPages EXCEPT ![v] = pages]
  /\ pageNumber' = [pageNumber EXCEPT ![v] = Min({@, pages})]
  /\ UNCHANGED <<Screen, zoom, rotation, railOpen>>

Next == \/ onKey \/ Escape \/ ExitButton \/ Focus \/ Leave
        \/ \E v \in Viewer : \/ ChunkLoads(v) \/ ControlBar(v) \/ onLoadSuccess(v)
                             \/ \E n \in 1 .. MaxPages : Thumbnail(v, n)
        \/ \E m \in Mount : Fetched(m) \/ FetchFailed(m)

Spec == Init /\ [][Next]_vars

-----------------------------------------------------------------------------
(* Properties. *)

(* Every variable has its type: zoom and rotation stay in their ranges, and  *)
(* the page shown is one the document has.                                   *)
TypeOK ==
  /\ canonical \in BOOLEAN /\ pages \in 0 .. MaxPages
  /\ open \in BOOLEAN /\ fullscreen \in BOOLEAN /\ typing \in BOOLEAN
  /\ chunk \in [Viewer -> {"none", "loading", "loaded"}]
  /\ mount \in [Viewer -> Mount \cup {None}]
  /\ mounts \in 0 .. MaxMounts
  /\ fetch \in [Mount -> {"none", "fetching", "shown", "error", "cancelled"}]
  /\ urls \subseteq Mount
  /\ numPages \in [Viewer -> {0, pages}]
  /\ pageNumber \in [Viewer -> 1 .. (IF pages = 0 THEN 1 ELSE pages)]
  /\ zoom \in [Viewer -> ZOOM_MIN .. ZOOM_MAX]
  /\ rotation \in [Viewer -> {0, 90, 180, 270}]
  /\ railOpen \in [Viewer -> BOOLEAN]

(* An object URL lives exactly as long as the viewer that shows it: opening  *)
(* and closing fullscreen while files are fetched leaks none, and no mounted *)
(* viewer shows a revoked one.                                               *)
UrlsAreOwned == urls = {mount[v] : v \in {w \in Mounted : fetch[mount[w]] = "shown"}}

(* With data on the screen, no key reaches a viewer the user does not see    *)
(* (pdf-viewer.tsx:42-43), and one reaches exactly the viewer in front       *)
(* unless a chunk the screen needs is still on its way: the split viewer is   *)
(* deaf from the click on, so nobody listens while the overlay loads.        *)
(* Without data the fullscreen key mounts nothing and leaves no listener:    *)
(* that case is excluded here.                                               *)
OneViewerListens ==
  open /\ canonical =>
    LET Listening == {v \in Viewer : active(v)}
        Front     == {v \in Viewer : InFront(v)} IN
    /\ Listening \subseteq Front
    /\ (\A v \in Viewer : Wanted(v) => chunk[v] = "loaded")
         => Listening = Front /\ Cardinality(Listening) = 1
=============================================================================
