------------------------ MODULE DocumentViewerProofs ------------------------
(***************************************************************************)
(* Safety of DocumentViewer for any number of pages, mounts and zoom steps: *)
(* one viewer listens to the keys, and an object URL lives as long as the   *)
(* viewer that shows it.                                                    *)
(***************************************************************************)
EXTENDS DocumentViewer, FiniteSetTheorems, TLAPS

-----------------------------------------------------------------------------
(* Least and greatest of two integers. *)

LEMMA MinOfTwo ==
  ASSUME NEW a \in Int, NEW b \in Int
  PROVE  Min({a, b}) \in {a, b} /\ Min({a, b}) <= a /\ Min({a, b}) <= b
<1>1. \E x \in {a, b} : \A y \in {a, b} : x =< y
  BY a <= b \/ b <= a
<1> QED
  BY <1>1 DEF Min

LEMMA MaxOfTwo ==
  ASSUME NEW a \in Int, NEW b \in Int
  PROVE  Max({a, b}) \in {a, b} /\ Max({a, b}) >= a /\ Max({a, b}) >= b
<1>1. \E x \in {a, b} : \A y \in {a, b} : x >= y
  BY a <= b \/ b <= a
<1> QED
  BY <1>1 DEF Max

-----------------------------------------------------------------------------
(* The life of a mount: the split viewer is the first and lives with the     *)
(* screen once its chunk is there, the overlay's is one of the later ones    *)
(* and lives while the flag is up over data and its chunk is there.  The     *)
(* flag goes up from the split viewer only.  A file is fetched or shown for  *)
(* a living mount only.                                                      *)

MountShape ==
  /\ mount["split"] = IF open /\ chunk["split"] = "loaded" THEN 1 ELSE None
  /\ mount["full"] # None <=> open /\ canonical /\ fullscreen /\ chunk["full"] = "loaded"
  /\ mount["full"] # None => mount["full"] \in 2 .. mounts
  /\ chunk["split"] # "loaded" => mounts = 0 /\ ~fullscreen
  /\ open /\ chunk["split"] = "loaded" => mounts >= 1

FileShape ==
  /\ \A m \in Mount : m > mounts => fetch[m] = "none"
  /\ \A m \in Mount : fetch[m] \in {"fetching", "shown", "error"} => \E v \in Viewer : mount[v] = m
  /\ urls = {m \in Mount : fetch[m] = "shown"}

TypeInv == TypeOK /\ MountShape /\ FileShape

LEMMA NoneIsNoMount == None \notin Mount /\ 1 \in Mount /\ Mount \subseteq Nat
BY ViewerAssumption DEF Mount

LEMMA TwoViewers == \A v \in Viewer : v = "split" \/ v = "full"
BY DEF Viewer

LEMMA InitType == Init => TypeInv
<1> SUFFICES ASSUME Init PROVE TypeInv
  OBVIOUS
<1>0. mounts \in {0, 1} /\ mounts \in 0 .. MaxMounts /\ None \notin Nat
  BY ViewerAssumption DEF Init
<1>1. TypeOK
  <2>1. 4 \in ZOOM_MIN .. ZOOM_MAX
    BY ViewerAssumption
  <2>2. zoom \in [Viewer -> ZOOM_MIN .. ZOOM_MAX]
    BY <2>1 DEF Init
  <2>3. pages \in 0 .. MaxPages /\ pages \in Nat
    BY ViewerAssumption DEF Init
  <2>4. 1 \in 1 .. (IF pages = 0 THEN 1 ELSE pages)
    BY <2>3
  <2>5. pageNumber \in [Viewer -> 1 .. (IF pages = 0 THEN 1 ELSE pages)]
    BY <2>4 DEF Init
  <2> QED
    BY <1>0, <2>2, <2>3, <2>5, NoneIsNoMount DEF Init, TypeOK
<1>2. MountShape
  <2>1. mount["split"] = (IF mounts = 1 THEN 1 ELSE None) /\ mount["full"] = None
    BY DEF Init, Viewer
  <2>2. mounts = IF chunk["split"] = "loaded" THEN 1 ELSE 0
    BY DEF Init
  <2> QED
    BY <1>0, <2>1, <2>2 DEF Init, MountShape
<1>3. FileShape
  <2>1. \A m \in Mount : fetch[m] = IF m = mounts THEN "fetching" ELSE "none"
    BY DEF Init
  <2>2. ASSUME NEW m \in Mount, m > mounts PROVE fetch[m] = "none"
    BY <1>0, <2>1, <2>2, NoneIsNoMount
  <2>3. ASSUME NEW m \in Mount, fetch[m] \in {"fetching", "shown", "error"}
        PROVE  \E v \in Viewer : mount[v] = m
    <3>1. m = mounts /\ m # 0
      BY <2>1, <2>3 DEF Mount
    <3>2. mounts = 1 /\ mount["split"] = 1 /\ "split" \in Viewer
      BY <1>0, <3>1 DEF Init, Viewer
    <3> QED
      BY <3>1, <3>2
  <2>4. urls = {m \in Mount : fetch[m] = "shown"}
    BY <2>1 DEF Init
  <2> QED
    BY <2>2, <2>3, <2>4 DEF FileShape
<1> QED
  BY <1>1, <1>2, <1>3 DEF TypeInv

-----------------------------------------------------------------------------
(* The controls: they move what a viewer shows, within its ranges. *)

LastPage == IF pages = 0 THEN 1 ELSE pages

ViewType == /\ numPages \in [Viewer -> {0, pages}]
            /\ pageNumber \in [Viewer -> 1 .. LastPage]
            /\ zoom \in [Viewer -> ZOOM_MIN .. ZOOM_MAX]
            /\ rotation \in [Viewer -> {0, 90, 180, 270}]
            /\ railOpen \in [Viewer -> BOOLEAN]

LEMMA ViewFromType == TypeOK => ViewType /\ pages \in Nat /\ LastPage \in Nat \ {0}
<1> SUFFICES ASSUME TypeOK PROVE ViewType /\ pages \in Nat /\ LastPage \in Nat \ {0}
  OBVIOUS
<1>1. pages \in 0 .. MaxPages
  BY DEF TypeOK
<1>2. pages \in Nat /\ LastPage \in Nat \ {0}
  BY <1>1, ViewerAssumption DEF LastPage
<1> QED
  BY <1>2 DEF TypeOK, ViewType, LastPage

LEMMA ZoomType ==
  ASSUME TypeOK, NEW V \in SUBSET Viewer, zoomIn(V) \/ zoomOut(V) \/ resetZoom(V),
         pages' = pages
  PROVE  ViewType'
<1>0. ZOOM_MIN \in 0 .. 4 /\ ZOOM_MAX \in Nat /\ ZOOM_MAX >= 4
  BY ViewerAssumption
<1>1. \A z \in ZOOM_MIN .. ZOOM_MAX : /\ Min({ZOOM_MAX, z + 1}) \in ZOOM_MIN .. ZOOM_MAX
                                      /\ Max({ZOOM_MIN, z - 1}) \in ZOOM_MIN .. ZOOM_MAX
  <2> SUFFICES ASSUME NEW z \in ZOOM_MIN .. ZOOM_MAX
               PROVE  /\ Min({ZOOM_MAX, z + 1}) \in ZOOM_MIN .. ZOOM_MAX
                      /\ Max({ZOOM_MIN, z - 1}) \in ZOOM_MIN .. ZOOM_MAX
    OBVIOUS
  <2>1. z + 1 \in Int /\ z - 1 \in Int /\ ZOOM_MAX \in Int /\ ZOOM_MIN \in Int
    BY <1>0
  <2>2. Min({ZOOM_MAX, z + 1}) \in {ZOOM_MAX, z + 1} /\ Min({ZOOM_MAX, z + 1}) <= ZOOM_MAX
    BY <2>1, MinOfTwo
  <2>3. Max({ZOOM_MIN, z - 1}) \in {ZOOM_MIN, z - 1} /\ Max({ZOOM_MIN, z - 1}) >= ZOOM_MIN
    BY <2>1, MaxOfTwo
  <2> QED
    BY <1>0, <2>2, <2>3
<1>2. zoom \in [Viewer -> ZOOM_MIN .. ZOOM_MAX]
  BY DEF TypeOK
<1>3. zoom' \in [Viewer -> ZOOM_MIN .. ZOOM_MAX]
  <2>1. 4 \in ZOOM_MIN .. ZOOM_MAX
    BY <1>0
  <2>2. CASE zoomIn(V)
    BY <1>1, <1>2, <2>2 DEF zoomIn, Apply
  <2>3. CASE zoomOut(V)
    BY <1>1, <1>2, <2>3 DEF zoomOut, Apply
  <2>4. CASE resetZoom(V)
    BY <1>2, <2>1, <2>4 DEF resetZoom, Apply
  <2> QED
    BY <2>2, <2>3, <2>4
<1> QED
  BY <1>3, ViewFromType DEF zoomIn, zoomOut, resetZoom, ViewType, LastPage

LEMMA RotateType ==
  ASSUME TypeOK, NEW V \in SUBSET Viewer, rotate(V),
         pages' = pages
  PROVE  ViewType'
<1>1. \A r \in {0, 90, 180, 270} : (r + 90) % 360 \in {0, 90, 180, 270}
  OBVIOUS
<1>2. rotation \in [Viewer -> {0, 90, 180, 270}]
  BY DEF TypeOK
<1>3. rotation' \in [Viewer -> {0, 90, 180, 270}]
  BY <1>1, <1>2 DEF rotate, Apply
<1> QED
  BY <1>3, ViewFromType DEF rotate, ViewType, LastPage

LEMMA PageType ==
  ASSUME TypeOK, NEW V \in SUBSET Viewer, prevPage(V) \/ nextPage(V),
         pages' = pages
  PROVE  ViewType'
<1>0. /\ pages \in Nat /\ LastPage \in Nat \ {0}
      /\ numPages \in [Viewer -> {0, pages}] /\ pageNumber \in [Viewer -> 1 .. LastPage]
  BY ViewFromType DEF ViewType
<1>1. \A v \in Viewer : /\ Max({1, pageNumber[v] - 1}) \in 1 .. LastPage
                        /\ Min({IF numPages[v] = 0 THEN 1 ELSE numPages[v], pageNumber[v] + 1})
                             \in 1 .. LastPage
  <2> SUFFICES ASSUME NEW v \in Viewer
               PROVE  /\ Max({1, pageNumber[v] - 1}) \in 1 .. LastPage
                      /\ Min({IF numPages[v] = 0 THEN 1 ELSE numPages[v], pageNumber[v] + 1})
                           \in 1 .. LastPage
    OBVIOUS
  <2> DEFINE p    == pageNumber[v]
             last == IF numPages[v] = 0 THEN 1 ELSE numPages[v]
  <2>1. p \in 1 .. LastPage /\ last \in 1 .. LastPage
    BY <1>0 DEF LastPage
  <2> HIDE DEF p, last
  <2>2. 1 \in Int /\ p - 1 \in Int /\ p + 1 \in Int /\ last \in Int
    BY <1>0, <2>1
  <2>3. Max({1, p - 1}) \in {1, p - 1} /\ Max({1, p - 1}) >= 1
    BY <2>2, MaxOfTwo
  <2>4. Min({last, p + 1}) \in {last, p + 1} /\ Min({last, p + 1}) <= last
    BY <2>2, MinOfTwo
  <2>5. Max({1, p - 1}) \in 1 .. LastPage /\ Min({last, p + 1}) \in 1 .. LastPage
    BY <1>0, <2>1, <2>3, <2>4
  <2> QED
    BY <2>5 DEF p, last
<1>2. pageNumber' \in [Viewer -> 1 .. LastPage]
  BY <1>0, <1>1 DEF prevPage, nextPage, Apply
<1> QED
  BY <1>2, ViewFromType DEF prevPage, nextPage, ViewType, LastPage

(* A step that only moves what the viewers show. *)
LEMMA ViewStep == ASSUME TypeInv, UNCHANGED Screen, ViewType' PROVE TypeInv'
<1>1. TypeOK'
  BY DEF TypeInv, TypeOK, Screen, ViewType, LastPage
<1> QED
  BY <1>1 DEF TypeInv, MountShape, FileShape, Screen

-----------------------------------------------------------------------------
(* The overlay and the screen come and go. *)

LEMMA MountFacts ==
  ASSUME TypeInv
  PROVE  /\ mounts \in Nat /\ mounts \in 0 .. MaxMounts /\ MaxMounts \in Nat
         /\ mount \in [Viewer -> Mount \cup {None}]
         /\ fetch \in [Mount -> {"none", "fetching", "shown", "error", "cancelled"}]
         /\ chunk \in [Viewer -> {"none", "loading", "loaded"}]
         /\ urls \subseteq Mount /\ Viewer = {"split", "full"}
BY NoneIsNoMount, ViewerAssumption DEF TypeInv, TypeOK, Viewer

(* A viewer that is not there gets a mount and its fetch; nothing else moves. *)
LEMMA NewMount ==
  ASSUME TypeInv, NEW v \in Viewer, mount[v] = None, MountViewer(v), urls' = urls
  PROVE  /\ FileShape' /\ mounts' = mounts + 1 /\ mounts' \in 0 .. MaxMounts
         /\ mount' = [mount EXCEPT ![v] = mounts + 1] /\ mounts + 1 \in Mount
         /\ mount' \in [Viewer -> Mount \cup {None}]
         /\ fetch' \in [Mount -> {"none", "fetching", "shown", "error", "cancelled"}]
<1>1. /\ mounts < MaxMounts /\ mounts' = mounts + 1
      /\ mount' = [mount EXCEPT ![v] = mounts + 1]
      /\ fetch' = [fetch EXCEPT ![mounts + 1] = "fetching"]
  BY DEF MountViewer
<1>2. mounts + 1 \in Mount /\ mounts + 1 > mounts /\ mounts' \in 0 .. MaxMounts
  BY <1>1, MountFacts DEF Mount
<1>3. fetch[mounts + 1] = "none"
  BY <1>2 DEF TypeInv, FileShape
<1>4. \A m \in Mount : fetch'[m] = IF m = mounts + 1 THEN "fetching" ELSE fetch[m]
  BY <1>1, MountFacts
<1>5. \A w \in Viewer : mount[w] # None => mount'[w] = mount[w]
  BY <1>1, MountFacts
<1>6. ASSUME NEW m \in Mount, m > mounts' PROVE fetch'[m] = "none"
  <2>1. m \in Nat /\ m > mounts /\ m # mounts + 1
    BY <1>1, <1>6, MountFacts, NoneIsNoMount
  <2> QED
    BY <1>4, <2>1 DEF TypeInv, FileShape
<1>7. ASSUME NEW m \in Mount, fetch'[m] \in {"fetching", "shown", "error"}
      PROVE  \E w \in Viewer : mount'[w] = m
  <2>1. CASE m = mounts + 1
    BY <1>1, <2>1, MountFacts
  <2>2. CASE m # mounts + 1
    BY <1>4, <1>5, <1>7, <2>2, NoneIsNoMount DEF TypeInv, FileShape
  <2> QED
    BY <2>1, <2>2
<1>8. urls' = {m \in Mount : fetch'[m] = "shown"}
  BY <1>3, <1>4 DEF TypeInv, FileShape
<1> QED
  BY <1>1, <1>2, <1>6, <1>7, <1>8, MountFacts DEF FileShape

LEMMA EnterType ==
  ASSUME TypeInv, mount["split"] # None, EnterFullscreen
  PROVE  TypeInv'
<1>0. /\ UNCHANGED <<canonical, pages, open, typing, urls, View>> /\ fullscreen' = TRUE
      /\ open /\ chunk["split"] = "loaded" /\ mounts >= 1
  BY DEF EnterFullscreen, TypeInv, MountShape
<1>1. CASE canonical /\ ~fullscreen /\ chunk["full"] = "loaded"
  <2>1. MountViewer("full") /\ chunk' = chunk
    BY <1>1 DEF EnterFullscreen
  <2>2. mount["full"] = None /\ "full" \in Viewer
    BY <1>1, MountFacts DEF TypeInv, MountShape
  <2>3. /\ FileShape' /\ mounts' = mounts + 1 /\ mounts' \in 0 .. MaxMounts
        /\ mount' = [mount EXCEPT !["full"] = mounts + 1] /\ mounts + 1 \in Mount
        /\ mount' \in [Viewer -> Mount \cup {None}]
        /\ fetch' \in [Mount -> {"none", "fetching", "shown", "error", "cancelled"}]
    BY <1>0, <2>1, <2>2, NewMount
  <2>4. TypeOK'
    BY <1>0, <2>1, <2>3 DEF TypeInv, TypeOK, View
  <2>5. MountShape'
    <3>1. mount'["split"] = mount["split"] /\ mount'["full"] = mounts + 1
      BY <2>3, MountFacts
    <3>2. mounts + 1 \in 2 .. mounts' /\ mounts + 1 # None /\ mounts' >= 1
      BY <1>0, <2>3, MountFacts, NoneIsNoMount
    <3> QED
      BY <1>0, <1>1, <2>1, <3>1, <3>2 DEF TypeInv, MountShape
  <2> QED
    BY <2>3, <2>4, <2>5 DEF TypeInv
<1>2. CASE ~(canonical /\ ~fullscreen /\ chunk["full"] = "loaded")
  <2>1. /\ UNCHANGED <<mounts, mount, fetch>>
        /\ chunk' = [chunk EXCEPT !["full"] = IF canonical /\ @ = "none" THEN "loading" ELSE @]
    BY <1>2 DEF EnterFullscreen
  <2>2. /\ chunk'["split"] = chunk["split"] /\ (chunk'["full"] = "loaded" <=> chunk["full"] = "loaded")
        /\ chunk' \in [Viewer -> {"none", "loading", "loaded"}]
    BY <2>1, MountFacts
  <2>3. TypeOK'
    BY <1>0, <2>1, <2>2 DEF TypeInv, TypeOK, View
  <2>4. MountShape'
    BY <1>0, <1>2, <2>1, <2>2 DEF TypeInv, TypeOK, MountShape
  <2> QED
    BY <1>0, <2>1, <2>3, <2>4 DEF TypeInv, FileShape
<1> QED
  BY <1>1, <1>2

LEMMA ChunkType == ASSUME TypeInv, NEW v \in Viewer, ChunkLoads(v) PROVE TypeInv'
<1>0. /\ UNCHANGED <<canonical, pages, open, fullscreen, typing, urls, View>>
      /\ chunk[v] = "loading" /\ chunk' = [chunk EXCEPT ![v] = "loaded"]
      /\ chunk' \in [Viewer -> {"none", "loading", "loaded"}]
  BY MountFacts DEF ChunkLoads
<1>1. \A w \in Viewer : chunk'[w] = IF w = v THEN "loaded" ELSE chunk[w]
  BY <1>0, MountFacts
<1>2. mount[v] = None
  BY <1>0, TwoViewers DEF TypeInv, MountShape
<1>3. CASE Wanted(v)
  <2>1. MountViewer(v)
    BY <1>3 DEF ChunkLoads
  <2>2. /\ FileShape' /\ mounts' = mounts + 1 /\ mounts' \in 0 .. MaxMounts
        /\ mount' = [mount EXCEPT ![v] = mounts + 1] /\ mounts + 1 \in Mount
        /\ mount' \in [Viewer -> Mount \cup {None}]
        /\ fetch' \in [Mount -> {"none", "fetching", "shown", "error", "cancelled"}]
    BY <1>0, <1>2, <2>1, NewMount
  <2>3. TypeOK'
    BY <1>0, <2>2 DEF TypeInv, TypeOK, View
  <2>4. MountShape'
    <3>1. mounts + 1 # None /\ mounts' >= 1 /\ open
      BY <1>3, <2>2, MountFacts, NoneIsNoMount DEF Wanted
    <3>2. \A w \in Viewer : mount'[w] = IF w = v THEN mounts + 1 ELSE mount[w]
      BY <2>2, MountFacts
    <3>3. CASE v = "split"
      <4>1. mounts = 0 /\ ~fullscreen
        BY <1>0, <3>3 DEF TypeInv, MountShape
      <4> QED
        BY <1>0, <1>1, <2>2, <3>1, <3>2, <3>3, <4>1, MountFacts DEF TypeInv, MountShape
    <3>4. CASE v = "full"
      <4>1. chunk["split"] = "loaded" /\ mounts >= 1 /\ canonical /\ fullscreen
        BY <1>3, <3>4 DEF Wanted, TypeInv, MountShape
      <4>2. mounts + 1 \in 2 .. mounts'
        BY <2>2, <4>1, MountFacts
      <4> QED
        BY <1>0, <1>1, <2>2, <3>1, <3>2, <3>4, <4>1, <4>2, MountFacts DEF TypeInv, MountShape
    <3> QED
      BY <3>3, <3>4, TwoViewers
  <2> QED
    BY <2>2, <2>3, <2>4 DEF TypeInv
<1>4. CASE ~Wanted(v)
  <2>1. UNCHANGED <<mounts, mount, fetch>>
    BY <1>4 DEF ChunkLoads
  <2>2. TypeOK'
    BY <1>0, <2>1 DEF TypeInv, TypeOK, View
  <2>3. MountShape'
    BY <1>0, <1>1, <1>4, <2>1, TwoViewers, MountFacts DEF Wanted, TypeInv, MountShape
  <2> QED
    BY <1>0, <2>1, <2>2, <2>3 DEF TypeInv, FileShape
<1> QED
  BY <1>3, <1>4

(* The mounts M end and no viewer is theirs any more. *)
LEMMA CancelType ==
  ASSUME TypeInv, NEW M \in SUBSET Mount, Cancel(M), UNCHANGED mounts,
         \A m \in M : m <= mounts,
         \A v \in Viewer : mount[v] # None /\ mount[v] \notin M => mount'[v] = mount[v]
  PROVE  /\ FileShape' /\ urls' \subseteq Mount
         /\ fetch' \in [Mount -> {"none", "fetching", "shown", "error", "cancelled"}]
<1>1. \A m \in Mount : fetch'[m] = IF m \in M THEN "cancelled" ELSE fetch[m]
  BY DEF Cancel
<1>2. fetch' \in [Mount -> {"none", "fetching", "shown", "error", "cancelled"}]
  BY MountFacts DEF Cancel
<1>3. urls' = {m \in Mount : fetch'[m] = "shown"}
  BY <1>1 DEF Cancel, TypeInv, FileShape
<1>4. \A m \in Mount : m > mounts' => fetch'[m] = "none"
  <2>1. \A m \in M : ~(m > mounts)
    BY MountFacts, NoneIsNoMount
  <2> QED
    BY <1>1, <2>1 DEF TypeInv, FileShape
<1>5. \A m \in Mount : fetch'[m] \in {"fetching", "shown", "error"} => \E v \in Viewer : mount'[v] = m
  BY <1>1, NoneIsNoMount DEF TypeInv, FileShape
<1> QED
  BY <1>2, <1>3, <1>4, <1>5 DEF FileShape

LEMMA ExitType ==
  ASSUME TypeInv, ExitFullscreen, typing' \in BOOLEAN
  PROVE  TypeInv'
<1> DEFINE M == {mount["full"]} \ {None}
<1>1. M \in SUBSET Mount /\ \A m \in M : m <= mounts
  BY MountFacts, NoneIsNoMount DEF TypeInv, MountShape
<1>2. /\ fullscreen' = FALSE /\ mount' = [mount EXCEPT !["full"] = None]
      /\ Cancel(M) /\ UNCHANGED <<canonical, pages, open, chunk, mounts>>
  BY DEF ExitFullscreen
<1>3. mount'["split"] = mount["split"] /\ mount'["full"] = None
  BY <1>2, MountFacts
<1>4. /\ FileShape' /\ urls' \subseteq Mount
      /\ fetch' \in [Mount -> {"none", "fetching", "shown", "error", "cancelled"}]
  <2>1. \A v \in Viewer : mount[v] # None /\ mount[v] \notin M => mount'[v] = mount[v]
    BY <1>3, TwoViewers
  <2> QED
    BY <1>1, <1>2, <2>1, CancelType
<1>5. ViewType'
  <2>1. 4 \in ZOOM_MIN .. ZOOM_MAX
    BY ViewerAssumption
  <2>2. 1 \in 1 .. LastPage /\ LastPage' = LastPage
    BY <1>2, ViewFromType DEF TypeInv, LastPage
  <2>3. ViewType
    BY ViewFromType DEF TypeInv
  <2> QED
    BY <1>2, <2>1, <2>2, <2>3 DEF ViewType, ExitFullscreen
<1>6. TypeOK'
  BY <1>2, <1>4, <1>5, MountFacts DEF TypeInv, TypeOK, ViewType, LastPage
<1>7. MountShape'
  BY <1>2, <1>3 DEF TypeInv, MountShape
<1> QED
  BY <1>4, <1>6, <1>7 DEF TypeInv

LEMMA LeaveType == ASSUME TypeInv, Leave PROVE TypeInv'
<1>1. /\ open' = FALSE /\ fullscreen' = FALSE /\ typing' = FALSE
      /\ mount' = [v \in Viewer |-> None]
      /\ Cancel({mount[v] : v \in Mounted}) /\ UNCHANGED <<canonical, pages, chunk, mounts, View>>
  BY DEF Leave
<1>2. \A v \in Mounted : mount[v] \in Mount /\ mount[v] <= mounts
  <2> SUFFICES ASSUME NEW v \in Mounted PROVE mount[v] \in Mount /\ mount[v] <= mounts
    OBVIOUS
  <2>1. mount[v] \in Mount /\ v \in Viewer
    BY MountFacts DEF Mounted
  <2>2. mount[v] \in {1} \cup 2 .. mounts /\ (mount[v] = 1 => mounts >= 1)
    BY <2>1, TwoViewers, NoneIsNoMount DEF TypeInv, MountShape
  <2> QED
    BY <2>1, <2>2, MountFacts DEF Mount
<1>3. /\ FileShape' /\ urls' \subseteq Mount
      /\ fetch' \in [Mount -> {"none", "fetching", "shown", "error", "cancelled"}]
  <2>1. {mount[v] : v \in Mounted} \in SUBSET Mount
    BY <1>2
  <2>2. \A m \in {mount[v] : v \in Mounted} : m <= mounts
    BY <1>2
  <2>3. \A v \in Viewer : ~(mount[v] # None /\ mount[v] \notin {mount[w] : w \in Mounted})
    BY DEF Mounted
  <2> QED
    BY <1>1, <2>1, <2>2, <2>3, CancelType
<1>4. TypeOK'
  BY <1>1, <1>3 DEF TypeInv, TypeOK, View
<1>5. MountShape'
  BY <1>1 DEF TypeInv, MountShape, Viewer
<1> QED
  BY <1>3, <1>4, <1>5 DEF TypeInv

-----------------------------------------------------------------------------
(* Keys, buttons, files. *)

LEMMA ToggleType ==
  ASSUME TypeInv, NEW v \in Viewer, mount[v] # None, onToggleFullscreen(v)
  PROVE  TypeInv'
<1>1. CASE v = "split"
  <2>1. mount["split"] # None /\ EnterFullscreen
    BY <1>1 DEF onToggleFullscreen
  <2> QED
    BY <2>1, EnterType
<1>2. CASE v # "split"
  <2>1. v = "full" /\ ExitFullscreen /\ typing' \in BOOLEAN
    BY <1>2, TwoViewers DEF onToggleFullscreen, TypeInv, TypeOK
  <2> QED
    BY <2>1, ExitType
<1> QED
  BY <1>1, <1>2

LEMMA ControlType ==
  ASSUME TypeInv, NEW V \in SUBSET Viewer, UNCHANGED Screen,
         zoomIn(V) \/ zoomOut(V) \/ resetZoom(V) \/ rotate(V) \/ prevPage(V) \/ nextPage(V)
  PROVE  TypeInv'
<1>1. TypeOK /\ pages' = pages
  BY DEF TypeInv, Screen
<1> QED
  BY <1>1, ZoomType, RotateType, PageType, ViewStep

LEMMA KeyType == ASSUME TypeInv, onKey PROVE TypeInv'
<1> DEFINE V    == Viewer \ (Viewer \ {v \in Viewer : active(v)})
           Many == {v \in V : multipage(v)}
<1>1. V \in SUBSET Viewer /\ Many \in SUBSET Viewer /\ \A v \in V : v \in Viewer /\ mount[v] # None
  BY DEF active, Mounted
<1>2. \/ (zoomIn(V) \/ zoomOut(V) \/ rotate(V)) /\ UNCHANGED Screen
      \/ (prevPage(Many) \/ nextPage(Many)) /\ UNCHANGED Screen
      \/ \E v \in V : onToggleFullscreen(v)
  BY DEF onKey
<1> HIDE DEF V, Many
<1> QED
  BY <1>1, <1>2, ControlType, ToggleType

LEMMA ControlBarType == ASSUME TypeInv, NEW v \in Viewer, ControlBar(v) PROVE TypeInv'
<1>1. mount[v] # None /\ {v} \in SUBSET Viewer
  BY DEF ControlBar, InFront, Mounted
<1>2. CASE onToggleFullscreen(v)
  BY <1>1, <1>2, ToggleType
<1>3. CASE /\ zoomIn({v}) \/ zoomOut({v}) \/ resetZoom({v}) \/ rotate({v}) \/ prevPage({v}) \/ nextPage({v})
           /\ UNCHANGED Screen
  BY <1>1, <1>3, ControlType
<1>4. CASE /\ railOpen' = [railOpen EXCEPT ![v] = ~@]
           /\ UNCHANGED <<numPages, pageNumber, zoom, rotation>>
           /\ UNCHANGED Screen
  <2>1. ViewType /\ LastPage' = LastPage
    BY <1>4, ViewFromType DEF TypeInv, LastPage, Screen
  <2>2. railOpen' \in [Viewer -> BOOLEAN]
    BY <1>4, <2>1, Zenon DEF ViewType
  <2>3. ViewType'
    BY <1>4, <2>1, <2>2 DEF ViewType, Screen
  <2> QED
    BY <1>4, <2>3, ViewStep
<1> QED
  BY <1>2, <1>3, <1>4 DEF ControlBar

LEMMA PageSetType ==
  ASSUME TypeInv, NEW v \in Viewer,
         (\E n \in 1 .. MaxPages : Thumbnail(v, n)) \/ onLoadSuccess(v)
  PROVE  TypeInv'
<1>0. /\ ViewType /\ pages \in Nat /\ LastPage \in Nat \ {0}
      /\ numPages[v] \in {0, pages} /\ pageNumber[v] \in 1 .. LastPage
  BY ViewFromType DEF TypeInv, ViewType
<1>1. ASSUME NEW n \in 1 .. MaxPages, Thumbnail(v, n) PROVE TypeInv'
  <2>1. /\ n \in 1 .. numPages[v] /\ numPages[v] > 1 /\ pageNumber' = [pageNumber EXCEPT ![v] = n]
        /\ UNCHANGED Screen /\ UNCHANGED <<numPages, zoom, rotation, railOpen>>
    BY <1>1 DEF Thumbnail, multipage
  <2>2. n \in 1 .. LastPage /\ LastPage' = LastPage
    BY <1>0, <2>1 DEF LastPage, Screen
  <2>3. ViewType'
    BY <1>0, <2>1, <2>2 DEF ViewType, Screen
  <2> QED
    BY <2>1, <2>3, ViewStep
<1>2. CASE onLoadSuccess(v)
  <2>1. /\ pages > 0 /\ numPages' = [numPages EXCEPT ![v] = pages]
        /\ pageNumber' = [pageNumber EXCEPT ![v] = Min({pageNumber[v], pages})]
        /\ UNCHANGED Screen /\ UNCHANGED <<zoom, rotation, railOpen>>
    BY <1>2 DEF onLoadSuccess
  <2>2. pageNumber[v] \in Int /\ pages \in Int
    BY <1>0
  <2>3. Min({pageNumber[v], pages}) \in {pageNumber[v], pages}
    BY <2>2, MinOfTwo
  <2>4. Min({pageNumber[v], pages}) \in 1 .. LastPage /\ LastPage' = LastPage
    BY <1>0, <2>1, <2>3 DEF LastPage, Screen
  <2>5. ViewType'
    BY <1>0, <2>1, <2>4 DEF ViewType, Screen
  <2> QED
    BY <2>1, <2>5, ViewStep
<1> QED
  BY <1>1, <1>2

LEMMA FileType == ASSUME TypeInv, NEW m \in Mount, Fetched(m) \/ FetchFailed(m) PROVE TypeInv'
<1>1. /\ fetch[m] = "fetching"
      /\ \/ fetch' = [fetch EXCEPT ![m] = "shown"] /\ urls' = urls \cup {m}
         \/ fetch' = [fetch EXCEPT ![m] = "error"] /\ urls' = urls
      /\ UNCHANGED <<canonical, pages, open, fullscreen, typing, chunk, mount, mounts, View>>
  BY DEF Fetched, FetchFailed
<1>2. TypeOK'
  BY <1>1 DEF TypeInv, TypeOK, View
<1>3. /\ fetch'[m] \in {"shown", "error"} /\ (fetch'[m] = "shown" <=> urls' = urls \cup {m})
      /\ \A k \in Mount \ {m} : fetch'[k] = fetch[k]
  BY <1>1, MountFacts DEF TypeInv, FileShape
<1>4. FileShape'
  BY <1>1, <1>3 DEF TypeInv, FileShape
<1> QED
  BY <1>1, <1>2, <1>4 DEF TypeInv, MountShape

LEMMA StepType == TypeInv /\ [Next]_vars => TypeInv'
<1> SUFFICES ASSUME TypeInv, [Next]_vars PROVE TypeInv'
  OBVIOUS
<1>1. CASE UNCHANGED vars
  BY <1>1 DEF vars, View, TypeInv, TypeOK, MountShape, FileShape
<1>2. CASE Focus
  BY <1>2 DEF Focus, View, TypeInv, TypeOK, MountShape, FileShape
<1>3. CASE Escape
  <2>1. ExitFullscreen /\ typing' \in BOOLEAN
    BY <1>3 DEF Escape
  <2> QED
    BY <2>1, ExitType
<1>4. CASE ExitButton
  <2>1. ExitFullscreen /\ typing' \in BOOLEAN
    BY <1>4 DEF ExitButton, TypeInv, TypeOK
  <2> QED
    BY <2>1, ExitType
<1> QED
  BY <1>1, <1>2, <1>3, <1>4, ChunkType, KeyType, LeaveType, ControlBarType, PageSetType, FileType DEF Next

-----------------------------------------------------------------------------
(* Zoom, rotation and page stay in their ranges for any document and any     *)
(* sequence of keys, clicks and mounts (pdf-viewer.tsx:80-86).               *)
THEOREM ViewerTypeCorrect == Spec => []TypeOK
<1>1. TypeInv => TypeOK
  BY DEF TypeInv
<1> QED
  BY InitType, StepType, <1>1, PTL DEF Spec

(* However often fullscreen is opened and closed while files are fetched, an *)
(* object URL lives exactly as long as its viewer                            *)
(* (use-document-file.ts:31-67).                                             *)
THEOREM NoUrlLeaks == Spec => []UrlsAreOwned
<1>1. TypeInv => UrlsAreOwned
  <2> SUFFICES ASSUME TypeInv
               PROVE  urls = {mount[v] : v \in {w \in Mounted : fetch[mount[w]] = "shown"}}
    BY DEF UrlsAreOwned
  <2>1. ASSUME NEW m \in urls
        PROVE  m \in {mount[v] : v \in {w \in Mounted : fetch[mount[w]] = "shown"}}
    <3>1. m \in Mount /\ fetch[m] = "shown"
      BY DEF TypeInv, FileShape
    <3>2. PICK v \in Viewer : mount[v] = m
      BY <3>1 DEF TypeInv, FileShape
    <3> QED
      BY <3>1, <3>2, NoneIsNoMount DEF Mounted
  <2>2. ASSUME NEW v \in Mounted, fetch[mount[v]] = "shown" PROVE mount[v] \in urls
    <3>1. mount[v] \in Mount
      BY MountFacts DEF Mounted
    <3> QED
      BY <2>2, <3>1 DEF TypeInv, FileShape
  <2> QED
    BY <2>1, <2>2
<1> QED
  BY InitType, StepType, <1>1, PTL DEF Spec

(* With data on the screen a key reaches no viewer behind another, and one   *)
(* reaches exactly the viewer in front once the chunks the screen needs are  *)
(* there, in every order of keys, clicks, chunks and Esc                     *)
(* (pdf-viewer.tsx:42-43,91-92, review-workspace.tsx:22-37,124).             *)
THEOREM KeysReachTheViewerInFront == Spec => []OneViewerListens
<1>1. TypeInv => OneViewerListens
  <2> SUFFICES ASSUME TypeInv, open, canonical
               PROVE  /\ {v \in Viewer : active(v)} \subseteq {v \in Viewer : InFront(v)}
                      /\ (\A v \in Viewer : Wanted(v) => chunk[v] = "loaded") =>
                           /\ {v \in Viewer : active(v)} = {v \in Viewer : InFront(v)}
                           /\ Cardinality({v \in Viewer : active(v)}) = 1
    BY DEF OneViewerListens
  <2> DEFINE There == mount["split"] # None
             Over  == mount["full"] # None
  <2>1. /\ There <=> chunk["split"] = "loaded"
        /\ Over <=> fullscreen /\ chunk["full"] = "loaded"
        /\ fullscreen => There
    BY NoneIsNoMount DEF TypeInv, MountShape
  <2> HIDE DEF There, Over
  <2>2. /\ active("split") <=> There /\ ~fullscreen
        /\ active("full") <=> Over
        /\ InFront("split") <=> There /\ ~Over
        /\ InFront("full") <=> Over
    BY DEF active, InFront, Mounted, Viewer, There, Over
  <2>3. {v \in Viewer : active(v)} \subseteq {v \in Viewer : InFront(v)}
    BY <2>1, <2>2, TwoViewers
  <2>4. ASSUME \A v \in Viewer : Wanted(v) => chunk[v] = "loaded"
        PROVE  /\ {v \in Viewer : active(v)} = {v \in Viewer : InFront(v)}
               /\ Cardinality({v \in Viewer : active(v)}) = 1
    <3>1. There /\ (Over <=> fullscreen)
      BY <2>1, <2>4 DEF Wanted, Viewer
    <3>2. {v \in Viewer : active(v)} = IF fullscreen THEN {"full"} ELSE {"split"}
      BY <2>2, <3>1 DEF Viewer
    <3>3. {v \in Viewer : InFront(v)} = IF fullscreen THEN {"full"} ELSE {"split"}
      BY <2>2, <3>1 DEF Viewer
    <3>4. Cardinality({"full"}) = 1 /\ Cardinality({"split"}) = 1
      BY FS_Singleton
    <3> QED
      BY <3>2, <3>3, <3>4
  <2> QED
    BY <2>3, <2>4
<1> QED
  BY InitType, StepType, <1>1, PTL DEF Spec
=============================================================================
