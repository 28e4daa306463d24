------------------------- MODULE ReviewSessionProofs -------------------------
(***************************************************************************)
(* Safety of ReviewSession for any tabs, clicks and number of edits: what  *)
(* a clean tab shows, what a sign-off covers and when edits count as saved.*)
(***************************************************************************)
EXTENDS ReviewSession, TLAPS

-----------------------------------------------------------------------------
(* Type correctness, with what relates a click to its tab. *)

ClickShape ==
  \A c \in Click : /\ pc[c] = "idle" <=> tab[c] = None
                   /\ c \in wire \cup committed => pc[c] # "idle"
                   /\ tab[c] # None => tab[c] \in open /\ seen[c] <= draft[tab[c]]

TypeInv == TypeOK /\ ClickShape

Flags == \A t \in Tab : \A c \in {saving[t], approving[t]} \ {None} :
            pc[c] \in {"saving", "acting"} /\ tab[c] = t

LEMMA NoneIsNothing == None \notin Tab /\ None \notin Click /\ None \notin Nat
BY ReviewAssumption

LEMMA CanonicalIsVersion == TypeOK => canonical \in Version
BY DEF TypeOK, Version, canonical

LEMMA OpenType == ASSUME TypeInv, NEW t \in Tab, getExtraction(t) \/ ReviewWorkspace(t)
                  PROVE  TypeInv'
<1>1. TypeOK'
  BY CanonicalIsVersion DEF TypeInv, TypeOK, getExtraction, ReviewWorkspace, Server, Header,
     History, Version
<1>2. ClickShape'
  BY DEF TypeInv, TypeOK, ClickShape, getExtraction, ReviewWorkspace, Server, Header, History
<1> QED
  BY <1>1, <1>2 DEF TypeInv

LEMMA EditType == ASSUME TypeInv, NEW t \in Tab, updateField(t)
                  PROVE  TypeInv'
<1>0. /\ edits \in Nat /\ edits' = edits + 1
      /\ \A x \in Tab : draft[x] \in 0 .. edits
      /\ \A c \in Click : seen[c] \in 0 .. edits
      /\ \A c \in Click : tab[c] \in Tab \cup {None}
  BY DEF TypeInv, TypeOK, Version, updateField
<1>1. \A v : v \in 0 .. edits => v \in 0 .. edits'
  BY <1>0
<1>2. /\ UNCHANGED <<corrected, approved, loaded, open, saving, approving, kind, tab, pc, wire,
                     committed, seen, result>>
      /\ draft' = [draft EXCEPT ![t] = edits + 1]
      /\ dirty' = dirty \cup {t} /\ raced' \in {raced, raced \cup {t}} /\ t \in open
  BY DEF updateField, Server, Header, History
<1>3. TypeOK'
  <2>1. draft' \in [Tab -> 0 .. edits']
    BY <1>0, <1>1, <1>2 DEF TypeInv, TypeOK, Version
  <2>2. seen' \in [Click -> 0 .. edits'] /\ result' \in [Click -> (0 .. edits') \cup {None}]
    BY <1>1, <1>2 DEF TypeInv, TypeOK, Version
  <2>3. corrected' \in (0 .. edits') \cup {None} /\ edits' \in Nat
    BY <1>0, <1>1, <1>2 DEF TypeInv, TypeOK, Version
  <2> QED
    BY <1>2, <2>1, <2>2, <2>3 DEF TypeInv, TypeOK, Version
<1>4. ClickShape'
  BY <1>0, <1>2 DEF TypeInv, TypeOK, ClickShape
<1> QED
  BY <1>3, <1>4 DEF TypeInv

LEMMA FullscreenType == ASSUME TypeInv, NEW t \in Tab, Fullscreen(t)
                        PROVE  TypeInv'
<1>1. TypeOK'
  BY DEF TypeInv, TypeOK, Fullscreen, Server, Screen, History, Version
<1>2. ClickShape'
  BY DEF TypeInv, ClickShape, Fullscreen, Server, Screen, History
<1> QED
  BY <1>1, <1>2 DEF TypeInv

(* A click begins: its own handler runs, and no flag stood for it. *)
LEMMA PressType ==
  ASSUME TypeInv, NEW c \in Click, NEW t \in Tab, NEW k \in Action, NEW saves \in BOOLEAN,
         Press(c, t, k, saves),
         saving' \in {saving, [saving EXCEPT ![t] = c]},
         approving' \in {approving, [approving EXCEPT ![t] = c]}
  PROVE  TypeInv'
<1>0. /\ pc[c] = "idle" /\ t \in open
      /\ pc' = [pc EXCEPT ![c] = IF saves THEN "saving" ELSE "acting"]
      /\ tab' = [tab EXCEPT ![c] = t] /\ seen' = [seen EXCEPT ![c] = draft[t]]
      /\ kind' = [kind EXCEPT ![c] = k]
      /\ wire' \in {wire, wire \cup {c}} /\ raced' \in {raced, raced \cup {t}}
      /\ UNCHANGED <<corrected, approved, edits, loaded, open, draft, dirty, committed, result>>
  BY DEF Press, Server, Screen
<1>1. /\ pc' \in [Click -> {"idle", "saving", "acting", "done", "failed"}]
      /\ tab' \in [Click -> Tab \cup {None}]
      /\ pc'[c] \in {"saving", "acting"} /\ tab'[c] = t
      /\ \A d \in Click : d # c => pc'[d] = pc[d] /\ tab'[d] = tab[d]
  BY <1>0 DEF TypeInv, TypeOK
<1>2. Flags'
  <2> SUFFICES ASSUME NEW x \in Tab, NEW d \in {saving'[x], approving'[x]} \ {None}
               PROVE  pc'[d] \in {"saving", "acting"} /\ tab'[d] = x
    BY DEF Flags
  <2>1. \/ d \in {saving[x], approving[x]} \ {None}
        \/ d = c /\ x = t
    BY <1>0 DEF TypeInv, TypeOK
  <2>2. d \in Click
    BY <2>1 DEF TypeInv, TypeOK
  <2>3. CASE d = c /\ x = t
    BY <1>1, <2>3
  <2>4. CASE d \in {saving[x], approving[x]} \ {None}
    <3>1. pc[d] \in {"saving", "acting"} /\ tab[d] = x
      BY <2>4 DEF TypeInv, TypeOK
    <3>2. d # c
      BY <1>0, <3>1
    <3> QED
      BY <1>1, <2>2, <3>1, <3>2
  <2> QED
    BY <2>1, <2>3, <2>4
<1>3. TypeOK'
  <2>1. /\ saving' \in [Tab -> Click \cup {None}] /\ approving' \in [Tab -> Click \cup {None}]
        /\ kind' \in [Click -> Action \cup {None}] /\ seen' \in [Click -> Version]
        /\ wire' \subseteq Click /\ raced' \subseteq loaded
    BY <1>0 DEF TypeInv, TypeOK
  <2>2. Version' = Version
    BY <1>0 DEF Version
  <2> QED
    BY <1>0, <1>1, <1>2, <2>1, <2>2 DEF TypeInv, TypeOK, Flags
<1>4. ClickShape'
  <2> SUFFICES ASSUME NEW d \in Click
               PROVE  /\ pc'[d] = "idle" <=> tab'[d] = None
                      /\ d \in wire' \cup committed' => pc'[d] # "idle"
                      /\ tab'[d] # None => tab'[d] \in open' /\ seen'[d] <= draft'[tab'[d]]
    BY DEF ClickShape
  <2>1. CASE d = c
    <3>1. seen'[d] = draft[t] /\ draft[t] \in Nat
      BY <1>0, <2>1 DEF TypeInv, TypeOK, Version
    <3> QED
      BY <1>0, <1>1, <2>1, <3>1, NoneIsNothing
  <2>2. CASE d # c
    <3>1. seen'[d] = seen[d]
      BY <1>0, <2>2 DEF TypeInv, TypeOK
    <3> QED
      BY <1>0, <1>1, <2>2, <3>1 DEF TypeInv, ClickShape
  <2> QED
    BY <2>1, <2>2
<1> QED
  BY <1>3, <1>4 DEF TypeInv

(* A handler goes on or ends; the flags that stood for it come down. *)
LEMMA FlagsHold ==
  ASSUME TypeInv, NEW c \in Click, NEW label \in {"acting", "done", "failed"},
         pc' = [pc EXCEPT ![c] = label], tab' = tab,
         \/ label = "acting" /\ UNCHANGED Header
         \/ Release(c)
  PROVE  /\ Flags'
         /\ saving' \in [Tab -> Click \cup {None}] /\ approving' \in [Tab -> Click \cup {None}]
         /\ pc' \in [Click -> {"idle", "saving", "acting", "done", "failed"}]
<1>1. /\ saving' \in [Tab -> Click \cup {None}] /\ approving' \in [Tab -> Click \cup {None}]
      /\ \A t \in Tab : /\ saving'[t] \in {saving[t], None}
                        /\ approving'[t] \in {approving[t], None}
      /\ \/ label = "acting"
         \/ \A t \in Tab : saving'[t] # c /\ approving'[t] # c
  BY NoneIsNothing DEF TypeInv, TypeOK, Header, Release
<1>2. Flags'
  BY <1>1 DEF TypeInv, TypeOK, Flags
<1> QED
  BY <1>1, <1>2 DEF TypeInv, TypeOK

LEMMA RouteType ==
  ASSUME TypeInv, NEW c \in Click,
         save_corrections(c) \/ SaveRefused(c) \/ Act(c) \/ onSave(c) \/ Fail(c)
  PROVE  TypeInv'
<1>0. /\ seen[c] \in Version /\ canonical \in Version
      /\ tab \in [Click -> Tab \cup {None}]
  BY CanonicalIsVersion DEF TypeInv, TypeOK
<1>1. CASE save_corrections(c) \/ SaveRefused(c)
  <2>1. TypeOK'
    BY <1>0, <1>1 DEF TypeInv, TypeOK, save_corrections, SaveRefused, StoredData,
       Server, Screen, Header, History, Version
  <2>2. ClickShape'
    BY <1>1 DEF TypeInv, ClickShape, save_corrections, SaveRefused, Server, Screen, History
  <2> QED
    BY <2>1, <2>2 DEF TypeInv
<1>2. CASE Act(c) \/ onSave(c) \/ Fail(c)
  <2>1. /\ UNCHANGED <<corrected, edits, loaded, open, draft, kind, tab, wire, committed, seen, raced>>
        /\ approved' \in BOOLEAN /\ dirty' \subseteq dirty
        /\ result' \in {result, [result EXCEPT ![c] = canonical]}
    BY <1>2 DEF Act, onSave, Fail, Server, Screen, History, TypeInv, TypeOK
  <2>2. /\ pc[c] \in {"saving", "acting"}
        /\ \E label \in {"acting", "done", "failed"} :
              /\ pc' = [pc EXCEPT ![c] = label]
              /\ \/ label = "acting" /\ UNCHANGED Header
                 \/ Release(c)
    BY <1>2 DEF Act, onSave, Fail
  <2>3. PICK label \in {"acting", "done", "failed"} :
              /\ pc' = [pc EXCEPT ![c] = label]
              /\ \/ label = "acting" /\ UNCHANGED Header
                 \/ Release(c)
    BY <2>2
  <2>4. /\ Flags'
        /\ saving' \in [Tab -> Click \cup {None}] /\ approving' \in [Tab -> Click \cup {None}]
        /\ pc' \in [Click -> {"idle", "saving", "acting", "done", "failed"}]
    BY <2>1, <2>3, FlagsHold
  <2>5. TypeOK'
    BY <1>0, <2>1, <2>4 DEF TypeInv, TypeOK, Version, Flags
  <2>6. ClickShape'
    BY <2>1, <2>2, <2>3 DEF TypeInv, TypeOK, ClickShape
  <2> QED
    BY <2>5, <2>6 DEF TypeInv
<1> QED
  BY <1>1, <1>2

LEMMA TypeStep == TypeInv /\ [Next]_vars => TypeInv'
<1> SUFFICES ASSUME TypeInv, [Next]_vars
             PROVE  TypeInv'
  OBVIOUS
<1>1. ASSUME NEW c \in Click, NEW t \in Tab, onSaveClick(c, t)
      PROVE  TypeInv'
  BY <1>1, PressType DEF onSaveClick, Action
<1>2. ASSUME NEW c \in Click, NEW t \in Tab, onApprove(c, t)
      PROVE  TypeInv'
  <2>1. (t \in dirty) \in BOOLEAN
    OBVIOUS
  <2> QED
    BY <1>2, <2>1, PressType DEF onApprove, Action
<1>3. ASSUME NEW c \in Click, NEW t \in Tab, onExport(c, t)
      PROVE  TypeInv'
  <2>1. (t \in dirty) \in BOOLEAN
    OBVIOUS
  <2> QED
    BY <1>3, <2>1, PressType DEF onExport, Action, Header
<1>4. CASE UNCHANGED vars
  BY <1>4 DEF vars, TypeInv, TypeOK, ClickShape, Version
<1> QED
  BY <1>1, <1>2, <1>3, <1>4, OpenType, EditType, FullscreenType, RouteType DEF Next

LEMMA TypeInvariant == Spec => []TypeInv
<1>1. Init => TypeInv
  <2> SUFFICES ASSUME Init
               PROVE  TypeInv
    OBVIOUS
  <2>1. /\ corrected \in Version \cup {None} /\ approved \in BOOLEAN /\ edits \in Nat
        /\ draft \in [Tab -> Version] /\ seen \in [Click -> Version]
        /\ result \in [Click -> Version \cup {None}]
    <3>1. edits = 0 /\ 0 \in Version
      BY DEF Init, Version
    <3>2. corrected \in Version \cup {None} /\ edits \in Nat
      BY <3>1 DEF Init
    <3>3. approved \in BOOLEAN
      BY DEF Init
    <3>4. draft \in [Tab -> Version] /\ seen \in [Click -> Version]
      BY <3>1 DEF Init
    <3>5. result \in [Click -> Version \cup {None}]
      BY <3>1 DEF Init
    <3> QED
      BY <3>2, <3>3, <3>4, <3>5
  <2>2. /\ saving \in [Tab -> Click \cup {None}] /\ approving \in [Tab -> Click \cup {None}]
        /\ kind \in [Click -> Action \cup {None}] /\ tab \in [Click -> Tab \cup {None}]
        /\ pc \in [Click -> {"idle", "saving", "acting", "done", "failed"}]
    BY DEF Init
  <2>3. \A t \in Tab : {saving[t], approving[t]} \ {None} = {}
    BY DEF Init
  <2>4. ClickShape
    BY DEF Init, ClickShape
  <2>5. /\ loaded \subseteq Tab /\ open \subseteq loaded /\ dirty \subseteq open
        /\ raced \subseteq loaded
        /\ wire \subseteq Click /\ committed \subseteq Click
    BY DEF Init
  <2> QED
    BY <2>1, <2>2, <2>3, <2>4, <2>5 DEF TypeInv, TypeOK
<1> QED
  BY <1>1, TypeStep, PTL DEF Spec

(* The state of a review is well typed for any tabs and clicks. *)
THEOREM ReviewTypeCorrect == Spec => []TypeOK
<1>1. TypeInv => TypeOK
  BY DEF TypeInv
<1> QED
  BY <1>1, TypeInvariant, PTL

-----------------------------------------------------------------------------
(* What a tab without races knows of the server.  A running save carries    *)
(* the draft as it still is; once it is committed, the server has it.  A    *)
(* save that is still to be committed, perhaps long after its answer was    *)
(* given up, cannot take back what a running click counts on, and carries   *)
(* the draft itself whenever the tab is clean.                              *)

Calm == Tab \ raced

(* Also a page that is answered and does not show the data yet. *)
LoadedIsSaved == \A t \in loaded \ raced : t \notin dirty => draft[t] = canonical

ClickInSync(c) ==
  /\ pc[c] = "saving" => seen[c] = draft[tab[c]]
  /\ pc[c] = "saving" /\ c \in committed => canonical = draft[tab[c]]
  /\ pc[c] = "acting" => seen[c] <= canonical
  /\ result[c] # None => pc[c] = "done" /\ seen[c] <= result[c]

WireInSync(c, d) ==
  /\ pc[c] = "saving" => seen[d] = draft[tab[c]]
  /\ pc[c] = "acting" => seen[c] <= seen[d]

SyncInv ==
  /\ LoadedIsSaved
  /\ \A c \in Click : tab[c] \in Calm => ClickInSync(c)
  /\ \A c \in Click : \A d \in wire :
        tab[c] \in Calm /\ tab[d] = tab[c] => WireInSync(c, d)
  /\ \A d \in wire : tab[d] \in Calm \ dirty => seen[d] = draft[tab[d]]
  /\ \A c \in Click : pc[c] = "idle" => result[c] = None

LEMMA SyncType ==
  TypeInv => /\ edits \in Nat /\ canonical \in Nat
             /\ \A t \in Tab : draft[t] \in Nat /\ draft[t] <= edits
             /\ \A c \in Click : seen[c] \in Nat /\ tab[c] \in Tab \cup {None}
             /\ wire \subseteq Click /\ committed \subseteq Click
             /\ loaded \subseteq Tab /\ raced \subseteq loaded
             /\ open \subseteq loaded /\ dirty \subseteq open
             /\ pc \in [Click -> {"idle", "saving", "acting", "done", "failed"}]
BY CanonicalIsVersion DEF TypeInv, TypeOK, Version

LEMMA LoadSync == ASSUME TypeInv, SyncInv, NEW t \in Tab, getExtraction(t)
                  PROVE  SyncInv'
<1>0. /\ t \notin loaded /\ loaded' = loaded \cup {t} /\ draft' = [draft EXCEPT ![t] = canonical]
      /\ UNCHANGED <<corrected, dirty, tab, pc, wire, committed, seen, result, raced>>
      /\ canonical' = canonical
  BY DEF getExtraction, Server, Header, History, canonical
<1>1. \A c \in Click : tab[c] # t
  BY <1>0, NoneIsNothing, SyncType DEF TypeInv, ClickShape
<1>2. \A x \in Tab : draft'[x] = IF x = t THEN canonical ELSE draft[x]
  BY <1>0 DEF TypeInv, TypeOK
<1>3. \A c \in Click : tab[c] \in Tab => draft'[tab[c]] = draft[tab[c]]
  BY <1>1, <1>2
<1>4. LoadedIsSaved'
  BY <1>0, <1>2, SyncType DEF SyncInv, LoadedIsSaved
<1>5. wire \subseteq Click
  BY SyncType
<1> QED
  BY <1>0, <1>3, <1>4, <1>5 DEF SyncInv, ClickInSync, WireInSync, Calm

LEMMA EditSync == ASSUME TypeInv, SyncInv, NEW t \in Tab, updateField(t)
                  PROVE  SyncInv'
<1>0. /\ draft' = [draft EXCEPT ![t] = edits + 1] /\ dirty' = dirty \cup {t}
      /\ raced \subseteq raced'
      /\ UNCHANGED <<corrected, loaded, open, tab, pc, wire, committed, seen, result>>
      /\ canonical' = canonical
      /\ t \in raced' \/ Saves(t) = {}
  BY DEF updateField, Server, Header, History, canonical
<1>1. \A x \in Tab : x # t => draft'[x] = draft[x]
  BY <1>0 DEF TypeInv, TypeOK
<1>2. \A c \in Click : tab[c] \in Calm' => tab[c] \in Calm
  BY <1>0 DEF Calm
<1>3. \A c \in Click : tab[c] \in Calm' /\ pc[c] = "saving" => tab[c] # t
  BY <1>0 DEF Calm, Saves
<1>4. \A c \in Click : tab[c] \in Calm' /\ pc[c] = "saving" => draft'[tab[c]] = draft[tab[c]]
  BY <1>1, <1>3 DEF Calm
<1>5. LoadedIsSaved'
  BY <1>0, <1>1, SyncType DEF SyncInv, LoadedIsSaved
<1>6. \A c \in Click : tab[c] \in Calm' => ClickInSync(c)'
  BY <1>0, <1>2, <1>4 DEF SyncInv, ClickInSync
<1>7. \A c \in Click : \A d \in wire :
         tab[c] \in Calm' /\ tab[d] = tab[c] => WireInSync(c, d)'
  BY <1>0, <1>2, <1>4 DEF SyncInv, WireInSync
<1>8. \A d \in wire : tab[d] \in Calm' \ dirty' => seen[d] = draft'[tab[d]]
  BY <1>0, <1>1, <1>2, SyncType DEF SyncInv, Calm
<1> QED
  BY <1>0, <1>5, <1>6, <1>7, <1>8 DEF SyncInv

LEMMA PressSync ==
  ASSUME TypeInv, SyncInv, NEW c \in Click, NEW t \in Tab, NEW k \in Action,
         NEW saves \in BOOLEAN, Press(c, t, k, saves), t \in dirty => saves
  PROVE  SyncInv'
<1>0. /\ pc[c] = "idle" /\ t \in open
      /\ pc' = [pc EXCEPT ![c] = IF saves THEN "saving" ELSE "acting"]
      /\ tab' = [tab EXCEPT ![c] = t] /\ seen' = [seen EXCEPT ![c] = draft[t]]
      /\ wire' = (IF saves THEN wire \cup {c} ELSE wire)
      /\ raced \subseteq raced'
      /\ saves /\ (\E d \in wire : tab[d] = t) => t \in raced'
      /\ UNCHANGED <<corrected, loaded, open, draft, dirty, committed, result>>
      /\ canonical' = canonical
  BY DEF Press, Server, Screen, canonical
<1>1. /\ c \notin wire /\ c \notin committed /\ result[c] = None
      /\ tab'[c] = t /\ seen'[c] = draft[t]
      /\ pc'[c] = (IF saves THEN "saving" ELSE "acting")
      /\ \A d \in Click : d # c => /\ pc'[d] = pc[d] /\ tab'[d] = tab[d]
                                  /\ seen'[d] = seen[d]
  BY <1>0 DEF TypeInv, TypeOK, ClickShape, SyncInv
<1>2. Calm' \subseteq Calm /\ wire \subseteq Click
  BY <1>0, SyncType DEF Calm
<1>3. LoadedIsSaved'
  BY <1>0 DEF SyncInv, LoadedIsSaved
<1>4. ~saves /\ t \in Calm => draft[t] = canonical
  BY <1>0, SyncType DEF SyncInv, LoadedIsSaved, Calm
<1>5. ASSUME NEW d \in Click, tab'[d] \in Calm'
      PROVE  ClickInSync(d)'
  <2>1. CASE d = c
    BY <1>0, <1>1, <1>2, <1>4, <1>5, <2>1, SyncType DEF ClickInSync
  <2>2. CASE d # c
    BY <1>0, <1>1, <1>2, <1>5, <2>2 DEF SyncInv, ClickInSync
  <2> QED
    BY <2>1, <2>2
<1>6. ASSUME NEW d \in Click, NEW e \in wire', tab'[d] \in Calm', tab'[e] = tab'[d]
      PROVE  WireInSync(d, e)'
  <2>1. CASE d = c /\ e = c
    <3>1. pc'[c] # "acting"
      BY <1>0, <1>1, <1>6, <2>1
    <3> QED
      BY <1>0, <1>1, <2>1, <3>1 DEF WireInSync
  <2>2. CASE d = c /\ e # c
    <3>1. e \in wire /\ e \in Click /\ tab[e] = t /\ seen'[e] = seen[e]
      BY <1>0, <1>1, <1>2, <1>6, <2>2
    <3>2. ~saves /\ t \in Calm /\ t \notin dirty
      BY <1>0, <1>1, <1>2, <1>6, <2>2, <3>1 DEF Calm
    <3>3. seen[e] = draft[t]
      BY <3>1, <3>2 DEF SyncInv
    <3> QED
      BY <1>0, <1>1, <2>2, <3>1, <3>2, <3>3, SyncType DEF WireInSync
  <2>3. CASE d # c /\ e = c
    <3>1. tab[d] = t /\ t \in Calm /\ pc'[d] = pc[d] /\ seen'[d] = seen[d] /\ seen'[e] = draft[t]
      BY <1>1, <1>2, <1>6, <2>3
    <3>2. seen[d] <= draft[t]
      BY <3>1, NoneIsNothing DEF TypeInv, ClickShape
    <3> QED
      BY <1>0, <1>1, <2>3, <3>1, <3>2 DEF WireInSync
  <2>4. CASE d # c /\ e # c
    BY <1>0, <1>1, <1>2, <1>6, <2>4 DEF SyncInv, WireInSync
  <2> QED
    BY <2>1, <2>2, <2>3, <2>4
<1>7. ASSUME NEW e \in wire', tab'[e] \in Calm' \ dirty'
      PROVE  seen'[e] = draft'[tab'[e]]
  BY <1>0, <1>1, <1>2, <1>7 DEF SyncInv
<1>8. \A d \in Click : pc'[d] = "idle" => result'[d] = None
  BY <1>0, <1>1 DEF SyncInv
<1> QED
  BY <1>3, <1>5, <1>6, <1>7, <1>8 DEF SyncInv

LEMMA CommitSync == ASSUME TypeInv, SyncInv, NEW c \in Click, save_corrections(c)
                    PROVE  SyncInv'
<1>0. /\ c \in wire /\ wire' = wire \ {c} /\ committed' = committed \cup {c}
      /\ raced' = raced \cup (loaded \ {tab[c]}) /\ corrected' = seen[c]
      /\ UNCHANGED <<loaded, draft, dirty, tab, pc, seen, result>>
  BY DEF save_corrections, StoredData, Screen, Header, History
<1>1. canonical' = seen[c]
  BY <1>0, SyncType, NoneIsNothing DEF canonical
<1>2. \A t \in Calm' : t \in Calm /\ (t \in loaded => t = tab[c])
  BY <1>0 DEF Calm
<1>3. \A d \in Click : tab[d] \in Calm' => tab[d] = tab[c] /\ tab[d] \in Calm
  BY <1>2, NoneIsNothing, SyncType DEF TypeInv, ClickShape, Calm
<1>4. LoadedIsSaved'
  BY <1>0, <1>1, <1>2, SyncType DEF SyncInv, LoadedIsSaved, Calm
<1>5. ASSUME NEW d \in Click, tab[d] \in Calm'
      PROVE  ClickInSync(d)'
  <2>1. WireInSync(d, c) /\ ClickInSync(d)
    BY <1>0, <1>3, <1>5 DEF SyncInv
  <2> QED
    BY <1>0, <1>1, <2>1 DEF WireInSync, ClickInSync
<1>6. \A d \in Click : \A e \in wire' :
         tab[d] \in Calm' /\ tab[e] = tab[d] => WireInSync(d, e)'
  BY <1>0, <1>3 DEF SyncInv, WireInSync
<1>7. \A e \in wire' : tab[e] \in Calm' \ dirty => seen[e] = draft[tab[e]]
  BY <1>0, <1>3, SyncType DEF SyncInv
<1> QED
  BY <1>0, <1>4, <1>5, <1>6, <1>7 DEF SyncInv

LEMMA AnswerSync ==
  ASSUME TypeInv, SyncInv, NEW c \in Click, SaveRefused(c) \/ Act(c) \/ onSave(c) \/ Fail(c)
  PROVE  SyncInv'
<1>1. CASE SaveRefused(c)
  BY <1>1 DEF SaveRefused, Server, Screen, History, canonical, SyncInv, LoadedIsSaved,
     ClickInSync, WireInSync, Calm
<1>2. CASE Act(c) \/ onSave(c) \/ Fail(c)
  <2>0. /\ UNCHANGED <<corrected, loaded, open, draft, tab, wire, committed, seen, raced>>
        /\ canonical' = canonical /\ Calm' = Calm
    BY <1>2 DEF Act, onSave, Fail, Server, Screen, History, canonical, Calm
  <2>1. /\ pc[c] \in {"saving", "acting"}
        /\ \A d \in Click : d # c => pc'[d] = pc[d] /\ result'[d] = result[d]
    BY <1>2 DEF Act, onSave, Fail, History, TypeInv, TypeOK
  <2>2. \/ /\ pc'[c] \in {"done", "failed"} /\ dirty' = dirty
           /\ \/ result'[c] = result[c]
              \/ pc[c] = "acting" /\ pc'[c] = "done" /\ result'[c] = canonical
        \/ /\ pc[c] = "saving" /\ c \in committed /\ pc'[c] \in {"done", "acting"}
           /\ dirty' = dirty \ {tab[c]} /\ result'[c] = result[c]
    BY <1>2, SyncType DEF Act, onSave, Fail, History, TypeInv, TypeOK
  <2>3. tab[c] \in Calm /\ pc[c] = "saving" /\ c \in committed
          => /\ draft[tab[c]] = canonical /\ seen[c] = canonical
             /\ \A d \in wire : tab[d] = tab[c] => seen[d] = draft[tab[c]]
    BY DEF SyncInv, ClickInSync, WireInSync
  <2>4. LoadedIsSaved'
    BY <2>0, <2>2, <2>3, SyncType DEF SyncInv, LoadedIsSaved, Calm
  <2>5. ASSUME NEW d \in Click, tab[d] \in Calm
        PROVE  ClickInSync(d)'
    <3>1. ClickInSync(d)
      BY <2>5 DEF SyncInv
    <3>2. CASE d # c
      BY <2>0, <2>1, <3>1, <3>2 DEF ClickInSync
    <3>3. CASE d = c
      BY <2>0, <2>1, <2>2, <2>3, <2>5, <3>1, <3>3, SyncType DEF ClickInSync
    <3> QED
      BY <3>2, <3>3
  <2>6. ASSUME NEW d \in Click, NEW e \in wire, tab[d] \in Calm, tab[e] = tab[d]
        PROVE  WireInSync(d, e)'
    <3>1. WireInSync(d, e)
      BY <2>6 DEF SyncInv
    <3>2. CASE d # c
      BY <2>0, <2>1, <3>1, <3>2 DEF WireInSync
    <3>3. CASE d = c
      BY <2>0, <2>1, <2>2, <2>3, <2>6, <3>1, <3>3, SyncType DEF WireInSync
    <3> QED
      BY <3>2, <3>3
  <2>7. \A e \in wire : tab[e] \in Calm \ dirty' => seen[e] = draft[tab[e]]
    BY <2>0, <2>2, <2>3 DEF SyncInv
  <2>8. \A d \in Click : pc'[d] = "idle" => result'[d] = None
    BY <2>1, <2>2 DEF SyncInv
  <2> QED
    BY <2>0, <2>4, <2>5, <2>6, <2>7, <2>8 DEF SyncInv
<1> QED
  BY <1>1, <1>2

LEMMA SyncStep == TypeInv /\ SyncInv /\ [Next]_vars => SyncInv'
<1> SUFFICES ASSUME TypeInv, SyncInv, [Next]_vars
             PROVE  SyncInv'
  OBVIOUS
<1>1. ASSUME NEW c \in Click, NEW t \in Tab,
             onSaveClick(c, t) \/ onApprove(c, t) \/ onExport(c, t)
      PROVE  SyncInv'
  <2>1. (t \in dirty) \in BOOLEAN
    OBVIOUS
  <2> QED
    BY <1>1, <2>1, PressSync DEF onSaveClick, onApprove, onExport, Action
<1>2. ASSUME NEW t \in Tab, Fullscreen(t)
      PROVE  SyncInv'
  BY <1>2 DEF Fullscreen, Server, Screen, History, canonical, SyncInv, LoadedIsSaved,
     ClickInSync, WireInSync, Calm
<1>3. CASE UNCHANGED vars
  BY <1>3 DEF vars, canonical, SyncInv, LoadedIsSaved, ClickInSync, WireInSync, Calm
<1>4. ASSUME NEW t \in Tab, ReviewWorkspace(t)
      PROVE  SyncInv'
  BY <1>4 DEF ReviewWorkspace, Server, Header, History, canonical, SyncInv, LoadedIsSaved,
     ClickInSync, WireInSync, Calm
<1> QED
  BY <1>1, <1>2, <1>3, <1>4, LoadSync, EditSync, CommitSync, AnswerSync DEF Next

LEMMA SyncInvariant == Spec => []SyncInv
<1>1. Init => SyncInv
  BY NoneIsNothing DEF Init, SyncInv, LoadedIsSaved, Calm
<1> QED
  BY <1>1, SyncStep, TypeInvariant, PTL DEF Spec

(* A tab that shows "Saved" shows what the server has, whatever fails, is   *)
(* lost or commits late, unless it edited or saved during a save or another *)
(* tab saved.                                                               *)
THEOREM CleanTabsAreCurrent == Spec => []CleanIsSaved
<1>1. TypeInv /\ SyncInv => CleanIsSaved
  BY SyncType DEF SyncInv, LoadedIsSaved, CleanIsSaved
<1> QED
  BY <1>1, SyncInvariant, TypeInvariant, PTL

(* Under the same conditions a sign-off and a download cover the edits that *)
(* were on the screen at the click.                                         *)
THEOREM SignOffCoversScreen == Spec => []SignOffIsCurrent
<1>1. TypeInv /\ SyncInv => SignOffIsCurrent
  <2> SUFFICES ASSUME TypeInv, SyncInv, NEW c \in Click, result[c] # None, tab[c] \notin raced
               PROVE  result[c] >= seen[c]
    BY DEF SignOffIsCurrent
  <2>1. tab[c] \in Calm
    BY SyncType DEF TypeInv, ClickShape, SyncInv, Calm
  <2>2. seen[c] <= result[c] /\ seen[c] \in Nat /\ result[c] \in Nat
    BY <2>1, SyncType DEF SyncInv, ClickInSync, TypeInv, TypeOK, Version
  <2> QED
    BY <2>2
<1> QED
  BY <1>1, SyncInvariant, TypeInvariant, PTL

(* Edits stop being unsaved only by a save of their tab that was committed  *)
(* and answered.                                                            *)
THEOREM FailuresKeepEdits == Spec => EditsStayUnsaved
<1>1. TypeInv /\ [Next]_vars
        => \A t \in dirty \ dirty' :
             \E c \in committed : tab[c] = t /\ pc[c] = "saving" /\ pc'[c] # "saving"
  <2> SUFFICES ASSUME TypeInv, [Next]_vars, NEW t \in dirty \ dirty'
               PROVE  \E c \in committed : tab[c] = t /\ pc[c] = "saving" /\ pc'[c] # "saving"
    OBVIOUS
  <2>1. PICK c \in Click : onSave(c)
    BY DEF Next, vars, getExtraction, ReviewWorkspace, updateField, Fullscreen, onSaveClick, onApprove,
       onExport, Press, save_corrections, SaveRefused, Act, Fail, Screen
  <2>2. pc' \in {[pc EXCEPT ![c] = "done"], [pc EXCEPT ![c] = "acting"]}
    BY <2>1 DEF onSave
  <2> QED
    BY <2>1, <2>2, SyncType DEF onSave
<1> QED
  BY <1>1, TypeInvariant, PTL DEF Spec, EditsStayUnsaved
=============================================================================
