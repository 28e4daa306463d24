---------------------------- MODULE ReviewSession ----------------------------
(***************************************************************************)
(* The review of one completed extraction: browser tabs edit a draft of    *)
(* its data, save it, approve it and download it (review-workspace.tsx and *)
(* review-header.tsx under frontend/src/components/review), while the      *)
(* routes of backend/routes/extraction.py run in worker threads and commit *)
(* in any order.                                                           *)
(*                                                                         *)
(* Data is a version: every edit makes a new one, which contains the       *)
(* earlier edits of its tab.  Version 0 is what the model extracted.       *)
(***************************************************************************)
EXTENDS Naturals, FiniteSets

CONSTANTS Tab,      \* browser tabs that show the extraction
          Click,    \* clicks on Save, Approve or a download
          None,     \* no value
          MaxEdits  \* bound: edits

ASSUME ReviewAssumption == /\ MaxEdits \in Nat
                           /\ None \notin Tab \cup Click \cup Nat

VARIABLES
  corrected,  \* extractions.corrected_data
  approved,   \* extractions.approved_at is set
  edits,      \* how many versions there are
  loaded,     \* the tabs whose page has been answered with the data
  open,       \* the tabs whose workspace is mounted
  draft,      \* draftRef of each tab, and before the mount the data it is made of
  dirty,      \* the tabs with unsaved edits
  saving,     \* the click each header's saving flag stands for
  approving,  \* likewise for its approving flag
  kind,       \* what a click asks for
  tab,        \* the tab it was made in
  pc,         \* the request its handler awaits
  wire,       \* the saves the server has yet to commit
  committed,  \* the saves it has committed
  seen,       \* history: the version on the screen at the click, which a save carries
  result,     \* history: the version that was approved or downloaded
  raced       \* history: the tabs that edited or saved during a save, or
              \* that another tab's save has overtaken since they were loaded

vars == <<corrected, approved, edits, loaded, open, draft, dirty, saving, approving,
          kind, tab, pc, wire, committed, seen, result, raced>>

Server  == <<corrected, approved>>
Screen  == <<edits, loaded, open, draft>>
Header  == <<saving, approving>>
History == <<seen, result>>

Action == {"save", "approve", "export"}

Init == /\ corrected = None
        /\ approved = FALSE
        /\ edits = 0
        /\ loaded = {} /\ open = {}
        /\ draft = [t \in Tab |-> 0]
        /\ dirty = {}
        /\ saving = [t \in Tab |-> None]
        /\ approving = [t \in Tab |-> None]
        /\ kind = [c \in Click |-> None]
        /\ tab = [c \in Click |-> None]
        /\ pc = [c \in Click |-> "idle"]
        /\ wire = {}
        /\ committed = {}
        /\ seen = [c \in Click |-> 0]
        /\ result = [c \in Click |-> None]
        /\ raced = {}

(* Reviewer corrections win over the model's raw output. *)
canonical == IF corrected # None THEN corrected ELSE 0

-----------------------------------------------------------------------------
(* The page. *)

(* The server answers the page's GET. *)
getExtraction(t) ==
  /\ t \notin loaded
  /\ loaded' = loaded \cup {t}
  /\ draft' = [draft EXCEPT ![t] = canonical]
  /\ UNCHANGED <<Server, edits, open, dirty, Header, kind, tab, pc, wire, committed,
                 History, raced>>

(* The answer arrives and the workspace mounts with it, old or not. *)
ReviewWorkspace(t) ==
  /\ t \in loaded \ open
  /\ open' = open \cup {t}
  /\ UNCHANGED <<Server, edits, loaded, draft, dirty, Header, kind, tab, pc, wire,
                 committed, History, raced>>

(* The tab waits for a save of its own. *)
Saves(t) == {c \in Click : tab[c] = t /\ pc[c] = "saving"}

(* A field loses the focus.  Fields stay editable during a save. *)
updateField(t) ==
  /\ t \in open
  /\ edits < MaxEdits
  /\ edits' = edits + 1
  /\ draft' = [draft EXCEPT ![t] = edits + 1]
  /\ dirty' = dirty \cup {t}
  /\ raced' = IF Saves(t) # {} THEN raced \cup {t} ELSE raced
  /\ UNCHANGED <<Server, loaded, open, Header, kind, tab, pc, wire, committed, History>>

(* Entering or leaving fullscreen mounts a new header, whose flags are down. *)
Fullscreen(t) ==
  /\ <<saving[t], approving[t]>> # <<None, None>>
  /\ saving' = [saving EXCEPT ![t] = None]
  /\ approving' = [approving EXCEPT ![t] = None]
  /\ UNCHANGED <<Server, Screen, dirty, kind, tab, pc, wire, committed, History, raced>>

-----------------------------------------------------------------------------
(* The buttons. *)

(* A click whose handler first saves the draft sends a copy of it at once. *)
Press(c, t, k, saves) ==
  /\ t \in open
  /\ pc[c] = "idle"
  /\ kind' = [kind EXCEPT ![c] = k]
  /\ tab' = [tab EXCEPT ![c] = t]
  /\ seen' = [seen EXCEPT ![c] = draft[t]]
  /\ pc' = [pc EXCEPT ![c] = IF saves THEN "saving" ELSE "acting"]
  /\ wire' = IF saves THEN wire \cup {c} ELSE wire
  /\ raced' = IF saves /\ \E d \in wire : tab[d] = t THEN raced \cup {t} ELSE raced
  /\ UNCHANGED <<Server, Screen, dirty, committed, result>>

(* Disabled without edits and while its own save runs. *)
onSaveClick(c, t) ==
  /\ t \in dirty
  /\ saving[t] = None
  /\ Press(c, t, "save", TRUE)
  /\ saving' = [saving EXCEPT ![t] = c]
  /\ UNCHANGED approving

(* Bug: the draft is not saved first. *)
Bug_approve_without_save(c, t) ==
  /\ approving[t] = None
  /\ Press(c, t, "approve", FALSE)
  /\ approving' = [approving EXCEPT ![t] = c]
  /\ UNCHANGED saving

(* Disabled while its own approval runs, and not while a save does. *)
onApprove(c, t) ==
  /\ approving[t] = None
  /\ Press(c, t, "approve", t \in dirty)
  /\ approving' = [approving EXCEPT ![t] = c]
  /\ UNCHANGED saving

onExport(c, t) ==
  /\ Press(c, t, "export", t \in dirty)
  /\ UNCHANGED Header

(* Bug: the approving flag stays up. *)
Bug_approving_stays(c) ==
  /\ saving' = [t \in Tab |-> IF saving[t] = c THEN None ELSE saving[t]]
  /\ UNCHANGED approving

(* The handler is over; it takes its flag down if its header still stands. *)
Release(c) ==
  /\ saving' = [t \in Tab |-> IF saving[t] = c THEN None ELSE saving[t]]
  /\ approving' = [t \in Tab |-> IF approving[t] = c THEN None ELSE approving[t]]

-----------------------------------------------------------------------------
(* The routes. *)

(* Bug: a second save of an extraction is ignored. *)
Bug_first_save_wins(c) == IF corrected = None THEN seen[c] ELSE corrected

StoredData(c) == seen[c]

(* PUT /extractions/{id}/corrections *)
save_corrections(c) ==
  /\ c \in wire
  /\ corrected' = StoredData(c)
  /\ wire' = wire \ {c}
  /\ committed' = committed \cup {c}
  /\ raced' = raced \cup (loaded \ {tab[c]})
  /\ UNCHANGED <<approved, Screen, dirty, Header, kind, tab, pc, History>>

(* The request never gets there, or the edit is not a canonical invoice. *)
SaveRefused(c) ==
  /\ c \in wire
  /\ wire' = wire \ {c}
  /\ UNCHANGED <<Server, Screen, dirty, Header, kind, tab, pc, committed, History, raced>>

(* POST .../approve stamps the row, GET .../export serializes it. *)
Act(c) ==
  /\ pc[c] = "acting"
  /\ result' = [result EXCEPT ![c] = canonical]
  /\ approved' = (approved \/ kind[c] = "approve")
  /\ pc' = [pc EXCEPT ![c] = "done"]
  /\ Release(c)
  /\ UNCHANGED <<corrected, Screen, dirty, kind, tab, wire, committed, seen, raced>>

-----------------------------------------------------------------------------
(* The answers. *)

(* Bug: the edits count as saved although the request failed. *)
Bug_failure_is_clean(c) ==
  /\ pc[c] = "saving"
  /\ c \notin wire
  /\ dirty' = dirty \ {tab[c]}
  /\ IF kind[c] = "save"
     THEN pc' = [pc EXCEPT ![c] = "done"] /\ Release(c)
     ELSE pc' = [pc EXCEPT ![c] = "acting"] /\ UNCHANGED Header
  /\ UNCHANGED <<Server, Screen, kind, tab, wire, committed, History, raced>>

(* saveCorrections has resolved: setDirty(false), whatever was edited since. *)
onSave(c) ==
  /\ pc[c] = "saving"
  /\ c \in committed
  /\ dirty' = dirty \ {tab[c]}
  /\ IF kind[c] = "save"
     THEN pc' = [pc EXCEPT ![c] = "done"] /\ Release(c)
     ELSE pc' = [pc EXCEPT ![c] = "acting"] /\ UNCHANGED Header
  /\ UNCHANGED <<Server, Screen, kind, tab, wire, committed, History, raced>>

(* An error answer, or no answer: the server may or may not have committed, *)
(* or may commit later.                                                     *)
Fail(c) ==
  /\ pc[c] \in {"saving", "acting"}
  /\ pc' = [pc EXCEPT ![c] = "failed"]
  /\ Release(c)
  /\ UNCHANGED <<Server, Screen, dirty, kind, tab, wire, committed, History, raced>>

Next == \/ \E t \in Tab : \/ getExtraction(t) \/ ReviewWorkspace(t)
                          \/ updateField(t) \/ Fullscreen(t)
                          \/ \E c \in Click : \/ onSaveClick(c, t)
                                              \/ onApprove(c, t)
                                              \/ onExport(c, t)
        \/ \E c \in Click : \/ save_corrections(c) \/ SaveRefused(c)
                            \/ Act(c) \/ onSave(c) \/ Fail(c)

Spec == Init /\ [][Next]_vars

-----------------------------------------------------------------------------
(* Properties. *)

Version == 0 .. edits

(* Every variable has its type; data is a version that was on a screen, and *)
(* a flag is up only for a click whose handler runs.                        *)
TypeOK == /\ corrected \in Version \cup {None}
          /\ approved \in BOOLEAN
          /\ edits \in Nat
          /\ loaded \subseteq Tab /\ open \subseteq loaded
          /\ draft \in [Tab -> Version]
          /\ dirty \subseteq open
          /\ saving \in [Tab -> Click \cup {None}]
          /\ approving \in [Tab -> Click \cup {None}]
          /\ kind \in [Click -> Action \cup {None}]
          /\ tab \in [Click -> Tab \cup {None}]
          /\ pc \in [Click -> {"idle", "saving", "acting", "done", "failed"}]
          /\ wire \subseteq Click /\ committed \subseteq Click
          /\ seen \in [Click -> Version]
          /\ result \in [Click -> Version \cup {None}]
          /\ raced \subseteq loaded
          /\ \A t \in Tab : \A c \in {saving[t], approving[t]} \ {None} :
                pc[c] \in {"saving", "acting"} /\ tab[c] = t

(* A tab that shows "Saved" shows what the server has, unless it edited or  *)
(* saved again while a save was running, or another tab saved.  No request  *)
(* that fails, is lost or commits late breaks that.                         *)
CleanIsSaved == \A t \in open \ raced : t \notin dirty => draft[t] = canonical

(* Under the same conditions an approval and a download cover at least the  *)
(* edits that were on the screen at the click.                              *)
SignOffIsCurrent ==
  \A c \in Click : result[c] # None /\ tab[c] \notin raced => result[c] >= seen[c]

(* Edits stop being unsaved only when a save of that tab was committed and  *)
(* answered: never because a request failed, or because another tab saved.  *)
EditsStayUnsaved ==
  [][\A t \in dirty \ dirty' :
       \E c \in committed : tab[c] = t /\ pc[c] = "saving" /\ pc'[c] # "saving"]_vars
=============================================================================
