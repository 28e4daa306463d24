----------------------------- MODULE ReviewFields -----------------------------
(***************************************************************************)
(* The editable fields of the review screen (frontend/src/components/      *)
(* review).  A field is a contentEditable element React does not control:   *)
(* its text is the user's until a render passes a new value, and it reaches *)
(* the draft when it loses the focus (confidence-row.tsx, totals-block.tsx, *)
(* line-items-table.tsx, review-edit-context.tsx).  The pane is mounted in  *)
(* the split layout or in the drawer of the fullscreen overlay, and renders *)
(* when dirty changes, not when a draft that is dirty does                  *)
(* (review-workspace.tsx).                                                  *)
(*                                                                         *)
(* Four fields stand for all: a required one of a party that may be missing, *)
(* an optional one with a chip and one without, and a required one of an    *)
(* object that is never made (a total, a cell of a line item).  Saves do    *)
(* not overlap each other or a reload here; those that do are in            *)
(* ReviewSession.                                                           *)
(***************************************************************************)
EXTENDS Naturals, FiniteSets

CONSTANTS None,     \* a null
          Loaded,   \* the documents a page may load, see Doc
          MaxTypes, \* bound: texts typed
          MaxFlags  \* bound: rows confirmed at a time

Party == {"name", "tin", "address"}
Field == Party \cup {"amount"}
Row   == Field \cup {"party_type"}    \* the rows with a score

(* The rows with a chip: that of an address takes the full width instead,   *)
(* and shows its state by its colour and placeholder only.                  *)
ChipRow == Row \ {"address"}

(* Values of a field: white space, a placeholder, well formed, of an odd    *)
(* format; and what is typed: a good value, or one the schema refuses       *)
(* where it asks for a number.                                              *)
Given == {None, "blank", "dash", "good", "odd"}
Text  == {"blank", "dash", "new", "junk"}
Value == Given \cup Text

VARIABLES
  base,       \* the extraction as the model produced it, and whether its party
              \* type is known and its totals add up
  server,     \* corrected_data, or canonical_data without corrections
  draft,      \* draftRef
  dirty,
  wire,       \* the draft a running save carries
  fullscreen, drawerOpen,
  rendered,   \* what the last render of the pane passed to each row
  text,       \* the text of each field on the screen
  focus,      \* the field with the focus
  confirmed,  \* the confirmation flags, in localStorage
  types,      \* how many texts were typed
  typedIn,    \* history: the fields a text was typed in
  badIn       \* history: those in which it was not a value of the field

vars == <<base, server, draft, dirty, wire, fullscreen, drawerOpen, rendered,
          text, focus, confirmed, types, typedIn, badIn>>

Typed == <<types, typedIn, badIn>>

(* The document: is there a seller, a total, and what do the fields hold?   *)
Doc == [seller : BOOLEAN, money : BOOLEAN, value : [Field -> Value]]

ASSUME NoneAssumption ==
  None \notin Field \cup Doc \cup {"blank", "dash", "good", "odd", "new", "junk"}

WellFormed(d) ==
  /\ ~d.seller => \A f \in Party : d.value[f] = None
  /\ ~d.money => d.value["amount"] = None

(* What the backend refuses with a 422: a party without name, an amount     *)
(* that is no number (angar_schema/canonical.py).                           *)
valid(d) == /\ d.seller => d.value["name"] # None
            /\ d.money => d.value["amount"] \in {"good", "new"}

(* The backend stores valid invoices only. *)
ASSUME FieldsAssumption ==
  /\ MaxTypes \in Nat /\ MaxFlags \in Nat
  /\ Loaded \subseteq {d \in Doc : WellFormed(d) /\ valid(d)
                                  /\ \A f \in Field : d.value[f] \in Given}

-----------------------------------------------------------------------------
(* Scores and states. *)

(* The score of a row in percent, set once by the backend                   *)
(* (backend/confidence.py) and never after a correction.                    *)
score(r) ==
  LET v == base.doc.value[r] IN
  IF r = "party_type" THEN IF ~base.doc.seller THEN 0 ELSE IF base.sure THEN 100 ELSE 40
  ELSE IF v = None THEN 0
  ELSE IF r = "amount" THEN IF base.sure THEN 100 ELSE 70
  ELSE CASE v \in {"blank", "dash"} -> 40 [] v = "odd" /\ r = "tin" -> 85 [] OTHER -> 100

VERIFIED_THRESHOLD == 85

fieldState(present, s, isConfirmed) ==
  IF isConfirmed THEN "verified"
  ELSE IF ~present THEN "empty"
  ELSE IF s >= VERIFIED_THRESHOLD THEN "verified" ELSE "check"

(* Bug: the summary puts a score at the threshold into the lower band. *)
Bug_band_excludes_threshold(s) ==
  IF s > VERIFIED_THRESHOLD THEN "verified" ELSE IF s > 0 THEN "check" ELSE "empty"

(* The band the summary counts a score in. *)
summarizeFieldStates(s) ==
  IF s >= VERIFIED_THRESHOLD THEN "verified" ELSE IF s > 0 THEN "check" ELSE "empty"

(* The text of a value: a row without one shows a placeholder of its style  *)
(* sheet.                                                                   *)
isPresent(v) == v \notin {None, "blank"}
TextOf(v)    == IF isPresent(v) THEN v ELSE "blank"

(* What the rows are passed: values, and whether there is a party.          *)
Passed(d) == [r \in Row |-> IF r \in Field THEN d.value[r]
                            ELSE IF d.seller THEN "good" ELSE None]

(* The child of the element of field f for the value v: nothing in an empty *)
(* row, also if the value is white space; an amount is always there.        *)
Child(f, v, flags) ==
  IF f # "amount" /\ fieldState(isPresent(v), score(f), f \in flags) = "empty" THEN None ELSE v

(* The state a row was last rendered in; its chip, if it has one, says so. *)
RowState(r) == fieldState(isPresent(rendered[r]), score(r), r \in confirmed)

ExtractionSummary(s) == Cardinality({r \in Row : summarizeFieldStates(score(r)) = s})

-----------------------------------------------------------------------------
(* Rendering. *)

PaneShown == fullscreen => drawerOpen

(* The pane is mounted with the document d. *)
Mount(d) ==
  /\ rendered' = Passed(d)
  /\ text' = [f \in Field |-> TextOf(d.value[f])]
  /\ focus' = None

(* React writes the text of the fields whose child, for the values now and  *)
(* these flags, is not the one of the last render; also under the caret.    *)
Write(now, flags) ==
  text' = [f \in Field |-> IF Child(f, now[f], flags) # Child(f, rendered[f], confirmed)
                           THEN TextOf(Child(f, now[f], flags)) ELSE text[f]]

(* The mounted pane is rendered with d. *)
Render(d) == rendered' = Passed(d) /\ Write(Passed(d), confirmed)

Init ==
  /\ base \in [doc : Loaded, sure : BOOLEAN]
  /\ server = base.doc /\ draft = base.doc
  /\ dirty = FALSE /\ wire = None
  /\ fullscreen = FALSE /\ drawerOpen = FALSE
  /\ rendered = Passed(base.doc)
  /\ text = [f \in Field |-> TextOf(base.doc.value[f])]
  /\ focus = None /\ confirmed = {}
  /\ types = 0 /\ typedIn = {} /\ badIn = {}

-----------------------------------------------------------------------------
(* Editing. *)

commitText(t) == IF t \in {"blank", "dash"} THEN None ELSE t

(* Bug: the object on the path is always made anew. *)
Bug_replaces_parent(d, f, v) ==
  [d EXCEPT !.value = [g \in Field |-> IF g = f THEN v
                                       ELSE IF f = "tin" /\ g = "name" THEN None ELSE @[g]],
            !.seller = @ \/ f \in Party]

(* A missing party is made, with this one value in it. *)
setByPath(d, f, v) ==
  [d EXCEPT !.value[f] = v, !.seller = @ \/ f \in Party]

(* Bug: the placeholder of a missing total is editable. *)
Bug_missing_amount_editable(f) == TRUE

(* A total that is missing has no editable amount. *)
Editable(f) == f = "amount" => draft.money

Focus(f) ==
  /\ PaneShown /\ focus = None /\ Editable(f)
  /\ focus' = f
  /\ UNCHANGED <<base, server, draft, dirty, wire, fullscreen, drawerOpen,
                 rendered, text, confirmed, Typed>>

Type(f, t) ==
  /\ focus = f /\ types < MaxTypes
  /\ text' = [text EXCEPT ![f] = t]
  /\ types' = types + 1
  /\ typedIn' = typedIn \cup {f}
  /\ badIn' = IF commitText(t) = None \/ (f = "amount" /\ t = "junk") THEN badIn \cup {f} ELSE badIn
  /\ UNCHANGED <<base, server, draft, dirty, wire, fullscreen, drawerOpen,
                 rendered, focus, confirmed>>

(* Bug: the currency beside an amount is part of its text. *)
Bug_currency_in_text(f) == IF f = "amount" THEN "junk" ELSE text[f]

textContent(f) == text[f]

(* onBlur: the text goes into the draft whether or not it was changed.  The *)
(* screen renders if the draft was clean.                                   *)
Blur ==
  /\ focus # None
  /\ draft' = setByPath(draft, focus, commitText(textContent(focus)))
  /\ dirty' = TRUE
  /\ focus' = None
  /\ IF dirty THEN UNCHANGED <<rendered, text>> ELSE Render(draft')
  /\ UNCHANGED <<base, server, wire, fullscreen, drawerOpen, confirmed, Typed>>

(* The flags in the storage of the browser, which outlive the page. *)
setVerified(r, verified) == IF verified THEN confirmed \cup {r} ELSE confirmed \ {r}

(* A click on a chip renders its row, with what it was last passed: a value, *)
(* or for an amount the object of the draft that holds it.                  *)
toggle(r) ==
  /\ PaneShown /\ focus = None
  /\ r \notin confirmed => Cardinality(confirmed) < MaxFlags
  /\ confirmed' = setVerified(r, r \notin confirmed)
  /\ rendered' = IF r = "amount" THEN [rendered EXCEPT ![r] = draft.value[r]] ELSE rendered
  /\ Write(rendered', confirmed')
  /\ UNCHANGED <<base, server, draft, dirty, wire, fullscreen, drawerOpen, focus, Typed>>

-----------------------------------------------------------------------------
(* The two places of the pane. *)

(* Bug: the drawer shows what the screen was opened with. *)
Bug_pane_shows_server(d) == server

(* The pane reads the draft. *)
PaneData(d) == d

(* Both ways by a click or the f key; a click takes the focus first.  The   *)
(* drawer is open at first, and not there while the chunk of the overlay is *)
(* on its way: Drawer stands for its arrival too.                           *)
onToggleFullscreen ==
  /\ focus = None
  /\ fullscreen' = ~fullscreen
  /\ drawerOpen' \in {FALSE, ~fullscreen}
  /\ Mount(PaneData(draft))
  /\ UNCHANGED <<base, server, draft, dirty, wire, confirmed, Typed>>

(* Esc closes the overlay, also under the caret: React does not call onBlur *)
(* for an element it removes, and the text of that field is lost.           *)
Escape ==
  /\ fullscreen
  /\ fullscreen' = FALSE /\ drawerOpen' = FALSE
  /\ Mount(PaneData(draft))
  /\ UNCHANGED <<base, server, draft, dirty, wire, confirmed, Typed>>

Drawer ==
  /\ fullscreen /\ focus = None
  /\ drawerOpen' = ~drawerOpen
  /\ Mount(PaneData(draft))
  /\ UNCHANGED <<base, server, draft, dirty, wire, fullscreen, confirmed, Typed>>

-----------------------------------------------------------------------------
(* Saving. *)

onSave ==
  /\ PaneShown /\ focus = None /\ dirty /\ wire = None
  /\ wire' = draft
  /\ UNCHANGED <<base, server, draft, dirty, fullscreen, drawerOpen, rendered,
                 text, focus, confirmed, Typed>>

(* setDirty(false) renders the screen, whatever has the focus now. *)
Saved ==
  /\ wire # None /\ valid(wire)
  /\ server' = wire /\ wire' = None
  /\ dirty' = FALSE
  /\ IF PaneShown THEN Render(draft) ELSE UNCHANGED <<rendered, text>>
  /\ UNCHANGED <<base, draft, fullscreen, drawerOpen, focus, confirmed, Typed>>

(* The data is not a canonical invoice, or the request fails. *)
SaveFails ==
  /\ wire # None
  /\ wire' = None
  /\ UNCHANGED <<base, server, draft, dirty, fullscreen, drawerOpen, rendered,
                 text, focus, confirmed, Typed>>

(* The page is left and opened again: unsaved edits are gone, corrections   *)
(* win over the model's output.                                             *)
Reopen ==
  /\ wire = None
  /\ draft' = server /\ dirty' = FALSE
  /\ fullscreen' = FALSE /\ drawerOpen' = FALSE
  /\ Mount(server)
  /\ UNCHANGED <<base, server, wire, confirmed, Typed>>

Next == \/ \E f \in Field : Focus(f) \/ \E t \in Text : Type(f, t)
        \/ Blur \/ onToggleFullscreen \/ Escape \/ Drawer
        \/ \E r \in ChipRow : toggle(r)
        \/ onSave \/ Saved \/ SaveFails \/ Reopen

Spec == Init /\ [][Next]_vars

-----------------------------------------------------------------------------
(* Properties. *)

(* Every variable has its type; only a field on the screen has the focus.   *)
TypeOK ==
  /\ base.doc \in Doc /\ base.sure \in BOOLEAN
  /\ server \in Doc /\ draft \in Doc
  /\ WellFormed(server) /\ WellFormed(draft)
  /\ wire \in Doc \cup {None}
  /\ dirty \in BOOLEAN /\ fullscreen \in BOOLEAN /\ drawerOpen \in BOOLEAN
  /\ rendered \in [Row -> Value] /\ text \in [Field -> Value \ {None}]
  /\ focus \in Field \cup {None} /\ confirmed \subseteq ChipRow
  /\ types \in 0 .. MaxTypes /\ typedIn \subseteq Field /\ badIn \subseteq typedIn
  /\ focus # None => PaneShown

(* Every field on the screen but the one being typed in shows what a save   *)
(* sends, although the pane is not rendered for most edits: across blurs,   *)
(* answers of saves under the caret, and both places of the pane            *)
(* (review-workspace.tsx:49-52).  A field that was white space is excluded: *)
(* a click on its chip brings the white space back over an edit made while  *)
(* the draft was dirty.                                                     *)
ScreenIsDraft ==
  PaneShown => \A f \in Field \ {focus} :
     base.doc.value[f] # "blank" => commitText(text[f]) = commitText(draft.value[f])

(* A field nobody typed in keeps its value, a placeholder or a null at       *)
(* most: looking through the fields, confirming them, zooming and saving     *)
(* change nothing (totals-block.tsx:119-122, confidence-row.tsx:24-26).      *)
OnlyTypingChanges ==
  \A f \in Field \ typedIn : \A d \in {draft, server} :
     commitText(d.value[f]) = commitText(base.doc.value[f])

(* What the server stores is a valid invoice.  A save of good values is not *)
(* refused, if the seller was there with a good name: without one, a click  *)
(* into an empty field of the seller makes a party without name.            *)
DraftStaysValid ==
  /\ valid(server)
  /\ base.doc.value["name"] = "good" /\ badIn = {} => valid(draft)

(* The counts of the summary are those of the states the rows are in        *)
(* (confidence.ts:61-66), before anything is confirmed or edited, unless a  *)
(* value is white space: the backend scores it, the row calls it empty.     *)
(* The rows include the addresses, which show their state without a chip:   *)
(* counted on the chips alone the summary is ahead by those.                *)
SummaryMatchesRows ==
  /\ PaneShown /\ confirmed = {} /\ rendered = Passed(base.doc)
  /\ \A f \in Field : base.doc.value[f] # "blank"
  => \A s \in {"verified", "check", "empty"} :
        ExtractionSummary(s) = Cardinality({r \in Row : RowState(r) = s})
=============================================================================
