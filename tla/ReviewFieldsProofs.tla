-------------------------- MODULE ReviewFieldsProofs --------------------------
(***************************************************************************)
(* Safety of ReviewFields for every set of documents a page may load and   *)
(* any number of texts typed: what is on the screen is what a save sends,  *)
(* only typing changes a value, and the draft stays acceptable.            *)
(***************************************************************************)
EXTENDS ReviewFields, TLAPS

-----------------------------------------------------------------------------
(* Texts and values. *)

(* An empty field and a placeholder both mean null, once and for all. *)
LEMMA CommitTwice ==
  ASSUME NEW v \in Value
  PROVE  /\ commitText(v) \in Value \ {"blank", "dash"}
         /\ commitText(commitText(v)) = commitText(v)
BY NoneAssumption DEF commitText, Value, Given, Text

(* The text of a value commits to what the value does. *)
LEMMA TextOfValue ==
  ASSUME NEW v \in Value
  PROVE  /\ TextOf(v) \in Value \ {None}
         /\ commitText(TextOf(v)) = commitText(v)
         /\ v \in {"good", "new"} => TextOf(v) = v
BY NoneAssumption DEF TextOf, isPresent, commitText, Value, Given, Text

(* The child of a field is its value, unless that is white space. *)
LEMMA ChildOfValue ==
  ASSUME NEW f \in Field, NEW v \in Value, NEW flags
  PROVE  /\ v # "blank" => Child(f, v, flags) = v
         /\ Child(f, v, flags) \in {v, None}
         /\ Child(f, v, flags) = None => TextOf(v) = "blank"
<1>1. fieldState(isPresent(v), score(f), f \in flags) = "empty" => v \in {None, "blank"}
  BY DEF fieldState, isPresent
<1> QED
  BY <1>1, NoneAssumption DEF Child, TextOf, isPresent

(* A value is set where it was typed and nowhere else; a missing party is   *)
(* made, a missing total never is.                                          *)
LEMMA SetByPath ==
  ASSUME NEW d \in Doc, WellFormed(d), NEW f \in Field, NEW v \in Value,
         f = "amount" => d.money
  PROVE  /\ setByPath(d, f, v) \in Doc
         /\ WellFormed(setByPath(d, f, v))
         /\ setByPath(d, f, v).money = d.money
         /\ setByPath(d, f, v).value = [d.value EXCEPT ![f] = v]
<1> DEFINE e == setByPath(d, f, v)
<1>1. /\ e.money = d.money
      /\ e.value = [d.value EXCEPT ![f] = v]
      /\ e.seller <=> d.seller \/ f \in Party
      /\ e = [seller |-> d.seller \/ f \in Party, money |-> d.money,
              value |-> [d.value EXCEPT ![f] = v]]
  <2> DEFINE p == [d EXCEPT !.value[f] = v]
  <2>1. /\ p = [seller |-> d.seller, money |-> d.money, value |-> [d.value EXCEPT ![f] = v]]
        /\ p.seller = d.seller
    BY DEF Doc
  <2>2. e = [p EXCEPT !.seller = p.seller \/ f \in Party]
    BY DEF setByPath
  <2> HIDE DEF p, e
  <2>3. e = [seller |-> d.seller \/ f \in Party, money |-> d.money,
             value |-> [d.value EXCEPT ![f] = v]]
    BY <2>1, <2>2
  <2> QED
    BY <2>3
<1> HIDE DEF e
<1>2. e.value \in [Field -> Value] /\ e.money \in BOOLEAN /\ (d.seller \/ f \in Party) \in BOOLEAN
  BY <1>1 DEF Doc
<1>3. e \in Doc
  BY <1>1, <1>2 DEF Doc
<1>4. \A g \in Field : g # f => e.value[g] = d.value[g]
  BY <1>1 DEF Doc
<1>5. WellFormed(e)
  BY <1>1, <1>4 DEF WellFormed, Field, Party
<1> QED
  BY <1>1, <1>3, <1>5 DEF e

-----------------------------------------------------------------------------
(* What the documents and the screen may hold. *)

Docs == {draft, server} \cup ({wire} \ {None})

(* A text that may stand in field f of a page loaded with document b: what  *)
(* was loaded, unless something was typed, and nothing that makes a save     *)
(* fail, unless that was typed.                                             *)
Meets(f, v, b, typed, bad) ==
  /\ f \notin typed => commitText(v) = commitText(b.value[f])
  /\ b.value["name"] = "good" /\ bad = {} =>
       /\ f = "name" => commitText(v) # None
       /\ f = "amount" /\ b.money => v \in {"good", "new"}

FitsText(f, v) == Meets(f, v, base.doc, typedIn, badIn)

(* A value a document may hold: white space only if it was loaded. *)
Fits(f, v) == /\ FitsText(f, v)
              /\ v = "blank" => base.doc.value[f] = "blank"

ShapeInv ==
  /\ base \in [doc : Loaded, sure : BOOLEAN]
  /\ \A d \in Docs : d \in Doc /\ WellFormed(d) /\ d.money = base.doc.money
  /\ focus = "amount" => base.doc.money

ContentInv ==
  /\ \A f \in Field : /\ \A d \in Docs : Fits(f, d.value[f])
                      /\ Fits(f, rendered[f])
                      /\ FitsText(f, text[f])
  /\ valid(server)

LEMMA LoadedDoc ==
  ASSUME ShapeInv
  PROVE  /\ base.doc \in Doc /\ base.sure \in BOOLEAN
         /\ WellFormed(base.doc) /\ valid(base.doc)
         /\ \A f \in Field : base.doc.value[f] \in Given
BY FieldsAssumption DEF ShapeInv

(* What a render passes to the rows, and what it leaves on the screen. *)
LEMMA PassedType ==
  ASSUME NEW d \in Doc
  PROVE  /\ Passed(d) \in [Row -> Value]
         /\ \A f \in Field : Passed(d)[f] = d.value[f] /\ d.value[f] \in Value
<1>1. "good" \in Value /\ None \in Value /\ Field \subseteq Row
  BY DEF Value, Given, Row
<1> QED
  BY <1>1 DEF Passed, Doc

LEMMA WriteResult ==
  ASSUME TypeOK, NEW now \in [Row -> Value], NEW flags, Write(now, flags)
  PROVE  /\ text' \in [Field -> Value \ {None}]
         /\ \A f \in Field :
              /\ text'[f] \in {text[f], TextOf(now[f])}
              /\ now[f] # "blank" /\ rendered[f] # "blank"
                   => text'[f] = IF now[f] = rendered[f] THEN text[f] ELSE TextOf(now[f])
<1> DEFINE before(f) == Child(f, rendered[f], confirmed)
           after(f)  == Child(f, now[f], flags)
<1>1. text' = [f \in Field |-> IF after(f) # before(f) THEN TextOf(after(f)) ELSE text[f]]
  BY DEF Write
<1>2. ASSUME NEW f \in Field
      PROVE  /\ rendered[f] \in Value /\ now[f] \in Value /\ text[f] \in Value \ {None}
  BY DEF TypeOK, Row
<1>3. ASSUME NEW f \in Field
      PROVE  /\ TextOf(after(f)) = TextOf(now[f])
             /\ now[f] # "blank" => after(f) = now[f]
             /\ rendered[f] # "blank" => before(f) = rendered[f]
  <2>1. /\ after(f) \in {now[f], None} /\ (after(f) = None => TextOf(now[f]) = "blank")
        /\ now[f] # "blank" => after(f) = now[f]
        /\ rendered[f] # "blank" => before(f) = rendered[f]
    BY <1>2, ChildOfValue
  <2>2. TextOf(None) = "blank"
    BY DEF TextOf, isPresent
  <2> QED
    BY <2>1, <2>2
<1> HIDE DEF before, after
<1>4. ASSUME NEW f \in Field
      PROVE  /\ text'[f] \in {text[f], TextOf(now[f])}
             /\ now[f] # "blank" /\ rendered[f] # "blank"
                  => text'[f] = IF now[f] = rendered[f] THEN text[f] ELSE TextOf(now[f])
  BY <1>1, <1>3
<1>5. \A f \in Field : TextOf(now[f]) \in Value \ {None}
  BY <1>2, TextOfValue
<1> QED
  BY <1>1, <1>2, <1>3, <1>4, <1>5

LEMMA MountResult ==
  ASSUME NEW d \in Doc, Mount(d)
  PROVE  /\ rendered' = Passed(d) /\ rendered' \in [Row -> Value]
         /\ text' \in [Field -> Value \ {None}] /\ focus' = None
         /\ \A f \in Field : text'[f] = TextOf(d.value[f]) /\ rendered'[f] = d.value[f]
BY PassedType, TextOfValue DEF Mount

-----------------------------------------------------------------------------
(* Type correctness, with the shape of the documents. *)

Typing == TypeOK /\ ShapeInv

LEMMA DocsAre ==
  ASSUME Typing
  PROVE  /\ draft \in Docs /\ server \in Docs
         /\ wire # None => wire \in Docs
         /\ \A d \in Docs : d \in Doc /\ WellFormed(d) /\ d.money = base.doc.money
BY DEF Docs, Typing, ShapeInv

(* Steps that leave the documents where they are, or pass them on.          *)
LEMMA DocsMove ==
  ASSUME Typing, base' = base,
         draft' \in Docs, server' \in Docs, wire' \in Docs \cup {None},
         focus' = "amount" => base.doc.money
  PROVE  /\ ShapeInv'
         /\ draft' \in Doc /\ server' \in Doc /\ wire' \in Doc \cup {None}
         /\ WellFormed(draft)' /\ WellFormed(server)'
<1>1. Docs' \subseteq Docs
  BY DEF Docs
<1>2. \A d \in Docs : d \in Doc /\ WellFormed(d) /\ d.money = base.doc.money
  BY DocsAre
<1>3. ShapeInv'
  BY <1>1, <1>2 DEF Typing, ShapeInv
<1> QED
  BY <1>2, <1>3 DEF WellFormed

(* The document after a blur. *)
LEMMA BlurDraft ==
  ASSUME Typing, Blur
  PROVE  /\ focus \in Field /\ text[focus] \in Value \ {None}
         /\ commitText(text[focus]) \in Value
         /\ draft' \in Doc /\ WellFormed(draft)' /\ draft'.money = base.doc.money
         /\ draft'.value = [draft.value EXCEPT ![focus] = commitText(text[focus])]
<1>1. focus \in Field /\ text[focus] \in Value \ {None}
  BY DEF Blur, Typing, TypeOK
<1>2. commitText(text[focus]) \in Value
  BY <1>1, CommitTwice
<1>3. draft' = setByPath(draft, focus, commitText(text[focus]))
  BY DEF Blur, textContent
<1>4. draft \in Doc /\ WellFormed(draft) /\ draft.money = base.doc.money
  BY DocsAre
<1>5. focus = "amount" => draft.money
  BY <1>4 DEF Typing, ShapeInv
<1>6. /\ draft' \in Doc /\ draft'.money = base.doc.money
      /\ draft'.value = [draft.value EXCEPT ![focus] = commitText(text[focus])]
      /\ WellFormed(setByPath(draft, focus, commitText(text[focus])))
  BY <1>1, <1>2, <1>3, <1>4, <1>5, SetByPath
<1>7. WellFormed(draft)'
  BY <1>3, <1>6 DEF WellFormed
<1> QED
  BY <1>1, <1>2, <1>6, <1>7

LEMMA RenderType ==
  ASSUME TypeOK, NEW d \in Doc, Render(d)
  PROVE  /\ rendered' \in [Row -> Value] /\ text' \in [Field -> Value \ {None}]
         /\ \A f \in Field :
              /\ rendered'[f] = d.value[f]
              /\ text'[f] \in {text[f], TextOf(d.value[f])}
              /\ d.value[f] # "blank" /\ rendered[f] # "blank"
                   => text'[f] = IF d.value[f] = rendered[f] THEN text[f] ELSE TextOf(d.value[f])
BY PassedType, WriteResult DEF Render

(* A click on a chip renders every row with what it had, but an amount's     *)
(* with the draft's.                                                        *)
LEMMA ToggleResult ==
  ASSUME TypeOK, NEW r \in ChipRow, toggle(r)
  PROVE  /\ rendered' \in [Row -> Value] /\ text' \in [Field -> Value \ {None}]
         /\ \A f \in Field :
              /\ rendered'[f] = rendered[f] \/ rendered'[f] = draft.value[f]
              /\ text'[f] \in {text[f], TextOf(rendered'[f])}
              /\ rendered'[f] # "blank" /\ rendered[f] # "blank"
                   => text'[f] = IF rendered'[f] = rendered[f] THEN text[f] ELSE TextOf(rendered'[f])
<1>1. draft.value["amount"] \in Value /\ "amount" \in Row /\ Field \subseteq Row
  BY DEF TypeOK, Doc, Field, Row
<1>2. rendered' \in [Row -> Value] /\ Write(rendered', confirmed')
  BY <1>1 DEF toggle, TypeOK
<1>3. ASSUME NEW f \in Field PROVE rendered'[f] = rendered[f] \/ rendered'[f] = draft.value[f]
  BY <1>1 DEF toggle, TypeOK
<1> DEFINE now == rendered'
           flags == confirmed'
<1>4. now \in [Row -> Value] /\ Write(now, flags)
  BY <1>2
<1> HIDE DEF now, flags
<1>5. /\ text' \in [Field -> Value \ {None}]
      /\ \A f \in Field :
           /\ text'[f] \in {text[f], TextOf(now[f])}
           /\ now[f] # "blank" /\ rendered[f] # "blank"
                => text'[f] = IF now[f] = rendered[f] THEN text[f] ELSE TextOf(now[f])
  BY <1>4, WriteResult
<1> QED
  BY <1>2, <1>3, <1>5 DEF now

LEMMA TypingStep == Typing /\ [Next]_vars => Typing'
<1> SUFFICES ASSUME Typing, [Next]_vars PROVE Typing'
  OBVIOUS
<1>0. /\ draft \in Docs /\ server \in Docs /\ (wire # None => wire \in Docs)
      /\ \A d \in Docs : d \in Doc /\ WellFormed(d) /\ d.money = base.doc.money
      /\ base.doc \in Doc /\ base.sure \in BOOLEAN
  BY DocsAre, LoadedDoc DEF Typing
<1>1. ASSUME base' = base,
             draft' \in Docs, server' \in Docs, wire' \in Docs \cup {None},
             focus' \in Field \cup {None}, focus' # None => PaneShown',
             focus' = "amount" => base.doc.money,
             dirty' \in BOOLEAN, fullscreen' \in BOOLEAN, drawerOpen' \in BOOLEAN,
             rendered' \in [Row -> Value], text' \in [Field -> Value \ {None}],
             confirmed' \subseteq ChipRow,
             types' \in 0 .. MaxTypes, typedIn' \subseteq Field, badIn' \subseteq typedIn'
      PROVE  Typing'
  BY <1>0, <1>1, DocsMove DEF Typing, TypeOK
<1>2. ASSUME NEW f \in Field, Focus(f) PROVE Typing'
  <2>1. f = "amount" => base.doc.money
    BY <1>0, <1>2 DEF Focus, Editable
  <2> QED
    BY <1>0, <1>1, <1>2, <2>1 DEF Focus, Typed, PaneShown, Typing, TypeOK
<1>3. ASSUME NEW f \in Field, NEW t \in Text, Type(f, t) PROVE Typing'
  <2>1. t \in Value \ {None}
    BY NoneAssumption DEF Value, Text
  <2>2. text' \in [Field -> Value \ {None}]
    BY <1>3, <2>1 DEF Type, Typing, TypeOK
  <2>3. types' \in 0 .. MaxTypes
    BY <1>3, FieldsAssumption DEF Type, Typing, TypeOK
  <2>4. typedIn' \subseteq Field /\ badIn' \subseteq typedIn'
    BY <1>3 DEF Type, Typing, TypeOK
  <2>5. /\ UNCHANGED <<base, draft, server, wire, focus, dirty, fullscreen, drawerOpen, rendered, confirmed>>
    BY <1>3 DEF Type
  <2> QED
    BY <1>0, <1>1, <2>2, <2>3, <2>4, <2>5 DEF PaneShown, Typing, TypeOK, ShapeInv
<1>4. CASE Blur
  <2>1. /\ draft' \in Doc /\ WellFormed(draft)' /\ draft'.money = base.doc.money
    BY <1>4, BlurDraft
  <2>2. rendered' \in [Row -> Value] /\ text' \in [Field -> Value \ {None}]
    BY <1>4, <2>1, RenderType DEF Blur, Typing, TypeOK
  <2>3. UNCHANGED <<base, server, wire, fullscreen, drawerOpen, confirmed, types, typedIn, badIn>>
        /\ dirty' = TRUE /\ focus' = None
    BY <1>4 DEF Blur, Typed
  <2>4. TypeOK'
    <3>1. WellFormed(server)'
      BY <1>0, <2>3 DEF WellFormed
    <3> QED
      BY <2>1, <2>2, <2>3, <3>1 DEF Typing, TypeOK
  <2>5. ShapeInv'
    <3>1. Docs' = {draft', server} \cup ({wire} \ {None})
      BY <2>3 DEF Docs
    <3>2. \A d \in Docs' : d = draft' \/ d \in Docs
      BY <3>1 DEF Docs
    <3>3. \A d \in Docs' : d \in Doc /\ WellFormed(d) /\ d.money = base.doc.money
      <4> SUFFICES ASSUME NEW d \in Docs' PROVE d \in Doc /\ WellFormed(d) /\ d.money = base.doc.money
        OBVIOUS
      <4>1. CASE d = draft'
        BY <2>1, <4>1 DEF WellFormed
      <4> QED
        BY <1>0, <3>2, <4>1
    <3>4. focus' # "amount"
      BY <2>3, NoneAssumption DEF Field, Party
    <3> QED
      BY <2>3, <3>3, <3>4 DEF Typing, ShapeInv
  <2> QED
    BY <2>4, <2>5 DEF Typing
<1>5. ASSUME NEW r \in ChipRow, toggle(r) PROVE Typing'
  <2>1. TypeOK /\ rendered' \in [Row -> Value] /\ text' \in [Field -> Value \ {None}]
    BY <1>5, ToggleResult DEF Typing
  <2>2. confirmed' \subseteq ChipRow
    BY <1>5, <2>1 DEF toggle, setVerified, TypeOK
  <2>3. UNCHANGED <<base, draft, server, wire, focus, dirty, fullscreen, drawerOpen,
                    types, typedIn, badIn>>
    BY <1>5 DEF toggle, Typed
  <2> QED
    BY <1>0, <1>1, <2>1, <2>2, <2>3 DEF PaneShown, Typing, TypeOK, ShapeInv
<1>6. CASE onToggleFullscreen \/ Escape \/ Drawer
  <2>1. /\ Mount(draft)
        /\ UNCHANGED <<base, server, draft, dirty, wire, confirmed, types, typedIn, badIn>>
    BY <1>6 DEF onToggleFullscreen, Escape, Drawer, PaneData, Typed
  <2>2. /\ rendered' \in [Row -> Value] /\ text' \in [Field -> Value \ {None}] /\ focus' = None
    BY <1>0, <2>1, MountResult
  <2>3. fullscreen' \in BOOLEAN /\ drawerOpen' \in BOOLEAN
    BY <1>6 DEF onToggleFullscreen, Escape, Drawer, Typing, TypeOK
  <2> QED
    BY <1>0, <1>1, <2>1, <2>2, <2>3, NoneAssumption DEF Typing, TypeOK, Field, Party
<1>7. CASE onSave
  BY <1>0, <1>1, <1>7 DEF onSave, Typed, PaneShown, Typing, TypeOK, ShapeInv
<1>8. CASE Saved
  <2>1. rendered' \in [Row -> Value] /\ text' \in [Field -> Value \ {None}]
    BY <1>0, <1>8, RenderType DEF Saved, Typing, TypeOK
  <2>2. /\ UNCHANGED <<base, draft, fullscreen, drawerOpen, focus, confirmed, types, typedIn, badIn>>
        /\ server' = wire /\ wire # None /\ wire' = None /\ dirty' = FALSE
    BY <1>8 DEF Saved, Typed
  <2> QED
    BY <1>0, <1>1, <2>1, <2>2 DEF PaneShown, Typing, TypeOK, ShapeInv
<1>9. CASE SaveFails
  BY <1>0, <1>1, <1>9 DEF SaveFails, Typed, PaneShown, Typing, TypeOK, ShapeInv
<1>10. CASE Reopen
  <2>1. /\ Mount(server) /\ draft' = server /\ dirty' = FALSE
        /\ fullscreen' = FALSE /\ drawerOpen' = FALSE
        /\ UNCHANGED <<base, server, wire, confirmed, types, typedIn, badIn>>
    BY <1>10 DEF Reopen, Typed
  <2>2. /\ rendered' \in [Row -> Value] /\ text' \in [Field -> Value \ {None}] /\ focus' = None
    BY <1>0, <2>1, MountResult
  <2> QED
    BY <1>0, <1>1, <2>1, <2>2, NoneAssumption DEF Typing, TypeOK, Field, Party
<1>11. CASE UNCHANGED vars
  BY <1>0, <1>1, <1>11 DEF vars, Typed, PaneShown, Typing, TypeOK, ShapeInv
<1> QED
  BY <1>2, <1>3, <1>4, <1>5, <1>6, <1>7, <1>8, <1>9, <1>10, <1>11 DEF Next

LEMMA InitTyping == Init => Typing
<1> SUFFICES ASSUME Init PROVE Typing
  OBVIOUS
<1>1. /\ base.doc \in Doc /\ base.sure \in BOOLEAN /\ WellFormed(base.doc)
      /\ base \in [doc : Loaded, sure : BOOLEAN]
  BY FieldsAssumption DEF Init
<1>2. rendered \in [Row -> Value] /\ \A f \in Field : TextOf(base.doc.value[f]) \in Value \ {None}
  BY <1>1, PassedType, TextOfValue DEF Init
<1>3. TypeOK
  <2>1. WellFormed(server) /\ WellFormed(draft)
    BY <1>1 DEF Init
  <2>2. text \in [Field -> Value \ {None}]
    BY <1>2 DEF Init
  <2>3. types \in 0 .. MaxTypes /\ typedIn \subseteq Field /\ badIn \subseteq typedIn
    BY FieldsAssumption DEF Init
  <2> QED
    BY <1>1, <1>2, <2>1, <2>2, <2>3 DEF Init, TypeOK
<1>4. Docs = {base.doc}
  BY DEF Init, Docs
<1>5. ShapeInv
  BY <1>1, <1>4, NoneAssumption DEF Init, ShapeInv, Field, Party
<1> QED
  BY <1>3, <1>5 DEF Typing

(* The screen is well typed for any documents and any number of texts, a    *)
(* party is made before it has values, and only a field on the screen has   *)
(* the focus.                                                               *)
THEOREM FieldsTypeCorrect == Spec => []TypeOK
<1>1. Typing => TypeOK
  BY DEF Typing
<1> QED
  BY InitTyping, TypingStep, <1>1, PTL DEF Spec

-----------------------------------------------------------------------------
(* What the fields and the documents hold. *)

(* More typing allows more. *)
LEMMA MeetsLater ==
  ASSUME NEW f, NEW v, NEW b, NEW typed, NEW bad, Meets(f, v, b, typed, bad),
         NEW typed2, NEW bad2, typed \subseteq typed2, bad \subseteq bad2
  PROVE  Meets(f, v, b, typed2, bad2)
BY DEF Meets

(* A text on the screen for a value, and a value from a text, fit as well.  *)
LEMMA MeetsBoth ==
  ASSUME NEW f, NEW v \in Value, NEW b, NEW typed, NEW bad, Meets(f, v, b, typed, bad)
  PROVE  /\ Meets(f, TextOf(v), b, typed, bad)
         /\ Meets(f, commitText(v), b, typed, bad)
<1>1. /\ commitText(TextOf(v)) = commitText(v)
      /\ v \in {"good", "new"} => TextOf(v) = v /\ commitText(v) = v
      /\ commitText(commitText(v)) = commitText(v)
  BY CommitTwice, TextOfValue DEF commitText
<1> QED
  BY <1>1 DEF Meets

(* A typed text fits, or is counted as bad. *)
LEMMA MeetsTyped ==
  ASSUME NEW f \in Field, NEW t \in Text, NEW b, Type(f, t)
  PROVE  Meets(f, t, b, typedIn', badIn')
<1>1. f \in typedIn'
  BY DEF Type
<1>2. badIn' = {} => commitText(t) # None /\ ~(f = "amount" /\ t = "junk")
  BY DEF Type
<1>3. f = "amount" /\ badIn' = {} => t = "new"
  BY <1>2 DEF Text, commitText
<1> QED
  BY <1>1, <1>2, <1>3 DEF Meets

LEMMA FieldTypes ==
  ASSUME Typing
  PROVE  /\ \A f \in Field : /\ rendered[f] \in Value /\ text[f] \in Value
                             /\ base.doc.value[f] \in Value
                             /\ \A d \in Docs : d.value[f] \in Value
         /\ draft \in Docs /\ server \in Docs /\ (wire # None => wire \in Docs)
         /\ \A d \in Docs : d \in Doc
         /\ TypeOK /\ ShapeInv
<1>1. \A d \in Docs : d \in Doc
  BY DocsAre
<1>2. \A d \in Doc : \A f \in Field : d.value[f] \in Value
  BY DEF Doc
<1>3. \A f \in Field : rendered[f] \in Value /\ text[f] \in Value
  BY DEF Typing, TypeOK, Row
<1>4. base.doc \in Doc
  BY LoadedDoc DEF Typing
<1> QED
  BY <1>1, <1>2, <1>3, <1>4, DocsAre DEF Typing

LEMMA ContentThen ==
  ASSUME \A f \in Field :
           /\ \A d \in Docs' : /\ Meets(f, d.value[f], base'.doc, typedIn', badIn')
                               /\ d.value[f] = "blank" => base'.doc.value[f] = "blank"
           /\ Meets(f, rendered'[f], base'.doc, typedIn', badIn')
           /\ rendered'[f] = "blank" => base'.doc.value[f] = "blank"
           /\ Meets(f, text'[f], base'.doc, typedIn', badIn'),
         valid(server)'
  PROVE  ContentInv'
BY DEF ContentInv, Fits, FitsText

(* The values of the documents and the rows after a step fit, and the texts *)
(* are old ones or the rows' new ones.                                      *)
LEMMA ContentKeeps ==
  ASSUME Typing, ContentInv, base' = base, UNCHANGED <<typedIn, badIn>>,
         \A f \in Field : \A d \in Docs' : Fits(f, d.value[f]),
         \A f \in Field : \/ rendered'[f] = rendered[f]
                          \/ \E d \in Docs' : rendered'[f] = d.value[f],
         \A f \in Field : \/ text'[f] = text[f]
                          \/ \E v \in Value : Fits(f, v) /\ text'[f] = TextOf(v),
         valid(server)'
  PROVE  ContentInv'
<1>1. ASSUME NEW f \in Field PROVE Fits(f, rendered'[f]) /\ FitsText(f, text'[f])
  <2>1. Fits(f, rendered'[f])
    BY DEF ContentInv
  <2>2. FitsText(f, text'[f])
    <3>1. \A v \in Value : Fits(f, v) => FitsText(f, TextOf(v))
      BY MeetsBoth DEF Fits, FitsText
    <3> QED
      BY <3>1 DEF ContentInv
  <2> QED
    BY <2>1, <2>2
<1>2. ASSUME NEW f \in Field
      PROVE  /\ \A d \in Docs' : /\ Meets(f, d.value[f], base'.doc, typedIn', badIn')
                                 /\ d.value[f] = "blank" => base'.doc.value[f] = "blank"
             /\ Meets(f, rendered'[f], base'.doc, typedIn', badIn')
             /\ rendered'[f] = "blank" => base'.doc.value[f] = "blank"
             /\ Meets(f, text'[f], base'.doc, typedIn', badIn')
  BY <1>1 DEF Fits, FitsText
<1> QED
  BY <1>2, ContentThen

LEMMA ContentStep == Typing /\ ContentInv /\ [Next]_vars => ContentInv'
<1> SUFFICES ASSUME Typing, ContentInv, [Next]_vars PROVE ContentInv'
  OBVIOUS
<1>0. /\ \A f \in Field : \A d \in Docs : Fits(f, d.value[f]) /\ d.value[f] \in Value
      /\ \A f \in Field : Fits(f, rendered[f]) /\ rendered[f] \in Value
      /\ \A f \in Field : FitsText(f, text[f]) /\ text[f] \in Value
      /\ valid(server)
      /\ draft \in Docs /\ server \in Docs /\ (wire # None => wire \in Docs)
      /\ \A d \in Docs : d \in Doc
      /\ TypeOK
  BY FieldTypes DEF ContentInv
<1>1. CASE UNCHANGED <<base, server, draft, wire, rendered, text, typedIn, badIn>>
  BY <1>1 DEF ContentInv, Fits, FitsText, Docs, valid
<1>2. ASSUME NEW f \in Field, Focus(f) PROVE ContentInv'
  BY <1>1, <1>2 DEF Focus, Typed
<1>3. ASSUME NEW f \in Field, NEW t \in Text, Type(f, t) PROVE ContentInv'
  <2>1. /\ UNCHANGED <<base, server, draft, wire, rendered>>
        /\ typedIn \subseteq typedIn' /\ badIn \subseteq badIn'
        /\ text' = [text EXCEPT ![f] = t]
    BY <1>3 DEF Type
  <2>2. Meets(f, t, base.doc, typedIn', badIn')
    BY <1>3, MeetsTyped
  <2>3. \A g \in Field : text'[g] = IF g = f THEN t ELSE text[g]
    BY <1>0, <2>1 DEF TypeOK
  <2>4. ASSUME NEW g \in Field, NEW v, FitsText(g, v)
        PROVE  Meets(g, v, base.doc, typedIn', badIn')
    BY <2>1, <2>4, MeetsLater DEF FitsText
  <2>5. \A g \in Field : Meets(g, text'[g], base.doc, typedIn', badIn')
    BY <1>0, <2>2, <2>3, <2>4
  <2>6. \A g \in Field : /\ Meets(g, rendered[g], base.doc, typedIn', badIn')
                         /\ rendered[g] = "blank" => base.doc.value[g] = "blank"
                         /\ \A d \in Docs : /\ Meets(g, d.value[g], base.doc, typedIn', badIn')
                                            /\ d.value[g] = "blank" => base.doc.value[g] = "blank"
    BY <1>0, <2>4 DEF Fits
  <2>7. Docs' = Docs
    BY <2>1 DEF Docs
  <2>8. \A g \in Field : /\ \A d \in Docs' : /\ Meets(g, d.value[g], base'.doc, typedIn', badIn')
                                             /\ d.value[g] = "blank" => base'.doc.value[g] = "blank"
                         /\ Meets(g, rendered'[g], base'.doc, typedIn', badIn')
                         /\ rendered'[g] = "blank" => base'.doc.value[g] = "blank"
                         /\ Meets(g, text'[g], base'.doc, typedIn', badIn')
    <3> HIDE DEF Docs
    <3>1. base' = base /\ rendered' = rendered
      BY <2>1
    <3> QED
      BY <2>5, <2>6, <2>7, <3>1
  <2>9. valid(server)'
    BY <1>0, <2>1 DEF valid
  <2> QED
    BY <2>8, <2>9, ContentThen
<1>4. CASE Blur
  <2>1. /\ focus \in Field /\ draft' \in Doc
        /\ draft'.value = [draft.value EXCEPT ![focus] = commitText(text[focus])]
    BY <1>4, BlurDraft
  <2>2. Fits(focus, commitText(text[focus]))
    BY <1>0, <2>1, MeetsBoth, CommitTwice DEF Fits, FitsText
  <2>3. \A f \in Field : draft'.value[f] = IF f = focus THEN commitText(text[focus]) ELSE draft.value[f]
    BY <1>0, <2>1 DEF Doc
  <2>4. \A f \in Field : Fits(f, draft'.value[f]) /\ draft'.value[f] \in Value
    BY <1>0, <2>1, <2>2, <2>3, CommitTwice
  <2>5. UNCHANGED <<base, server, wire, typedIn, badIn>>
    BY <1>4 DEF Blur, Typed
  <2>6. draft' \in Docs' /\ \A d \in Docs' : d = draft' \/ d \in Docs
    BY <2>5 DEF Docs
  <2>7. \A f \in Field : \A d \in Docs' : Fits(f, d.value[f])
    BY <1>0, <2>4, <2>6
  <2>8. /\ \A f \in Field : rendered'[f] = rendered[f] \/ rendered'[f] = draft'.value[f]
        /\ \A f \in Field : text'[f] = text[f] \/ text'[f] = TextOf(draft'.value[f])
    <3>1. CASE UNCHANGED <<rendered, text>>
      BY <3>1
    <3>2. CASE Render(draft')
      <4>1. \A d \in Doc : Render(d) => \A f \in Field :
              rendered'[f] = d.value[f] /\ text'[f] \in {text[f], TextOf(d.value[f])}
        BY <1>0, RenderType
      <4> QED
        BY <2>1, <3>2, <4>1
    <3> QED
      BY <1>4, <3>1, <3>2 DEF Blur
  <2>9. valid(server)'
    BY <1>0, <2>5 DEF valid
  <2> QED
    BY <2>4, <2>5, <2>6, <2>7, <2>8, <2>9, ContentKeeps
<1>5. ASSUME NEW r \in ChipRow, toggle(r) PROVE ContentInv'
  <2>1. UNCHANGED <<base, server, draft, wire, typedIn, badIn>>
    BY <1>5 DEF toggle, Typed
  <2>2. \A f \in Field : /\ rendered'[f] = rendered[f] \/ rendered'[f] = draft.value[f]
                         /\ text'[f] \in {text[f], TextOf(rendered'[f])}
    BY <1>0, <1>5, ToggleResult
  <2>3. Docs' = Docs /\ draft \in Docs' /\ valid(server)'
    BY <1>0, <2>1 DEF Docs, valid
  <2>4. ASSUME NEW f \in Field
        PROVE  /\ \/ rendered'[f] = rendered[f]
                  \/ \E d \in Docs' : rendered'[f] = d.value[f]
               /\ \/ text'[f] = text[f]
                  \/ \E v \in Value : Fits(f, v) /\ text'[f] = TextOf(v)
    <3>1. rendered'[f] \in Value /\ Fits(f, rendered'[f])
      BY <1>0, <2>2
    <3>2. \/ rendered'[f] = rendered[f]
          \/ \E d \in Docs' : rendered'[f] = d.value[f]
      BY <2>2, <2>3
    <3>3. \/ text'[f] = text[f]
          \/ \E v \in Value : Fits(f, v) /\ text'[f] = TextOf(v)
      BY <2>2, <3>1
    <3> QED
      BY <3>2, <3>3
  <2>5. \A f \in Field : \A d \in Docs' : Fits(f, d.value[f])
    BY <1>0, <2>3
  <2> QED
    BY <2>1, <2>3, <2>4, <2>5, ContentKeeps
<1>6. CASE onToggleFullscreen \/ Escape \/ Drawer
  <2>1. Mount(draft) /\ UNCHANGED <<base, server, draft, wire, typedIn, badIn>>
    BY <1>6 DEF onToggleFullscreen, Escape, Drawer, PaneData, Typed
  <2>2. \A f \in Field : text'[f] = TextOf(draft.value[f]) /\ rendered'[f] = draft.value[f]
    BY <1>0, <2>1, MountResult
  <2>3. Docs' = Docs /\ valid(server)'
    BY <1>0, <2>1 DEF Docs, valid
  <2> QED
    BY <1>0, <2>1, <2>2, <2>3, ContentKeeps
<1>7. CASE onSave \/ SaveFails
  <2>1. UNCHANGED <<base, server, draft, rendered, text, typedIn, badIn>> /\ wire' \in {draft, None}
    BY <1>7 DEF onSave, SaveFails, Typed
  <2>2. Docs' \subseteq Docs
    BY <1>0, <2>1 DEF Docs
  <2>3. valid(server)'
    BY <1>0, <2>1 DEF valid
  <2> QED
    BY <1>0, <2>1, <2>2, <2>3, ContentKeeps
<1>8. CASE Saved
  <2>1. /\ UNCHANGED <<base, draft, typedIn, badIn>>
        /\ server' = wire /\ wire # None /\ wire' = None /\ valid(wire)
    BY <1>8 DEF Saved, Typed
  <2>2. Docs' \subseteq Docs /\ draft \in Docs'
    BY <1>0, <2>1 DEF Docs
  <2>3. valid(server)'
    BY <2>1 DEF valid
  <2>4. \A f \in Field : /\ rendered'[f] = rendered[f] \/ rendered'[f] = draft.value[f]
                         /\ text'[f] = text[f] \/ text'[f] = TextOf(draft.value[f])
    BY <1>0, <1>8, RenderType DEF Saved
  <2>5. \A f \in Field : \A d \in Docs' : Fits(f, d.value[f])
    BY <1>0, <2>2
  <2>6. ASSUME NEW f \in Field
        PROVE  /\ \/ rendered'[f] = rendered[f]
                  \/ \E d \in Docs' : rendered'[f] = d.value[f]
               /\ \/ text'[f] = text[f]
                  \/ \E v \in Value : Fits(f, v) /\ text'[f] = TextOf(v)
    <3>1. Fits(f, draft.value[f]) /\ draft.value[f] \in Value
      BY <1>0
    <3>2. \/ rendered'[f] = rendered[f]
          \/ \E d \in Docs' : rendered'[f] = d.value[f]
      BY <2>2, <2>4
    <3>3. \/ text'[f] = text[f]
          \/ \E v \in Value : Fits(f, v) /\ text'[f] = TextOf(v)
      BY <2>4, <3>1
    <3> QED
      BY <3>2, <3>3
  <2> QED
    BY <2>1, <2>3, <2>5, <2>6, ContentKeeps
<1>9. CASE Reopen
  <2>1. Mount(server) /\ draft' = server /\ UNCHANGED <<base, server, wire, typedIn, badIn>>
    BY <1>9 DEF Reopen, Typed
  <2>2. \A f \in Field : text'[f] = TextOf(server.value[f]) /\ rendered'[f] = server.value[f]
    BY <1>0, <2>1, MountResult
  <2>3. Docs' \subseteq Docs /\ server \in Docs' /\ valid(server)'
    BY <1>0, <2>1 DEF Docs, valid
  <2> QED
    BY <1>0, <2>1, <2>2, <2>3, ContentKeeps
<1>10. CASE UNCHANGED vars
  BY <1>1, <1>10 DEF vars, Typed
<1> QED
  BY <1>2, <1>3, <1>4, <1>5, <1>6, <1>7, <1>8, <1>9, <1>10 DEF Next

LEMMA InitContent == Init => ContentInv
<1> SUFFICES ASSUME Init PROVE ContentInv
  OBVIOUS
<1>1. Typing
  BY InitTyping
<1>2. /\ base.doc \in Doc /\ valid(base.doc)
      /\ \A f \in Field : base.doc.value[f] \in Given /\ base.doc.value[f] \in Value
  BY <1>1, LoadedDoc DEF Typing, Value
<1>3. ASSUME NEW f \in Field PROVE Fits(f, base.doc.value[f])
  <2>1. f = "name" /\ base.doc.value["name"] = "good" => commitText(base.doc.value[f]) # None
    BY NoneAssumption DEF commitText
  <2>2. f = "amount" /\ base.doc.money => base.doc.value[f] \in {"good", "new"}
    BY <1>2 DEF valid
  <2> QED
    BY <2>1, <2>2 DEF Fits, FitsText, Meets
<1>4. ASSUME NEW f \in Field
      PROVE  rendered[f] = base.doc.value[f] /\ text[f] = TextOf(base.doc.value[f])
  BY <1>2, PassedType DEF Init
<1>5. Docs = {base.doc} /\ server = base.doc
  BY DEF Init, Docs
<1>6. \A f \in Field : FitsText(f, text[f])
  BY <1>2, <1>3, <1>4, MeetsBoth DEF Fits, FitsText
<1> QED
  BY <1>2, <1>3, <1>4, <1>5, <1>6 DEF ContentInv

-----------------------------------------------------------------------------
(* The screen and the draft. *)

LEMMA SyncStep == Typing /\ ContentInv /\ ScreenIsDraft /\ [Next]_vars => ScreenIsDraft'
<1> SUFFICES ASSUME Typing, ContentInv, ScreenIsDraft, [Next]_vars PROVE ScreenIsDraft'
  OBVIOUS
<1> DEFINE Kept(f) == base.doc.value[f] # "blank"
           Same(t, v) == commitText(t) = commitText(v)
<1>0. /\ \A f \in Field \ {focus} : PaneShown /\ Kept(f) => Same(text[f], draft.value[f])
      /\ \A f \in Field : Kept(f) => /\ rendered[f] # "blank"
                                     /\ \A d \in Docs : d.value[f] # "blank"
      /\ \A f \in Field : \A d \in Docs : d.value[f] \in Value
      /\ \A f \in Field : rendered[f] \in Value /\ text[f] \in Value
      /\ draft \in Docs /\ server \in Docs
      /\ \A d \in Docs : d \in Doc
      /\ TypeOK
  BY FieldTypes DEF ContentInv, Fits, ScreenIsDraft
<1>1. ASSUME base' = base,
             \A f \in Field \ {focus'} : PaneShown' /\ Kept(f) => Same(text'[f], draft'.value[f])
      PROVE  ScreenIsDraft'
  BY <1>1 DEF ScreenIsDraft
<1> HIDE DEF Kept
<1>2. \A v \in Value : Same(TextOf(v), v) /\ Same(commitText(v), v)
  BY TextOfValue, CommitTwice
<1>3. CASE UNCHANGED <<base, draft, text, focus, fullscreen, drawerOpen>>
  BY <1>0, <1>1, <1>3 DEF PaneShown
<1>4. ASSUME NEW f \in Field, Focus(f) PROVE ScreenIsDraft'
  <2>1. UNCHANGED <<base, draft, text, fullscreen, drawerOpen>> /\ focus = None
    BY <1>4 DEF Focus
  <2>2. \A g \in Field : g # focus
    BY <2>1, NoneAssumption
  <2> QED
    BY <1>0, <1>1, <2>1, <2>2 DEF PaneShown
<1>5. ASSUME NEW f \in Field, NEW t \in Text, Type(f, t) PROVE ScreenIsDraft'
  <2>1. UNCHANGED <<base, draft, focus, fullscreen, drawerOpen>> /\ focus = f
        /\ text' = [text EXCEPT ![f] = t]
    BY <1>5 DEF Type
  <2>2. \A g \in Field \ {focus} : text'[g] = text[g]
    BY <1>0, <2>1 DEF TypeOK
  <2> QED
    BY <1>0, <1>1, <2>1, <2>2 DEF PaneShown
<1>6. CASE Blur
  <2>1. /\ focus \in Field /\ draft' \in Doc
        /\ draft'.value = [draft.value EXCEPT ![focus] = commitText(text[focus])]
    BY <1>6, BlurDraft
  <2>2. \A f \in Field : draft'.value[f] = IF f = focus THEN commitText(text[focus]) ELSE draft.value[f]
    BY <1>0, <2>1 DEF Doc
  <2>3. UNCHANGED <<base, fullscreen, drawerOpen>> /\ PaneShown
    BY <1>0, <1>6, <2>1, NoneAssumption DEF Blur, TypeOK
  <2>4. \A f \in Field : Kept(f) => Same(text[f], draft'.value[f])
    BY <1>0, <1>2, <2>2, <2>3
  <2>5. ASSUME NEW f \in Field, Kept(f) PROVE Same(text'[f], draft'.value[f])
    <3>1. CASE UNCHANGED <<rendered, text>>
      BY <2>4, <2>5, <3>1
    <3>2. CASE Render(draft')
      <4>1. draft'.value[f] \in Value /\ draft'.value[f] # "blank"
        BY <1>0, <2>1, <2>2, <2>5, CommitTwice
      <4>2. \A d \in Doc : Render(d) /\ d.value[f] # "blank" /\ rendered[f] # "blank" =>
              text'[f] = IF d.value[f] = rendered[f] THEN text[f] ELSE TextOf(d.value[f])
        BY <1>0, RenderType
      <4>3. text'[f] = text[f] \/ text'[f] = TextOf(draft'.value[f])
        BY <1>0, <2>1, <2>5, <3>2, <4>1, <4>2
      <4> QED
        BY <1>2, <2>4, <2>5, <4>1, <4>3
    <3> QED
      BY <1>6, <3>1, <3>2 DEF Blur
  <2> QED
    BY <1>1, <2>3, <2>5
<1>7. ASSUME NEW r \in ChipRow, toggle(r) PROVE ScreenIsDraft'
  <2>1. UNCHANGED <<base, draft, focus, fullscreen, drawerOpen>>
    BY <1>7 DEF toggle
  <2>2. \A f \in Field :
          /\ rendered'[f] = rendered[f] \/ rendered'[f] = draft.value[f]
          /\ rendered'[f] # "blank" /\ rendered[f] # "blank"
               => text'[f] = IF rendered'[f] = rendered[f] THEN text[f] ELSE TextOf(rendered'[f])
    BY <1>0, <1>7, ToggleResult
  <2>3. \A f \in Field : Kept(f) => text'[f] \in {text[f], TextOf(draft.value[f])}
    BY <1>0, <2>2
  <2> QED
    BY <1>0, <1>1, <1>2, <2>1, <2>3 DEF PaneShown
<1>8. CASE onToggleFullscreen \/ Escape \/ Drawer
  <2>1. Mount(draft) /\ UNCHANGED <<base, draft>>
    BY <1>8 DEF onToggleFullscreen, Escape, Drawer, PaneData
  <2>2. \A f \in Field : text'[f] = TextOf(draft.value[f])
    BY <1>0, <2>1, MountResult
  <2> QED
    BY <1>0, <1>1, <1>2, <2>1, <2>2
<1>9. CASE Reopen
  <2>1. Mount(server) /\ draft' = server /\ base' = base
    BY <1>9 DEF Reopen
  <2>2. \A f \in Field : text'[f] = TextOf(server.value[f])
    BY <1>0, <2>1, MountResult
  <2> QED
    BY <1>0, <1>1, <1>2, <2>1, <2>2
<1>10. CASE onSave \/ SaveFails
  BY <1>3, <1>10 DEF onSave, SaveFails
<1>11. CASE Saved
  <2>1. UNCHANGED <<base, draft, focus, fullscreen, drawerOpen>>
    BY <1>11 DEF Saved
  <2>2. CASE ~PaneShown
    BY <1>1, <2>1, <2>2 DEF PaneShown
  <2>3. CASE PaneShown
    <3>1. \A f \in Field : Kept(f) => text'[f] \in {text[f], TextOf(draft.value[f])}
      BY <1>0, <1>11, <2>3, RenderType DEF Saved
    <3> QED
      BY <1>0, <1>1, <1>2, <2>1, <2>3, <3>1
  <2> QED
    BY <2>2, <2>3
<1>12. CASE UNCHANGED vars
  BY <1>3, <1>12 DEF vars
<1> QED
  BY <1>4, <1>5, <1>6, <1>7, <1>8, <1>9, <1>10, <1>11, <1>12 DEF Next

LEMMA InitSync == Init => ScreenIsDraft
<1> SUFFICES ASSUME Init PROVE ScreenIsDraft
  OBVIOUS
<1>1. base.doc \in Doc
  BY InitTyping, LoadedDoc DEF Typing
<1>2. \A f \in Field : base.doc.value[f] \in Value
  BY <1>1, PassedType
<1> QED
  BY <1>2, TextOfValue DEF Init, ScreenIsDraft

FieldsInv == Typing /\ ContentInv /\ ScreenIsDraft

LEMMA FieldsInvHolds == Spec => []FieldsInv
<1>1. Init => FieldsInv
  BY InitTyping, InitContent, InitSync DEF FieldsInv
<1>2. FieldsInv /\ [Next]_vars => FieldsInv'
  BY TypingStep, ContentStep, SyncStep DEF FieldsInv
<1> QED
  BY <1>1, <1>2, PTL DEF Spec

(* What the user sees is what a save sends, although the pane is not         *)
(* rendered for most edits: for any documents and any order of blurs, late   *)
(* answers of saves, clicks on chips and changes of the layout               *)
(* (review-workspace.tsx:49-52).                                             *)
THEOREM ScreenShowsTheDraft == Spec => []ScreenIsDraft
<1>1. FieldsInv => ScreenIsDraft
  BY DEF FieldsInv
<1> QED
  BY FieldsInvHolds, <1>1, PTL

(* A field nobody typed in keeps its value in the draft and on the server,   *)
(* however often it was focused, confirmed, rendered and saved               *)
(* (totals-block.tsx:119-122, confidence-row.tsx:24-26).                     *)
THEOREM OnlyTypingChangesValues == Spec => []OnlyTypingChanges
<1>1. FieldsInv => OnlyTypingChanges
  BY DocsAre DEF FieldsInv, ContentInv, Fits, FitsText, Meets, OnlyTypingChanges
<1> QED
  BY FieldsInvHolds, <1>1, PTL

(* The server stores nothing but valid invoices, and would accept the draft *)
(* of one whose seller had a good name, unless a bad value was typed        *)
(* (review-edit-context.tsx, line-items-table.tsx, canonical.py).           *)
THEOREM DraftStaysAcceptable == Spec => []DraftStaysValid
<1>1. FieldsInv => DraftStaysValid
  <2> SUFFICES ASSUME FieldsInv PROVE DraftStaysValid
    OBVIOUS
  <2>1. valid(server)
    BY DEF FieldsInv, ContentInv
  <2>2. draft \in Docs /\ draft.money = base.doc.money
    BY DocsAre DEF FieldsInv
  <2>3. FitsText("name", draft.value["name"]) /\ FitsText("amount", draft.value["amount"])
    BY <2>2 DEF FieldsInv, ContentInv, Fits, Field, Party
  <2>4. ASSUME base.doc.value["name"] = "good", badIn = {}
        PROVE  valid(draft)
    <3>1. /\ commitText(draft.value["name"]) # None
          /\ base.doc.money => draft.value["amount"] \in {"good", "new"}
      BY <2>3, <2>4 DEF FitsText, Meets
    <3>2. draft.value["name"] # None
      BY <3>1 DEF commitText
    <3> QED
      BY <2>2, <3>1, <3>2 DEF valid
  <2> QED
    BY <2>1, <2>4 DEF DraftStaysValid
<1> QED
  BY FieldsInvHolds, <1>1, PTL

(* The band of a score is the state of its row, row by row. *)
LEMMA RowIsBand ==
  ASSUME Typing, confirmed = {}, rendered = Passed(base.doc),
         \A f \in Field : base.doc.value[f] # "blank",
         NEW r \in Row
  PROVE  RowState(r) = summarizeFieldStates(score(r))
<1> DEFINE v == base.doc.value[r]
<1>1. base.doc \in Doc /\ base.sure \in BOOLEAN
  BY LoadedDoc DEF Typing
<1>2. CASE r \in Field
  <2>1. v \in Given \ {"blank"} /\ rendered[r] = v /\ r # "party_type"
    BY <1>1, <1>2, LoadedDoc, PassedType DEF Typing, Field, Party
  <2>2. CASE v = None
    <3>1. score(r) = 0
      BY <2>1, <2>2 DEF score
    <3>2. ~isPresent(rendered[r])
      BY <2>1, <2>2 DEF isPresent
    <3> QED
      BY <3>1, <3>2 DEF RowState, fieldState, summarizeFieldStates, VERIFIED_THRESHOLD
  <2>3. CASE v # None
    <3>1. score(r) \in {40, 70, 85, 100}
      BY <1>1, <2>1, <2>3 DEF score
    <3>2. isPresent(rendered[r])
      BY <2>1, <2>3 DEF isPresent
    <3> QED
      BY <3>1, <3>2 DEF RowState, fieldState, summarizeFieldStates, VERIFIED_THRESHOLD
  <2> QED
    BY <2>2, <2>3
<1>3. CASE r = "party_type"
  <2>1. rendered[r] = IF base.doc.seller THEN "good" ELSE None
    BY <1>3 DEF Passed, Field, Party, Row
  <2>2. CASE base.doc.seller
    <3>1. score(r) \in {40, 100}
      BY <1>1, <1>3, <2>2 DEF score
    <3>2. isPresent(rendered[r])
      BY <2>1, <2>2, NoneAssumption DEF isPresent
    <3> QED
      BY <3>1, <3>2 DEF RowState, fieldState, summarizeFieldStates, VERIFIED_THRESHOLD
  <2>3. CASE ~base.doc.seller
    <3>1. score(r) = 0
      BY <1>3, <2>3 DEF score
    <3>2. ~isPresent(rendered[r])
      BY <2>1, <2>3 DEF isPresent
    <3> QED
      BY <3>1, <3>2 DEF RowState, fieldState, summarizeFieldStates, VERIFIED_THRESHOLD
  <2> QED
    BY <2>2, <2>3
<1> QED
  BY <1>2, <1>3 DEF Row

(* The counts above the rows are those of the states the rows are in, the    *)
(* addresses without a chip among them, for any document without white       *)
(* space: the two thresholds of confidence.ts and the scores of the backend  *)
(* agree about an empty field (confidence.ts:61-66).                         *)
THEOREM SummaryCountsRows == Spec => []SummaryMatchesRows
<1>1. FieldsInv => SummaryMatchesRows
  <2> SUFFICES ASSUME Typing, confirmed = {}, rendered = Passed(base.doc),
                      \A f \in Field : base.doc.value[f] # "blank",
                      NEW s
               PROVE  ExtractionSummary(s) = Cardinality({r \in Row : RowState(r) = s})
    BY DEF FieldsInv, SummaryMatchesRows
  <2>1. \A r \in Row : RowState(r) = summarizeFieldStates(score(r))
    BY RowIsBand
  <2>2. {r \in Row : summarizeFieldStates(score(r)) = s} = {r \in Row : RowState(r) = s}
    BY <2>1
  <2> QED
    BY <2>2 DEF ExtractionSummary
<1> QED
  BY FieldsInvHolds, <1>1, PTL
=============================================================================
