------------------------- MODULE UploadClientProofs -------------------------
(***************************************************************************)
(* Safety of UploadClient for any number of files and contents: what the   *)
(* screen says of an extraction is what the server decided, an outcome     *)
(* stands, and the quota panel is no older than the list beside it.         *)
(***************************************************************************)
EXTENDS UploadClient, SequenceTheorems, FiniteSetTheorems, TLAPS

-----------------------------------------------------------------------------
(* Type correctness, with what ties an entry to its task.  Ids are handed   *)
(* out in order, so those beyond the list are untouched.                    *)

Codes == {None, "QUOTA_EXHAUSTED", "error", "extraction", "poll timeout"}

EntryShape ==
  \A i \in Entry : /\ i > Len(order) => /\ pc[i] = "idle" /\ i \notin aborted
                                        /\ phase[i] = "none" /\ code[i] = None
                   /\ i \in aborted => phase[i] = "none"
                   /\ phase[i] # "none" => pc[i] # "idle"

TaskShape == \A t \in Task : pc[t] # "idle" => file[t] \in Content

JobShape == \A c \in Content : owner[c] # None => job[c] = "running"

OrderShape == \A k \in 1 .. Len(order) : order[k] <= Len(order)

TypeInv == TypeOK /\ EntryShape /\ TaskShape /\ JobShape /\ OrderShape

LEMMA NoneIsNothing == None \notin Entry /\ None \notin Content /\ None \notin Task
BY UploadAssumption DEF Entry, Task

LEMMA ViewerIsNoEntry == Viewer \notin Entry /\ Entry \subseteq Task /\ Viewer \in Task
BY UploadAssumption DEF Entry, Task

LEMMA LengthIsNat == ASSUME TypeInv PROVE order \in Seq(Entry) /\ Len(order) \in Nat /\ Entry \subseteq Nat
<1>1. order \in Seq(Entry)
  BY DEF TypeInv, TypeOK
<1>2. Len(order) \in Nat
  BY <1>1, LenProperties
<1> QED
  BY <1>1, <1>2, UploadAssumption DEF Entry

LEMMA InitType == Init => TypeInv
<1> SUFFICES ASSUME Init PROVE TypeInv
  OBVIOUS
<1>1. order = <<>> /\ order \in Seq(Entry) /\ Len(order) = 0
  BY DEF Init
<1>2. seen.done = {} /\ seen.reject = {}
  BY DEF Init, Blank
<1>3. TypeOK
  BY <1>1, <1>2, NoneIsNothing
     DEF Init, TypeOK, Answers, Idle, Awaits, Terminal, InFlight, inFlight, Listed, Task
<1> QED
  BY <1>1, <1>3, ViewerIsNoEntry
     DEF Init, TypeInv, EntryShape, TaskShape, JobShape, OrderShape

-----------------------------------------------------------------------------
(* Steps of one task. *)

(* A task that nobody aborted works on an entry in flight. *)
LEMMA WorkingEntry ==
  ASSUME TypeInv, NEW i \in Entry, pc[i] \notin Idle
  PROVE  /\ i \notin aborted => phase[i] \in InFlight /\ i \in Listed
         /\ i \in aborted => phase[i] = "none" /\ i \notin Listed
         /\ i <= Len(order)
<1>1. Len(order) \in Nat /\ i \in Nat
  BY LengthIsNat
<1>2. i <= Len(order)
  BY <1>1 DEF TypeInv, EntryShape, Idle
<1> QED
  BY <1>2 DEF TypeInv, TypeOK, EntryShape, inFlight, Listed, InFlight

LEMMA FinishType ==
  ASSUME TypeInv, NEW t \in Task, NEW p \in Terminal, NEW why \in Codes,
         pc[t] \notin Idle, Finish(t, p, why)
  PROVE  TypeInv'
<1>0. /\ pc' = [pc EXCEPT ![t] = "done"] /\ reply' = [reply EXCEPT ![t] = None]
      /\ late' \subseteq late
      /\ UNCHANGED <<page, file, aborted, job, owner>> /\ UNCHANGED Panel
  BY DEF Finish, Backend
<1>1. CASE t = Viewer
  <2>1. UNCHANGED <<order, phase, code>>
        /\ view'.phase \in {"none", "loading", "polling", "ready", "error"}
    BY <1>1 DEF Finish, List
  <2>2. TypeOK'
    BY <1>0, <1>1, <2>1, ViewerIsNoEntry
       DEF TypeInv, TypeOK, Answers, Idle, inFlight, Listed, Panel
  <2>3. \A i \in Entry : pc'[i] = pc[i]
    BY <1>0, <1>1, ViewerIsNoEntry DEF TypeInv, TypeOK
  <2>4. EntryShape'
    BY <1>0, <2>1, <2>3 DEF TypeInv, EntryShape
  <2>5. TaskShape'
    BY <1>0 DEF TypeInv, TaskShape, TypeOK, Idle
  <2> QED
    BY <1>0, <2>1, <2>2, <2>4, <2>5 DEF TypeInv, JobShape, OrderShape
<1>2. CASE t # Viewer
  <2>0. t \in Entry /\ view' = view /\ patch(t, p, why)
    BY <1>2 DEF Finish, Task
  <2>1. /\ UNCHANGED order
        /\ phase' = IF t \in Listed THEN [phase EXCEPT ![t] = p] ELSE phase
        /\ code' = IF t \in Listed THEN [code EXCEPT ![t] = why] ELSE code
    BY <2>0 DEF patch
  <2>2. /\ t \notin aborted => t \in Listed
        /\ t \in aborted => phase[t] = "none" /\ t \notin Listed
        /\ t <= Len(order)
    BY <2>0, WorkingEntry
  <2>3. /\ phase' \in [Entry -> {"none"} \cup InFlight \cup Terminal]
        /\ code' \in [Entry -> Codes]
        /\ phase'[t] \notin InFlight
        /\ \A i \in Entry \ {t} : phase'[i] = phase[i] /\ code'[i] = code[i] /\ pc'[i] = pc[i]
    BY <1>0, <2>0, <2>1, <2>2, ViewerIsNoEntry
       DEF TypeInv, TypeOK, Codes, InFlight, Terminal
  <2>4. TypeOK'
    <3>1. \A i \in Entry : i \in inFlight' <=> pc'[i] \notin Idle /\ i \notin aborted'
      BY <1>0, <2>0, <2>1, <2>2, <2>3, ViewerIsNoEntry
         DEF TypeInv, TypeOK, Idle, inFlight, Listed, InFlight
    <3> QED
      BY <1>0, <2>0, <2>1, <2>3, <3>1 DEF TypeInv, TypeOK, Codes, Answers, Idle, Panel
  <2>5. EntryShape'
    <3>1. Len(order) \in Nat /\ t \in Nat
      BY <2>0, LengthIsNat
    <3>2. ~(t > Len(order))
      BY <2>2, <3>1
    <3>3. pc'[t] = "done" /\ (t \in aborted' => phase'[t] = "none")
      BY <1>0, <2>1, <2>2 DEF TypeInv, TypeOK
    <3> QED
      BY <1>0, <2>0, <2>1, <2>3, <3>2, <3>3 DEF TypeInv, EntryShape
  <2> QED
    BY <1>0, <2>1, <2>4, <2>5 DEF TypeInv, TaskShape, JobShape, OrderShape, TypeOK, Idle
<1> QED
  BY <1>1, <1>2

LEMMA EndType ==
  ASSUME TypeInv, NEW t \in Task,
         Lost(t) \/ unwrapError(t) \/ FinalAnswer(t) \/ PollTimeout(t)
  PROVE  /\ TypeInv' /\ pc[t] \notin Idle
         /\ \E p \in Terminal, why \in Codes :
               /\ Finish(t, p, why)
               /\ p = "completed" => job[file[t]] = "completed"
               /\ why = "extraction" => job[file[t]] = "failed"
<1>1. pc[t] \notin Idle
  BY DEF Lost, unwrapError, FinalAnswer, PollTimeout, Waits, Awaits, Idle
<1>2. \E p \in Terminal, why \in Codes :
         /\ Finish(t, p, why)
         /\ p = "completed" => job[file[t]] = "completed"
         /\ why = "extraction" => job[file[t]] = "failed"
  <2>1. CASE Lost(t)
    BY <2>1 DEF Lost, Terminal, Codes
  <2>2. CASE unwrapError(t)
    BY <2>2 DEF unwrapError, Terminal, Codes
  <2>3. CASE PollTimeout(t)
    BY <2>3 DEF PollTimeout, Terminal, Codes
  <2>4. CASE FinalAnswer(t)
    <3> DEFINE why == IF job[file[t]] = "failed" THEN "extraction" ELSE None
    <3>1. job[file[t]] \in Terminal /\ Finish(t, job[file[t]], why)
      BY <2>4 DEF FinalAnswer
    <3>2. why \in Codes /\ (why = "extraction" => job[file[t]] = "failed")
      BY UploadAssumption DEF Codes
    <3> QED
      BY <3>1, <3>2
  <2> QED
    BY <2>1, <2>2, <2>3, <2>4
<1> QED
  BY <1>1, <1>2, FinishType

(* Steps that leave entries and tasks at rest. *)
LEMMA QuietType ==
  ASSUME TypeInv, UNCHANGED <<order, phase, code, aborted>>,
         NEW t \in Task, pc[t] \notin Idle,
         pc' = [pc EXCEPT ![t] = "unwrapping"] \/ pc' = [pc EXCEPT ![t] = "asking"] \/ pc' = pc
  PROVE  EntryShape' /\ (\A i \in Entry : i \in inFlight' <=> pc'[i] \notin Idle /\ i \notin aborted')
<1>1. pc' \in [Task -> Idle \cup Awaits \cup {"unwrapping"}]
  BY DEF TypeInv, TypeOK, Awaits
<1>2. \A i \in Entry : (pc'[i] \in Idle <=> pc[i] \in Idle) /\ (pc'[i] = "idle" <=> pc[i] = "idle")
  BY <1>1, ViewerIsNoEntry DEF TypeInv, TypeOK, Idle
<1> QED
  BY <1>2 DEF TypeInv, TypeOK, EntryShape, inFlight, Listed

LEMMA AskType ==
  ASSUME TypeInv, NEW t \in Task, ErrorAnswer(t) \/ StillRunning(t) \/ TwoMinutes(t)
  PROVE  TypeInv'
<1>1. /\ UNCHANGED <<page, order, phase, code, file, aborted, job, owner, reply>>
      /\ UNCHANGED Panel
      /\ pc[t] \notin Idle
      /\ pc' = [pc EXCEPT ![t] = "unwrapping"] \/ pc' = [pc EXCEPT ![t] = "asking"] \/ pc' = pc
      /\ late' \subseteq Task
      /\ view'.phase \in {"none", "loading", "polling", "ready", "error"}
  <2>1. CASE ErrorAnswer(t)
    BY <2>1 DEF ErrorAnswer, UploadRefused, PollRefused, Waits, List, Backend, Idle,
                TypeInv, TypeOK
  <2>2. CASE StillRunning(t)
    <3>1. view' \in {view, [phase |-> "polling", data |-> "running"]}
      BY <2>2 DEF StillRunning
    <3> QED
      BY <2>2, <3>1 DEF StillRunning, Waits, List, Backend, Idle, TypeInv, TypeOK
  <2>3. CASE TwoMinutes(t)
    BY <2>3 DEF TwoMinutes, Waits, List, Backend, Idle, TypeInv, TypeOK
  <2> QED
    BY <2>1, <2>2, <2>3
<1>2. EntryShape' /\ (\A i \in Entry : i \in inFlight' <=> pc'[i] \notin Idle /\ i \notin aborted')
  BY <1>1, QuietType
<1>3. TypeOK'
  BY <1>1, <1>2 DEF TypeInv, TypeOK, Awaits, Answers, Panel
<1>4. TaskShape'
  BY <1>1 DEF TypeInv, TypeOK, TaskShape, Idle
<1> QED
  BY <1>1, <1>2, <1>3, <1>4 DEF TypeInv, JobShape, OrderShape

LEMMA AcceptedType ==
  ASSUME TypeInv, NEW i \in Entry, uploadDocument(i)
  PROVE  TypeInv' /\ i \in Listed /\ phase' = [phase EXCEPT ![i] = "extracting"]
         /\ code' = [code EXCEPT ![i] = None]
<1>1. i \notin aborted /\ pc[i] = "uploading"
  BY DEF uploadDocument, Waits
<1>2. i \in Listed /\ i \in Task
  BY <1>1, WorkingEntry, ViewerIsNoEntry DEF Idle
<1>3. /\ UNCHANGED order
      /\ phase' = [phase EXCEPT ![i] = "extracting"] /\ code' = [code EXCEPT ![i] = None]
  BY <1>2 DEF uploadDocument, patch
<1>4. /\ pc' = [pc EXCEPT ![i] = "asking"] /\ reply' = [reply EXCEPT ![i] = None]
      /\ UNCHANGED <<page, view, file, aborted, late, job, owner>> /\ UNCHANGED Panel
  BY DEF uploadDocument, Backend
<1>5. \A k \in Entry \ {i} : phase'[k] = phase[k] /\ code'[k] = code[k] /\ pc'[k] = pc[k]
  BY <1>3, <1>4, ViewerIsNoEntry DEF TypeInv, TypeOK
<1>6. phase'[i] = "extracting" /\ pc'[i] = "asking"
  BY <1>2, <1>3, <1>4 DEF TypeInv, TypeOK
<1>7. \A k \in Entry : k \in inFlight' <=> pc'[k] \notin Idle /\ k \notin aborted'
  BY <1>1, <1>4, <1>5, <1>6 DEF TypeInv, TypeOK, inFlight, Listed, InFlight, Idle
<1>8. TypeOK'
  BY <1>2, <1>3, <1>4, <1>7 DEF TypeInv, TypeOK, Answers, Awaits, InFlight, Panel
<1>9. EntryShape'
  <2>1. ~(i > Len(order))
    BY <1>1, WorkingEntry, LengthIsNat DEF Idle
  <2> QED
    BY <1>1, <1>3, <1>4, <1>5, <1>6, <2>1 DEF TypeInv, EntryShape
<1>10. TaskShape'
  BY <1>2, <1>1, <1>4 DEF TypeInv, TypeOK, TaskShape
<1> QED
  BY <1>2, <1>3, <1>4, <1>8, <1>9, <1>10 DEF TypeInv, JobShape, OrderShape

LEMMA AbandonType == ASSUME TypeInv, NEW t \in Task, Abandon(t) PROVE TypeInv'
<1>1. /\ pc' = [pc EXCEPT ![t] = "done"] /\ reply' = [reply EXCEPT ![t] = None] /\ late' \subseteq late
      /\ UNCHANGED <<page, order, phase, code, view, file, aborted, job, owner>>
      /\ UNCHANGED Panel
      /\ t \in aborted /\ pc[t] # "idle"
  BY DEF Abandon, List, Backend, Awaits
<1>2. t \in Entry /\ phase[t] = "none"
  BY <1>1 DEF TypeInv, TypeOK, EntryShape
<1>3. \A i \in Entry : pc'[i] = IF i = t THEN "done" ELSE pc[i]
  BY <1>1, ViewerIsNoEntry DEF TypeInv, TypeOK
<1>4. \A i \in Entry : i \in inFlight' <=> pc'[i] \notin Idle /\ i \notin aborted'
  BY <1>1, <1>3 DEF TypeInv, TypeOK, inFlight, Listed
<1>5. TypeOK'
  BY <1>1, <1>4 DEF TypeInv, TypeOK, Answers, Idle, Panel
<1>6. EntryShape'
  BY <1>1, <1>2, <1>3 DEF TypeInv, EntryShape
<1>7. TaskShape'
  BY <1>1 DEF TypeInv, TypeOK, TaskShape
<1> QED
  BY <1>1, <1>5, <1>6, <1>7 DEF TypeInv, JobShape, OrderShape

-----------------------------------------------------------------------------
(* Steps of the user and of the server. *)

LEMMA AddType ==
  ASSUME TypeInv, NEW n \in 1 .. 2, NEW f \in [1 .. n -> Content], addFiles(n, f)
  PROVE  /\ TypeInv'
         /\ \E fresh \in [1 .. n -> Entry] :
               /\ order' = fresh \o order
               /\ \A i \in Entry : i \in ToSet(fresh) => i > Len(order)
               /\ phase' = [i \in Entry |-> IF i \in ToSet(fresh) THEN "uploading" ELSE phase[i]]
               /\ file' = [t \in Task |-> IF t \in ToSet(fresh) THEN f[t - Len(order)] ELSE file[t]]
<1> DEFINE fresh == [k \in 1 .. n |-> Len(order) + k]
<1>1. order \in Seq(Entry) /\ Len(order) \in Nat /\ Entry \subseteq Nat
  BY LengthIsNat
<1>2. /\ Len(order) + n <= MaxFiles
      /\ order' = fresh \o order
      /\ phase' = [i \in Entry |-> IF i \in ToSet(fresh) THEN "uploading" ELSE phase[i]]
      /\ pc' = [t \in Task |-> IF t \in ToSet(fresh) THEN "uploading" ELSE pc[t]]
      /\ file' = [t \in Task |-> IF t \in ToSet(fresh) THEN f[t - Len(order)] ELSE file[t]]
      /\ UNCHANGED <<page, code, view, aborted, late, job, owner, reply>> /\ UNCHANGED Panel
  BY DEF addFiles, Backend
<1>3. fresh \in [1 .. n -> Entry] /\ fresh \in Seq(Entry) /\ Len(fresh) = n
  <2>1. fresh \in [1 .. n -> Entry]
    BY <1>1, <1>2, UploadAssumption DEF Entry
  <2> QED
    BY <2>1, IsASeq, LenProperties
<1>4. ToSet(fresh) = (Len(order) + 1) .. (Len(order) + n)
  <2>1. ToSet(fresh) = {Len(order) + k : k \in 1 .. n}
    BY <1>3 DEF ToSet
  <2>2. ASSUME NEW x \in (Len(order) + 1) .. (Len(order) + n)
        PROVE  x \in {Len(order) + k : k \in 1 .. n}
    <3>1. x - Len(order) \in 1 .. n /\ x = Len(order) + (x - Len(order))
      BY <1>1
    <3> QED
      BY <3>1
  <2>3. \A k \in 1 .. n : Len(order) + k \in (Len(order) + 1) .. (Len(order) + n)
    BY <1>1
  <2> QED
    BY <2>1, <2>2, <2>3
<1>5. order' \in Seq(Entry) /\ Len(order') = n + Len(order)
  BY <1>1, <1>2, <1>3, ConcatProperties
<1> HIDE DEF fresh
<1>6. \A i \in Entry : /\ i \in ToSet(fresh) => i > Len(order)
                       /\ i > Len(order') => i > Len(order) /\ i \notin ToSet(fresh)
  BY <1>1, <1>4, <1>5
<1>7. Viewer \notin ToSet(fresh)
  BY <1>1, <1>4, UploadAssumption
<1>8. \A i \in Entry : /\ i \in ToSet(fresh) => /\ phase'[i] = "uploading" /\ pc'[i] = "uploading"
                                                /\ i \notin aborted /\ code[i] = None
                       /\ i \notin ToSet(fresh) => phase'[i] = phase[i] /\ pc'[i] = pc[i]
  BY <1>2, <1>6, ViewerIsNoEntry DEF TypeInv, EntryShape
<1>9. file' \in [Task -> Content \cup {None}]
      /\ \A t \in Task : t \in ToSet(fresh) => file'[t] \in Content
  <2>1. \A t \in Task : t \in ToSet(fresh) => t - Len(order) \in 1 .. n
    BY <1>1, <1>4
  <2>2. \A t \in Task : t \in ToSet(fresh) => f[t - Len(order)] \in Content
    BY <2>1
  <2> QED
    BY <1>2, <2>2 DEF TypeInv, TypeOK
<1>10. TypeOK'
  <2>1. phase' \in [Entry -> {"none"} \cup InFlight \cup Terminal]
        /\ pc' \in [Task -> Idle \cup Awaits \cup {"unwrapping"}]
    BY <1>2 DEF TypeInv, TypeOK, InFlight, Awaits
  <2>2. \A i \in Entry : i \in inFlight' <=> pc'[i] \notin Idle /\ i \notin aborted'
    BY <1>2, <1>8 DEF TypeInv, TypeOK, inFlight, Listed, InFlight, Idle
  <2> QED
    BY <1>2, <1>5, <1>9, <2>1, <2>2 DEF TypeInv, TypeOK, Answers, Panel
<1>11. EntryShape'
  BY <1>2, <1>6, <1>8 DEF TypeInv, EntryShape
<1>12. TaskShape'
  BY <1>2, <1>9 DEF TypeInv, TaskShape
<1>13. OrderShape'
  <2> SUFFICES ASSUME NEW k \in 1 .. Len(order') PROVE order'[k] <= Len(order')
    BY DEF OrderShape
  <2>1. order'[k] = IF k <= n THEN fresh[k] ELSE order[k - n]
    BY <1>1, <1>2, <1>3, <1>5, ConcatProperties
  <2>2. CASE k <= n
    <3>1. fresh[k] = Len(order) + k
      BY <2>2, <1>5 DEF fresh
    <3> QED
      BY <1>1, <1>5, <2>1, <2>2, <3>1
  <2>3. CASE ~(k <= n)
    <3>1. k - n \in 1 .. Len(order)
      BY <1>1, <1>5, <2>3
    <3>2. order[k - n] <= Len(order) /\ order[k - n] \in Nat
      <4>1. order[k - n] \in Entry
        BY <1>1, <3>1, ElementOfSeq
      <4>2. order[k - n] <= Len(order)
        BY <3>1 DEF TypeInv, OrderShape
      <4> QED
        BY <1>1, <4>1, <4>2
    <3>3. order'[k] = order[k - n]
      BY <2>1, <2>3
    <3>4. \A x \in Nat : x <= Len(order) => x <= n + Len(order)
      BY <1>1
    <3>5. order[k - n] <= n + Len(order)
      BY <3>2, <3>4
    <3> QED
      BY <1>5, <3>3, <3>5, Zenon
  <2> QED
    BY <2>2, <2>3
<1>14. JobShape'
  BY <1>2 DEF TypeInv, JobShape
<1> QED
  BY <1>2, <1>3, <1>6, <1>10, <1>11, <1>12, <1>13, <1>14 DEF TypeInv

(* The list loses entries, and every task of the list may be aborted. *)
LEMMA ForgetType ==
  ASSUME TypeInv, NEW gone \in SUBSET Entry,
         phase' = [i \in Entry |-> IF i \in gone THEN "none" ELSE phase[i]],
         code' = [i \in Entry |-> IF i \in gone THEN None ELSE code[i]],
         \/ gone \subseteq done /\ aborted' = aborted
         \/ gone = Entry /\ AbortAll,
         \A i \in Entry : pc'[i] = pc[i], pc' \in [Task -> Idle \cup Awaits \cup {"unwrapping"}],
         order' = order
  PROVE  /\ EntryShape' /\ OrderShape'
         /\ phase' \in [Entry -> {"none"} \cup InFlight \cup Terminal]
         /\ code' \in [Entry -> Codes] /\ aborted' \subseteq Entry
         /\ \A i \in Entry : i \in inFlight' <=> pc'[i] \notin Idle /\ i \notin aborted'
<1>1. /\ phase' \in [Entry -> {"none"} \cup InFlight \cup Terminal]
      /\ code' \in [Entry -> Codes] /\ aborted' \subseteq Entry
  BY DEF TypeInv, TypeOK, Codes, AbortAll
<1>2. CASE gone \subseteq done /\ aborted' = aborted
  <2>1. \A i \in Entry : i \in inFlight' <=> i \in inFlight
    BY <1>2 DEF inFlight, Listed, done, InFlight, Terminal
  <2>2. EntryShape'
    BY <1>2 DEF TypeInv, EntryShape
  <2> QED
    BY <1>1, <1>2, <2>1, <2>2 DEF TypeInv, TypeOK, OrderShape
<1>3. CASE gone = Entry /\ AbortAll
  <2>1. \A i \in Entry : phase'[i] = "none" /\ code'[i] = None
    BY <1>3
  <2>2. \A i \in Entry : /\ i \notin inFlight'
                         /\ i \in aborted' <=> i \in aborted \/ pc[i] \notin Idle
    BY <1>3, <2>1 DEF AbortAll, inFlight, Listed, InFlight
  <2>3. EntryShape'
    BY <2>1, <2>2 DEF TypeInv, EntryShape, Idle
  <2> QED
    BY <1>1, <2>2, <2>3 DEF TypeInv, OrderShape
<1> QED
  BY <1>2, <1>3

LEMMA ExpiryType == ASSUME TypeInv, NEW S \in SUBSET Entry, prune(S) PROVE TypeInv'
<1>1. /\ S \subseteq done
      /\ UNCHANGED <<page, order, view, pc, file, aborted, late, job, owner, reply>>
      /\ UNCHANGED Panel
  BY DEF prune, Backend
<1>2. /\ phase' = [i \in Entry |-> IF i \in S THEN "none" ELSE phase[i]]
      /\ code' = [i \in Entry |-> IF i \in S THEN None ELSE code[i]]
  BY DEF prune
<1>3. pc' \in [Task -> Idle \cup Awaits \cup {"unwrapping"}]
  BY <1>1 DEF TypeInv, TypeOK
<1>4. /\ EntryShape' /\ OrderShape'
      /\ phase' \in [Entry -> {"none"} \cup InFlight \cup Terminal]
      /\ code' \in [Entry -> Codes] /\ aborted' \subseteq Entry
      /\ \A i \in Entry : i \in inFlight' <=> pc'[i] \notin Idle /\ i \notin aborted'
  BY <1>1, <1>2, <1>3, ForgetType
<1> QED
  BY <1>1, <1>2, <1>3, <1>4 DEF TypeInv, TypeOK, Codes, TaskShape, JobShape, Answers, Panel

LEMMA ClearType == ASSUME TypeInv, clear PROVE TypeInv'
<1>1. AbortAll /\ UNCHANGED <<page, order, view, pc, file, late, job, owner, reply>>
      /\ UNCHANGED Panel
  BY DEF clear, Backend
<1>2. /\ phase' = [i \in Entry |-> IF i \in Entry THEN "none" ELSE phase[i]]
      /\ code' = [i \in Entry |-> IF i \in Entry THEN None ELSE code[i]]
  BY DEF clear
<1>3. pc' \in [Task -> Idle \cup Awaits \cup {"unwrapping"}]
  BY <1>1 DEF TypeInv, TypeOK
<1>4. /\ EntryShape' /\ OrderShape'
      /\ phase' \in [Entry -> {"none"} \cup InFlight \cup Terminal]
      /\ code' \in [Entry -> Codes] /\ aborted' \subseteq Entry
      /\ \A i \in Entry : i \in inFlight' <=> pc'[i] \notin Idle /\ i \notin aborted'
  BY <1>1, <1>2, <1>3, ForgetType
<1> QED
  BY <1>1, <1>2, <1>3, <1>4 DEF TypeInv, TypeOK, Codes, TaskShape, JobShape, Answers, Panel

(* The review page is closed. *)
LEMMA CloseType ==
  ASSUME TypeInv, CloseReview
  PROVE  /\ view'.phase = "none" /\ view'.data = None
         /\ pc' \in [Task -> Idle \cup Awaits \cup {"unwrapping"}]
         /\ file' \in [Task -> Content \cup {None}] /\ reply' \in [Task -> Answers]
         /\ late' \subseteq Task
         /\ \A i \in Entry : pc'[i] = pc[i] /\ file'[i] = file[i]
         /\ \A t \in Task : pc'[t] # "idle" => file'[t] \in Content
BY ViewerIsNoEntry DEF CloseReview, TypeInv, TypeOK, TaskShape, Answers, Idle

LEMMA RenderedType ==
  Rendered.done = Completed /\ Rendered.done \subseteq Entry /\ Rendered.reject \subseteq Entry
BY DEF Rendered, Completed, lastQuotaRejectId, Refused, Listed

LEMMA BlankType ==
  ASSUME CloseUpload
  PROVE  /\ queued' \in BOOLEAN /\ fetching' \in BOOLEAN
         /\ seen'.done \subseteq Entry /\ seen'.reject \subseteq Entry
         /\ covered' \subseteq Entry /\ fetched' \subseteq Entry /\ swapped' \subseteq Entry
BY DEF CloseUpload, Blank

LEMMA PageType ==
  ASSUME TypeInv, OpenUpload \/ Unmount \/ (\E c \in Content : OpenReview(c))
  PROVE  TypeInv'
<1>1. CASE OpenUpload
  <2>1. /\ CloseReview /\ page' \in {"upload", "review", "login"}
        /\ exhausted' \in BOOLEAN /\ queued' \in BOOLEAN /\ seen' = Rendered
        /\ UNCHANGED <<order, phase, code, aborted, fetching, covered, fetched, swapped, job,
                       owner>>
    BY <1>1 DEF OpenUpload, List, Backend, TypeInv, TypeOK
  <2>2. \A i \in Entry : i \in inFlight' <=> pc'[i] \notin Idle /\ i \notin aborted'
    BY <2>1, CloseType DEF TypeInv, TypeOK, inFlight, Listed
  <2>3. EntryShape'
    BY <2>1, CloseType DEF TypeInv, EntryShape
  <2> QED
    BY <2>1, <2>2, <2>3, CloseType, RenderedType
       DEF TypeInv, TypeOK, TaskShape, JobShape, OrderShape
<1>2. CASE Unmount
  <2>1. /\ CloseReview /\ AbortAll /\ page' \in {"upload", "review", "login"}
        /\ phase' = [i \in Entry |-> IF i \in Entry THEN "none" ELSE phase[i]]
        /\ code' = [i \in Entry |-> IF i \in Entry THEN None ELSE code[i]]
        /\ CloseUpload /\ UNCHANGED <<order, exhausted, job, owner>>
    BY <1>2 DEF Unmount, Backend
  <2>2. /\ EntryShape' /\ OrderShape'
        /\ phase' \in [Entry -> {"none"} \cup InFlight \cup Terminal]
        /\ code' \in [Entry -> Codes] /\ aborted' \subseteq Entry
        /\ \A i \in Entry : i \in inFlight' <=> pc'[i] \notin Idle /\ i \notin aborted'
    BY <2>1, CloseType, ForgetType
  <2> QED
    BY <2>1, <2>2, CloseType, BlankType DEF TypeInv, TypeOK, Codes, TaskShape, JobShape
<1>3. ASSUME NEW c \in Content, OpenReview(c) PROVE TypeInv'
  <2>1. /\ page' = "review" /\ view' = [phase |-> "loading", data |-> None]
        /\ pc' = [pc EXCEPT ![Viewer] = "first"] /\ file' = [file EXCEPT ![Viewer] = c]
        /\ CloseUpload
        /\ UNCHANGED <<order, phase, code, aborted, late, exhausted, job, owner, reply>>
    BY <1>3 DEF OpenReview, List, Backend
  <2>2. \A i \in Entry : pc'[i] = pc[i]
    BY <2>1, ViewerIsNoEntry DEF TypeInv, TypeOK
  <2>3. \A i \in Entry : i \in inFlight' <=> pc'[i] \notin Idle /\ i \notin aborted'
    BY <2>1, <2>2 DEF TypeInv, TypeOK, inFlight, Listed
  <2>4. EntryShape'
    BY <2>1, <2>2 DEF TypeInv, EntryShape
  <2>5. TaskShape'
    BY <2>1 DEF TypeInv, TypeOK, TaskShape
  <2>6. TypeOK'
    BY <2>1, <2>3, BlankType DEF TypeInv, TypeOK, Awaits
  <2> QED
    BY <2>1, <2>4, <2>5, <2>6 DEF TypeInv, JobShape, OrderShape
<1> QED
  BY <1>1, <1>2, <1>3

(* The server moves only a running extraction, and only one it owns. *)
LEMMA ServerType ==
  ASSUME TypeInv,
         \/ (\E i \in Entry : Serve(i)) \/ (\E c \in Content : FinishJob(c)) \/ Crash
         \/ Render \/ RefreshRead \/ RefreshShow
  PROVE  /\ TypeInv' /\ UNCHANGED <<order, phase, code, view, file>>
         /\ \A c \in Content : job[c] \in Terminal => job'[c] = job[c]
<1>0. \A c \in Content : owner[c] # None => job[c] = "running"
  BY DEF TypeInv, JobShape
<1>1. ASSUME NEW i \in Entry, ServeUpload(i)
      PROVE  /\ TypeInv' /\ UNCHANGED <<order, phase, code, view, file>>
             /\ \A c \in Content : job[c] \in Terminal => job'[c] = job[c]
  <2>1. /\ pc[i] = "uploading" /\ file[i] \in Content /\ i \in Task
        /\ UNCHANGED <<page, order, phase, code, view, pc, file, aborted, late>>
        /\ UNCHANGED Panel
    BY <1>1, ViewerIsNoEntry DEF ServeUpload, List, TypeInv, TaskShape
  <2>2. \/ reply' \in [Task -> Answers] /\ UNCHANGED <<job, owner>>
        \/ /\ reply' = reply
           /\ job[file[i]] = "none" /\ job' = [job EXCEPT ![file[i]] = "running"]
           /\ owner' = [owner EXCEPT ![file[i]] = i]
    BY <1>1 DEF ServeUpload, Backend, TypeInv, TypeOK, Answers
  <2>4. \A k \in Entry : k \in inFlight' <=> pc'[k] \notin Idle /\ k \notin aborted'
    BY <2>1 DEF TypeInv, TypeOK, inFlight, Listed
  <2>5. TypeOK'
    BY <2>1, <2>2, <2>4 DEF TypeInv, TypeOK, Panel
  <2>6. JobShape'
    BY <2>1, <2>2 DEF TypeInv, TypeOK, JobShape
  <2>7. EntryShape' /\ TaskShape' /\ OrderShape'
    BY <2>1 DEF TypeInv, EntryShape, TaskShape, OrderShape
  <2>8. \A c \in Content : job[c] \in Terminal => job'[c] = job[c]
    BY <2>2 DEF TypeInv, TypeOK, Terminal
  <2> QED
    BY <2>1, <2>5, <2>6, <2>7, <2>8 DEF TypeInv
<1>2. ASSUME NEW i \in Entry, RefuseUpload(i)
      PROVE  /\ TypeInv' /\ UNCHANGED <<order, phase, code, view, file>>
             /\ \A c \in Content : job[c] \in Terminal => job'[c] = job[c]
  BY <1>2 DEF RefuseUpload, List, Panel, Backend, TypeInv, TypeOK, EntryShape, TaskShape, JobShape,
              OrderShape, Answers, inFlight, Listed
<1>3. ASSUME NEW c \in Content, FinishJob(c)
      PROVE  /\ TypeInv' /\ UNCHANGED <<order, phase, code, view, file>>
             /\ \A d \in Content : job[d] \in Terminal => job'[d] = job[d]
  <2>1. /\ owner[c] # None /\ owner[c] \in Task
        /\ owner' = [owner EXCEPT ![c] = None]
        /\ UNCHANGED <<page, order, phase, code, view, pc, file, aborted, late>>
        /\ UNCHANGED Panel
    BY <1>3, ViewerIsNoEntry DEF FinishJob, List, TypeInv, TypeOK
  <2>2. PICK s \in Terminal : job' = [job EXCEPT ![c] = s]
    BY <1>3 DEF FinishJob
  <2>4. reply' \in [Task -> Answers]
    BY <1>3 DEF FinishJob, TypeInv, TypeOK, Answers
  <2>5. \A k \in Entry : k \in inFlight' <=> pc'[k] \notin Idle /\ k \notin aborted'
    BY <2>1 DEF TypeInv, TypeOK, inFlight, Listed
  <2>6. TypeOK'
    BY <2>1, <2>2, <2>4, <2>5 DEF TypeInv, TypeOK, Panel
  <2>7. JobShape' /\ job[c] = "running"
    BY <1>0, <2>1, <2>2 DEF TypeInv, TypeOK, JobShape
  <2>8. EntryShape' /\ TaskShape' /\ OrderShape'
    BY <2>1 DEF TypeInv, EntryShape, TaskShape, OrderShape
  <2> QED
    BY <2>1, <2>2, <2>6, <2>7, <2>8 DEF TypeInv, TypeOK, Terminal
<1>4. CASE Crash
  <2>1. /\ owner' = [c \in Content |-> None] /\ reply' \in [Task -> Answers]
        /\ UNCHANGED <<page, order, phase, code, view, pc, file, aborted, late, job>>
        /\ UNCHANGED Panel
    BY <1>4 DEF Crash, List, TypeInv, TypeOK, Answers
  <2>2. \A k \in Entry : k \in inFlight' <=> pc'[k] \notin Idle /\ k \notin aborted'
    BY <2>1 DEF TypeInv, TypeOK, inFlight, Listed
  <2> QED
    BY <2>1, <2>2 DEF TypeInv, TypeOK, EntryShape, TaskShape, JobShape, OrderShape, Panel
<1>5. CASE Render \/ RefreshRead \/ RefreshShow
  <2>1. /\ UNCHANGED <<page, order, phase, code, view, pc, file, aborted, late, job, owner,
                       reply>>
        /\ exhausted' \in BOOLEAN /\ queued' \in BOOLEAN /\ fetching' \in BOOLEAN
        /\ seen'.done \subseteq Entry /\ seen'.reject \subseteq Entry
        /\ covered' \subseteq Entry /\ fetched' \subseteq Entry /\ swapped' \subseteq Entry
    <3>1. /\ Outcomes \subseteq Entry /\ Completed \subseteq Entry
          /\ Rendered.done \subseteq Entry /\ Rendered.reject \subseteq Entry
      BY RenderedType DEF Outcomes, Completed, Refused, Listed
    <3>2. queued' \in BOOLEAN
      BY <1>5 DEF Render, RefreshRead, RefreshShow, TypeInv, TypeOK, RefreshEffect
    <3> QED
      BY <1>5, <3>1, <3>2 DEF Render, RefreshRead, RefreshShow, List, Backend, TypeInv, TypeOK
  <2>2. \A k \in Entry : k \in inFlight' <=> pc'[k] \notin Idle /\ k \notin aborted'
    BY <2>1 DEF TypeInv, TypeOK, inFlight, Listed
  <2> QED
    BY <2>1, <2>2 DEF TypeInv, TypeOK, EntryShape, TaskShape, JobShape, OrderShape
<1> QED
  BY <1>1, <1>2, <1>3, <1>4, <1>5 DEF Serve

LEMMA StepType == TypeInv /\ [Next]_vars => TypeInv'
<1> SUFFICES ASSUME TypeInv, [Next]_vars PROVE TypeInv'
  OBVIOUS
<1>1. CASE UNCHANGED vars
  BY <1>1 DEF vars, TypeInv, TypeOK, EntryShape, TaskShape, JobShape, OrderShape, inFlight, Listed,
              Answers, Panel
<1>2. CASE User
  BY <1>2, AddType, ClearType, PageType DEF User
<1>3. CASE Expiry
  BY <1>3, ExpiryType DEF Expiry
<1>4. ASSUME NEW t \in Task, Step(t) \/ Fault(t) \/ TwoMinutes(t) PROVE TypeInv'
  BY <1>4, EndType, AskType, AbandonType DEF Step, Fault
<1> QED
  BY <1>1, <1>2, <1>3, <1>4, AcceptedType, ServerType DEF Next

(* The client is well typed, and a spinner turns exactly while a task that   *)
(* nobody aborted works on the entry (use-upload.ts:95-152).                 *)
THEOREM ClientTypeCorrect == Spec => []TypeOK
<1>1. TypeInv => TypeOK
  BY DEF TypeInv
<1> QED
  BY InitType, StepType, <1>1, PTL DEF Spec

-----------------------------------------------------------------------------
(* The outcomes. *)

OutcomeInv ==
  /\ \A i \in Entry : /\ phase[i] = "completed" => job[file[i]] = "completed"
                      /\ phase[i] # "none" /\ code[i] = "extraction" => job[file[i]] = "failed"
  /\ view.data = "completed" => pc[Viewer] # "idle" /\ job[file[Viewer]] = "completed"

LEMMA NoneIsNoOutcome == None # "completed" /\ None # "extraction"
BY UploadAssumption

LEMMA InitOutcome == Init => OutcomeInv
BY NoneIsNoOutcome, ViewerIsNoEntry DEF Init, OutcomeInv

(* What a task may do to its own entry keeps what the others say. *)
LEMMA OwnOutcome ==
  ASSUME TypeInv, OutcomeInv, NEW i \in Entry, NEW p \in {"extracting"} \cup Terminal,
         NEW why \in Codes,
         p = "completed" => job[file[i]] = "completed",
         why = "extraction" => job[file[i]] = "failed",
         phase' = IF i \in Listed THEN [phase EXCEPT ![i] = p] ELSE phase,
         code' = IF i \in Listed THEN [code EXCEPT ![i] = why] ELSE code,
         UNCHANGED <<file, job, view>>, pc'[Viewer] = pc[Viewer]
  PROVE  OutcomeInv'
<1>1. \A k \in Entry : \/ phase'[k] = phase[k] /\ code'[k] = code[k]
                       \/ k = i /\ phase'[k] = p /\ code'[k] = why
  <2>1. phase \in [Entry -> {"none"} \cup InFlight \cup Terminal] /\ code \in [Entry -> Codes]
    BY DEF TypeInv, TypeOK, Codes
  <2>2. CASE i \in Listed
    <3>1. phase' = [phase EXCEPT ![i] = p] /\ code' = [code EXCEPT ![i] = why]
      BY <2>2
    <3> QED
      BY <2>1, <3>1
  <2>3. CASE i \notin Listed
    BY <2>3
  <2> QED
    BY <2>2, <2>3
<1> QED
  BY <1>1 DEF OutcomeInv

LEMMA TaskOutcome ==
  ASSUME TypeInv, OutcomeInv, NEW t \in Task,
         Lost(t) \/ unwrapError(t) \/ FinalAnswer(t) \/ PollTimeout(t)
  PROVE  OutcomeInv'
<1>1. PICK p \in Terminal, why \in Codes :
         /\ Finish(t, p, why)
         /\ p = "completed" => job[file[t]] = "completed"
         /\ why = "extraction" => job[file[t]] = "failed"
  BY EndType
<1>2. pc' = [pc EXCEPT ![t] = "done"] /\ UNCHANGED <<file, job>>
  BY <1>1 DEF Finish, Backend
<1>3. CASE t = Viewer
  <2>0. view' \in {[phase |-> "error", data |-> None], [phase |-> "ready", data |-> p]}
    BY <1>1, <1>3 DEF Finish
  <2>1. UNCHANGED <<phase, code>> /\ view'.data \in {None, p} /\ pc'[Viewer] = "done"
    <3>1. UNCHANGED <<phase, code>>
      BY <1>1, <1>3 DEF Finish, List
    <3>2. view'.data \in {None, p}
      BY <2>0
    <3>3. pc'[Viewer] = "done"
      BY <1>2, <1>3, ViewerIsNoEntry DEF TypeInv, TypeOK
    <3> QED
      BY <3>1, <3>2, <3>3
  <2>2. view'.data = "completed" => job[file[Viewer]] = "completed"
    BY <1>1, <1>3, <2>1, NoneIsNoOutcome
  <2> QED
    BY <1>2, <2>1, <2>2 DEF OutcomeInv
<1>4. CASE t # Viewer
  <2>1. t \in Entry /\ view' = view /\ patch(t, p, why)
    BY <1>1, <1>4 DEF Finish, Task
  <2>2. pc'[Viewer] = pc[Viewer]
    BY <1>2, <1>4, ViewerIsNoEntry DEF TypeInv, TypeOK
  <2> QED
    BY <1>1, <1>2, <2>1, <2>2, OwnOutcome DEF patch
<1> QED
  BY <1>3, <1>4

LEMMA StepOutcome == TypeInv /\ OutcomeInv /\ [Next]_vars => OutcomeInv'
<1> SUFFICES ASSUME TypeInv, OutcomeInv, [Next]_vars PROVE OutcomeInv'
  OBVIOUS
<1>0. \A i \in Entry : phase[i] # "none" => file[i] \in Content
  BY ViewerIsNoEntry DEF TypeInv, EntryShape, TaskShape
<1>1. ASSUME NEW n \in 1 .. 2, NEW f \in [1 .. n -> Content], addFiles(n, f) PROVE OutcomeInv'
  <2>1. PICK fresh \in [1 .. n -> Entry] :
           /\ \A i \in Entry : i \in ToSet(fresh) => i > Len(order)
           /\ phase' = [i \in Entry |-> IF i \in ToSet(fresh) THEN "uploading" ELSE phase[i]]
           /\ file' = [t \in Task |-> IF t \in ToSet(fresh) THEN f[t - Len(order)] ELSE file[t]]
    BY <1>1, AddType
  <2>2. Viewer \notin ToSet(fresh)
    BY ViewerIsNoEntry DEF ToSet
  <2>3. /\ UNCHANGED <<code, view, job>>
        /\ \A t \in Task : t \notin ToSet(fresh) => file'[t] = file[t]
        /\ \A i \in Entry : phase'[i] = phase[i] \/ phase'[i] = "uploading"
    BY <1>1, <2>1 DEF addFiles, Backend
  <2>4. pc'[Viewer] = pc[Viewer] \/ pc'[Viewer] = "uploading"
    BY <1>1, ViewerIsNoEntry DEF addFiles
  <2>5. \A i \in Entry : i \in ToSet(fresh) => phase'[i] = "uploading" /\ code[i] = None
    BY <2>1 DEF TypeInv, EntryShape
  <2>6. \A i \in Entry : i \notin ToSet(fresh) => phase'[i] = phase[i] /\ file'[i] = file[i]
    BY <2>1, <2>3, ViewerIsNoEntry
  <2>7. file'[Viewer] = file[Viewer]
    BY <2>2, <2>3, ViewerIsNoEntry
  <2> QED
    BY <2>3, <2>4, <2>5, <2>6, <2>7, UploadAssumption DEF OutcomeInv
<1>2. ASSUME \A i \in Entry : phase'[i] = "none" \/ (phase'[i] = phase[i] /\ code'[i] = code[i]),
             \A i \in Entry : file'[i] = file[i], job' = job,
             view'.data = "completed" => view' = view /\ UNCHANGED <<pc, file>>
      PROVE  OutcomeInv'
  BY <1>2 DEF OutcomeInv
<1>3. CASE clear
  BY <1>2, <1>3 DEF clear, Backend
<1>4. CASE Expiry
  BY <1>2, <1>4 DEF Expiry, prune, Backend
<1>5. CASE OpenUpload \/ Unmount
  <2>1. CloseReview /\ job' = job
    BY <1>5 DEF OpenUpload, Unmount, Backend
  <2>2. view'.data # "completed" \/ None = "completed"
    BY <2>1 DEF CloseReview
  <2>3. \A i \in Entry : phase'[i] = "none" \/ (phase'[i] = phase[i] /\ code'[i] = code[i])
    BY <1>5 DEF OpenUpload, Unmount, List
  <2>4. \A i \in Entry : file'[i] = file[i]
    BY <2>1, CloseType
  <2> QED
    BY <1>2, <2>1, <2>2, <2>3, <2>4, NoneIsNoOutcome
<1>6. ASSUME NEW c \in Content, OpenReview(c) PROVE OutcomeInv'
  <2>1. /\ UNCHANGED <<phase, code, job>> /\ view' = [phase |-> "loading", data |-> None]
        /\ file' = [file EXCEPT ![Viewer] = c]
    BY <1>6 DEF OpenReview, List, Backend
  <2>2. \A i \in Entry : file'[i] = file[i]
    BY <2>1, ViewerIsNoEntry DEF TypeInv, TypeOK
  <2> QED
    BY <1>2, <2>1, <2>2, NoneIsNoOutcome
<1>7. ASSUME NEW t \in Task, ErrorAnswer(t) \/ StillRunning(t) \/ TwoMinutes(t) \/ Abandon(t)
      PROVE  OutcomeInv'
  <2>1. /\ UNCHANGED <<phase, code, file, job>>
        /\ view' \in {view, [phase |-> "polling", data |-> "running"]}
    BY <1>7 DEF ErrorAnswer, StillRunning, TwoMinutes, Abandon, List, Backend
  <2>2. \A x \in Task : pc[x] # "idle" => pc'[x] # "idle"
    BY <1>7 DEF ErrorAnswer, StillRunning, TwoMinutes, Abandon, TypeInv, TypeOK
  <2> QED
    BY <2>1, <2>2, ViewerIsNoEntry DEF OutcomeInv
<1>8. ASSUME NEW i \in Entry, uploadDocument(i) PROVE OutcomeInv'
  <2>1. /\ phase' = [phase EXCEPT ![i] = "extracting"] /\ code' = [code EXCEPT ![i] = None]
        /\ i \in Listed
    BY <1>8, AcceptedType
  <2>2. UNCHANGED <<file, job, view>> /\ pc'[Viewer] = pc[Viewer]
    BY <1>8, ViewerIsNoEntry DEF uploadDocument, Backend, TypeInv, TypeOK
  <2>3. None \in Codes /\ None # "extraction"
    BY UploadAssumption DEF Codes
  <2> QED
    BY <2>1, <2>2, <2>3, OwnOutcome
<1>9. CASE \/ (\E i \in Entry : Serve(i)) \/ (\E c \in Content : FinishJob(c)) \/ Crash
           \/ Render \/ RefreshRead \/ RefreshShow
  <2>1. /\ UNCHANGED <<phase, code, view, file>>
        /\ \A c \in Content : job[c] \in Terminal => job'[c] = job[c]
    BY <1>9, ServerType
  <2>2. pc' = pc
    BY <1>9 DEF Serve, ServeUpload, RefuseUpload, FinishJob, Crash, Render, RefreshRead,
                RefreshShow
  <2>3. pc[Viewer] # "idle" => file[Viewer] \in Content
    BY ViewerIsNoEntry DEF TypeInv, TaskShape
  <2> QED
    BY <1>0, <2>1, <2>2, <2>3 DEF OutcomeInv, Terminal
<1>10. CASE UNCHANGED vars
  BY <1>10 DEF vars, OutcomeInv
<1> QED
  BY <1>1, <1>3, <1>4, <1>5, <1>6, <1>7, <1>8, <1>9, <1>10, TaskOutcome
     DEF Next, User, Step, Fault

(* A completed row is a completed extraction and a failed extraction is one  *)
(* the server calls failed, for any number of files, with crashes, shared    *)
(* extractions, aborts and late answers (use-upload.ts:118-140).             *)
THEOREM ScreenTellsTheOutcome == Spec => []OutcomeIsServers
<1>1. OutcomeInv => OutcomeIsServers
  BY DEF OutcomeInv, OutcomeIsServers, Listed
<1> QED
  BY InitType, StepType, InitOutcome, StepOutcome, <1>1, PTL DEF Spec

-----------------------------------------------------------------------------
(* An outcome stands. *)

Stands == \A i \in Entry : /\ i \in ToSet(order) \ Listed => phase'[i] = "none"
                           /\ i \in done => phase'[i] \in {phase[i], "none"}

LEMMA StepStands == TypeInv /\ [Next]_vars => Stands
<1> SUFFICES ASSUME TypeInv, [Next]_vars PROVE Stands
  OBVIOUS
<1>1. ASSUME \A i \in Entry : phase'[i] \in {phase[i], "none"} PROVE Stands
  BY <1>1 DEF Stands, Listed
<1>2. ASSUME NEW n \in 1 .. 2, NEW f \in [1 .. n -> Content], addFiles(n, f) PROVE Stands
  <2>1. PICK fresh \in [1 .. n -> Entry] :
           /\ \A i \in Entry : i \in ToSet(fresh) => i > Len(order)
           /\ phase' = [i \in Entry |-> IF i \in ToSet(fresh) THEN "uploading" ELSE phase[i]]
    BY <1>2, AddType
  <2>2. ASSUME NEW i \in Entry, i \in ToSet(order) PROVE i \notin ToSet(fresh)
    <3>1. PICK k \in 1 .. Len(order) : i = order[k]
      BY <2>2, LengthIsNat, LenProperties DEF ToSet
    <3>2. i <= Len(order)
      BY <3>1 DEF TypeInv, OrderShape
    <3>3. ~(i > Len(order))
      BY <3>2, LengthIsNat
    <3> QED
      BY <2>1, <3>3
  <2>3. ASSUME NEW i \in Entry, i \in done PROVE i \notin ToSet(fresh)
    BY <2>1, <2>3 DEF TypeInv, EntryShape, done, Listed
  <2> QED
    BY <2>1, <2>2, <2>3 DEF Stands, Listed
<1>3. ASSUME NEW i \in Entry, NEW p, NEW why, pc[i] \notin Idle, patch(i, p, why) PROVE Stands
  <2>1. phase' = IF i \in Listed THEN [phase EXCEPT ![i] = p] ELSE phase
    BY <1>3 DEF patch
  <2>2. i \notin done
    BY <1>3, WorkingEntry DEF done, InFlight, Terminal
  <2>3. \A k \in Entry : k # i \/ i \notin Listed => phase'[k] = phase[k]
    BY <2>1 DEF TypeInv, TypeOK
  <2> QED
    BY <2>2, <2>3 DEF Stands, Listed
<1>4. ASSUME NEW t \in Task,
             Lost(t) \/ unwrapError(t) \/ FinalAnswer(t) \/ PollTimeout(t)
      PROVE  Stands
  <2>1. pc[t] \notin Idle /\ \E p \in Terminal, why \in Codes : Finish(t, p, why)
    BY <1>4, EndType
  <2>2. PICK p \in Terminal, why \in Codes : Finish(t, p, why)
    BY <2>1
  <2>3. CASE t = Viewer
    BY <1>1, <2>2, <2>3 DEF Finish, List
  <2>4. CASE t # Viewer
    BY <1>3, <2>1, <2>2, <2>4 DEF Finish, Task
  <2> QED
    BY <2>3, <2>4
<1>5. ASSUME NEW t \in Task, ErrorAnswer(t) \/ StillRunning(t) \/ TwoMinutes(t) \/ Abandon(t)
      PROVE  Stands
  BY <1>1, <1>5 DEF ErrorAnswer, StillRunning, TwoMinutes, Abandon, List
<1>6. ASSUME NEW i \in Entry, uploadDocument(i) PROVE Stands
  BY <1>3, <1>6 DEF uploadDocument, Waits, Idle
<1>7. CASE \/ (\E i \in Entry : Serve(i)) \/ (\E c \in Content : FinishJob(c)) \/ Crash
           \/ Render \/ RefreshRead \/ RefreshShow
  BY <1>1, <1>7, ServerType
<1>8. CASE clear \/ Expiry \/ OpenUpload \/ Unmount \/ \E c \in Content : OpenReview(c)
  BY <1>1, <1>8 DEF clear, Expiry, prune, OpenUpload, Unmount, OpenReview, List
<1>9. CASE UNCHANGED vars
  BY <1>1, <1>9 DEF vars
<1> QED
  BY <1>2, <1>4, <1>5, <1>6, <1>7, <1>8, <1>9 DEF Next, User, Step, Fault

(* No late answer brings an entry back that was cleared, pruned or unmounted,*)
(* or changes an outcome that is shown, for any number of files              *)
(* (use-upload.ts:69-76,95-99,187-191).                                     *)
THEOREM OutcomesStand == Spec => OutcomeStands
<1>1. TypeInv /\ [Next]_vars =>
        \A i \in Entry : /\ i \in ToSet(order) \ Listed => phase'[i] = "none"
                         /\ i \in done => phase'[i] \in {phase[i], "none"}
  BY StepStands DEF Stands
<1> QED
  BY InitType, StepType, <1>1, PTL DEF Spec, OutcomeStands

-----------------------------------------------------------------------------
(* The quota panel.                                                         *)
(*                                                                          *)
(* PanelIsFresh speaks of a page at rest.  On the way there the outcomes a  *)
(* running refresh has read count instead of those on the screen, and what  *)
(* the shell last rendered instead of the list as it is.                    *)

Cover == IF fetching THEN fetched ELSE covered

(* What the shell has rendered is over. *)
SeenShape == \A i \in seen.done \cup seen.reject : i \in Entry /\ pc[i] = "done"

PanelCovers ==
  page = "upload" /\ ~queued =>
     (Completed \cap seen.done) \cup (Refused \cap seen.reject) \subseteq Cover \cup swapped

PanelInv == SeenShape /\ PanelCovers

(* A listed outcome is the outcome of a task that is over. *)
LEMMA OutcomeIsOver ==
  ASSUME TypeInv, NEW i \in Entry, phase[i] \in Terminal
  PROVE  pc[i] = "done"
BY DEF TypeInv, TypeOK, EntryShape, inFlight, Listed, InFlight, Terminal, Idle

(* An entry whose task is over keeps its outcome, or leaves the list. *)
OverStays ==
  \A i \in Entry : pc[i] = "done" =>
     /\ pc'[i] = "done"
     /\ phase'[i] = "none" \/ (phase'[i] = phase[i] /\ code'[i] = code[i])

LEMMA StepOver == TypeInv /\ [Next]_vars => OverStays
<1> SUFFICES ASSUME TypeInv, [Next]_vars PROVE OverStays
  OBVIOUS
<1>1. ASSUME \A i \in Entry : pc'[i] = pc[i],
             \A i \in Entry : phase'[i] = "none" \/ (phase'[i] = phase[i] /\ code'[i] = code[i])
      PROVE  OverStays
  BY <1>1 DEF OverStays
<1>2. ASSUME NEW t \in Task, pc[t] \notin Idle, NEW x, pc' = [pc EXCEPT ![t] = x],
             \/ UNCHANGED <<phase, code>>
             \/ t # Viewer /\ \E p, why : patch(t, p, why)
      PROVE  OverStays
  <2>1. \A i \in Entry : i # t => pc'[i] = pc[i] /\ phase'[i] = phase[i] /\ code'[i] = code[i]
    BY <1>2, ViewerIsNoEntry DEF patch, TypeInv, TypeOK
  <2>2. pc[t] # "done"
    BY <1>2 DEF Idle
  <2> QED
    BY <2>1, <2>2 DEF OverStays
<1>3. ASSUME NEW n \in 1 .. 2, NEW f \in [1 .. n -> Content], addFiles(n, f) PROVE OverStays
  <2>1. PICK fresh \in [1 .. n -> Entry] :
           /\ \A i \in Entry : i \in ToSet(fresh) => i > Len(order)
           /\ phase' = [i \in Entry |-> IF i \in ToSet(fresh) THEN "uploading" ELSE phase[i]]
    BY <1>3, AddType
  <2>2. \A i \in Entry : i > Len(order) => pc[i] = "idle"
    BY DEF TypeInv, EntryShape
  <2>3. \A i \in Entry : pc'[i] \in {pc[i], "uploading"} /\ (pc'[i] # pc[i] => pc[i] = "idle")
    <3> DEFINE new == [k \in 1 .. n |-> Len(order) + k]
    <3>1. pc' = [t \in Task |-> IF t \in ToSet(new) THEN "uploading" ELSE pc[t]]
      BY <1>3 DEF addFiles
    <3>2. order \in Seq(Entry) /\ Len(order) \in Nat
      BY LengthIsNat
    <3>3. \A i \in Entry : i \in ToSet(new) => i > Len(order)
      <4> SUFFICES ASSUME NEW i \in ToSet(new) PROVE i > Len(order)
        OBVIOUS
      <4>1. PICK k \in 1 .. n : i = Len(order) + k
        BY DEF ToSet
      <4> QED
        BY <3>2, <4>1
    <3> HIDE DEF new
    <3> QED
      BY <2>2, <3>1, <3>3, ViewerIsNoEntry
  <2>4. \A i \in Entry : pc[i] = "done" => phase'[i] = phase[i]
    BY <2>1, <2>2
  <2>5. code' = code
    BY <1>3 DEF addFiles
  <2> QED
    BY <2>3, <2>4, <2>5 DEF OverStays
<1>4. ASSUME NEW t \in Task,
             Lost(t) \/ unwrapError(t) \/ FinalAnswer(t) \/ PollTimeout(t)
      PROVE  OverStays
  <2>1. pc[t] \notin Idle /\ \E p \in Terminal, why \in Codes : Finish(t, p, why)
    BY <1>4, EndType
  <2>2. PICK p \in Terminal, why \in Codes : Finish(t, p, why)
    BY <2>1
  <2>3. pc' = [pc EXCEPT ![t] = "done"]
    BY <2>2 DEF Finish
  <2>4. UNCHANGED <<phase, code>> \/ (t # Viewer /\ patch(t, p, why))
    BY <2>2 DEF Finish, List
  <2> QED
    BY <1>2, <2>1, <2>3, <2>4
<1>5. ASSUME NEW t \in Task, ErrorAnswer(t) \/ StillRunning(t) \/ Abandon(t) PROVE OverStays
  <2>1. pc[t] \notin Idle /\ UNCHANGED <<phase, code>>
    BY <1>5 DEF ErrorAnswer, UploadRefused, PollRefused, StillRunning, Abandon, Waits, Awaits,
                Idle, List
  <2>2. \E x : pc' = [pc EXCEPT ![t] = x]
    BY <1>5 DEF ErrorAnswer, StillRunning, Abandon
  <2> QED
    BY <1>2, <2>1, <2>2
<1>6. ASSUME NEW i \in Entry, uploadDocument(i) PROVE OverStays
  <2>1. /\ pc[i] \notin Idle /\ patch(i, "extracting", None) /\ i # Viewer /\ i \in Task
        /\ pc' = [pc EXCEPT ![i] = "asking"]
    BY <1>6, ViewerIsNoEntry DEF uploadDocument, Waits, Idle
  <2> QED
    BY <1>2, <2>1
<1>7. CASE clear \/ Expiry
  BY <1>1, <1>7 DEF clear, Expiry, prune
<1>8. CASE OpenUpload \/ Unmount
  <2>1. CloseReview
    BY <1>8 DEF OpenUpload, Unmount
  <2> QED
    BY <1>1, <1>8, <2>1, CloseType DEF OpenUpload, Unmount, List
<1>9. ASSUME NEW c \in Content, OpenReview(c) PROVE OverStays
  BY <1>1, <1>9, ViewerIsNoEntry DEF OpenReview, List, TypeInv, TypeOK
<1>10. ASSUME UNCHANGED <<pc, phase, code>> PROVE OverStays
  BY <1>1, <1>10
<1>11. CASE \/ (\E i \in Entry : Serve(i)) \/ (\E c \in Content : FinishJob(c)) \/ Crash
            \/ Render \/ RefreshRead \/ RefreshShow \/ (\E t \in Task : TwoMinutes(t))
  BY <1>10, <1>11 DEF Serve, ServeUpload, RefuseUpload, FinishJob, Crash, Render, RefreshRead,
                      RefreshShow, TwoMinutes, List
<1>12. CASE UNCHANGED vars
  BY <1>10, <1>12 DEF vars
<1> QED
  BY <1>3, <1>4, <1>5, <1>6, <1>7, <1>8, <1>9, <1>11, <1>12 DEF Next, User, Step, Fault

(* While nothing renders, outcomes may only leave what the shell has seen.  *)
LEMMA PanelRests ==
  ASSUME TypeInv, PanelInv, OverStays, UNCHANGED <<page, Panel>>
  PROVE  PanelInv'
<1>1. SeenShape'
  BY DEF PanelInv, SeenShape, OverStays, Panel
<1>2. \A i \in seen.done \cup seen.reject : /\ i \in Completed' => i \in Completed
                                            /\ i \in Refused' => i \in Refused
  BY DEF PanelInv, SeenShape, OverStays, Completed, Refused, Listed
<1>3. PanelCovers'
  BY <1>2 DEF PanelInv, PanelCovers, Panel, Cover
<1> QED
  BY <1>1, <1>3 DEF PanelInv

LEMMA RenderedIsOver ==
  ASSUME TypeInv
  PROVE  /\ Rendered.done = Completed /\ Rendered.reject = lastQuotaRejectId
         /\ lastQuotaRejectId \subseteq Refused
         /\ \A i \in Completed \cup Refused : i \in Entry /\ pc[i] = "done"
<1>1. \A i \in Completed \cup Refused : i \in Entry /\ phase[i] \in Terminal
  BY DEF Completed, Refused, Listed, Terminal
<1> QED
  BY <1>1, OutcomeIsOver DEF Rendered, lastQuotaRejectId

LEMMA StepPanel == TypeInv /\ PanelInv /\ [Next]_vars => PanelInv'
<1> SUFFICES ASSUME TypeInv, PanelInv, [Next]_vars PROVE PanelInv'
  OBVIOUS
<1>0. OverStays
  BY StepOver
<1>1. CASE Render
  <2>1. /\ seen' = Rendered /\ queued' = (queued \/ RefreshEffect(Rendered))
        /\ UNCHANGED <<page, order, phase, code, pc, fetching, covered, fetched>>
    BY <1>1 DEF Render, List
  <2>2. SeenShape'
    BY <2>1, RenderedIsOver DEF SeenShape
  <2>3. Completed' = Completed /\ Refused' = Refused /\ Cover' = Cover
    BY <2>1 DEF Completed, Refused, Listed, Cover
  <2>4. CASE Deps(Rendered) = Deps(seen)
    <3>1. swapped' = swapped \cup (Completed \ seen.done) /\ Rendered.reject = seen.reject
      BY <1>1, <2>4 DEF Render, Deps
    <3> QED
      BY <2>1, <2>2, <2>3, <3>1, RenderedIsOver DEF PanelInv, PanelCovers
  <2>5. CASE Deps(Rendered) # Deps(seen)
    <3>1. ~queued' => Rendered.done = {} /\ Rendered.reject = {}
      BY <2>1, <2>5 DEF RefreshEffect
    <3> QED
      BY <2>1, <2>2, <3>1 DEF PanelInv, PanelCovers
  <2> QED
    BY <2>4, <2>5
<1>2. CASE RefreshRead
  <2>1. /\ UNCHANGED <<page, phase, code, pc, seen>> /\ fetching' = TRUE /\ fetched' = Outcomes
    BY <1>2 DEF RefreshRead, List
  <2>2. Completed' = Completed /\ Refused' = Refused /\ Cover' = Completed \cup Refused
    BY <2>1 DEF Completed, Refused, Listed, Cover, Outcomes
  <2> QED
    BY <2>1, <2>2 DEF PanelInv, SeenShape, PanelCovers
<1>3. CASE RefreshShow
  <2>1. /\ UNCHANGED <<page, phase, code, pc, seen, queued, swapped>>
        /\ fetching /\ fetching' = FALSE /\ covered' = fetched
    BY <1>3 DEF RefreshShow, List
  <2>2. Completed' = Completed /\ Refused' = Refused /\ Cover' = Cover
    BY <2>1 DEF Completed, Refused, Listed, Cover
  <2> QED
    BY <2>1, <2>2 DEF PanelInv, SeenShape, PanelCovers
<1>4. CASE OpenUpload
  <2>1. /\ UNCHANGED <<phase, code>> /\ seen' = Rendered /\ CloseReview
        /\ queued' = (Completed # {} \/ lastQuotaRejectId # {})
    BY <1>4 DEF OpenUpload, List
  <2>2. SeenShape'
    BY <2>1, RenderedIsOver, CloseType DEF SeenShape
  <2>3. ~queued' => seen'.done = {} /\ seen'.reject = {}
    BY <2>1, RenderedIsOver
  <2> QED
    BY <2>2, <2>3 DEF PanelInv, PanelCovers
<1>5. CASE Unmount \/ \E c \in Content : OpenReview(c)
  <2>1. seen' = Blank /\ page' # "upload"
    BY <1>5 DEF Unmount, OpenReview, CloseUpload
  <2> QED
    BY <2>1 DEF PanelInv, SeenShape, PanelCovers, Blank
<1>6. ASSUME NEW t \in Task, Step(t) \/ Fault(t) \/ TwoMinutes(t) PROVE UNCHANGED <<page, Panel>>
  BY <1>6 DEF Step, Fault, TwoMinutes, Lost, ErrorAnswer, unwrapError, FinalAnswer, StillRunning,
              PollTimeout, Abandon, Finish
<1>7. CASE \/ clear \/ Expiry \/ (\E i \in Entry : Serve(i) \/ uploadDocument(i))
           \/ (\E c \in Content : FinishJob(c)) \/ Crash \/ UNCHANGED vars
           \/ (\E n \in 1 .. 2 : \E f \in [1 .. n -> Content] : addFiles(n, f))
  <2>1. UNCHANGED <<page, Panel>>
    BY <1>7 DEF clear, Expiry, prune, Serve, ServeUpload, RefuseUpload, uploadDocument, FinishJob,
                Crash, addFiles, vars, Panel
  <2> QED
    BY <1>0, <2>1, PanelRests
<1>8. ASSUME NEW t \in Task, Step(t) \/ Fault(t) \/ TwoMinutes(t) PROVE PanelInv'
  BY <1>0, <1>6, <1>8, PanelRests
<1> QED
  BY <1>1, <1>2, <1>3, <1>4, <1>5, <1>7, <1>8 DEF Next, User

LEMMA InitPanel == Init => PanelInv
BY DEF Init, Blank, PanelInv, SeenShape, PanelCovers

(* At rest the numbers on the panel were read after every outcome listed as *)
(* completed and after the oldest refusal, for any number of files: prunes,  *)
(* batched renders and refreshes that overlap included                       *)
(* (upload-shell.tsx:31-45).                                                *)
THEOREM PanelKeepsUp == Spec => []PanelIsFresh
<1>1. TypeInv /\ PanelInv => PanelIsFresh
  <2> SUFFICES ASSUME TypeInv, PanelInv, page = "upload", seen = Rendered, ~queued, ~fetching
               PROVE  Completed \cup lastQuotaRejectId \subseteq covered \cup swapped
    BY DEF PanelIsFresh
  <2>1. seen.done = Completed /\ seen.reject = lastQuotaRejectId
        /\ lastQuotaRejectId \subseteq Refused
    BY RenderedIsOver
  <2> QED
    BY <2>1 DEF PanelInv, PanelCovers, Cover
<1> QED
  BY InitType, StepType, InitPanel, StepPanel, <1>1, PTL DEF Spec
=============================================================================
