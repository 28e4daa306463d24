--------------------------- MODULE AccountsProofs ---------------------------
(***************************************************************************)
(* Safety of Accounts for every set of requests: one account per address,  *)
(* a reset that ends the older links, and no lost update, under every      *)
(* interleaving of the reads and the commits.                              *)
(***************************************************************************)
EXTENDS Accounts, TLAPS

-----------------------------------------------------------------------------
(* Type correctness, with what relates the variables: only a request that   *)
(* presented a token of its route's purpose gets as far as consuming it,    *)
(* and no request mints its token twice.                                    *)

ConsumesItsToken ==
  \A r \in Req :
     /\ pc[r] = "consumed" => kind[r] \in {"verify", "reset"}
     /\ pc[r] = "gathered" => kind[r] = "reset"
     /\ pc[r] \in {"consumed", "gathered"} => token[link[r]] = kind[r]
     /\ \A t \in others[r] \cup prior[r] : token[t] = "reset"
     /\ pc[r] \in {"idle", "creating", "minting"} => token[r] = "none"
     /\ pc[r] \in {"linking", "minting"} => kind[r] # "reset"
     /\ pc[r] = "changing" => kind[r] = "change"

TypeInv == TypeOK /\ ConsumesItsToken

LEMMA FlushType ==
  ASSUME user \in UserRow, NEW before \in UserRow, NEW after \in UserRow
  PROVE  /\ Flush(before, after) \in UserRow
         /\ \A c \in {"exists", "password", "verified"} :
              Flush(before, after)[c] = IF after[c] # before[c] THEN after[c] ELSE user[c]
<1>1. DOMAIN user = {"exists", "password", "verified"}
  BY DEF UserRow
<1>2. Flush(before, after) =
        [c \in {"exists", "password", "verified"} |->
           IF after[c] # before[c] THEN after[c] ELSE user[c]]
  BY <1>1 DEF Flush
<1> QED
  BY <1>2 DEF UserRow

LEMMA FlushVerified ==
  ASSUME user \in UserRow, NEW before \in UserRow
  PROVE  /\ Flush(before, [before EXCEPT !.verified = TRUE]) \in UserRow
         /\ Flush(before, [before EXCEPT !.verified = TRUE]).password = user.password
         /\ user.verified => Flush(before, [before EXCEPT !.verified = TRUE]).verified
<1> DEFINE after == [before EXCEPT !.verified = TRUE]
<1>1. /\ after \in UserRow
      /\ after.password = before.password /\ after.verified
  BY DEF UserRow
<1> HIDE DEF after
<1>2. /\ Flush(before, after) \in UserRow
      /\ Flush(before, after).password = user.password
      /\ Flush(before, after).verified = IF after.verified # before.verified
                                         THEN after.verified ELSE user.verified
  BY <1>1, FlushType
<1>3. user.verified => Flush(before, after).verified
  BY <1>1, <1>2
<1> QED
  BY <1>2, <1>3 DEF after

LEMMA FlushPassword ==
  ASSUME user \in UserRow, NEW before \in UserRow, NEW p \in Password
  PROVE  /\ Flush(before, [before EXCEPT !.password = p]) \in UserRow
         /\ Flush(before, [before EXCEPT !.password = p]).password \in {p, user.password}
         /\ Flush(before, [before EXCEPT !.password = p]).verified = user.verified
<1> DEFINE after == [before EXCEPT !.password = p]
<1>1. /\ after \in UserRow
      /\ after.password = p /\ after.verified = before.verified
  BY DEF UserRow
<1> HIDE DEF after
<1>2. /\ Flush(before, after) \in UserRow
      /\ Flush(before, after).password \in {p, user.password}
      /\ Flush(before, after).verified = user.verified
  BY <1>1, FlushType
<1> QED
  BY <1>2 DEF after

LEMMA NoUserType == NoUser \in UserRow
BY DEF NoUser, UserRow, Password

LEMMA BeginType ==
  ASSUME TypeInv, NEW r \in Req, NEW k \in Kind, NEW t \in Req, NEW label,
         Begin(r, k, t, label),
         label \in {"created", "done", "refused", "failed"} \cup Working,
         label = "consumed" => k \in {"verify", "reset"} /\ token[t] = k,
         label # "gathered",
         label \in {"linking", "minting"} => k # "reset",
         label = "changing" => k = "change",
         prior' \in [Req -> SUBSET {u \in Req : token[u] = "reset"}]
  PROVE  TypeInv'
<1>1. TypeOK'
  BY DEF TypeInv, TypeOK, Begin, Tokens
<1>2. ConsumesItsToken'
  <2> SUFFICES ASSUME NEW s \in Req
               PROVE  /\ pc'[s] = "consumed" => kind'[s] \in {"verify", "reset"}
                      /\ pc'[s] = "gathered" => kind'[s] = "reset"
                      /\ pc'[s] \in {"consumed", "gathered"} => token[link'[s]] = kind'[s]
                      /\ \A u \in others[s] \cup prior'[s] : token[u] = "reset"
                      /\ pc'[s] \in {"idle", "creating", "minting"} => token[s] = "none"
                      /\ pc'[s] \in {"linking", "minting"} => kind'[s] # "reset"
                      /\ pc'[s] = "changing" => kind'[s] = "change"
    BY DEF ConsumesItsToken, Begin, Tokens
  <2>1. \A u \in others[s] \cup prior'[s] : token[u] = "reset"
    BY DEF TypeInv, ConsumesItsToken
  <2>2. /\ pc \in [Req -> {"idle", "created", "done", "refused", "failed"} \cup Working]
        /\ kind \in [Req -> Kind] /\ link \in [Req -> Req]
    BY DEF TypeInv, TypeOK
  <2>3. CASE s = r
    <3>1. pc[s] = "idle" /\ pc'[s] = label /\ kind'[s] = k /\ link'[s] = t
      BY <2>2, <2>3 DEF Begin
    <3> QED
      BY <2>1, <2>3, <3>1 DEF TypeInv, ConsumesItsToken
  <2>4. CASE s # r
    <3>1. pc'[s] = pc[s] /\ kind'[s] = kind[s] /\ link'[s] = link[s]
      BY <2>2, <2>4 DEF Begin
    <3> QED
      BY <2>1, <3>1 DEF TypeInv, ConsumesItsToken
  <2> QED
    BY <2>3, <2>4
<1> QED
  BY <1>1, <1>2 DEF TypeInv

(* A request that ends: its label, its copy and its selection are the only  *)
(* things of its own it changes; tokens keep their purpose.                 *)
LEMMA FinishType ==
  ASSUME TypeInv, NEW r \in Req, NEW label \in {"created", "done", "failed"},
         Finish(r, label),
         user' \in UserRow,
         token' \in [Req -> Purpose],
         \A t \in Req : t # r \/ token[t] # "none" => token'[t] = token[t],
         used' \subseteq {t \in Req : token'[t] # "none"}
  PROVE  TypeInv'
<1>1. TypeOK'
  BY NoUserType DEF TypeInv, TypeOK, Finish
<1>2. ConsumesItsToken'
  BY DEF TypeInv, TypeOK, ConsumesItsToken, Finish
<1> QED
  BY <1>1, <1>2 DEF TypeInv

LEMMA TypeStep == TypeInv /\ [Next]_vars => TypeInv'
<1> SUFFICES ASSUME TypeInv, [Next]_vars
             PROVE  TypeInv'
  OBVIOUS
<1>0. /\ user \in UserRow /\ token \in [Req -> Purpose]
      /\ used \subseteq {t \in Req : token[t] # "none"}
      /\ \A r \in Req : copy[r] \in UserRow /\ link[r] \in Req /\ r \in Password
      /\ prior \in [Req -> SUBSET {u \in Req : token[u] = "reset"}]
  BY DEF TypeInv, TypeOK, ConsumesItsToken, Password
<1>1. ASSUME NEW r \in Req,
             register(r) \/ google_callback(r) \/ request_password_reset(r)
      PROVE  TypeInv'
  BY <1>0, <1>1, BeginType
  DEF register, google_callback, request_password_reset, Kind, Working
<1>2. ASSUME NEW r \in Req, verify_email(r)
      PROVE  TypeInv'
  BY <1>0, <1>2, BeginType DEF verify_email, _consume_token, Kind, Working
<1>3. ASSUME NEW r \in Req, reset_password(r)
      PROVE  TypeInv'
  <2>1. prior' \in [Req -> SUBSET {u \in Req : token[u] = "reset"}]
    BY <1>0, <1>3 DEF reset_password
  <2> QED
    BY <1>3, <2>1, BeginType DEF reset_password, _consume_token, Kind, Working
<1>4. ASSUME NEW r \in Req, change_password(r)
      PROVE  TypeInv'
  BY <1>0, <1>4, BeginType DEF change_password, Kind, Working
<1>5. ASSUME NEW r \in Req, Create(r)
      PROVE  TypeInv'
  <2>1. CASE EmailTaken
    BY <1>0, <1>5, <2>1, FinishType DEF Create, Tokens
  <2>2. CASE ~EmailTaken
    <3> DEFINE v == kind[r] = "google"
    <3>0. user' = [exists |-> TRUE, password |-> r, verified |-> v] /\ v \in BOOLEAN
      BY <1>5, <2>2 DEF Create
    <3> HIDE DEF v
    <3>1. user' \in UserRow
      BY <1>0, <3>0 DEF UserRow
    <3>2. /\ token' = [token EXCEPT ![r] = IF kind[r] = "register" THEN "verify" ELSE @]
          /\ used' = used /\ Finish(r, "created")
      BY <1>5, <2>2 DEF Create
    <3>3. token[r] = "none"
      BY <1>5 DEF Create, TypeInv, ConsumesItsToken
    <3>4. token' \in [Req -> Purpose] /\ \A t \in Req : t # r => token'[t] = token[t]
      BY <1>0, <3>2 DEF Purpose
    <3>5. used' \subseteq {t \in Req : token'[t] # "none"}
      BY <1>0, <3>2, <3>3, <3>4
    <3> QED
      BY <3>1, <3>2, <3>3, <3>4, <3>5, FinishType
  <2> QED
    BY <2>1, <2>2
<1>6. ASSUME NEW r \in Req, GoogleLinks(r)
      PROVE  TypeInv'
  BY <1>0, <1>6, FlushVerified, FinishType DEF GoogleLinks, Tokens
<1>7. ASSUME NEW r \in Req, VerifyCommits(r)
      PROVE  TypeInv'
  <2>1. token[link[r]] # "none"
    BY <1>7 DEF VerifyCommits, TypeInv, ConsumesItsToken
  <2>2. used' \subseteq {t \in Req : token'[t] # "none"}
    BY <1>0, <1>7, <2>1 DEF VerifyCommits
  <2> QED
    BY <1>0, <1>7, <2>2, FlushVerified, FinishType DEF VerifyCommits
<1>8. ASSUME NEW r \in Req, _new_email_token(r)
      PROVE  TypeInv'
  <2>1. token[r] = "none"
    BY <1>8 DEF _new_email_token, TypeInv, ConsumesItsToken
  <2>2. token' \in [Req -> Purpose] /\ \A t \in Req : t # r => token'[t] = token[t]
    BY <1>0, <1>8 DEF _new_email_token, Purpose
  <2>3. used' \subseteq {t \in Req : token'[t] # "none"}
    BY <1>0, <1>8, <2>1, <2>2 DEF _new_email_token
  <2> QED
    BY <1>0, <1>8, <2>1, <2>2, <2>3, FinishType DEF _new_email_token
<1>9. ASSUME NEW r \in Req, ResetGathers(r)
      PROVE  TypeInv'
  <2>1. /\ others' \in [Req -> SUBSET Req]
        /\ \A s \in Req : others'[s] = IF s = r THEN other_reset_tokens(r) ELSE others[s]
        /\ pc' \in [Req -> {"idle", "created", "done", "refused", "failed"} \cup Working]
        /\ \A s \in Req : pc'[s] = IF s = r THEN "gathered" ELSE pc[s]
    BY <1>9 DEF ResetGathers, TypeInv, TypeOK, other_reset_tokens, Working
  <2>2. /\ UNCHANGED <<user, token, used, expired, kind, link, copy, prior>>
        /\ pc[r] = "consumed" /\ kind[r] = "reset"
    BY <1>9 DEF ResetGathers, Tokens
  <2>3. TypeOK'
    BY <2>1, <2>2 DEF TypeInv, TypeOK
  <2>4. ConsumesItsToken'
    BY <2>1, <2>2 DEF TypeInv, ConsumesItsToken, other_reset_tokens
  <2> QED
    BY <2>3, <2>4 DEF TypeInv
<1>10. ASSUME NEW r \in Req, ResetCommits(r)
       PROVE  TypeInv'
  <2>1. token[link[r]] # "none" /\ \A t \in others[r] : token[t] # "none"
    BY <1>10 DEF ResetCommits, TypeInv, ConsumesItsToken
  <2>2. used' \subseteq {t \in Req : token'[t] # "none"}
    BY <1>0, <1>10, <2>1 DEF ResetCommits, TypeInv, TypeOK
  <2> QED
    BY <1>0, <1>10, <2>2, FlushPassword, FinishType DEF ResetCommits
<1>11. ASSUME NEW r \in Req, ChangeCommits(r)
       PROVE  TypeInv'
  BY <1>0, <1>11, FlushPassword, FinishType DEF ChangeCommits, Tokens
<1>12. ASSUME NEW r \in Req, Abandon(r)
       PROVE  TypeInv'
  BY <1>0, <1>12, FinishType DEF Abandon, Tokens
<1>13. ASSUME Expire
       PROVE  TypeInv'
  BY <1>13 DEF Expire, TypeInv, TypeOK, ConsumesItsToken, Tokens
<1>14. ASSUME UNCHANGED vars
       PROVE  TypeInv'
  BY <1>14 DEF vars, TypeInv, TypeOK, ConsumesItsToken
<1> QED
  BY <1>1, <1>2, <1>3, <1>4, <1>5, <1>6, <1>7, <1>8, <1>9, <1>10, <1>11, <1>12,
     <1>13, <1>14 DEF Next

LEMMA TypeInvariant == Spec => []TypeInv
<1>1. Init => TypeInv
  BY NoUserType DEF Init, TypeInv, TypeOK, ConsumesItsToken, Kind, Purpose
<1> QED
  BY <1>1, TypeStep, PTL DEF Spec

(* The state of an account is well typed for any requests. *)
THEOREM AccountTypeCorrect == Spec => []TypeOK
<1>1. TypeInv => TypeOK
  BY DEF TypeInv
<1> QED
  BY <1>1, TypeInvariant, PTL

-----------------------------------------------------------------------------
(* One account. *)

CreatedOnce == /\ OneAccount
               /\ \A r \in Req : pc[r] = "created" => user.exists

(* No commit but the creation of the account changes whether it exists. *)
LEMMA FlushKeepsExists ==
  ASSUME user \in UserRow, NEW before \in UserRow, NEW p \in Password
  PROVE  /\ Flush(before, [before EXCEPT !.verified = TRUE]).exists = user.exists
         /\ Flush(before, [before EXCEPT !.password = p]).exists = user.exists
<1>1. /\ [before EXCEPT !.verified = TRUE] \in UserRow
      /\ [before EXCEPT !.verified = TRUE].exists = before.exists
  BY DEF UserRow
<1>2. /\ [before EXCEPT !.password = p] \in UserRow
      /\ [before EXCEPT !.password = p].exists = before.exists
  BY DEF UserRow
<1> QED
  BY <1>1, <1>2, FlushType

LEMMA ExistsStep ==
  ASSUME TypeInv, [Next]_vars
  PROVE  \/ /\ user'.exists = user.exists
            /\ \A r \in Req : pc'[r] = "created" => pc[r] = "created"
         \/ /\ ~user.exists /\ user'.exists
            /\ \E s \in Req : \A r \in Req : pc'[r] = "created" => pc[r] = "created" \/ r = s
<1>0. /\ user \in UserRow
      /\ pc \in [Req -> {"idle", "created", "done", "refused", "failed"} \cup Working]
      /\ \A r \in Req : copy[r] \in UserRow /\ r \in Password
  BY DEF TypeInv, TypeOK, Password
<1>1. ASSUME NEW r \in Req, NEW label, label # "created",
             Finish(r, label), user'.exists = user.exists
      PROVE  \A s \in Req : pc'[s] = "created" => pc[s] = "created"
  BY <1>0, <1>1 DEF Finish
<1>2. ASSUME NEW r \in Req, NEW k, NEW t, NEW label, label # "created",
             Begin(r, k, t, label)
      PROVE  /\ user'.exists = user.exists
             /\ \A s \in Req : pc'[s] = "created" => pc[s] = "created"
  BY <1>0, <1>2 DEF Begin
<1>3. ASSUME NEW r \in Req,
             \/ register(r) \/ google_callback(r) \/ request_password_reset(r)
             \/ verify_email(r) \/ reset_password(r) \/ change_password(r)
      PROVE  /\ user'.exists = user.exists
             /\ \A s \in Req : pc'[s] = "created" => pc[s] = "created"
  BY <1>2, <1>3 DEF register, google_callback, request_password_reset,
     verify_email, reset_password, change_password, _consume_token
<1>4. ASSUME NEW r \in Req,
             \/ GoogleLinks(r) \/ VerifyCommits(r) \/ ResetCommits(r) \/ ChangeCommits(r)
             \/ _new_email_token(r) \/ Abandon(r)
      PROVE  /\ user'.exists = user.exists
             /\ \A s \in Req : pc'[s] = "created" => pc[s] = "created"
  <2>1. user'.exists = user.exists
    BY <1>0, <1>4, FlushKeepsExists
    DEF GoogleLinks, VerifyCommits, ResetCommits, ChangeCommits, _new_email_token, Abandon
  <2> QED
    BY <1>1, <1>4, <2>1
    DEF GoogleLinks, VerifyCommits, ResetCommits, ChangeCommits, _new_email_token, Abandon
<1>5. ASSUME NEW r \in Req, ResetGathers(r)
      PROVE  /\ user'.exists = user.exists
             /\ \A s \in Req : pc'[s] = "created" => pc[s] = "created"
  BY <1>0, <1>5 DEF ResetGathers
<1>6. ASSUME NEW r \in Req, Create(r), EmailTaken
      PROVE  /\ user'.exists = user.exists
             /\ \A s \in Req : pc'[s] = "created" => pc[s] = "created"
  BY <1>1, <1>6 DEF Create
<1>7. ASSUME NEW r \in Req, Create(r), ~EmailTaken
      PROVE  /\ ~user.exists /\ user'.exists
             /\ \A s \in Req : pc'[s] = "created" => pc[s] = "created" \/ s = r
  BY <1>0, <1>7 DEF Create, EmailTaken, Finish
<1>8. ASSUME Expire \/ UNCHANGED vars
      PROVE  /\ user'.exists = user.exists
             /\ \A s \in Req : pc'[s] = "created" => pc[s] = "created"
  BY <1>8 DEF Expire, vars
<1> QED
  BY <1>3, <1>4, <1>5, <1>6, <1>7, <1>8 DEF Next

(* One sign-up at most creates the account, however registrations and       *)
(* Google sign-ins interleave.                                              *)
THEOREM AccountCreatedOnce == Spec => []OneAccount
<1>1. Init => CreatedOnce
  BY DEF Init, CreatedOnce, OneAccount
<1>2. TypeInv /\ CreatedOnce /\ [Next]_vars => CreatedOnce'
  BY ExistsStep DEF CreatedOnce, OneAccount
<1>3. CreatedOnce => OneAccount
  BY DEF CreatedOnce
<1> QED
  BY <1>1, <1>2, <1>3, TypeInvariant, PTL DEF Spec

-----------------------------------------------------------------------------
(* A reset ends the older links. *)

(* Until it commits, every older link of a reset is dead already or among   *)
(* the tokens it has selected.                                              *)
ResetInv ==
  \A r \in Req : kind[r] = "reset" =>
     /\ pc[r] = "gathered" => prior[r] \subseteq used \cup others[r]
     /\ pc[r] = "done" => prior[r] \subseteq used

(* What a step of another request leaves of a reset. *)
LEMMA ResetFrame ==
  ASSUME ResetInv, NEW r \in Req, used \subseteq used',
         NEW s \in Req,
         \/ /\ kind'[s] = kind[s] /\ prior'[s] = prior[s]
            /\ pc'[s] = pc[s] /\ others'[s] = others[s]
         \/ pc'[s] \notin {"gathered", "done"}
         \/ kind'[s] # "reset"
  PROVE  kind'[s] = "reset" =>
           /\ pc'[s] = "gathered" => prior'[s] \subseteq used' \cup others'[s]
           /\ pc'[s] = "done" => prior'[s] \subseteq used'
BY DEF ResetInv

LEMMA ResetStep == TypeInv /\ ResetInv /\ [Next]_vars => ResetInv'
<1> SUFFICES ASSUME TypeInv, ResetInv, [Next]_vars
             PROVE  ResetInv'
  OBVIOUS
<1>0. /\ pc \in [Req -> {"idle", "created", "done", "refused", "failed"} \cup Working]
      /\ kind \in [Req -> Kind] /\ link \in [Req -> Req]
      /\ others \in [Req -> SUBSET Req] /\ prior \in [Req -> SUBSET Req]
  BY DEF TypeInv, TypeOK
<1>1. ASSUME NEW r \in Req, NEW k, NEW t, NEW label, Begin(r, k, t, label),
             label \notin {"gathered", "done"} \/ k # "reset",
             \A s \in Req : s # r => prior'[s] = prior[s]
      PROVE  ResetInv'
  <2>1. /\ used' = used
        /\ pc'[r] = label /\ kind'[r] = k
        /\ \A s \in Req : s # r => /\ kind'[s] = kind[s] /\ prior'[s] = prior[s]
                                  /\ pc'[s] = pc[s] /\ others'[s] = others[s]
    BY <1>0, <1>1 DEF Begin, Tokens
  <2> QED
    BY <1>1, <2>1, ResetFrame DEF ResetInv
<1>2. ASSUME NEW r \in Req,
             \/ register(r) \/ google_callback(r) \/ request_password_reset(r)
             \/ verify_email(r) \/ change_password(r)
      PROVE  ResetInv'
  BY <1>1, <1>2 DEF register, google_callback, request_password_reset,
     verify_email, change_password, _consume_token
<1>3. ASSUME NEW r \in Req, reset_password(r)
      PROVE  ResetInv'
  <2>1. \A s \in Req : s # r => prior'[s] = prior[s]
    BY <1>0, <1>3 DEF reset_password
  <2> QED
    BY <1>1, <1>3, <2>1 DEF reset_password, _consume_token
<1>4. ASSUME NEW r \in Req, NEW label, Finish(r, label), used \subseteq used',
             kind[r] = "reset" /\ label = "done" => prior[r] \subseteq used',
             label # "gathered"
      PROVE  ResetInv'
  <2>1. /\ pc'[r] = label /\ kind' = kind /\ prior' = prior
        /\ \A s \in Req : s # r => pc'[s] = pc[s] /\ others'[s] = others[s]
    BY <1>0, <1>4 DEF Finish
  <2> QED
    BY <1>4, <2>1, ResetFrame DEF ResetInv
<1>5. ASSUME NEW r \in Req, Create(r) \/ Abandon(r)
      PROVE  ResetInv'
  BY <1>4, <1>5 DEF Create, Abandon, Tokens
<1>6. ASSUME NEW r \in Req, ResetCommits(r)
      PROVE  ResetInv'
  <2>1. used' = used \cup {link[r]} \cup others[r] /\ pc[r] = "gathered" /\ Finish(r, "done")
    BY <1>6 DEF ResetCommits
  <2> QED
    BY <1>4, <2>1 DEF ResetInv
<1>7. ASSUME NEW r \in Req, ResetGathers(r)
      PROVE  ResetInv'
  <2>1. /\ UNCHANGED <<used, kind, prior>>
        /\ \A s \in Req : s # r => pc'[s] = pc[s] /\ others'[s] = others[s]
        /\ pc'[r] = "gathered" /\ others'[r] = other_reset_tokens(r)
    BY <1>0, <1>7 DEF ResetGathers, Tokens
  <2>2. prior[r] \subseteq used \cup other_reset_tokens(r)
    BY <1>0 DEF TypeInv, ConsumesItsToken, other_reset_tokens
  <2> QED
    BY <2>1, <2>2, ResetFrame DEF ResetInv
<1>8. ASSUME NEW r \in Req,
             GoogleLinks(r) \/ VerifyCommits(r) \/ _new_email_token(r) \/ ChangeCommits(r)
      PROVE  ResetInv'
  <2>1. kind[r] # "reset" /\ Finish(r, "done") /\ used \subseteq used'
    BY <1>8 DEF GoogleLinks, VerifyCommits, _new_email_token, ChangeCommits, Tokens,
       TypeInv, ConsumesItsToken
  <2> QED
    BY <1>4, <2>1
<1>9. ASSUME Expire \/ UNCHANGED vars
      PROVE  ResetInv'
  BY <1>9 DEF Expire, vars, Tokens, ResetInv
<1> QED
  BY <1>2, <1>3, <1>5, <1>6, <1>7, <1>8, <1>9 DEF Next

(* A reset that has succeeded has ended every link mailed before it was     *)
(* sent, whatever was requested or presented concurrently.                  *)
THEOREM ResetEndsLinks == Spec => []ResetEndsOlderLinks
<1>1. Init => ResetInv
  BY DEF Init, ResetInv
<1>2. ResetInv => ResetEndsOlderLinks
  BY DEF ResetInv, ResetEndsOlderLinks
<1> QED
  BY <1>1, <1>2, ResetStep, TypeInvariant, PTL DEF Spec

-----------------------------------------------------------------------------
(* No lost update. *)

LEMMA UpdateStep ==
  ASSUME TypeInv, [Next]_vars, user.exists
  PROVE  /\ user.verified => user'.verified
         /\ user'.password # user.password
              => \E r \in Req : /\ kind[r] \in {"reset", "change"}
                                /\ pc[r] # "done" /\ pc'[r] = "done"
                                /\ user'.password = r
<1>0. /\ user \in UserRow
      /\ pc \in [Req -> {"idle", "created", "done", "refused", "failed"} \cup Working]
      /\ \A r \in Req : copy[r] \in UserRow /\ r \in Password
  BY DEF TypeInv, TypeOK, Password
<1>1. ASSUME NEW r \in Req, GoogleLinks(r) \/ VerifyCommits(r)
      PROVE  (user.verified => user'.verified) /\ user'.password = user.password
  BY <1>0, <1>1, FlushVerified DEF GoogleLinks, VerifyCommits
<1>2. ASSUME NEW r \in Req, ResetCommits(r) \/ ChangeCommits(r)
      PROVE  /\ user.verified => user'.verified
             /\ user'.password \in {r, user.password}
             /\ kind[r] \in {"reset", "change"}
             /\ pc[r] # "done" /\ pc'[r] = "done"
  <2>1. /\ user' = Flush(copy[r], [copy[r] EXCEPT !.password = r])
        /\ pc[r] \in {"gathered", "changing"} /\ Finish(r, "done")
    BY <1>2 DEF ResetCommits, ChangeCommits
  <2>2. kind[r] \in {"reset", "change"}
    BY <2>1 DEF TypeInv, ConsumesItsToken
  <2> QED
    BY <1>0, <2>1, <2>2, FlushPassword DEF Finish
<1>3. EmailTaken
  BY DEF EmailTaken
<1>4. CASE user' = user
  BY <1>4
<1> QED
  BY <1>1, <1>2, <1>3, <1>4
  DEF Next, register, google_callback, request_password_reset, verify_email,
      reset_password, change_password, _consume_token, Begin, _new_email_token,
      ResetGathers, Abandon, Expire, vars, Create

(* No request writes back a verification or a password it had read before   *)
(* another request's commit.                                                *)
THEOREM UpdatesAreKept == Spec => NoLostUpdate
  BY UpdateStep, TypeInvariant, PTL DEF Spec, NoLostUpdate
============================================================================
