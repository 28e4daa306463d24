------------------------------ MODULE Accounts ------------------------------
(***************************************************************************)
(* The account behind one address (backend/routes/auth.py): registration,  *)
(* Google sign-in, the one-time links for verification and password reset, *)
(* and the change of a password.                                           *)
(*                                                                         *)
(* Every route is a synchronous function in a worker thread with a session *)
(* of its own: it reads, decides, hashes a password (slowly) and commits   *)
(* once.  Other requests commit in between.  A commit writes the columns   *)
(* that differ from what was read.  Sign-in, sign-out and the profile      *)
(* change nothing modelled here.                                           *)
(***************************************************************************)
EXTENDS Naturals

CONSTANTS Req,  \* the requests; each is sent once, and names the password it
                \* sets and the one-time link it has mailed
          None  \* no password

ASSUME NoneAssumption == None \notin Req

Password == Req \cup {None}

VARIABLES
  user,     \* the users row
  token,    \* the email_tokens row each request inserted: its purpose
  used,     \* the tokens with used_at set
  expired,  \* the tokens past expires_at
  kind,     \* the route each request calls
  link,     \* the token a request presents
  pc,       \* how far each request is
  copy,     \* the session's copy of the users row
  others,   \* the outstanding reset tokens a reset has selected
  prior     \* history: the reset tokens that existed when a reset was sent

vars == <<user, token, used, expired, kind, link, pc, copy, others, prior>>

NoUser == [exists |-> FALSE, password |-> None, verified |-> FALSE]

Kind    == {"none", "register", "google", "verify", "request", "reset", "change"}
Purpose == {"none", "verify", "reset"}
Working == {"creating", "linking", "minting", "consumed", "gathered", "changing"}

Init == /\ user = NoUser
        /\ token = [r \in Req |-> "none"]
        /\ used = {}
        /\ expired = {}
        /\ kind = [r \in Req |-> "none"]
        /\ link = [r \in Req |-> r]
        /\ pc = [r \in Req |-> "idle"]
        /\ copy = [r \in Req |-> NoUser]
        /\ others = [r \in Req |-> {}]
        /\ prior = [r \in Req |-> {}]

-----------------------------------------------------------------------------
(* Sessions. *)

Tokens == <<token, used>>

(* Request r calls route k with link t; it has read the users row. *)
Begin(r, k, t, label) ==
  /\ pc[r] = "idle"
  /\ pc' = [pc EXCEPT ![r] = label]
  /\ kind' = [kind EXCEPT ![r] = k]
  /\ link' = [link EXCEPT ![r] = t]
  /\ copy' = [copy EXCEPT ![r] = user]
  /\ UNCHANGED <<user, Tokens, expired, others>>

(* The request is over; its session is closed. *)
Finish(r, label) ==
  /\ pc' = [pc EXCEPT ![r] = label]
  /\ copy' = [copy EXCEPT ![r] = NoUser]
  /\ others' = [others EXCEPT ![r] = {}]
  /\ UNCHANGED <<expired, kind, link, prior>>

(* Bug: every column is written, stale or not. *)
Bug_flush_whole_row(before, after) == after

(* The columns of the copy that differ from what was read. *)
Flush(before, after) ==
  [c \in DOMAIN user |-> IF after[c] # before[c] THEN after[c] ELSE user[c]]

-----------------------------------------------------------------------------
(* POST /auth/register, and Google sign-in of an unknown address. *)

register(r) ==
  /\ Begin(r, "register", r, IF user.exists THEN "refused" ELSE "creating")
  /\ UNCHANGED prior

(* Bug: no unique index. *)
Bug_email_not_unique == FALSE

(* users.email is unique. *)
EmailTaken == user.exists

(* User, organization, membership and, for a registration, the verification *)
(* token are one commit.  A concurrent sign-up makes it fail (500).         *)
Create(r) ==
  /\ pc[r] = "creating"
  /\ IF EmailTaken
     THEN Finish(r, "failed") /\ UNCHANGED <<user, Tokens>>
     ELSE /\ user' = [exists |-> TRUE, password |-> r, verified |-> kind[r] = "google"]
          /\ token' = [token EXCEPT ![r] = IF kind[r] = "register" THEN "verify" ELSE @]
          /\ Finish(r, "created")
          /\ UNCHANGED used

google_callback(r) ==
  /\ Begin(r, "google", r, IF user.exists THEN "linking" ELSE "creating")
  /\ UNCHANGED prior

(* A known address: Google vouches for it. *)
GoogleLinks(r) ==
  /\ pc[r] = "linking"
  /\ user' = Flush(copy[r], [copy[r] EXCEPT !.verified = TRUE])
  /\ Finish(r, "done")
  /\ UNCHANGED Tokens

-----------------------------------------------------------------------------
(* One-time tokens. *)

(* _consume_token accepts it. *)
Valid(t) == t \notin used /\ t \notin expired

_consume_token(r, k, t) ==
  /\ token[t] = k
  /\ Begin(r, k, t, IF Valid(t) THEN "consumed" ELSE "refused")

verify_email(r) ==
  /\ \E t \in Req : _consume_token(r, "verify", t)
  /\ UNCHANGED prior

VerifyCommits(r) ==
  /\ pc[r] = "consumed"
  /\ kind[r] = "verify"
  /\ user' = Flush(copy[r], [copy[r] EXCEPT !.verified = TRUE])
  /\ used' = used \cup {link[r]}
  /\ Finish(r, "done")
  /\ UNCHANGED token

request_password_reset(r) ==
  /\ Begin(r, "request", r, IF user.exists THEN "minting" ELSE "done")
  /\ UNCHANGED prior

(* The token is committed, then its link is mailed. *)
_new_email_token(r) ==
  /\ pc[r] = "minting"
  /\ token' = [token EXCEPT ![r] = "reset"]
  /\ Finish(r, "done")
  /\ UNCHANGED <<user, used>>

reset_password(r) ==
  /\ \E t \in Req : _consume_token(r, "reset", t)
  /\ prior' = [prior EXCEPT ![r] = {t \in Req : token[t] = "reset"}]

(* Bug: only the link that is presented is ended. *)
Bug_no_other_tokens(r) == {}

other_reset_tokens(r) == {t \in Req : token[t] = "reset" /\ t \notin used}

(* The password is hashed, then the outstanding tokens are selected. *)
ResetGathers(r) ==
  /\ pc[r] = "consumed"
  /\ kind[r] = "reset"
  /\ others' = [others EXCEPT ![r] = other_reset_tokens(r)]
  /\ pc' = [pc EXCEPT ![r] = "gathered"]
  /\ UNCHANGED <<user, Tokens, expired, kind, link, copy, prior>>

(* Bug: the row that is stamped is not the one that was looked up. *)
Bug_wrong_token_stamped(r) ==
  /\ pc[r] = "gathered"
  /\ user' = Flush(copy[r], [copy[r] EXCEPT !.password = r])
  /\ used' = used \cup {r} \cup others[r]
  /\ Finish(r, "done")
  /\ UNCHANGED token

ResetCommits(r) ==
  /\ pc[r] = "gathered"
  /\ user' = Flush(copy[r], [copy[r] EXCEPT !.password = r])
  /\ used' = used \cup {link[r]} \cup others[r]
  /\ Finish(r, "done")
  /\ UNCHANGED token

-----------------------------------------------------------------------------
(* POST /auth/change-password: the current password is checked on the copy. *)

(* The password of an account Google created is random and shown to nobody. *)
Known == {p \in Req : kind[p] # "google"}

change_password(r) ==
  /\ user.exists
  /\ \E current \in Known :
       Begin(r, "change", r, IF user.password = current THEN "changing" ELSE "refused")
  /\ UNCHANGED prior

ChangeCommits(r) ==
  /\ pc[r] = "changing"
  /\ user' = Flush(copy[r], [copy[r] EXCEPT !.password = r])
  /\ Finish(r, "done")
  /\ UNCHANGED Tokens

-----------------------------------------------------------------------------
(* The new password is not acceptable (the token stays good), Google does   *)
(* not vouch for the address, a commit fails or the process dies.           *)
Abandon(r) ==
  /\ pc[r] \in Working
  /\ Finish(r, "failed")
  /\ UNCHANGED <<user, Tokens>>

Expire ==
  /\ \E t \in Req : /\ token[t] # "none"
                    /\ t \notin expired
                    /\ expired' = expired \cup {t}
  /\ UNCHANGED <<user, Tokens, kind, link, pc, copy, others, prior>>

Next == \/ \E r \in Req : \/ register(r) \/ google_callback(r) \/ Create(r)
                          \/ GoogleLinks(r)
                          \/ verify_email(r) \/ VerifyCommits(r)
                          \/ request_password_reset(r) \/ _new_email_token(r)
                          \/ reset_password(r) \/ ResetGathers(r) \/ ResetCommits(r)
                          \/ change_password(r) \/ ChangeCommits(r)
                          \/ Abandon(r)
        \/ Expire

Spec == Init /\ [][Next]_vars

-----------------------------------------------------------------------------
(* Properties. *)

UserRow == [exists : BOOLEAN, password : Password, verified : BOOLEAN]

(* Every variable has its type; tokens and links belong to an account. *)
TypeOK == /\ user \in UserRow
          /\ token \in [Req -> Purpose]
          /\ used \subseteq {t \in Req : token[t] # "none"}
          /\ expired \subseteq {t \in Req : token[t] # "none"}
          /\ kind \in [Req -> Kind]
          /\ link \in [Req -> Req]
          /\ pc \in [Req -> {"idle", "created", "done", "refused", "failed"} \cup Working]
          /\ copy \in [Req -> UserRow]
          /\ others \in [Req -> SUBSET Req]
          /\ prior \in [Req -> SUBSET Req]

(* However registrations and Google sign-ins of one address interleave, one *)
(* of them at most creates the account and its organization.                *)
OneAccount ==
  \A r, s \in Req : pc[r] = "created" /\ pc[s] = "created" => r = s

(* Once a reset has succeeded, no reset link that had been mailed when it   *)
(* was sent can be presented again (auth.py:551), whatever was requested or *)
(* consumed concurrently.                                                   *)
ResetEndsOlderLinks ==
  \A r \in Req : kind[r] = "reset" /\ pc[r] = "done" => prior[r] \subseteq used

(* A proven address stays proven and a password stays until a request sets  *)
(* another: no request writes back what it had read before somebody else's  *)
(* commit.                                                                  *)
NoLostUpdate ==
  [][user.exists =>
       /\ user.verified => user'.verified
       /\ user'.password # user.password
            => \E r \in Req : /\ kind[r] \in {"reset", "change"}
                              /\ pc[r] # "done" /\ pc'[r] = "done"
                              /\ user'.password = r]_vars
=============================================================================
