---------------------------- MODULE AuthSessions ----------------------------
(***************************************************************************)
(* One account of internal/auth and internal/users: its password, whether  *)
(* it is activated, its refresh tokens and its e-mailed tokens.  Every HTTP *)
(* request is a process of its own; its steps are the points at which       *)
(* another request can commit something in between.  Row locks follow from  *)
(* where the requests are: RowOf, Account and MailRow say which are held.   *)
(*                                                                         *)
(* A password is the number of changes before it.  The fam and pw of a     *)
(* refresh token are history: the log-in it descends from and the password *)
(* whose knowledge opened the session or was proved in it last.            *)
(***************************************************************************)
EXTENDS Integers, FiniteSets

CONSTANTS
    Reqs,
    Toks,      \* the rows of refresh_tokens
    Mails,     \* the rows of email_tokens
    Lapses,    \* the tokens of either kind that may expire
    MaxPw,     \* bound of the model: how often the password may change
    None

ASSUME ConstantsOK ==
    /\ IsFiniteSet(Toks) /\ IsFiniteSet(Mails) /\ IsFiniteSet(Reqs)
    /\ Toks \cap Mails = {} /\ Lapses \subseteq Toks \cup Mails
    /\ MaxPw \in Nat
    /\ None \notin Toks \cup Mails \cup Reqs

VARIABLES
    account,    \* the row of users: "none", "open" or "deleted"
    activated,  \* users.activated
    password,   \* users.password_hash
    tok,        \* [Toks -> Token]
    mail,       \* [Mails -> Mail]
    expired,    \* the tokens whose expires_at has passed
    req,        \* [Reqs -> Request]
    alone       \* BOOLEAN, never changed: one request at a time

vars == <<account, activated, password, tok, mail, expired, req, alone>>

Kinds  == {"verify_email", "reset_password"}
Token  == [st : {"none", "live", "revoked"}, fam : Toks \cup {None}, pw : 0..MaxPw]
Mail   == [st : {"none", "unused", "used"}, kind : Kinds]

Pcs == {"idle", "store", "rotate", "load", "update", "revokeOthers",
        "setPassword", "revokeAll", "invalidate", "issue", "remove"}

Request ==
    [ pc   : Pcs,
      tok  : Toks \cup {None},     \* the refresh token it was given
      mail : Mails \cup {None},    \* the e-mailed token it was given
      kind : Kinds,                \* the e-mailed token it is to issue
      pw   : 0..MaxPw,             \* the password as it was read
      snap : SUBSET (Toks \cup Mails) ]  \* the rows a bulk UPDATE has found

Idle == [ pc |-> "idle", tok |-> None, mail |-> None, kind |-> "verify_email",
          pw |-> 0, snap |-> {} ]

At(r, pc) == req[r].pc = pc
Return(r) == req' = [req EXCEPT ![r] = Idle]

Live(t)     == tok[t].st = "live"
Unused(m)   == mail[m].st = "unused"
NoTok       == [st |-> "none", fam |-> None, pw |-> 0]
NoMail      == [st |-> "none", kind |-> "verify_email"]
FreeToks    == {t \in Toks : tok[t].st = "none"}
FreeMails   == {m \in Mails : mail[m].st = "none"}

\* SELECT ... FOR UPDATE on refresh_tokens: held until the transaction ends.
HoldsTok(r, t)  == req[r].tok = t /\ req[r].pc \in {"rotate", "update", "revokeOthers", "remove"}
\* UPDATE users: held until the transaction ends.
HoldsUser(r)    == req[r].pc \in {"revokeOthers", "revokeAll"}
\* SELECT ... FOR UPDATE on email_tokens, and the UPDATE that invalidates them.
HoldsMail(r, m) == \/ req[r].mail = m /\ req[r].pc \in {"setPassword", "revokeAll"}
                   \/ req[r].pc = "issue" /\ m \in req[r].snap

TokFree(r, t)  == \A q \in Reqs \ {r} : ~HoldsTok(q, t)
UserFree(r)    == \A q \in Reqs \ {r} : ~HoldsUser(q)
MailFree(m)    == \A q \in Reqs : ~HoldsMail(q, m)

\* Bounds of the model: a request starts only if the rows it may need are left.
TokRoom  == Cardinality(FreeToks) > Cardinality({q \in Reqs : req[q].pc \in {"store", "rotate"}})
MailRoom == Cardinality(FreeMails) > Cardinality({q \in Reqs : req[q].pc \in {"invalidate", "issue"}})
PwRoom   == password + Cardinality({q \in Reqs : req[q].pc \in
                {"load", "update", "revokeOthers", "setPassword", "revokeAll"}}) < MaxPw

Init ==
    /\ account = "none" /\ activated = FALSE /\ password = 0
    /\ tok  = [t \in Toks |-> NoTok]
    /\ mail = [m \in Mails |-> NoMail]
    /\ expired = {}
    /\ req = [r \in Reqs |-> Idle]
    /\ alone \in BOOLEAN

-----------------------------------------------------------------------------
(* Registration, verification and the e-mailed tokens.                     *)

\* One transaction: the user, the root directory and the verification token.
Register(m) ==
    /\ account = "none" /\ m \in FreeMails
    /\ account' = "open"
    /\ mail' = [mail EXCEPT ![m] = [st |-> "unused", kind |-> "verify_email"]]
    /\ UNCHANGED <<activated, password, tok, expired, req>>

\* FOR UPDATE on the token, then UPDATE users: one step, for nothing it reads
\* can change once it holds the token.
VerifyEmail(m) ==
    /\ account = "open" /\ MailFree(m)
    /\ Unused(m) /\ mail[m].kind = "verify_email" /\ m \notin expired
    /\ \A q \in Reqs : ~HoldsUser(q)
    /\ activated' = TRUE
    /\ mail' = [mail EXCEPT ![m].st = "used"]
    /\ UNCHANGED <<account, password, tok, expired, req>>

\* users.activated is read before the transaction.
ResendVerification(r) ==
    /\ At(r, "idle") /\ account = "open" /\ MailRoom
    /\ ~activated
    /\ req' = [req EXCEPT ![r] = [Idle EXCEPT !.pc = "invalidate", !.kind = "verify_email"]]
    /\ UNCHANGED <<account, activated, password, tok, mail, expired>>

RequestPasswordReset(r) ==
    /\ At(r, "idle") /\ account = "open" /\ MailRoom
    /\ activated
    /\ req' = [req EXCEPT ![r] = [Idle EXCEPT !.pc = "invalidate", !.kind = "reset_password"]]
    /\ UNCHANGED <<account, activated, password, tok, mail, expired>>

\* The UPDATE finds the unused tokens of its kind and waits for those that a
\* reset has locked.  Two of these may find the same tokens: whoever commits
\* second leaves alone what the first has marked, and does not see the token
\* the first has issued.
InvalidateEmailTokensForUser(r) ==
    LET found == {m \in Mails : Unused(m) /\ mail[m].kind = req[r].kind} IN
    /\ At(r, "invalidate")
    /\ \A m \in found : \A q \in Reqs : req[q].mail = m => ~HoldsMail(q, m)
    /\ req' = [req EXCEPT ![r].pc = "issue", ![r].snap = found]
    /\ UNCHANGED <<account, activated, password, tok, mail, expired>>

IssueEmailToken(r, n) ==
    /\ At(r, "issue") /\ account = "open" /\ n \in FreeMails
    /\ mail' = [m \in Mails |->
           IF m = n THEN [st |-> "unused", kind |-> req[r].kind]
           ELSE IF m \in req[r].snap THEN [mail[m] EXCEPT !.st = "used"]
           ELSE mail[m]]
    /\ Return(r)
    /\ UNCHANGED <<account, activated, password, tok, expired>>

-----------------------------------------------------------------------------
(* Sessions.                                                               *)

\* The password is compared with the hash that was read, then the token is
\* stored by a statement of its own.  Nothing asks whether the user is activated.
Login(r) ==
    /\ At(r, "idle") /\ account = "open" /\ TokRoom
    /\ req' = [req EXCEPT ![r] = [Idle EXCEPT !.pc = "store", !.pw = password]]
    /\ UNCHANGED <<account, activated, password, tok, mail, expired>>

\* Mutant: refresh_tokens.user_id without its foreign key.
StoreWithoutUser(r, n) ==
    /\ At(r, "store") /\ n \in FreeToks
    /\ tok' = [tok EXCEPT ![n] = [st |-> "live", fam |-> n, pw |-> req[r].pw]]
    /\ Return(r)
    /\ UNCHANGED <<account, activated, password, mail, expired>>

StoreRefreshToken(r, n) ==
    /\ At(r, "store") /\ account = "open" /\ n \in FreeToks
    /\ tok' = [tok EXCEPT ![n] = [st |-> "live", fam |-> n, pw |-> req[r].pw]]
    /\ Return(r)
    /\ UNCHANGED <<account, activated, password, mail, expired>>

Refresh(r, t) ==
    /\ At(r, "idle") /\ account = "open" /\ TokRoom
    /\ TokFree(r, t)
    /\ Live(t) /\ t \notin expired
    /\ req' = [req EXCEPT ![r] = [Idle EXCEPT !.pc = "rotate", !.tok = t]]
    /\ UNCHANGED <<account, activated, password, tok, mail, expired>>

\* Mutant: the old token is not revoked.
RotateKeepsOld(r, n) ==
    LET t == req[r].tok IN
    /\ At(r, "rotate") /\ account = "open" /\ n \in FreeToks
    /\ tok' = [tok EXCEPT ![n] = [st |-> "live", fam |-> tok[t].fam, pw |-> tok[t].pw]]
    /\ Return(r)
    /\ UNCHANGED <<account, activated, password, mail, expired>>

\* RevokeRefreshToken, StoreRefreshToken and the commit.
Rotate(r, n) ==
    LET t == req[r].tok IN
    /\ At(r, "rotate") /\ account = "open" /\ n \in FreeToks
    /\ tok' = [tok EXCEPT ![t].st = "revoked",
                          ![n] = [st |-> "live", fam |-> tok[t].fam, pw |-> tok[t].pw]]
    /\ Return(r)
    /\ UNCHANGED <<account, activated, password, mail, expired>>

\* Mutant: a state that no reader of refresh_tokens knows.
LogoutAsExpired(t) ==
    /\ tok[t].st # "none"
    /\ tok' = [tok EXCEPT ![t].st = "expired"]
    /\ UNCHANGED <<account, activated, password, mail, expired, req>>

\* One autocommitted UPDATE; it does not ask whether the token is live.
Logout(t) ==
    /\ tok[t].st # "none"
    /\ \A q \in Reqs : ~HoldsTok(q, t)
    /\ tok' = [tok EXCEPT ![t].st = "revoked"]
    /\ UNCHANGED <<account, activated, password, mail, expired, req>>

-----------------------------------------------------------------------------
(* ChangePassword: the session that changes the password is kept.          *)

\* FindUserByID and the comparison with the old password.
ChangePassword(r, t) ==
    /\ At(r, "idle") /\ account = "open" /\ PwRoom
    /\ tok[t].st # "none"
    /\ req' = [req EXCEPT ![r] = [Idle EXCEPT !.pc = "load", !.tok = t, !.pw = password]]
    /\ UNCHANGED <<account, activated, password, tok, mail, expired>>

\* A token that is not live ends the request.
LoadRefreshToken(r) ==
    LET t == req[r].tok IN
    /\ At(r, "load") /\ TokFree(r, t)
    /\ IF Live(t) /\ t \notin expired
       THEN req' = [req EXCEPT ![r].pc = "update"]
       ELSE Return(r)
    /\ UNCHANGED <<account, activated, password, tok, mail, expired>>

\* UPDATE users, and the tokens RevokeAllRefreshTokensExcept is going to find.
UpdateUserPassword(r) ==
    /\ At(r, "update") /\ account = "open" /\ UserFree(r)
    /\ req' = [req EXCEPT ![r].pc = "revokeOthers",
                          ![r].snap = {t \in Toks : Live(t)} \ {req[r].tok}]
    /\ UNCHANGED <<account, activated, password, tok, mail, expired>>

Revoked(S) == [t \in Toks |-> IF t \in S THEN [tok[t] EXCEPT !.st = "revoked"] ELSE tok[t]]

CommitChange(r) ==
    LET t == req[r].tok IN
    /\ At(r, "revokeOthers")
    /\ \A s \in req[r].snap : TokFree(r, s)
    /\ password' = password + 1
    /\ tok' = [Revoked(req[r].snap) EXCEPT ![t].pw = password + 1]
    /\ Return(r)
    /\ UNCHANGED <<account, activated, mail, expired>>

-----------------------------------------------------------------------------
(* ResetPassword.                                                          *)

\* Mutant: FindEmailTokenByHash without FOR UPDATE.
ResetPasswordUnlocked(r, m) ==
    /\ At(r, "idle") /\ account = "open" /\ PwRoom
    /\ Unused(m) /\ mail[m].kind = "reset_password" /\ m \notin expired
    /\ req' = [req EXCEPT ![r] = [Idle EXCEPT !.pc = "setPassword", !.mail = m]]
    /\ UNCHANGED <<account, activated, password, tok, mail, expired>>

ResetPassword(r, m) ==
    /\ At(r, "idle") /\ account = "open" /\ PwRoom
    /\ MailFree(m)
    /\ Unused(m) /\ mail[m].kind = "reset_password" /\ m \notin expired
    /\ req' = [req EXCEPT ![r] = [Idle EXCEPT !.pc = "setPassword", !.mail = m]]
    /\ UNCHANGED <<account, activated, password, tok, mail, expired>>

\* UPDATE users, MarkEmailTokenUsed, and the tokens
\* RevokeAllRefreshTokensForUser is going to find.
SetPassword(r) ==
    /\ At(r, "setPassword") /\ account = "open" /\ UserFree(r)
    /\ req' = [req EXCEPT ![r].pc = "revokeAll", ![r].snap = {t \in Toks : Live(t)}]
    /\ UNCHANGED <<account, activated, password, tok, mail, expired>>

\* Mutant: the sessions are not revoked.
CommitResetKeepsSessions(r) ==
    /\ At(r, "revokeAll")
    /\ password' = password + 1
    /\ mail' = [mail EXCEPT ![req[r].mail].st = "used"]
    /\ Return(r)
    /\ UNCHANGED <<account, activated, tok, expired>>

CommitReset(r) ==
    /\ At(r, "revokeAll")
    /\ \A s \in req[r].snap : TokFree(r, s)
    /\ password' = password + 1
    /\ mail' = [mail EXCEPT ![req[r].mail].st = "used"]
    /\ tok' = Revoked(req[r].snap)
    /\ Return(r)
    /\ UNCHANGED <<account, activated, expired>>

-----------------------------------------------------------------------------
\* DeleteAccount: FindUserByID and LoadRefreshToken.
DeleteAccount(r, t) ==
    /\ At(r, "idle") /\ account = "open"
    /\ TokFree(r, t) /\ Live(t) /\ t \notin expired
    /\ req' = [req EXCEPT ![r] = [Idle EXCEPT !.pc = "remove", !.tok = t]]
    /\ UNCHANGED <<account, activated, password, tok, mail, expired>>

\* DELETE FROM users waits for whoever holds the row or a token of the account,
\* and takes both kinds of tokens with it.
DeleteUserAndRelatedData(r) ==
    /\ At(r, "remove") /\ UserFree(r)
    /\ \A t \in Toks : TokFree(r, t)
    /\ \A m \in Mails : MailFree(m)
    /\ account' = "deleted"
    /\ tok'  = [t \in Toks |-> NoTok]
    /\ mail' = [m \in Mails |-> NoMail]
    /\ Return(r)
    /\ UNCHANGED <<activated, password, expired>>

-----------------------------------------------------------------------------
(* Endings that are not the handler's own.                                 *)

\* The account is gone: a foreign key or an empty result ends the request.
AccountGone(r) ==
    /\ account = "deleted" /\ ~At(r, "idle")
    /\ Return(r)
    /\ UNCHANGED <<account, activated, password, tok, mail, expired>>

\* A statement or the commit fails, or the server dies.
Abort(r) ==
    /\ ~At(r, "idle")
    /\ Return(r)
    /\ UNCHANGED <<account, activated, password, tok, mail, expired>>

\* r waits for a row that q holds.
Waits(r, q) ==
    /\ r # q
    /\ \/ At(r, "load") /\ HoldsTok(q, req[r].tok)
       \/ req[r].pc \in {"update", "setPassword", "remove"} /\ HoldsUser(q)
       \/ req[r].pc \in {"revokeOthers", "revokeAll"} /\ \E t \in req[r].snap : HoldsTok(q, t)
       \/ At(r, "remove") /\ \E t \in Toks : HoldsTok(q, t)
       \/ At(r, "remove") /\ \E m \in Mails : HoldsMail(q, m)
       \/ At(r, "invalidate") /\ \E m \in Mails : /\ mail[m].kind = req[r].kind
                                                  /\ Unused(m)
                                                  /\ req[q].mail = m /\ HoldsMail(q, m)

\* Mutant: nobody is told.
NoDeadlockVictim(r) == FALSE /\ UNCHANGED vars

\* PostgreSQL ends one of two transactions that wait for each other.
DeadlockVictim(r) ==
    /\ \E q \in Reqs : Waits(r, q) /\ Waits(q, r)
    /\ Return(r)
    /\ UNCHANGED <<account, activated, password, tok, mail, expired>>

Expire(x) ==
    /\ x \in Lapses \ expired
    /\ x \in Toks => tok[x].st # "none"
    /\ x \in Mails => mail[x].st # "none"
    /\ expired' = expired \cup {x}
    /\ UNCHANGED <<account, activated, password, tok, mail, req>>

-----------------------------------------------------------------------------
Start(r) ==
    /\ alone => \A q \in Reqs : At(q, "idle")
    /\ \/ Login(r) \/ ResendVerification(r) \/ RequestPasswordReset(r)
       \/ \E t \in Toks : Refresh(r, t) \/ ChangePassword(r, t) \/ DeleteAccount(r, t)
       \/ \E m \in Mails : ResetPassword(r, m)

Continue(r) ==
    \/ \E n \in Toks : StoreRefreshToken(r, n) \/ Rotate(r, n)
    \/ \E n \in Mails : IssueEmailToken(r, n)
    \/ InvalidateEmailTokensForUser(r)
    \/ LoadRefreshToken(r) \/ UpdateUserPassword(r) \/ CommitChange(r)
    \/ SetPassword(r) \/ CommitReset(r)
    \/ DeleteUserAndRelatedData(r) \/ AccountGone(r) \/ DeadlockVictim(r)

Next ==
    /\ UNCHANGED alone
    /\ \/ \E m \in Mails : Register(m) \/ VerifyEmail(m)
       \/ \E t \in Toks : Logout(t)
       \/ \E r \in Reqs : Start(r) \/ Continue(r) \/ Abort(r)
       \/ \E x \in Lapses : Expire(x)

Spec == Init /\ [][Next]_vars

\* Goroutines are scheduled, and PostgreSQL looks for deadlocks and serves those
\* who wait for a row in order: a request that can go on again and again does,
\* even if others take the row in between.
FairSpec == Spec /\ \A r \in Reqs : SF_vars(Continue(r) /\ UNCHANGED alone)

-----------------------------------------------------------------------------
(* Properties.                                                             *)

TypeOK ==
    /\ account \in {"none", "open", "deleted"}
    /\ activated \in BOOLEAN
    /\ password \in 0..MaxPw
    /\ tok  \in [Toks -> Token]
    /\ mail \in [Mails -> Mail]
    /\ expired \subseteq Toks \cup Mails
    /\ req  \in [Reqs -> Request]
    /\ alone \in BOOLEAN

\* Refresh tokens are good once: however refreshes, log-outs and changes of the
\* password interleave, a log-in has one live token among its descendants.
OneLivePerLogin ==
    \A s, t \in Toks : Live(s) /\ Live(t) /\ tok[s].fam = tok[t].fam => s = t

\* A token that was e-mailed for a reset sets one password: the one whose reset
\* commits first spends it, and no other commits on it.
ResetTokenSpentOnce ==
    [][\A r \in Reqs :
         At(r, "revokeAll") /\ req'[r] # req[r] /\ password' # password
            => Unused(req[r].mail)]_vars

\* A user who is not activated always has a verification token left, as the
\* comment in Register asks, although resending invalidates the earlier ones.
PendingVerification ==
    account = "open" /\ ~activated
        => \E m \in Mails : Unused(m) /\ mail[m].kind = "verify_email"

\* Nothing a request had under way when the account was deleted is left of it.
NothingOutlivesAccount ==
    account = "deleted" => FreeToks = Toks /\ FreeMails = Mails

\* No session outlives the password it was opened with: a change of the
\* password and a reset end all the others.
NoStaleSession == \A t \in Toks : Live(t) => tok[t].pw = password

\* A completed reset revokes every refresh token: each device has to log in again.
ResetRevokesAll ==
    [][\A r \in Reqs :
         At(r, "revokeAll") /\ req'[r] # req[r] /\ password' # password
            => \A t \in Toks : tok'[t].st # "live"]_vars

\* A new e-mailed token replaces the unused ones of its kind.
OneUnusedPerKind ==
    \A m, n \in Mails : Unused(m) /\ Unused(n) /\ mail[m].kind = mail[n].kind => m = n

\* One request at a time: a change or a reset of the password leaves no session from
\* before, and a resend no e-mailed token but its own.
ReplacedAlone == alone => NoStaleSession /\ OneUnusedPerKind

\* Requests that lock the same rows in different orders all end.
RequestsEnd == \A r \in Reqs : ~At(r, "idle") ~> At(r, "idle")
=============================================================================
