------------------------- MODULE AuthSessionsProofs -------------------------
(***************************************************************************)
(* What holds of AuthSessions for any number of requests, refresh tokens   *)
(* and e-mailed tokens.  The inductive invariant says who holds which row: *)
(* a refresh token that is held is live and held once, an e-mailed token   *)
(* that a reset holds is unused and nobody else's.                         *)
(***************************************************************************)
EXTENDS AuthSessions, TLAPS, FiniteSetTheorems

\* The requests that may still change the password.
Changing == {q \in Reqs : req[q].pc \in
                {"load", "update", "revokeOthers", "setPassword", "revokeAll"}}

PwBounded == password + Cardinality(Changing) <= MaxPw

\* A request that holds its refresh token is the only holder, and it is live.
TokHeld ==
    \A r \in Reqs :
        /\ req[r].pc \in {"rotate", "load", "update", "revokeOthers", "remove"}
               => req[r].tok \in Toks
        /\ \A t \in Toks : HoldsTok(r, t) => Live(t) /\ TokFree(r, t)

\* The log-in a token descends from is a token that has been stored.
LoginStored ==
    \A t \in Toks :
        /\ tok[t].st # "none" => tok[t].fam \in Toks
        /\ tok[t].fam \in Toks => tok[tok[t].fam].st # "none"

\* A reset that holds its e-mailed token is its only holder, and it is unused.
Resets(r, m) == req[r].mail = m /\ req[r].pc \in {"setPassword", "revokeAll"}

MailHeld ==
    \A r \in Reqs :
        /\ req[r].pc \in {"setPassword", "revokeAll"} => req[r].mail \in Mails
        /\ \A m \in Mails : Resets(r, m) =>
              /\ Unused(m) /\ mail[m].kind = "reset_password"
              /\ \A q \in Reqs \ {r} : ~HoldsMail(q, m)

\* What a bulk UPDATE has found is there, and what is to be invalidated is of the
\* kind that is to be issued.
SnapFound ==
    \A r \in Reqs :
        /\ At(r, "issue") => \A m \in Mails : m \in req[r].snap =>
               mail[m].kind = req[r].kind /\ mail[m].st # "none"
        /\ HoldsUser(r) => \A t \in Toks : t \in req[r].snap => tok[t].st # "none"

\* Who holds the row of the user knows that it is there.
UserHeld ==
    \A r \in Reqs : HoldsUser(r) => account = "open"

IInv ==
    /\ TypeOK /\ PwBounded
    /\ TokHeld /\ LoginStored /\ OneLivePerLogin
    /\ MailHeld /\ SnapFound /\ PendingVerification
    /\ UserHeld /\ NothingOutlivesAccount

-----------------------------------------------------------------------------
(* Type correctness.                                                       *)

LEMMA IdleTyped == Idle \in Request
  BY ConstantsOK DEF Idle, Request, Pcs, Kinds

LEMMA NoTokTyped == NoTok \in Token /\ NoMail \in Mail
  BY ConstantsOK DEF NoTok, NoMail, Token, Mail, Kinds

\* The requests as their first step makes them.
LEMMA StartTyped ==
    /\ \A k \in Kinds : [Idle EXCEPT !.pc = "invalidate", !.kind = k] \in Request
    /\ \A p \in 0..MaxPw : [Idle EXCEPT !.pc = "store", !.pw = p] \in Request
    /\ \A t \in Toks : [Idle EXCEPT !.pc = "rotate", !.tok = t] \in Request
    /\ \A t \in Toks, p \in 0..MaxPw :
          [Idle EXCEPT !.pc = "load", !.tok = t, !.pw = p] \in Request
    /\ \A m \in Mails : [Idle EXCEPT !.pc = "setPassword", !.mail = m] \in Request
    /\ \A t \in Toks : [Idle EXCEPT !.pc = "remove", !.tok = t] \in Request
<1> USE IdleTyped DEF Request, Pcs
<1>1. \A k \in Kinds : [Idle EXCEPT !.pc = "invalidate", !.kind = k] \in Request
  OBVIOUS
<1>2. \A p \in 0..MaxPw : [Idle EXCEPT !.pc = "store", !.pw = p] \in Request
  OBVIOUS
<1>3. \A t \in Toks : /\ [Idle EXCEPT !.pc = "rotate", !.tok = t] \in Request
                      /\ [Idle EXCEPT !.pc = "remove", !.tok = t] \in Request
  OBVIOUS
<1>4. \A t \in Toks, p \in 0..MaxPw :
         [Idle EXCEPT !.pc = "load", !.tok = t, !.pw = p] \in Request
  OBVIOUS
<1>5. \A m \in Mails : [Idle EXCEPT !.pc = "setPassword", !.mail = m] \in Request
  OBVIOUS
<1> HIDE DEF Request, Pcs
<1> QED
  BY <1>1, <1>2, <1>3, <1>4, <1>5

\* The requests as a later step makes them.
LEMMA StepTyped ==
    ASSUME NEW q \in Request, NEW snap \in SUBSET (Toks \cup Mails)
    PROVE  /\ [q EXCEPT !.pc = "update"] \in Request
           /\ [q EXCEPT !.pc = "issue", !.snap = snap] \in Request
           /\ [q EXCEPT !.pc = "revokeOthers", !.snap = snap] \in Request
           /\ [q EXCEPT !.pc = "revokeAll", !.snap = snap] \in Request
  BY DEF Request, Pcs

LEMMA RevokedTyped ==
    ASSUME tok \in [Toks -> Token], NEW S
    PROVE  Revoked(S) \in [Toks -> Token]
<1>1. ASSUME NEW x \in Token PROVE [x EXCEPT !.st = "revoked"] \in Token
  BY <1>1 DEF Token
<1> QED
  BY <1>1 DEF Revoked

\* A change of the password ends a request that was counted.
LEMMA PwAdvances ==
    ASSUME TypeOK, PwBounded, NEW r \in Changing
    PROVE  password + 1 \in 0..MaxPw
<1>1. Changing \subseteq Reqs
  BY DEF Changing
<1>2. IsFiniteSet(Changing)
  BY <1>1, FS_Subset, ConstantsOK
<1>3. Cardinality(Changing) \in Nat /\ Cardinality(Changing) # 0
  BY <1>2, FS_CardinalityType, FS_EmptySet
<1>4. password \in Nat /\ MaxPw \in Nat
  BY ConstantsOK DEF TypeOK
<1> HIDE DEF Changing
<1> QED
  BY <1>3, <1>4 DEF PwBounded

LEMMA TypeInit == Init => TypeOK
<1> SUFFICES ASSUME Init PROVE TypeOK
  OBVIOUS
<1>1. tok \in [Toks -> Token] /\ mail \in [Mails -> Mail] /\ req \in [Reqs -> Request]
  BY IdleTyped, NoTokTyped DEF Init
<1>2. account \in {"none", "open", "deleted"} /\ expired \subseteq Toks \cup Mails
  BY DEF Init
<1>3. activated \in BOOLEAN
  BY DEF Init
<1>4. password \in 0..MaxPw
  BY ConstantsOK DEF Init
<1>5. alone \in BOOLEAN
  BY DEF Init
<1> QED
  BY <1>1, <1>2, <1>3, <1>4, <1>5 DEF TypeOK

LEMMA TypeNext == TypeOK /\ PwBounded /\ TokHeld /\ [Next]_vars => TypeOK'
<1> SUFFICES ASSUME TypeOK, PwBounded, TokHeld, [Next]_vars PROVE TypeOK'
  OBVIOUS
<1>0. alone' = alone
  BY DEF Next, vars
<1> USE <1>0 DEF TypeOK
<1>1. ASSUME NEW m \in Mails, Register(m) PROVE TypeOK'
  <2>1. [st |-> "unused", kind |-> "verify_email"] \in Mail
    BY DEF Mail, Kinds
  <2> QED
    BY <1>1, <2>1 DEF Register
<1>2. ASSUME NEW m \in Mails, VerifyEmail(m) PROVE TypeOK'
  BY <1>2 DEF VerifyEmail, Mail
<1>3. ASSUME NEW t \in Toks, Logout(t) PROVE TypeOK'
  BY <1>3 DEF Logout, Token
<1>4. ASSUME NEW r \in Reqs, Start(r) PROVE TypeOK'
  <2>1. CASE Login(r)
    BY <2>1, StartTyped DEF Login
  <2>2. CASE ResendVerification(r)
    BY <2>2, StartTyped DEF ResendVerification, Kinds
  <2>3. CASE RequestPasswordReset(r)
    BY <2>3, StartTyped DEF RequestPasswordReset, Kinds
  <2>4. ASSUME NEW t \in Toks, Refresh(r, t) PROVE TypeOK'
    BY <2>4, StartTyped DEF Refresh
  <2>5. ASSUME NEW t \in Toks, ChangePassword(r, t) PROVE TypeOK'
    BY <2>5, StartTyped DEF ChangePassword
  <2>6. ASSUME NEW t \in Toks, DeleteAccount(r, t) PROVE TypeOK'
    BY <2>6, StartTyped DEF DeleteAccount
  <2>7. ASSUME NEW m \in Mails, ResetPassword(r, m) PROVE TypeOK'
    BY <2>7, StartTyped DEF ResetPassword
  <2> QED
    BY <1>4, <2>1, <2>2, <2>3, <2>4, <2>5, <2>6, <2>7 DEF Start
<1>5. ASSUME NEW r \in Reqs, Continue(r) PROVE TypeOK'
  <2>0. req[r] \in Request
    OBVIOUS
  <2>1. ASSUME NEW n \in Toks, StoreRefreshToken(r, n) PROVE TypeOK'
    <3>1. [st |-> "live", fam |-> n, pw |-> req[r].pw] \in Token
      BY <2>0 DEF Token, Request
    <3> QED
      BY <2>1, <3>1, IdleTyped DEF StoreRefreshToken, Return
  <2>2. ASSUME NEW n \in Toks, Rotate(r, n) PROVE TypeOK'
    <3> DEFINE t   == req[r].tok
               s   == [tok EXCEPT ![t].st = "revoked"]
               new == [st |-> "live", fam |-> tok[t].fam, pw |-> tok[t].pw]
    <3>1. s \in [Toks -> Token]
      BY DEF Token
    <3>2. t \in Toks
      BY <2>2 DEF Rotate, At, TokHeld
    <3>3. new \in Token
      BY <3>2 DEF Token
    <3>4. tok' = [s EXCEPT ![n] = new]
      BY <2>2 DEF Rotate
    <3> HIDE DEF s, t, new
    <3>5. tok' \in [Toks -> Token]
      BY <3>1, <3>3, <3>4
    <3> QED
      BY <2>2, <3>5, IdleTyped DEF Rotate, Return
  <2>3. ASSUME NEW n \in Mails, IssueEmailToken(r, n) PROVE TypeOK'
    <3>1. [st |-> "unused", kind |-> req[r].kind] \in Mail
      BY <2>0 DEF Mail, Request
    <3>2. \A m \in Mails : [mail[m] EXCEPT !.st = "used"] \in Mail
      BY DEF Mail
    <3>3. mail' \in [Mails -> Mail]
      BY <2>3, <3>1, <3>2 DEF IssueEmailToken
    <3> QED
      BY <2>3, <3>3, IdleTyped DEF IssueEmailToken, Return
  <2>4. CASE InvalidateEmailTokensForUser(r)
    <3> DEFINE found == {m \in Mails : Unused(m) /\ mail[m].kind = req[r].kind}
    <3>1. req' = [req EXCEPT ![r] = [req[r] EXCEPT !.pc = "issue", !.snap = found]]
      BY <2>4 DEF InvalidateEmailTokensForUser
    <3>2. found \in SUBSET (Toks \cup Mails)
      OBVIOUS
    <3> HIDE DEF found
    <3>3. req' \in [Reqs -> Request]
      BY <2>0, <3>1, <3>2, StepTyped
    <3> QED
      BY <2>4, <3>3 DEF InvalidateEmailTokensForUser
  <2>5. CASE LoadRefreshToken(r)
    BY <2>0, <2>5, StepTyped, IdleTyped DEF LoadRefreshToken, Return
  <2>6. CASE UpdateUserPassword(r)
    <3> DEFINE found == {t \in Toks : Live(t)} \ {req[r].tok}
    <3>1. req' = [req EXCEPT ![r] = [req[r] EXCEPT !.pc = "revokeOthers", !.snap = found]]
      BY <2>6 DEF UpdateUserPassword
    <3>2. found \in SUBSET (Toks \cup Mails)
      OBVIOUS
    <3> HIDE DEF found
    <3>3. req' \in [Reqs -> Request]
      BY <2>0, <3>1, <3>2, StepTyped
    <3> QED
      BY <2>6, <3>3 DEF UpdateUserPassword
  <2>7. CASE CommitChange(r)
    <3>1. password + 1 \in 0..MaxPw
      BY <2>7, PwAdvances DEF CommitChange, At, Changing
    <3>2. \A x \in Token : [x EXCEPT !.pw = password + 1] \in Token
      BY <3>1 DEF Token
    <3>3. tok' \in [Toks -> Token]
      BY <2>7, <3>2, RevokedTyped DEF CommitChange
    <3> QED
      BY <2>7, <3>1, <3>3, IdleTyped DEF CommitChange, Return
  <2>8. CASE SetPassword(r)
    <3> DEFINE found == {t \in Toks : Live(t)}
    <3>1. req' = [req EXCEPT ![r] = [req[r] EXCEPT !.pc = "revokeAll", !.snap = found]]
      BY <2>8 DEF SetPassword
    <3>2. found \in SUBSET (Toks \cup Mails)
      OBVIOUS
    <3> HIDE DEF found
    <3>3. req' \in [Reqs -> Request]
      BY <2>0, <3>1, <3>2, StepTyped
    <3> QED
      BY <2>8, <3>3 DEF SetPassword
  <2>9. CASE CommitReset(r)
    <3>1. password + 1 \in 0..MaxPw
      BY <2>9, PwAdvances DEF CommitReset, At, Changing
    <3>2. mail' \in [Mails -> Mail]
      BY <2>9 DEF CommitReset, Mail
    <3> QED
      BY <2>9, <3>1, <3>2, RevokedTyped, IdleTyped DEF CommitReset, Return
  <2>10. CASE DeleteUserAndRelatedData(r)
    BY <2>10, IdleTyped, NoTokTyped DEF DeleteUserAndRelatedData, Return
  <2>11. CASE AccountGone(r)
    BY <2>11, IdleTyped DEF AccountGone, Return
  <2>12. CASE DeadlockVictim(r)
    BY <2>12, IdleTyped DEF DeadlockVictim, Return
  <2> QED
    BY <1>5, <2>1, <2>2, <2>3, <2>4, <2>5, <2>6, <2>7, <2>8, <2>9, <2>10, <2>11, <2>12
       DEF Continue
<1>6. ASSUME NEW r \in Reqs, Abort(r) PROVE TypeOK'
  BY <1>6, IdleTyped DEF Abort, Return
<1>7. ASSUME NEW x \in Lapses, Expire(x) PROVE TypeOK'
  BY <1>7, ConstantsOK DEF Expire
<1>8. CASE UNCHANGED vars
  BY <1>8 DEF vars
<1> QED
  BY <1>1, <1>2, <1>3, <1>4, <1>5, <1>6, <1>7, <1>8 DEF Next

-----------------------------------------------------------------------------
(* Who holds what.                                                         *)

Others(r) == \A q \in Reqs \ {r} : req'[q] = req[q]

\* A first step reads, and takes the row of the token it was given.
LEMMA StartStep ==
    ASSUME TypeOK, NEW r \in Reqs, Start(r)
    PROVE  /\ UNCHANGED <<account, activated, password, tok, mail, expired>>
           /\ Others(r) /\ At(r, "idle") /\ account = "open"
           /\ \/ req'[r].pc \in {"store", "invalidate"}
              \/ /\ req'[r].pc = "load" /\ req'[r].tok \in Toks
                 /\ PwRoom
              \/ /\ req'[r].pc \in {"rotate", "remove"} /\ req'[r].tok \in Toks
                 /\ Live(req'[r].tok) /\ TokFree(r, req'[r].tok)
              \/ /\ req'[r].pc = "setPassword" /\ req'[r].mail \in Mails
                 /\ MailFree(req'[r].mail) /\ Unused(req'[r].mail)
                 /\ mail[req'[r].mail].kind = "reset_password"
                 /\ PwRoom
<1> USE DEF TypeOK, Others, Idle
<1>1. CASE Login(r)
  BY <1>1 DEF Login
<1>2. CASE ResendVerification(r)
  BY <1>2 DEF ResendVerification
<1>3. CASE RequestPasswordReset(r)
  BY <1>3 DEF RequestPasswordReset
<1>4. ASSUME NEW t \in Toks, Refresh(r, t)
      PROVE  /\ UNCHANGED <<account, activated, password, tok, mail, expired>>
             /\ Others(r) /\ At(r, "idle") /\ account = "open"
             /\ req'[r].pc = "rotate" /\ req'[r].tok = t /\ Live(t) /\ TokFree(r, t)
  BY <1>4 DEF Refresh
<1>5. ASSUME NEW t \in Toks, ChangePassword(r, t)
      PROVE  /\ UNCHANGED <<account, activated, password, tok, mail, expired>>
             /\ Others(r) /\ At(r, "idle") /\ account = "open"
             /\ req'[r].pc = "load" /\ req'[r].tok = t /\ PwRoom
  BY <1>5 DEF ChangePassword
<1>6. ASSUME NEW t \in Toks, DeleteAccount(r, t)
      PROVE  /\ UNCHANGED <<account, activated, password, tok, mail, expired>>
             /\ Others(r) /\ At(r, "idle") /\ account = "open"
             /\ req'[r].pc = "remove" /\ req'[r].tok = t /\ Live(t) /\ TokFree(r, t)
  BY <1>6 DEF DeleteAccount
<1>7. ASSUME NEW m \in Mails, ResetPassword(r, m)
      PROVE  /\ UNCHANGED <<account, activated, password, tok, mail, expired>>
             /\ Others(r) /\ At(r, "idle") /\ account = "open"
             /\ req'[r].pc = "setPassword" /\ req'[r].mail = m
             /\ MailFree(m) /\ Unused(m) /\ mail[m].kind = "reset_password"
             /\ PwRoom
  BY <1>7 DEF ResetPassword
<1> HIDE DEF TypeOK, Others, Idle
<1> QED
  BY <1>1, <1>2, <1>3, <1>4, <1>5, <1>6, <1>7 DEF Start

\* The steps that end a request without having written anything.
GivesUp(r) == /\ UNCHANGED <<account, activated, password, tok, mail, expired>>
              /\ Return(r)

LEMMA GivesUpStep ==
    ASSUME TypeOK, NEW r \in Reqs, AccountGone(r) \/ DeadlockVictim(r) \/ Abort(r)
    PROVE  GivesUp(r)
  BY DEF AccountGone, DeadlockVictim, Abort, GivesUp

LEMMA ReturnStep ==
    ASSUME TypeOK, NEW r \in Reqs, Return(r)
    PROVE  req'[r] = Idle /\ Others(r)
  BY DEF TypeOK, Return, Others

\* What a step of r has to respect for the others to hold what they hold.
LEMMA TokHeldKept ==
    ASSUME TypeOK, TokHeld, NEW r \in Reqs, Others(r),
           req'[r].pc \in {"rotate", "load", "update", "revokeOthers", "remove"}
              => req'[r].tok \in Toks,
           \A t \in Toks : Live(t) /\ ~Live(t)' => TokFree(r, t),
           \A t \in Toks : HoldsTok(r, t)' => Live(t)' /\ TokFree(r, t)
    PROVE  TokHeld'
<1>1. ASSUME NEW q \in Reqs, NEW t \in Toks, HoldsTok(q, t)'
      PROVE  Live(t)' /\ TokFree(q, t)'
  <2>1. CASE q = r
    BY <1>1, <2>1 DEF Others, TokFree, HoldsTok
  <2>2. CASE q # r
    <3>1. HoldsTok(q, t)
      BY <1>1, <2>2 DEF Others, HoldsTok
    <3>2. Live(t) /\ TokFree(q, t) /\ ~TokFree(r, t)
      BY <3>1, <2>2 DEF TokHeld, TokFree
    <3>3. ~HoldsTok(r, t)'
      BY <3>2
    <3> QED
      BY <3>2, <3>3 DEF TokFree, HoldsTok, Others
  <2> QED
    BY <2>1, <2>2
<1>2. ASSUME NEW q \in Reqs,
             req'[q].pc \in {"rotate", "load", "update", "revokeOthers", "remove"}
      PROVE  req'[q].tok \in Toks
  BY <1>2 DEF TokHeld, Others
<1> QED
  BY <1>1, <1>2 DEF TokHeld

LEMMA MailHeldKept ==
    ASSUME TypeOK, MailHeld, NEW r \in Reqs, Others(r),
           req'[r].pc \in {"setPassword", "revokeAll"} => req'[r].mail \in Mails,
           \A q \in Reqs \ {r}, m \in Mails : Resets(q, m) =>
               mail'[m] = mail[m] /\ ~HoldsMail(r, m)',
           \A m \in Mails : Resets(r, m)' =>
               /\ Unused(m)' /\ mail'[m].kind = "reset_password"
               /\ \A q \in Reqs \ {r} : ~HoldsMail(q, m)
    PROVE  MailHeld'
<1>1. ASSUME NEW q \in Reqs, NEW m \in Mails, Resets(q, m)'
      PROVE  /\ Unused(m)' /\ mail'[m].kind = "reset_password"
             /\ \A p \in Reqs \ {q} : ~HoldsMail(p, m)'
  <2>1. CASE q = r
    BY <1>1, <2>1 DEF Others, HoldsMail
  <2>2. CASE q # r
    <3>1. Resets(q, m)
      BY <1>1, <2>2 DEF Others, Resets
    <3>2. /\ Unused(m) /\ mail[m].kind = "reset_password"
          /\ \A p \in Reqs \ {q} : ~HoldsMail(p, m)
      BY <3>1 DEF MailHeld
    <3>3. mail'[m] = mail[m] /\ ~HoldsMail(r, m)'
      BY <3>1, <2>2
    <3>4. Unused(m)' /\ mail'[m].kind = "reset_password"
      BY <3>2, <3>3 DEF Unused
    <3>5. ASSUME NEW p \in Reqs \ {q} PROVE ~HoldsMail(p, m)'
      BY <3>2, <3>3 DEF HoldsMail, Others
    <3> QED
      BY <3>4, <3>5
  <2> QED
    BY <2>1, <2>2
<1>2. ASSUME NEW q \in Reqs, req'[q].pc \in {"setPassword", "revokeAll"}
      PROVE  req'[q].mail \in Mails
  BY <1>2 DEF MailHeld, Others
<1> QED
  BY <1>1, <1>2 DEF MailHeld

\* Revoking tokens, whichever, does not disturb what is known of log-ins.
LEMMA RevokingKeeps ==
    ASSUME LoginStored, OneLivePerLogin,
           \A t \in Toks : /\ tok'[t].fam = tok[t].fam
                           /\ tok'[t].st = "live" => tok[t].st = "live"
                           /\ tok'[t].st = "none" <=> tok[t].st = "none"
    PROVE  LoginStored' /\ OneLivePerLogin'
  BY DEF LoginStored, OneLivePerLogin, Live

-----------------------------------------------------------------------------
(* Refresh tokens.                                                         *)

LEMMA TokUntouched ==
    ASSUME TypeOK, TokHeld, LoginStored, OneLivePerLogin, UNCHANGED <<tok, req>>
    PROVE  TokHeld' /\ LoginStored' /\ OneLivePerLogin'
  BY DEF TokHeld, LoginStored, OneLivePerLogin, HoldsTok, TokFree, Live

LEMMA TokReleased ==
    ASSUME TypeOK, TokHeld, NEW r \in Reqs, Return(r),
           \A t \in Toks : Live(t) /\ ~Live(t)' => TokFree(r, t)
    PROVE  TokHeld'
<1>1. req'[r] = Idle /\ Others(r)
  BY ReturnStep
<1>2. /\ req'[r].pc \notin {"rotate", "load", "update", "revokeOthers", "remove"}
      /\ \A t \in Toks : ~HoldsTok(r, t)'
  BY <1>1 DEF Idle, HoldsTok
<1> QED
  BY <1>1, <1>2, TokHeldKept

LEMMA TokKeptByContinue ==
    ASSUME TypeOK, TokHeld, LoginStored, OneLivePerLogin, SnapFound,
           NEW r \in Reqs, Continue(r)
    PROVE  TokHeld' /\ LoginStored' /\ OneLivePerLogin'
<1>1. ASSUME NEW n \in Toks, StoreRefreshToken(r, n)
      PROVE  TokHeld' /\ LoginStored' /\ OneLivePerLogin'
  <2>1. /\ tok[n].st = "none" /\ Return(r)
        /\ tok'[n].st = "live" /\ tok'[n].fam = n
        /\ \A t \in Toks \ {n} : tok'[t] = tok[t]
    BY <1>1 DEF StoreRefreshToken, FreeToks, TypeOK
  <2>2. TokHeld'
    BY <2>1, TokReleased DEF Live
  <2>3. \A t \in Toks : tok[t].fam # n
    BY <2>1 DEF LoginStored
  <2> QED
    BY <2>1, <2>2, <2>3 DEF LoginStored, OneLivePerLogin, Live
<1>2. ASSUME NEW n \in Toks, Rotate(r, n)
      PROVE  TokHeld' /\ LoginStored' /\ OneLivePerLogin'
  <2>1. PICK t \in Toks : t = req[r].tok
    BY <1>2 DEF Rotate, At, TokHeld
  <2>2. HoldsTok(r, t)
    BY <1>2, <2>1 DEF Rotate, At, HoldsTok
  <2>3. Live(t) /\ TokFree(r, t)
    BY <2>2 DEF TokHeld
  <2>4. /\ tok[n].st = "none" /\ n # t /\ Return(r)
        /\ tok'[n].st = "live" /\ tok'[n].fam = tok[t].fam
        /\ tok'[t].st = "revoked" /\ tok'[t].fam = tok[t].fam
        /\ \A s \in Toks \ {n, t} : tok'[s] = tok[s]
    <3>1. /\ n \in FreeToks /\ Return(r)
          /\ tok' = [tok EXCEPT ![t].st = "revoked",
                                ![n] = [st |-> "live", fam |-> tok[t].fam, pw |-> tok[t].pw]]
      BY <1>2, <2>1 DEF Rotate
    <3>2. tok[n].st = "none" /\ n # t
      BY <3>1, <2>3 DEF FreeToks, Live
    <3>3. tok \in [Toks -> Token] /\ tok[t] \in Token
      BY DEF TypeOK
    <3> QED
      BY <3>1, <3>2, <3>3 DEF Token
  <2>5. TokHeld'
    BY <2>3, <2>4, TokReleased DEF Live
  <2>6. LoginStored'
    BY <2>3, <2>4 DEF LoginStored, Live
  <2>7. \A s \in Toks \ {n, t} : Live(s) => tok[s].fam # tok[t].fam
    BY <2>3 DEF OneLivePerLogin
  <2> QED
    BY <2>4, <2>5, <2>6, <2>7 DEF OneLivePerLogin, Live
<1>3. ASSUME NEW n \in Mails, IssueEmailToken(r, n)
      PROVE  TokHeld' /\ LoginStored' /\ OneLivePerLogin'
  <2>1. Return(r) /\ tok' = tok
    BY <1>3 DEF IssueEmailToken
  <2> QED
    BY <2>1, TokReleased, RevokingKeeps DEF Live
<1>4. CASE InvalidateEmailTokensForUser(r)
  <2>1. req'[r].pc = "issue" /\ Others(r) /\ tok' = tok
    BY <1>4 DEF InvalidateEmailTokensForUser, TypeOK, Others
  <2>2. TokHeld'
    BY <2>1, TokHeldKept DEF HoldsTok, Live
  <2> QED
    BY <2>1, <2>2, RevokingKeeps
<1>5. CASE LoadRefreshToken(r)
  <2>1. tok' = tok
    BY <1>5 DEF LoadRefreshToken
  <2>2. CASE Return(r)
    BY <2>1, <2>2, TokReleased, RevokingKeeps DEF Live
  <2>3. CASE ~Return(r)
    <3>1. /\ req[r].tok \in Toks /\ Live(req[r].tok) /\ TokFree(r, req[r].tok)
          /\ Others(r) /\ req'[r].pc = "update" /\ req'[r].tok = req[r].tok
      <4>1. /\ At(r, "load") /\ TokFree(r, req[r].tok) /\ Live(req[r].tok)
            /\ req' = [req EXCEPT ![r].pc = "update"]
        BY <1>5, <2>3 DEF LoadRefreshToken
      <4>2. req \in [Reqs -> Request] /\ req[r] \in Request
        BY DEF TypeOK
      <4>3. Others(r) /\ req'[r].pc = "update" /\ req'[r].tok = req[r].tok
        BY <4>1, <4>2 DEF Others, Request
      <4> QED
        BY <4>1, <4>3 DEF At, TokHeld
    <3>2. TokHeld'
      BY <2>1, <3>1, TokHeldKept DEF HoldsTok, Live
    <3> QED
      BY <2>1, <3>2, RevokingKeeps
  <2> QED
    BY <2>2, <2>3
<1>6. CASE UpdateUserPassword(r)
  <2>1. /\ tok' = tok /\ Others(r)
        /\ req[r].pc = "update"
        /\ req'[r].pc = "revokeOthers" /\ req'[r].tok = req[r].tok
    BY <1>6 DEF UpdateUserPassword, At, TypeOK, Others
  <2>2. \A t \in Toks : HoldsTok(r, t)' => Live(t) /\ TokFree(r, t)
    BY <2>1 DEF HoldsTok, TokHeld
  <2>3. req'[r].tok \in Toks
    BY <2>1 DEF TokHeld
  <2>4. TokHeld'
    BY <2>1, <2>2, <2>3, TokHeldKept DEF Live
  <2> QED
    BY <2>1, <2>4, RevokingKeeps
<1>7. CASE CommitChange(r)
  <2>1. Return(r) /\ \A s \in req[r].snap : TokFree(r, s)
    BY <1>7 DEF CommitChange
  <2>2. \A t \in Toks :
          /\ tok'[t].fam = tok[t].fam
          /\ tok'[t].st = IF t \in req[r].snap THEN "revoked" ELSE tok[t].st
    BY <1>7 DEF CommitChange, Revoked, TypeOK, Token
  <2>3. TokHeld'
    BY <2>1, <2>2, TokReleased DEF Live
  <2>4. \A t \in Toks : t \in req[r].snap => tok[t].st # "none"
    BY <1>7 DEF CommitChange, At, HoldsUser, SnapFound
  <2> QED
    BY <2>2, <2>3, <2>4, RevokingKeeps
<1>8. CASE SetPassword(r)
  <2>1. req'[r].pc = "revokeAll" /\ Others(r) /\ tok' = tok
    BY <1>8 DEF SetPassword, TypeOK, Others
  <2>2. TokHeld'
    BY <2>1, TokHeldKept DEF HoldsTok, Live
  <2> QED
    BY <2>1, <2>2, RevokingKeeps
<1>9. CASE CommitReset(r)
  <2>1. Return(r) /\ \A s \in req[r].snap : TokFree(r, s)
    BY <1>9 DEF CommitReset
  <2>2. \A t \in Toks :
          /\ tok'[t].fam = tok[t].fam
          /\ tok'[t].st = IF t \in req[r].snap THEN "revoked" ELSE tok[t].st
    BY <1>9 DEF CommitReset, Revoked, TypeOK, Token
  <2>3. TokHeld'
    BY <2>1, <2>2, TokReleased DEF Live
  <2>4. \A t \in Toks : t \in req[r].snap => tok[t].st # "none"
    BY <1>9 DEF CommitReset, At, HoldsUser, SnapFound
  <2> QED
    BY <2>2, <2>3, <2>4, RevokingKeeps
<1>10. CASE DeleteUserAndRelatedData(r)
  <2>1. /\ Return(r) /\ \A t \in Toks : TokFree(r, t)
        /\ \A t \in Toks : tok'[t].st = "none" /\ tok'[t].fam = None
    BY <1>10 DEF DeleteUserAndRelatedData, NoTok
  <2>2. TokHeld'
    BY <2>1, TokReleased
  <2> QED
    BY <2>1, <2>2, ConstantsOK DEF LoginStored, OneLivePerLogin, Live
<1>11. CASE AccountGone(r) \/ DeadlockVictim(r)
  <2>1. Return(r) /\ tok' = tok
    BY <1>11, GivesUpStep DEF GivesUp
  <2> QED
    BY <2>1, TokReleased, RevokingKeeps DEF Live
<1> QED
  BY <1>1, <1>2, <1>3, <1>4, <1>5, <1>6, <1>7, <1>8, <1>9, <1>10, <1>11 DEF Continue

LEMMA TokNext ==
    ASSUME TypeOK, TokHeld, LoginStored, OneLivePerLogin, SnapFound, [Next]_vars
    PROVE  TokHeld' /\ LoginStored' /\ OneLivePerLogin'
<1>1. ASSUME NEW m \in Mails, Register(m) \/ VerifyEmail(m)
      PROVE  TokHeld' /\ LoginStored' /\ OneLivePerLogin'
  BY <1>1, TokUntouched DEF Register, VerifyEmail
<1>2. ASSUME NEW t \in Toks, Logout(t)
      PROVE  TokHeld' /\ LoginStored' /\ OneLivePerLogin'
  <2>1. /\ req' = req /\ \A q \in Reqs : ~HoldsTok(q, t)
        /\ tok[t].st # "none" /\ tok'[t].st = "revoked" /\ tok'[t].fam = tok[t].fam
        /\ \A s \in Toks \ {t} : tok'[s] = tok[s]
    BY <1>2 DEF Logout, TypeOK
  <2>2. TokHeld'
    BY <2>1 DEF TokHeld, HoldsTok, TokFree, Live
  <2> QED
    BY <2>1, <2>2, RevokingKeeps
<1>3. ASSUME NEW r \in Reqs, Start(r)
      PROVE  TokHeld' /\ LoginStored' /\ OneLivePerLogin'
  <2>1. /\ tok' = tok /\ Others(r)
        /\ \/ req'[r].pc \in {"store", "invalidate", "setPassword"}
           \/ req'[r].pc = "load" /\ req'[r].tok \in Toks
           \/ /\ req'[r].pc \in {"rotate", "remove"} /\ req'[r].tok \in Toks
              /\ Live(req'[r].tok) /\ TokFree(r, req'[r].tok)
    BY <1>3, StartStep
  <2>2. TokHeld'
    BY <2>1, TokHeldKept DEF HoldsTok, Live
  <2> QED
    BY <2>1, <2>2, RevokingKeeps
<1>4. ASSUME NEW r \in Reqs, Abort(r)
      PROVE  TokHeld' /\ LoginStored' /\ OneLivePerLogin'
  <2>1. Return(r) /\ tok' = tok
    BY <1>4, GivesUpStep DEF GivesUp
  <2> QED
    BY <2>1, TokReleased, RevokingKeeps DEF Live
<1>5. ASSUME NEW x \in Lapses, Expire(x)
      PROVE  TokHeld' /\ LoginStored' /\ OneLivePerLogin'
  BY <1>5, TokUntouched DEF Expire
<1>6. CASE UNCHANGED vars
  BY <1>6, TokUntouched DEF vars
<1> QED
  BY <1>1, <1>2, <1>3, <1>4, <1>5, <1>6, TokKeptByContinue DEF Next

-----------------------------------------------------------------------------
(* E-mailed tokens.                                                        *)

LEMMA MailReleased ==
    ASSUME TypeOK, MailHeld, NEW r \in Reqs, Return(r),
           \A q \in Reqs \ {r}, m \in Mails : Resets(q, m) => mail'[m] = mail[m]
    PROVE  MailHeld'
<1>1. req'[r] = Idle /\ Others(r)
  BY ReturnStep
<1>2. /\ req'[r].pc \notin {"setPassword", "revokeAll"}
      /\ \A m \in Mails : ~HoldsMail(r, m)' /\ ~Resets(r, m)'
  BY <1>1 DEF Idle, HoldsMail, Resets
<1> QED
  BY <1>1, <1>2, MailHeldKept

\* Whoever resets holds the token against everyone else.
LEMMA ResetHoldsMail ==
    ASSUME MailHeld, NEW q \in Reqs, NEW m \in Mails, Resets(q, m)
    PROVE  /\ HoldsMail(q, m) /\ ~MailFree(m)
           /\ \A r \in Reqs \ {q} : ~HoldsMail(r, m)
           /\ mail[m].st = "unused"
  BY DEF MailHeld, Resets, HoldsMail, MailFree, Unused

LEMMA MailKeptByContinue ==
    ASSUME TypeOK, MailHeld, NEW r \in Reqs, Continue(r)
    PROVE  MailHeld'
<1>1. ASSUME NEW n \in Toks, StoreRefreshToken(r, n) \/ Rotate(r, n) PROVE MailHeld'
  BY <1>1, MailReleased DEF StoreRefreshToken, Rotate
<1>2. ASSUME NEW n \in Mails, IssueEmailToken(r, n) PROVE MailHeld'
  <2>1. /\ Return(r) /\ mail[n].st = "none" /\ req[r].pc = "issue"
        /\ \A m \in Mails : m # n /\ m \notin req[r].snap => mail'[m] = mail[m]
    BY <1>2 DEF IssueEmailToken, FreeMails, At
  <2>2. ASSUME NEW q \in Reqs \ {r}, NEW m \in Mails, Resets(q, m)
        PROVE  mail'[m] = mail[m]
    BY <2>1, <2>2, ResetHoldsMail DEF HoldsMail
  <2> QED
    BY <2>1, <2>2, MailReleased
<1>3. CASE InvalidateEmailTokensForUser(r)
  <2> DEFINE found == {m \in Mails : Unused(m) /\ mail[m].kind = req[r].kind}
  <2>1. /\ mail' = mail
        /\ req' = [req EXCEPT ![r].pc = "issue", ![r].snap = found]
        /\ \A m \in found : \A q \in Reqs : req[q].mail = m => ~HoldsMail(q, m)
    BY <1>3 DEF InvalidateEmailTokensForUser
  <2>2. Others(r) /\ req'[r].pc = "issue" /\ req'[r].snap = found
    BY <2>1 DEF TypeOK, Request, Others
  <2>3. ASSUME NEW q \in Reqs \ {r}, NEW m \in Mails, Resets(q, m)
        PROVE  mail'[m] = mail[m] /\ ~HoldsMail(r, m)'
    <3>1. HoldsMail(q, m) /\ req[q].mail = m
      BY <2>3, ResetHoldsMail DEF Resets
    <3>2. m \notin found
      BY <2>1, <3>1
    <3> HIDE DEF found
    <3> QED
      BY <2>1, <2>2, <3>2 DEF HoldsMail
  <2>4. \A m \in Mails : ~Resets(r, m)'
    BY <2>2 DEF Resets
  <2> QED
    BY <2>2, <2>3, <2>4, MailHeldKept
<1>4. CASE LoadRefreshToken(r)
  <2>1. mail' = mail
    BY <1>4 DEF LoadRefreshToken
  <2>2. CASE Return(r)
    BY <2>1, <2>2, MailReleased
  <2>3. CASE ~Return(r)
    <3>1. req' = [req EXCEPT ![r].pc = "update"]
      BY <1>4, <2>3 DEF LoadRefreshToken
    <3>2. req \in [Reqs -> Request] /\ req[r] \in Request
      BY DEF TypeOK
    <3>3. Others(r) /\ req'[r].pc = "update"
      BY <3>1, <3>2 DEF Others, Request
    <3> QED
      BY <2>1, <3>3, MailHeldKept DEF HoldsMail, Resets
  <2> QED
    BY <2>2, <2>3
<1>5. CASE UpdateUserPassword(r)
  <2>1. Others(r) /\ req'[r].pc = "revokeOthers" /\ mail' = mail
    BY <1>5 DEF UpdateUserPassword, TypeOK, Others
  <2> QED
    BY <2>1, MailHeldKept DEF HoldsMail, Resets
<1>6. CASE CommitChange(r) \/ AccountGone(r) \/ DeadlockVictim(r)
  <2>1. Return(r) /\ mail' = mail
    BY <1>6 DEF CommitChange, AccountGone, DeadlockVictim
  <2> QED
    BY <2>1, MailReleased
<1>7. CASE SetPassword(r)
  <2>1. /\ Others(r) /\ mail' = mail
        /\ req[r].pc = "setPassword"
        /\ req'[r].pc = "revokeAll" /\ req'[r].mail = req[r].mail
    BY <1>7 DEF SetPassword, At, TypeOK, Others
  <2>2. req[r].mail \in Mails /\ \A m \in Mails : Resets(r, m)' => Resets(r, m)
    BY <2>1 DEF MailHeld, Resets
  <2>3. \A m \in Mails : HoldsMail(r, m)' => HoldsMail(r, m)
    BY <2>1 DEF HoldsMail
  <2>4. ASSUME NEW q \in Reqs \ {r}, NEW m \in Mails, Resets(q, m)
        PROVE  ~HoldsMail(r, m)'
    BY <2>3, <2>4, ResetHoldsMail
  <2>5. ASSUME NEW m \in Mails, Resets(r, m)'
        PROVE  /\ Unused(m)' /\ mail'[m].kind = "reset_password"
               /\ \A q \in Reqs \ {r} : ~HoldsMail(q, m)
    BY <2>1, <2>2, <2>5 DEF MailHeld, Unused
  <2> QED
    BY <2>1, <2>2, <2>4, <2>5, MailHeldKept
<1>8. CASE CommitReset(r)
  <2>1. PICK n \in Mails : n = req[r].mail
    BY <1>8 DEF CommitReset, At, MailHeld
  <2>2. HoldsMail(r, n) /\ Return(r) /\ \A m \in Mails \ {n} : mail'[m] = mail[m]
    BY <1>8, <2>1 DEF CommitReset, At, HoldsMail, TypeOK
  <2>3. ASSUME NEW q \in Reqs \ {r}, NEW m \in Mails, Resets(q, m)
        PROVE  mail'[m] = mail[m]
    BY <2>2, <2>3, ResetHoldsMail
  <2> QED
    BY <2>2, <2>3, MailReleased
<1>9. CASE DeleteUserAndRelatedData(r)
  <2>1. Return(r) /\ \A m \in Mails : MailFree(m)
    BY <1>9 DEF DeleteUserAndRelatedData
  <2> QED
    BY <2>1, ResetHoldsMail, MailReleased
<1> QED
  BY <1>1, <1>2, <1>3, <1>4, <1>5, <1>6, <1>7, <1>8, <1>9 DEF Continue

LEMMA MailNext ==
    ASSUME TypeOK, MailHeld, [Next]_vars
    PROVE  MailHeld'
<1>1. ASSUME NEW n \in Mails, Register(n) \/ VerifyEmail(n) PROVE MailHeld'
  <2>1. /\ req' = req /\ \A m \in Mails \ {n} : mail'[m] = mail[m]
        /\ mail[n].st = "none" \/ MailFree(n)
    BY <1>1 DEF Register, VerifyEmail, FreeMails, TypeOK
  <2>2. ASSUME NEW q \in Reqs, NEW m \in Mails, Resets(q, m) PROVE mail'[m] = mail[m]
    BY <2>1, <2>2, ResetHoldsMail
  <2> QED
    BY <2>1, <2>2 DEF MailHeld, Resets, HoldsMail, Unused
<1>2. ASSUME NEW r \in Reqs, Start(r) PROVE MailHeld'
  <2>1. /\ mail' = mail /\ Others(r)
        /\ \/ req'[r].pc \in {"store", "invalidate", "load", "rotate", "remove"}
           \/ /\ req'[r].pc = "setPassword" /\ req'[r].mail \in Mails
              /\ MailFree(req'[r].mail) /\ Unused(req'[r].mail)
              /\ mail[req'[r].mail].kind = "reset_password"
    BY <1>2, StartStep
  <2>2. \A m \in Mails : HoldsMail(r, m)' \/ Resets(r, m)' =>
           MailFree(m) /\ Unused(m)' /\ mail'[m].kind = "reset_password"
    BY <2>1 DEF HoldsMail, Resets, Unused
  <2>3. ASSUME NEW q \in Reqs \ {r}, NEW m \in Mails, Resets(q, m)
        PROVE  ~HoldsMail(r, m)'
    BY <2>2, <2>3, ResetHoldsMail
  <2>4. \A m \in Mails : Resets(r, m)' => \A q \in Reqs \ {r} : ~HoldsMail(q, m)
    BY <2>2 DEF MailFree
  <2> QED
    BY <2>1, <2>2, <2>3, <2>4, MailHeldKept
<1>3. ASSUME NEW r \in Reqs, Abort(r) PROVE MailHeld'
  BY <1>3, MailReleased DEF Abort
<1>4. CASE UNCHANGED <<mail, req>>
  BY <1>4 DEF MailHeld, Resets, HoldsMail, Unused
<1>5. ASSUME NEW t \in Toks, Logout(t) PROVE MailHeld'
  BY <1>4, <1>5 DEF Logout
<1>6. ASSUME NEW x \in Lapses, Expire(x) PROVE MailHeld'
  BY <1>4, <1>6 DEF Expire
<1> QED
  BY <1>1, <1>2, <1>3, <1>4, <1>5, <1>6, MailKeptByContinue DEF Next, vars

-----------------------------------------------------------------------------
(* What the bulk statements have found, and the account.                   *)

\* Rows once written are not removed, nor do e-mailed tokens change their kind.
Lasting == /\ \A t \in Toks : tok[t].st # "none" => tok'[t].st # "none"
           /\ \A m \in Mails : mail[m].st # "none" =>
                 mail'[m].st # "none" /\ mail'[m].kind = mail[m].kind

RowsKept == Lasting /\ UNCHANGED <<account, activated>>

LEMMA RowsLast ==
    ASSUME TypeOK, TokHeld, MailHeld, NEW r \in Reqs, Continue(r)
    PROVE  RowsKept \/ DeleteUserAndRelatedData(r)
<1>0. tok \in [Toks -> Token] /\ mail \in [Mails -> Mail]
  BY DEF TypeOK
<1>1. ASSUME NEW n \in Toks, StoreRefreshToken(r, n) PROVE RowsKept
  BY <1>0, <1>1 DEF StoreRefreshToken, Lasting, RowsKept
<1>2. ASSUME NEW n \in Toks, Rotate(r, n) PROVE RowsKept
  <2>1. PICK t \in Toks : t = req[r].tok
    BY <1>2 DEF Rotate, At, TokHeld
  <2>2. /\ tok' = [tok EXCEPT ![t].st = "revoked",
                     ![n] = [st |-> "live", fam |-> tok[t].fam, pw |-> tok[t].pw]]
        /\ UNCHANGED <<account, activated, mail>>
    BY <1>2, <2>1 DEF Rotate
  <2>3. \A s \in Toks : tok'[s].st \in {"live", "revoked", tok[s].st}
    BY <1>0, <2>2 DEF Token
  <2> QED
    BY <2>2, <2>3 DEF Lasting, RowsKept
<1>3. ASSUME NEW n \in Mails, IssueEmailToken(r, n) PROVE RowsKept
  <2>1. \A m \in Mails : m # n => mail'[m] = mail[m]
                             \/ mail'[m] = [mail[m] EXCEPT !.st = "used"]
    BY <1>3 DEF IssueEmailToken
  <2>2. mail[n].st = "none" /\ UNCHANGED <<account, activated, tok>>
    BY <1>3 DEF IssueEmailToken, FreeMails
  <2>3. \A m \in Mails : [mail[m] EXCEPT !.st = "used"].st = "used"
                     /\ [mail[m] EXCEPT !.st = "used"].kind = mail[m].kind
    BY <1>0 DEF Mail
  <2> QED
    BY <2>1, <2>2, <2>3 DEF Lasting, RowsKept
<1>4. CASE UNCHANGED <<account, activated, tok, mail>>
  BY <1>4 DEF Lasting, RowsKept
<1>5. CASE CommitChange(r)
  <2>1. \A t \in Toks : tok'[t].st \in {tok[t].st, "revoked"}
    BY <1>0, <1>5 DEF CommitChange, Revoked, Token
  <2>2. UNCHANGED <<account, activated, mail>>
    BY <1>5 DEF CommitChange
  <2> QED
    BY <2>1, <2>2 DEF Lasting, RowsKept
<1>6. CASE CommitReset(r)
  <2>1. \A t \in Toks : tok'[t].st \in {tok[t].st, "revoked"}
    BY <1>0, <1>6 DEF CommitReset, Revoked, Token
  <2>2. mail' = [mail EXCEPT ![req[r].mail].st = "used"] /\ UNCHANGED <<account, activated>>
    BY <1>6 DEF CommitReset
  <2>3. \A m \in Mails : mail'[m].st \in {mail[m].st, "used"} /\ mail'[m].kind = mail[m].kind
    BY <1>0, <2>2 DEF Mail
  <2> QED
    BY <2>1, <2>2, <2>3 DEF Lasting, RowsKept
<1>7. CASE AccountGone(r) \/ DeadlockVictim(r)
  BY <1>4, <1>7, GivesUpStep DEF GivesUp
<1>8. CASE \/ InvalidateEmailTokensForUser(r) \/ LoadRefreshToken(r)
           \/ UpdateUserPassword(r) \/ SetPassword(r)
  BY <1>4, <1>8 DEF InvalidateEmailTokensForUser, LoadRefreshToken, UpdateUserPassword, SetPassword
<1> QED
  BY <1>1, <1>2, <1>3, <1>5, <1>6, <1>7, <1>8 DEF Continue

\* The account goes only when nobody holds one of its rows.
LEMMA DeletedAlone ==
    ASSUME TypeOK, NEW r \in Reqs, DeleteUserAndRelatedData(r)
    PROVE  /\ Return(r) /\ account' = "deleted" /\ password' = password
           /\ \A q \in Reqs : ~HoldsUser(q)'
           /\ \A q \in Reqs, m \in Mails : At(q, "issue")' => m \notin req'[q].snap
           /\ FreeToks' = Toks /\ FreeMails' = Mails
<1>1. /\ Return(r) /\ UserFree(r) /\ account' = "deleted" /\ password' = password
      /\ \A m \in Mails : MailFree(m)
  BY DEF DeleteUserAndRelatedData
<1>2. req'[r] = Idle /\ Others(r)
  BY <1>1, ReturnStep
<1>3. \A q \in Reqs : ~HoldsUser(q)'
  BY <1>1, <1>2 DEF UserFree, HoldsUser, Others, Idle
<1>4. \A q \in Reqs, m \in Mails : At(q, "issue")' => m \notin req'[q].snap
  BY <1>1, <1>2 DEF MailFree, HoldsMail, Others, At, Idle
<1>5. FreeToks' = Toks /\ FreeMails' = Mails
  BY DEF DeleteUserAndRelatedData, FreeToks, FreeMails, NoTok, NoMail
<1> QED
  BY <1>1, <1>3, <1>4, <1>5

\* A step that keeps the rows keeps what the others have found.
LEMMA SnapKept ==
    ASSUME SnapFound, NEW r \in Reqs, Others(r), Lasting,
           At(r, "issue")' => \A m \in Mails : m \in req'[r].snap =>
              mail[m].kind = req'[r].kind /\ mail[m].st # "none",
           HoldsUser(r)' => \A t \in Toks : t \in req'[r].snap => tok[t].st # "none"
    PROVE  SnapFound'
<1>1. ASSUME NEW q \in Reqs, At(q, "issue")', NEW m \in Mails, m \in req'[q].snap
      PROVE  mail'[m].kind = req'[q].kind /\ mail'[m].st # "none"
  <2>1. mail[m].kind = req'[q].kind /\ mail[m].st # "none"
    BY <1>1 DEF SnapFound, Others, At
  <2> QED
    BY <2>1 DEF Lasting
<1>2. ASSUME NEW q \in Reqs, HoldsUser(q)', NEW t \in Toks, t \in req'[q].snap
      PROVE  tok'[t].st # "none"
  <2>1. tok[t].st # "none"
    BY <1>2 DEF SnapFound, Others, HoldsUser
  <2> QED
    BY <2>1 DEF Lasting
<1> QED
  BY <1>1, <1>2 DEF SnapFound

LEMMA SnapReleased ==
    ASSUME TypeOK, SnapFound, NEW r \in Reqs, Return(r), Lasting
    PROVE  SnapFound'
<1>1. req'[r] = Idle /\ Others(r)
  BY ReturnStep
<1>2. ~At(r, "issue")' /\ ~HoldsUser(r)'
  BY <1>1 DEF Idle, At, HoldsUser
<1> QED
  BY <1>1, <1>2, SnapKept

LEMMA SnapNext ==
    ASSUME TypeOK, TokHeld, MailHeld, SnapFound, [Next]_vars
    PROVE  SnapFound'
<1>1. ASSUME NEW n \in Mails, Register(n) \/ VerifyEmail(n) PROVE SnapFound'
  <2>1. /\ UNCHANGED <<req, tok>>
        /\ \A m \in Mails : mail[m].st # "none" =>
              mail'[m].st # "none" /\ mail'[m].kind = mail[m].kind
    BY <1>1 DEF Register, VerifyEmail, FreeMails, TypeOK, Mail
  <2> QED
    BY <2>1 DEF SnapFound, At, HoldsUser
<1>2. ASSUME NEW t \in Toks, Logout(t) PROVE SnapFound'
  <2>1. /\ UNCHANGED <<req, mail>>
        /\ \A s \in Toks : tok[s].st # "none" => tok'[s].st # "none"
    BY <1>2 DEF Logout, TypeOK, Token
  <2> QED
    BY <2>1 DEF SnapFound, At, HoldsUser
<1>3. ASSUME NEW r \in Reqs, Start(r) PROVE SnapFound'
  <2>1. /\ UNCHANGED <<tok, mail>> /\ Others(r)
        /\ req'[r].pc \in {"store", "invalidate", "load", "rotate", "remove", "setPassword"}
    BY <1>3, StartStep
  <2> QED
    BY <2>1, SnapKept DEF Lasting, At, HoldsUser
<1>4. ASSUME NEW r \in Reqs, Continue(r) PROVE SnapFound'
  <2>1. CASE DeleteUserAndRelatedData(r)
    BY <2>1, DeletedAlone DEF SnapFound
  <2>2. CASE Return(r) /\ RowsKept
    BY <2>2, SnapReleased DEF RowsKept
  <2>3. CASE InvalidateEmailTokensForUser(r)
    <3> DEFINE found == {m \in Mails : Unused(m) /\ mail[m].kind = req[r].kind}
    <3>1. /\ UNCHANGED <<tok, mail>>
          /\ req' = [req EXCEPT ![r].pc = "issue", ![r].snap = found]
      BY <2>3 DEF InvalidateEmailTokensForUser
    <3>2. req[r] \in Request /\ req \in [Reqs -> Request]
      BY DEF TypeOK
    <3>3. \A m \in found : mail[m].kind = req[r].kind /\ mail[m].st # "none"
      BY DEF Unused
    <3> HIDE DEF found
    <3>4. /\ Others(r) /\ req'[r].pc = "issue" /\ req'[r].snap = found
          /\ req'[r].kind = req[r].kind
      BY <3>1, <3>2 DEF Request, Others
    <3> QED
      BY <3>1, <3>3, <3>4, SnapKept DEF Lasting, HoldsUser
  <2>4. CASE LoadRefreshToken(r) /\ ~Return(r)
    <3>1. UNCHANGED <<tok, mail>> /\ req' = [req EXCEPT ![r].pc = "update"]
      BY <2>4 DEF LoadRefreshToken
    <3>2. req[r] \in Request /\ req \in [Reqs -> Request]
      BY DEF TypeOK
    <3>3. Others(r) /\ req'[r].pc = "update"
      BY <3>1, <3>2 DEF Request, Others
    <3> QED
      BY <3>1, <3>3, SnapKept DEF Lasting, HoldsUser, At
  <2>5. CASE UpdateUserPassword(r) \/ SetPassword(r)
    <3> DEFINE found == {t \in Toks : Live(t)}
    <3>1. UNCHANGED <<tok, mail>>
      BY <2>5 DEF UpdateUserPassword, SetPassword
    <3>2. PICK pc \in {"revokeOthers", "revokeAll"}, snap \in SUBSET found :
             req' = [req EXCEPT ![r].pc = pc, ![r].snap = snap]
      BY <2>5 DEF UpdateUserPassword, SetPassword
    <3>3. req[r] \in Request /\ req \in [Reqs -> Request]
      BY DEF TypeOK
    <3>4. \A t \in snap : tok[t].st # "none"
      BY DEF Live
    <3> HIDE DEF found
    <3>5. Others(r) /\ req'[r].pc # "issue" /\ req'[r].snap = snap
      BY <3>2, <3>3 DEF Request, Others
    <3> QED
      BY <3>1, <3>4, <3>5, SnapKept DEF Lasting, At
  <2>6. \/ DeleteUserAndRelatedData(r) \/ InvalidateEmailTokensForUser(r)
        \/ LoadRefreshToken(r) /\ ~Return(r)
        \/ UpdateUserPassword(r) \/ SetPassword(r) \/ Return(r)
    BY <1>4 DEF Continue, StoreRefreshToken, Rotate, IssueEmailToken, CommitChange,
                CommitReset, AccountGone, DeadlockVictim
  <2> QED
    BY <1>4, <2>1, <2>2, <2>3, <2>4, <2>5, <2>6, RowsLast
<1>5. ASSUME NEW r \in Reqs, Abort(r) PROVE SnapFound'
  BY <1>5, GivesUpStep, SnapReleased DEF GivesUp, Lasting
<1>6. CASE UNCHANGED <<tok, mail, req>>
  BY <1>6 DEF SnapFound, At, HoldsUser
<1>7. ASSUME NEW x \in Lapses, Expire(x) PROVE SnapFound'
  BY <1>6, <1>7 DEF Expire
<1> QED
  BY <1>1, <1>2, <1>3, <1>4, <1>5, <1>6, <1>7 DEF Next, vars

LEMMA UserHeldNext ==
    ASSUME TypeOK, TokHeld, MailHeld, UserHeld, [Next]_vars
    PROVE  UserHeld'
<1>1. ASSUME NEW n \in Mails, Register(n) \/ VerifyEmail(n) PROVE UserHeld'
  BY <1>1 DEF Register, VerifyEmail, UserHeld, HoldsUser
<1>2. ASSUME NEW r \in Reqs, Start(r) PROVE UserHeld'
  <2>1. account' = "open"
    BY <1>2, StartStep
  <2> QED
    BY <2>1 DEF UserHeld
<1>3. ASSUME NEW r \in Reqs, Continue(r) PROVE UserHeld'
  <2>1. CASE DeleteUserAndRelatedData(r)
    BY <2>1, DeletedAlone DEF UserHeld
  <2>2. CASE UpdateUserPassword(r) \/ SetPassword(r)
    BY <2>2 DEF UpdateUserPassword, SetPassword, UserHeld
  <2>3. CASE Return(r) /\ RowsKept
    <3>1. \A q \in Reqs : HoldsUser(q)' => HoldsUser(q)
      BY <2>3, ReturnStep DEF Others, HoldsUser, Idle
    <3> QED
      BY <2>3, <3>1 DEF UserHeld, RowsKept
  <2>4. CASE InvalidateEmailTokensForUser(r) \/ (LoadRefreshToken(r) /\ ~Return(r))
    <3>1. /\ account' = account
          /\ \/ req' = [req EXCEPT ![r].pc = "update"]
             \/ \E S : req' = [req EXCEPT ![r].pc = "issue", ![r].snap = S]
      BY <2>4 DEF InvalidateEmailTokensForUser, LoadRefreshToken
    <3>2. req \in [Reqs -> Request] /\ req[r] \in Request
      BY DEF TypeOK
    <3>3. Others(r) /\ req'[r].pc \in {"update", "issue"}
      BY <3>1, <3>2 DEF Others, Request
    <3> QED
      BY <3>1, <3>3 DEF UserHeld, HoldsUser, Others
  <2>5. \/ DeleteUserAndRelatedData(r) \/ InvalidateEmailTokensForUser(r)
        \/ LoadRefreshToken(r) /\ ~Return(r)
        \/ UpdateUserPassword(r) \/ SetPassword(r) \/ Return(r)
    BY <1>3 DEF Continue, StoreRefreshToken, Rotate, IssueEmailToken, CommitChange,
                CommitReset, AccountGone, DeadlockVictim
  <2> QED
    BY <1>3, <2>1, <2>2, <2>3, <2>4, <2>5, RowsLast
<1>4. ASSUME NEW r \in Reqs, Abort(r) PROVE UserHeld'
  BY <1>4, ReturnStep DEF Abort, UserHeld, HoldsUser, Others, Idle
<1>5. CASE UNCHANGED <<account, req>>
  BY <1>5 DEF UserHeld, HoldsUser
<1>6. ASSUME NEW t \in Toks, Logout(t) PROVE UserHeld'
  BY <1>5, <1>6 DEF Logout
<1>7. ASSUME NEW x \in Lapses, Expire(x) PROVE UserHeld'
  BY <1>5, <1>7 DEF Expire
<1> QED
  BY <1>1, <1>2, <1>3, <1>4, <1>5, <1>6, <1>7 DEF Next, vars

LEMMA NothingOutlivesNext ==
    ASSUME TypeOK, TokHeld, MailHeld, UserHeld, NothingOutlivesAccount, [Next]_vars
    PROVE  NothingOutlivesAccount'
<1>1. ASSUME NEW n \in Mails, Register(n) \/ VerifyEmail(n) PROVE NothingOutlivesAccount'
  BY <1>1 DEF Register, VerifyEmail, NothingOutlivesAccount
<1>2. ASSUME NEW t \in Toks, Logout(t) PROVE NothingOutlivesAccount'
  <2>1. account' = account /\ tok[t].st # "none"
    BY <1>2 DEF Logout
  <2> QED
    BY <2>1 DEF NothingOutlivesAccount, FreeToks
<1>3. ASSUME NEW r \in Reqs, Start(r) PROVE NothingOutlivesAccount'
  <2>1. account' = "open"
    BY <1>3, StartStep
  <2> QED
    BY <2>1 DEF NothingOutlivesAccount
<1>4. ASSUME UNCHANGED <<account, tok, mail>> PROVE NothingOutlivesAccount'
  BY <1>4 DEF NothingOutlivesAccount, FreeToks, FreeMails
<1>5. ASSUME NEW r \in Reqs, Continue(r) PROVE NothingOutlivesAccount'
  <2>1. CASE DeleteUserAndRelatedData(r)
    BY <2>1, DeletedAlone DEF NothingOutlivesAccount
  <2>2. CASE account = "open" /\ RowsKept
    BY <2>2 DEF NothingOutlivesAccount, RowsKept
  <2>3. CASE UNCHANGED <<account, tok, mail>>
    BY <1>4, <2>3
  <2>4. \/ AccountGone(r) \/ DeadlockVictim(r)
        \/ InvalidateEmailTokensForUser(r) \/ LoadRefreshToken(r)
        => UNCHANGED <<account, tok, mail>>
    BY DEF InvalidateEmailTokensForUser, LoadRefreshToken, AccountGone, DeadlockVictim
  <2>5. CommitChange(r) \/ CommitReset(r) => account = "open"
    BY DEF CommitChange, CommitReset, At, HoldsUser, UserHeld
  <2>6. UpdateUserPassword(r) \/ SetPassword(r) => account = "open"
    BY DEF UpdateUserPassword, SetPassword
  <2>7. \A n \in Toks : StoreRefreshToken(r, n) \/ Rotate(r, n) => account = "open"
    BY DEF StoreRefreshToken, Rotate
  <2>8. \A n \in Mails : IssueEmailToken(r, n) => account = "open"
    BY DEF IssueEmailToken
  <2>9. \/ account = "open" \/ DeleteUserAndRelatedData(r)
        \/ UNCHANGED <<account, tok, mail>>
    BY <1>5, <2>4, <2>5, <2>6, <2>7, <2>8 DEF Continue
  <2> QED
    BY <1>5, <2>1, <2>2, <2>3, <2>9, RowsLast
<1>6. ASSUME NEW r \in Reqs, Abort(r) PROVE NothingOutlivesAccount'
  BY <1>4, <1>6 DEF Abort
<1>7. ASSUME NEW x \in Lapses, Expire(x) PROVE NothingOutlivesAccount'
  BY <1>4, <1>7 DEF Expire
<1> QED
  BY <1>1, <1>2, <1>3, <1>4, <1>5, <1>6, <1>7 DEF Next, vars

LEMMA PendingNext ==
    ASSUME TypeOK, TokHeld, MailHeld, SnapFound, PendingVerification, [Next]_vars
    PROVE  PendingVerification'
<1>1. ASSUME NEW n \in Mails, Register(n) PROVE PendingVerification'
  <2>1. mail'[n].st = "unused" /\ mail'[n].kind = "verify_email"
    BY <1>1 DEF Register, TypeOK
  <2> QED
    BY <2>1 DEF PendingVerification, Unused
<1>2. ASSUME NEW n \in Mails, VerifyEmail(n) PROVE PendingVerification'
  BY <1>2 DEF VerifyEmail, PendingVerification
<1>3. ASSUME UNCHANGED <<account, activated, mail>> PROVE PendingVerification'
  BY <1>3 DEF PendingVerification, Unused
<1>4. ASSUME NEW r \in Reqs, Continue(r) PROVE PendingVerification'
  <2>1. CASE DeleteUserAndRelatedData(r)
    BY <2>1, DeletedAlone DEF PendingVerification
  <2>2. ASSUME NEW n \in Mails, IssueEmailToken(r, n) PROVE PendingVerification'
    <3>1. /\ At(r, "issue") /\ mail[n].st = "none" /\ UNCHANGED <<account, activated>>
          /\ mail'[n].st = "unused" /\ mail'[n].kind = req[r].kind
          /\ \A m \in Mails : m # n /\ m \notin req[r].snap => mail'[m] = mail[m]
      BY <2>2 DEF IssueEmailToken, FreeMails
    <3>2. CASE req[r].kind = "verify_email"
      BY <3>1, <3>2 DEF PendingVerification, Unused
    <3>3. CASE req[r].kind # "verify_email"
      <4>1. \A m \in Mails : Unused(m) /\ mail[m].kind = "verify_email"
               => mail'[m] = mail[m]
        BY <3>1, <3>3 DEF SnapFound, Unused
      <4> QED
        BY <3>1, <4>1 DEF PendingVerification, Unused
    <3> QED
      BY <3>2, <3>3
  <2>3. CASE CommitReset(r)
    <3>1. /\ UNCHANGED <<account, activated>> /\ At(r, "revokeAll")
          /\ \A m \in Mails : m # req[r].mail => mail'[m] = mail[m]
      BY <2>3 DEF CommitReset, TypeOK
    <3>2. req[r].mail \in Mails /\ mail[req[r].mail].kind = "reset_password"
      BY <3>1 DEF MailHeld, Resets, At
    <3> QED
      BY <3>1, <3>2 DEF PendingVerification, Unused
  <2>4. \/ \E n \in Mails : IssueEmailToken(r, n)
        \/ CommitReset(r) \/ DeleteUserAndRelatedData(r)
        \/ UNCHANGED <<account, activated, mail>>
    BY <1>4 DEF Continue, StoreRefreshToken, Rotate,
                InvalidateEmailTokensForUser, LoadRefreshToken, UpdateUserPassword,
                CommitChange, SetPassword, AccountGone, DeadlockVictim
  <2> QED
    BY <1>3, <2>1, <2>2, <2>3, <2>4
<1>5. ASSUME NEW r \in Reqs, Start(r) \/ Abort(r) PROVE PendingVerification'
  BY <1>3, <1>5, StartStep DEF Abort
<1>6. ASSUME NEW t \in Toks, Logout(t) PROVE PendingVerification'
  BY <1>3, <1>6 DEF Logout
<1>7. ASSUME NEW x \in Lapses, Expire(x) PROVE PendingVerification'
  BY <1>3, <1>7 DEF Expire
<1> QED
  BY <1>1, <1>2, <1>3, <1>4, <1>5, <1>6, <1>7 DEF Next, vars

-----------------------------------------------------------------------------
(* How often the password may change.                                      *)

\* A step that lets nobody begin a change.
LEMMA PwKept ==
    ASSUME TypeOK, PwBounded, password' = password, Changing' \subseteq Changing
    PROVE  PwBounded'
<1>1. IsFiniteSet(Changing) /\ Changing \subseteq Reqs
  BY FS_Subset, ConstantsOK DEF Changing
<1>2. IsFiniteSet(Changing') /\ Cardinality(Changing') <= Cardinality(Changing)
  BY <1>1, FS_Subset
<1>3. Cardinality(Changing) \in Nat /\ Cardinality(Changing') \in Nat
  BY <1>1, <1>2, FS_CardinalityType
<1>4. password \in Nat /\ MaxPw \in Nat
  BY ConstantsOK DEF TypeOK
<1> HIDE DEF Changing
<1> QED
  BY <1>2, <1>3, <1>4 DEF PwBounded

\* r begins a change.
LEMMA PwBegun ==
    ASSUME TypeOK, PwRoom, password' = password, NEW r \in Reqs,
           r \notin Changing, Changing' = Changing \cup {r}
    PROVE  PwBounded'
<1>1. IsFiniteSet(Changing)
  BY FS_Subset, ConstantsOK DEF Changing
<1>2. Cardinality(Changing') = Cardinality(Changing) + 1 /\ Cardinality(Changing) \in Nat
  BY <1>1, FS_AddElement, FS_CardinalityType
<1>3. password \in Nat /\ MaxPw \in Nat
  BY ConstantsOK DEF TypeOK
<1>4. password + Cardinality(Changing) < MaxPw
  BY DEF PwRoom, Changing
<1> HIDE DEF Changing
<1> QED
  BY <1>2, <1>3, <1>4 DEF PwBounded

\* r commits its change.
LEMMA PwCommitted ==
    ASSUME TypeOK, PwBounded, password' = password + 1, NEW r \in Changing,
           Changing' = Changing \ {r}
    PROVE  PwBounded'
<1>1. IsFiniteSet(Changing)
  BY FS_Subset, ConstantsOK DEF Changing
<1>2. Cardinality(Changing') = Cardinality(Changing) - 1 /\ Cardinality(Changing) \in Nat
  BY <1>1, FS_RemoveElement, FS_CardinalityType
<1>3. password \in Nat /\ MaxPw \in Nat
  BY ConstantsOK DEF TypeOK
<1> HIDE DEF Changing
<1> QED
  BY <1>2, <1>3 DEF PwBounded

LEMMA PwNext ==
    ASSUME TypeOK, PwBounded, [Next]_vars
    PROVE  PwBounded'
<1>1. CASE UNCHANGED <<password, req>>
  BY <1>1, PwKept DEF Changing
<1>2. ASSUME NEW r \in Reqs, Return(r), password' = password PROVE PwBounded'
  <2>1. Changing' \subseteq Changing
    BY <1>2, ReturnStep DEF Changing, Others, Idle
  <2> QED
    BY <1>2, <2>1, PwKept
<1>3. ASSUME NEW r \in Reqs, Start(r) PROVE PwBounded'
  <2>1. /\ password' = password /\ Others(r) /\ At(r, "idle")
        /\ \/ req'[r].pc \in {"store", "invalidate", "rotate", "remove"}
           \/ req'[r].pc \in {"load", "setPassword"} /\ PwRoom
    BY <1>3, StartStep
  <2>2. r \notin Changing
    BY <2>1 DEF Changing, At
  <2>3. CASE req'[r].pc \in {"store", "invalidate", "rotate", "remove"}
    <3>1. Changing' \subseteq Changing
      BY <2>1, <2>3 DEF Changing, Others
    <3> QED
      BY <2>1, <3>1, PwKept
  <2>4. CASE req'[r].pc \in {"load", "setPassword"} /\ PwRoom
    <3>1. Changing' = Changing \cup {r}
      BY <2>1, <2>4 DEF Changing, Others
    <3> QED
      BY <2>1, <2>2, <2>4, <3>1, PwBegun
  <2> QED
    BY <2>1, <2>3, <2>4
<1>4. ASSUME NEW r \in Reqs, CommitChange(r) \/ CommitReset(r) PROVE PwBounded'
  <2>1. password' = password + 1 /\ Return(r) /\ r \in Changing
    BY <1>4 DEF CommitChange, CommitReset, At, Changing
  <2>2. Changing' = Changing \ {r}
    BY <2>1, ReturnStep DEF Changing, Others, Idle
  <2> QED
    BY <2>1, <2>2, PwCommitted
<1>5. ASSUME NEW r \in Reqs, NEW pc \in Pcs, At(r, "invalidate") => pc = "issue",
             ~At(r, "idle"), ~At(r, "issue"), ~At(r, "store"), ~At(r, "rotate"), ~At(r, "remove"),
             password' = password, Others(r), req'[r].pc = pc
      PROVE  PwBounded'
  <2>1. Changing' \subseteq Changing
    <3>1. req[r].pc \in Pcs
      BY DEF TypeOK, Request
    <3> QED
      BY <1>5, <3>1 DEF Changing, Others, At, Pcs
  <2> QED
    BY <1>5, <2>1, PwKept
<1>6. ASSUME NEW r \in Reqs,
             \/ InvalidateEmailTokensForUser(r) \/ (LoadRefreshToken(r) /\ ~Return(r))
             \/ UpdateUserPassword(r) \/ SetPassword(r)
      PROVE  PwBounded'
  <2>1. req \in [Reqs -> Request] /\ req[r] \in Request
    BY DEF TypeOK
  <2>2. CASE LoadRefreshToken(r) /\ ~Return(r)
    BY <1>5, <2>1, <2>2 DEF LoadRefreshToken, At, Others, Request, Pcs
  <2>3. PICK pc \in Pcs : \/ LoadRefreshToken(r) /\ ~Return(r)
                         \/ /\ \E S : req' = [req EXCEPT ![r].pc = pc, ![r].snap = S]
                            /\ At(r, "invalidate") => pc = "issue"
                            /\ req[r].pc \in {"invalidate", "update", "setPassword"}
                            /\ password' = password
    BY <1>6 DEF InvalidateEmailTokensForUser, UpdateUserPassword, SetPassword, At, Pcs
  <2>4. ASSUME NEW S, req' = [req EXCEPT ![r].pc = pc, ![r].snap = S]
        PROVE  Others(r) /\ req'[r].pc = pc
    BY <2>1, <2>4 DEF Others, Request
  <2> QED
    BY <1>5, <2>2, <2>3, <2>4 DEF At
<1>7. ASSUME NEW r \in Reqs, Continue(r) PROVE PwBounded'
  <2>1. \A n \in Toks : StoreRefreshToken(r, n) \/ Rotate(r, n)
                        => Return(r) /\ password' = password
    BY DEF StoreRefreshToken, Rotate
  <2>2. \A n \in Mails : IssueEmailToken(r, n) => Return(r) /\ password' = password
    BY DEF IssueEmailToken
  <2>3. DeleteUserAndRelatedData(r) => Return(r) /\ password' = password
    BY DEF DeleteUserAndRelatedData
  <2>4. AccountGone(r) \/ DeadlockVictim(r) => Return(r) /\ password' = password
    BY DEF AccountGone, DeadlockVictim
  <2>5. LoadRefreshToken(r) => password' = password
    BY DEF LoadRefreshToken
  <2>6. \/ Return(r) /\ password' = password
        \/ CommitChange(r) \/ CommitReset(r)
        \/ InvalidateEmailTokensForUser(r) \/ (LoadRefreshToken(r) /\ ~Return(r))
        \/ UpdateUserPassword(r) \/ SetPassword(r)
    BY <1>7, <2>1, <2>2, <2>3, <2>4, <2>5 DEF Continue
  <2>7. CASE Return(r) /\ password' = password
    BY <1>2, <2>7
  <2>8. CASE CommitChange(r) \/ CommitReset(r)
    BY <1>4, <2>8
  <2> QED
    BY <1>6, <2>6, <2>7, <2>8
<1>8. ASSUME NEW r \in Reqs, Abort(r) PROVE PwBounded'
  BY <1>2, <1>8 DEF Abort
<1> QED
  BY <1>1, <1>3, <1>7, <1>8 DEF Next, vars, Register, VerifyEmail, Logout, Expire

-----------------------------------------------------------------------------
(* The inductive invariant.                                                *)

LEMMA IInvInit == Init => IInv
<1> SUFFICES ASSUME Init PROVE IInv
  OBVIOUS
<1>1. \A r \in Reqs : req[r] = Idle
  BY DEF Init
<1>2. \A t \in Toks : tok[t].st = "none" /\ tok[t].fam = None
  BY DEF Init, NoTok
<1>3. PwBounded
  <2>1. Changing = {}
    BY <1>1 DEF Changing, Idle
  <2> HIDE DEF Changing
  <2>2. Cardinality(Changing) = 0
    BY <2>1, FS_EmptySet
  <2> QED
    BY <2>2, ConstantsOK DEF PwBounded, Init
<1>4. TokHeld /\ MailHeld /\ SnapFound /\ UserHeld
  BY <1>1 DEF TokHeld, MailHeld, SnapFound, UserHeld, HoldsTok, HoldsUser, Resets, At, Idle
<1>5. LoginStored /\ OneLivePerLogin
  BY <1>2, ConstantsOK DEF LoginStored, OneLivePerLogin, Live
<1>6. PendingVerification /\ NothingOutlivesAccount
  BY DEF Init, PendingVerification, NothingOutlivesAccount
<1> QED
  BY <1>3, <1>4, <1>5, <1>6, TypeInit DEF IInv

LEMMA IInvNext == IInv /\ [Next]_vars => IInv'
  BY TypeNext, PwNext, TokNext, MailNext, SnapNext, PendingNext, UserHeldNext,
     NothingOutlivesNext DEF IInv

LEMMA Invariance == Spec => []IInv
  BY IInvInit, IInvNext, PTL DEF Spec

\* The types hold whatever the requests and however many.
THEOREM TypeCorrect == Spec => []TypeOK
  BY Invariance, PTL DEF IInv

\* A log-in never has two live refresh tokens: LoadRefreshToken locks the row
\* before it looks, so a token is traded for one other at most.
THEOREM OneTokenPerLogin == Spec => []OneLivePerLogin
  BY Invariance, PTL DEF IInv

\* An account that is not activated can always still be verified: invalidating
\* and issuing a verification token are one transaction.
THEOREM CanBeVerified == Spec => []PendingVerification
  BY Invariance, PTL DEF IInv

\* The foreign keys take with the account whatever its requests may store.
THEOREM AccountTakesAll == Spec => []NothingOutlivesAccount
  BY Invariance, PTL DEF IInv

\* An e-mailed reset token sets the password once: FindEmailTokenByHash locks its
\* row until the reset has committed.
THEOREM ResetOnce == Spec => ResetTokenSpentOnce
<1>1. IInv /\ [Next]_vars =>
        [\A r \in Reqs : At(r, "revokeAll") /\ req'[r] # req[r] /\ password' # password
            => Unused(req[r].mail)]_vars
  BY DEF IInv, MailHeld, Resets, At
<1> QED
  BY <1>1, Invariance, PTL DEF Spec, ResetTokenSpentOnce

-----------------------------------------------------------------------------
(* One request at a time.                                                  *)

OneRequest == \A r, q \in Reqs : ~At(r, "idle") /\ ~At(q, "idle") => r = q

\* Before the registration there is nothing.
Unregistered ==
    account = "none" => FreeMails = Mails /\ \A r \in Reqs : At(r, "idle")

\* What the request has read is still so: the password with which it opens a session,
\* and the sessions that a change of the password is about to end.
SeesSessions ==
    \A r \in Reqs :
        /\ At(r, "store") => req[r].pw = password
        /\ At(r, "revokeAll") => \A t \in Toks : Live(t) => t \in req[r].snap
        /\ At(r, "revokeOthers") =>
               \A t \in Toks : Live(t) /\ t # req[r].tok => t \in req[r].snap

\* The e-mailed tokens it has found are those there are.
SeesMails ==
    \A r \in Reqs : At(r, "issue") =>
        \A m \in Mails : Unused(m) /\ mail[m].kind = req[r].kind => m \in req[r].snap

AloneInv == /\ OneRequest /\ Unregistered
            /\ SeesSessions /\ NoStaleSession
            /\ SeesMails /\ OneUnusedPerKind

LEMMA AloneInit == Init => AloneInv
<1> SUFFICES ASSUME Init PROVE AloneInv
  OBVIOUS
<1>1. \A r \in Reqs : At(r, "idle")
  BY DEF Init, Idle, At
<1>2. (\A t \in Toks : ~Live(t)) /\ (\A m \in Mails : ~Unused(m)) /\ FreeMails = Mails
  BY DEF Init, NoTok, NoMail, Live, Unused, FreeMails
<1>3. OneRequest /\ Unregistered /\ NoStaleSession /\ OneUnusedPerKind
  BY <1>1, <1>2 DEF OneRequest, Unregistered, NoStaleSession, OneUnusedPerKind
<1>4. SeesSessions /\ SeesMails
  BY <1>1 DEF SeesSessions, SeesMails, At
<1> QED
  BY <1>3, <1>4 DEF AloneInv

\* Tokens that are neither new nor changed, but perhaps no longer good, under the same
\* password, and a request that keeps, or establishes, what it has read.
LEMMA AloneKeeps ==
    ASSUME AloneInv, OneRequest', Unregistered', password' = password,
           \A t \in Toks : Live(t)' => Live(t) /\ tok'[t].pw = tok[t].pw,
           \A m \in Mails : Unused(m)' => Unused(m) /\ mail'[m].kind = mail[m].kind,
           \A r \in Reqs : \/ req'[r] = req[r]
                           \/ /\ At(r, "store")' => req'[r].pw = password
                              /\ At(r, "revokeAll")' =>
                                    \A t \in Toks : Live(t) => t \in req'[r].snap
                              /\ At(r, "revokeOthers")' =>
                                    \A t \in Toks : Live(t) /\ t # req'[r].tok
                                                    => t \in req'[r].snap
                              /\ At(r, "issue")' =>
                                    \A m \in Mails : Unused(m) /\ mail[m].kind = req'[r].kind
                                                     => m \in req'[r].snap
    PROVE  AloneInv'
<1>1. NoStaleSession'
  BY DEF AloneInv, NoStaleSession
<1>2. OneUnusedPerKind'
  BY DEF AloneInv, OneUnusedPerKind
<1>3. SeesSessions'
  BY DEF AloneInv, SeesSessions, At
<1>4. SeesMails'
  BY DEF AloneInv, SeesMails, At
<1> QED
  BY <1>1, <1>2, <1>3, <1>4 DEF AloneInv

LEMMA OthersIdle ==
    ASSUME OneRequest, NEW r \in Reqs, ~At(r, "idle"), Others(r)
    PROVE  OneRequest' /\ \A q \in Reqs \ {r} : At(q, "idle") /\ At(q, "idle")'
  BY DEF OneRequest, Others, At

LEMMA AloneStart ==
    ASSUME TypeOK, AloneInv, alone, NEW r \in Reqs, Start(r)
    PROVE  AloneInv'
<1>1. /\ UNCHANGED <<account, activated, password, tok, mail, expired>>
      /\ Others(r) /\ account = "open"
  BY StartStep
<1>2. \A q \in Reqs : At(q, "idle")
  BY DEF Start
<1>3. OneRequest' /\ Unregistered'
  BY <1>1, <1>2 DEF OneRequest, Others, At, Unregistered
<1>4. /\ req'[r].pc = "store" => req'[r].pw = password
      /\ req'[r].pc \notin {"revokeAll", "revokeOthers", "issue"}
  <2>1. CASE Login(r)
    BY <2>1 DEF Login, TypeOK, Idle
  <2>2. CASE ~Login(r)
    <3>1. /\ ResendVerification(r) \/ RequestPasswordReset(r) => req'[r].pc = "invalidate"
          /\ \A t \in Toks : Refresh(r, t) => req'[r].pc = "rotate"
          /\ \A t \in Toks : ChangePassword(r, t) => req'[r].pc = "load"
          /\ \A t \in Toks : DeleteAccount(r, t) => req'[r].pc = "remove"
          /\ \A m \in Mails : ResetPassword(r, m) => req'[r].pc = "setPassword"
      BY DEF ResendVerification, RequestPasswordReset, Refresh, ChangePassword,
         DeleteAccount, ResetPassword, TypeOK, Idle
    <3> QED
      BY <2>2, <3>1 DEF Start
  <2> QED
    BY <2>1, <2>2
<1> QED
  BY <1>1, <1>3, <1>4, AloneKeeps DEF Others, At, Live, Unused

\* The steps that end the request and leave no token better than it was.
LEMMA AloneReturn ==
    ASSUME TypeOK, AloneInv, NEW r \in Reqs, ~At(r, "idle"), Return(r),
           password' = password, account = "none" => account' = "none",
           account' = "none" => account = "none",
           \A t \in Toks : Live(t)' => Live(t) /\ tok'[t].pw = tok[t].pw,
           \A m \in Mails : Unused(m)' => Unused(m) /\ mail'[m].kind = mail[m].kind
    PROVE  AloneInv'
<1>1. req'[r] = Idle /\ Others(r)
  BY ReturnStep
<1>2. OneRequest'
  BY <1>1, OthersIdle DEF AloneInv
<1>3. Unregistered'
  BY DEF AloneInv, Unregistered
<1> QED
  BY <1>1, <1>2, <1>3, AloneKeeps DEF Others, At, Idle

\* A session is opened with the password there is, or goes on with it.
LEMMA AloneStored ==
    ASSUME TypeOK, TokHeld, AloneInv, NEW r \in Reqs, NEW n \in Toks,
           StoreRefreshToken(r, n) \/ Rotate(r, n)
    PROVE  AloneInv'
<1>1. /\ req[r].pc \in {"store", "rotate"} /\ account = "open" /\ Return(r)
      /\ UNCHANGED <<account, password, mail>>
  BY DEF StoreRefreshToken, Rotate, At
<1>2. req'[r] = Idle /\ Others(r)
  BY <1>1, ReturnStep
<1>3. OneRequest' /\ Unregistered'
  BY <1>1, <1>2, OthersIdle DEF AloneInv, Unregistered, At
<1>4. \A t \in Toks : Live(t)' => tok'[t].pw = password
  <2>1. CASE StoreRefreshToken(r, n)
    <3>1. req[r].pw = password
      BY <2>1 DEF StoreRefreshToken, AloneInv, SeesSessions
    <3> QED
      BY <2>1, <3>1 DEF StoreRefreshToken, AloneInv, NoStaleSession, Live, TypeOK
  <2>2. CASE Rotate(r, n)
    <3> DEFINE t == req[r].tok
    <3>1. t \in Toks /\ Live(t)
      BY <2>2 DEF Rotate, TokHeld, HoldsTok, At
    <3>2. tok[t].pw = password
      BY <3>1 DEF AloneInv, NoStaleSession
    <3>3. tok' = [tok EXCEPT ![t].st = "revoked",
                             ![n] = [st |-> "live", fam |-> tok[t].fam, pw |-> tok[t].pw]]
      BY <2>2 DEF Rotate
    <3> HIDE DEF t
    <3> QED
      BY <3>1, <3>2, <3>3 DEF AloneInv, NoStaleSession, Live, TypeOK, Token
  <2> QED
    BY <2>1, <2>2
<1>5. \A q \in Reqs : At(q, "idle")'
  BY <1>1, <1>2, OthersIdle DEF AloneInv, At, Idle
<1>6. NoStaleSession' /\ SeesSessions' /\ SeesMails' /\ OneUnusedPerKind'
  BY <1>1, <1>4, <1>5 DEF AloneInv, NoStaleSession, SeesSessions, SeesMails,
     OneUnusedPerKind, Unused, At
<1> QED
  BY <1>3, <1>6 DEF AloneInv

\* A new e-mailed token replaces those that were found, which are all there are.
LEMMA AloneIssued ==
    ASSUME TypeOK, AloneInv, NEW r \in Reqs, NEW n \in Mails, IssueEmailToken(r, n)
    PROVE  AloneInv'
<1>1. /\ At(r, "issue") /\ account = "open" /\ Return(r)
      /\ UNCHANGED <<account, password, tok>>
      /\ mail' = [m \in Mails |->
             IF m = n THEN [st |-> "unused", kind |-> req[r].kind]
             ELSE IF m \in req[r].snap THEN [mail[m] EXCEPT !.st = "used"]
             ELSE mail[m]]
  BY DEF IssueEmailToken
<1>2. req'[r] = Idle /\ Others(r)
  BY <1>1, ReturnStep
<1>3. OneRequest' /\ Unregistered'
  BY <1>1, <1>2, OthersIdle DEF AloneInv, Unregistered, At
<1>4. /\ mail'[n].kind = req[r].kind
      /\ \A m \in Mails \ {n} : Unused(m)' =>
            Unused(m) /\ m \notin req[r].snap /\ mail'[m].kind = mail[m].kind
  BY <1>1 DEF Unused, TypeOK, Mail
<1>5. \A m \in Mails \ {n} : Unused(m)' => mail'[m].kind # req[r].kind
  BY <1>1, <1>4 DEF AloneInv, SeesMails
<1>6. \A q \in Reqs : At(q, "idle")'
  BY <1>1, <1>2, OthersIdle DEF AloneInv, At, Idle
<1>7. OneUnusedPerKind'
  <2> SUFFICES ASSUME NEW m \in Mails, NEW k \in Mails, Unused(m)', Unused(k)',
                      mail'[m].kind = mail'[k].kind
               PROVE  m = k
    BY DEF OneUnusedPerKind
  <2>1. CASE m = n \/ k = n
    BY <1>4, <1>5, <2>1
  <2>2. CASE m # n /\ k # n
    BY <1>4, <2>2 DEF AloneInv, OneUnusedPerKind
  <2> QED
    BY <2>1, <2>2
<1>8. NoStaleSession' /\ SeesSessions' /\ SeesMails'
  BY <1>1, <1>6 DEF AloneInv, NoStaleSession, SeesSessions, SeesMails, Live, At
<1> QED
  BY <1>3, <1>7, <1>8 DEF AloneInv

\* The password changes, and every session goes but the one that changes it.
LEMMA AlonePassword ==
    ASSUME TypeOK, TokHeld, MailHeld, UserHeld, AloneInv, NEW r \in Reqs,
           CommitChange(r) \/ CommitReset(r)
    PROVE  AloneInv'
<1>1. /\ req[r].pc \in {"revokeOthers", "revokeAll"} /\ Return(r)
      /\ UNCHANGED account /\ password' = password + 1
  BY DEF CommitChange, CommitReset, At
<1>2. req'[r] = Idle /\ Others(r) /\ account = "open"
  BY <1>1, ReturnStep DEF UserHeld, HoldsUser
<1>3. OneRequest' /\ Unregistered'
  BY <1>1, <1>2, OthersIdle DEF AloneInv, Unregistered, At
<1>4. \A q \in Reqs : At(q, "idle")'
  BY <1>1, <1>2, OthersIdle DEF AloneInv, At, Idle
<1>5. NoStaleSession'
  <2>1. CASE CommitChange(r)
    <3> DEFINE t == req[r].tok
               R == Revoked(req[r].snap)
    <3>1. t \in Toks /\ tok' = [R EXCEPT ![t].pw = password + 1]
      BY <2>1 DEF CommitChange, TokHeld, At
    <3>2. R \in [Toks -> Token]
      BY RevokedTyped DEF TypeOK
    <3>3. \A s \in Toks \ {t} : R[s].st # "live"
      BY <2>1 DEF CommitChange, AloneInv, SeesSessions, Revoked, Live, TypeOK, Token
    <3> HIDE DEF R, t
    <3> QED
      BY <1>1, <3>1, <3>2, <3>3 DEF NoStaleSession, Live, Token
  <2>2. CASE CommitReset(r)
    <3>1. \A s \in Toks : tok'[s].st # "live"
      BY <2>2 DEF CommitReset, AloneInv, SeesSessions, Revoked, Live, TypeOK, Token
    <3> QED
      BY <3>1 DEF NoStaleSession, Live
  <2> QED
    BY <2>1, <2>2
<1>6. OneUnusedPerKind'
  <2>1. \A m \in Mails : Unused(m)' => Unused(m) /\ mail'[m].kind = mail[m].kind
    BY DEF CommitChange, CommitReset, Unused, TypeOK, Mail
  <2> QED
    BY <2>1 DEF AloneInv, OneUnusedPerKind
<1>7. SeesSessions' /\ SeesMails'
  BY <1>4 DEF SeesSessions, SeesMails, At
<1> QED
  BY <1>3, <1>5, <1>6, <1>7 DEF AloneInv

\* The rows that a bulk UPDATE finds are all there are.
LEMMA AloneFound ==
    ASSUME TypeOK, AloneInv, NEW r \in Reqs,
           InvalidateEmailTokensForUser(r) \/ UpdateUserPassword(r) \/ SetPassword(r)
    PROVE  AloneInv'
<1> DEFINE pc   == CASE At(r, "invalidate") -> "issue"
                     [] At(r, "update") -> "revokeOthers"
                     [] OTHER -> "revokeAll"
           snap == CASE At(r, "invalidate") ->
                          {m \in Mails : Unused(m) /\ mail[m].kind = req[r].kind}
                     [] At(r, "update") -> {t \in Toks : Live(t)} \ {req[r].tok}
                     [] OTHER -> {t \in Toks : Live(t)}
<1>1. req[r].pc \in {"invalidate", "update", "setPassword"}
  BY DEF InvalidateEmailTokensForUser, UpdateUserPassword, SetPassword, At
<1>2. /\ req' = [req EXCEPT ![r].pc = pc, ![r].snap = snap]
      /\ UNCHANGED <<account, password, tok, mail>>
  BY DEF InvalidateEmailTokensForUser, UpdateUserPassword, SetPassword, At
<1>3. /\ pc = "issue" => snap = {m \in Mails : Unused(m) /\ mail[m].kind = req[r].kind}
      /\ pc = "revokeOthers" => snap = {t \in Toks : Live(t)} \ {req[r].tok}
      /\ pc = "revokeAll" => snap = {t \in Toks : Live(t)}
      /\ pc \in {"issue", "revokeOthers", "revokeAll"}
  OBVIOUS
<1> HIDE DEF pc, snap
<1>4. /\ req'[r].pc = pc /\ req'[r].snap = snap
      /\ req'[r].kind = req[r].kind /\ req'[r].tok = req[r].tok
      /\ Others(r)
  BY <1>2 DEF TypeOK, Request, Others
<1>5. OneRequest' /\ Unregistered'
  BY <1>1, <1>2, <1>4, OthersIdle DEF AloneInv, Unregistered, At
<1>6. /\ At(r, "revokeAll")' => \A t \in Toks : Live(t) => t \in req'[r].snap
      /\ At(r, "revokeOthers")' =>
            \A t \in Toks : Live(t) /\ t # req'[r].tok => t \in req'[r].snap
      /\ At(r, "issue")' =>
            \A m \in Mails : Unused(m) /\ mail[m].kind = req'[r].kind => m \in req'[r].snap
      /\ ~At(r, "store")'
  BY <1>3, <1>4 DEF At
<1>7. /\ \A t \in Toks : Live(t)' => Live(t) /\ tok'[t].pw = tok[t].pw
      /\ \A m \in Mails : Unused(m)' => Unused(m) /\ mail'[m].kind = mail[m].kind
  BY <1>2 DEF Live, Unused
<1> QED
  BY <1>2, <1>4, <1>5, <1>6, <1>7, AloneKeeps DEF Others

LEMMA AloneContinue ==
    ASSUME IInv, AloneInv, NEW r \in Reqs, Continue(r)
    PROVE  AloneInv'
<1> USE DEF IInv
<1>1. ASSUME NEW n \in Toks, StoreRefreshToken(r, n) \/ Rotate(r, n) PROVE AloneInv'
  BY <1>1, AloneStored
<1>2. ASSUME NEW n \in Mails, IssueEmailToken(r, n) PROVE AloneInv'
  BY <1>2, AloneIssued
<1>3. CASE InvalidateEmailTokensForUser(r) \/ UpdateUserPassword(r) \/ SetPassword(r)
  BY <1>3, AloneFound
<1>4. CASE CommitChange(r) \/ CommitReset(r)
  BY <1>4, AlonePassword
<1>5. CASE LoadRefreshToken(r)
  <2>1. /\ At(r, "load") /\ ~At(r, "idle")
        /\ UNCHANGED <<account, password, tok, mail>>
    BY <1>5 DEF LoadRefreshToken, At
  <2>2. CASE Return(r)
    BY <2>1, <2>2, AloneReturn DEF Live, Unused
  <2>3. CASE ~Return(r)
    <3>1. req'[r].pc = "update" /\ Others(r)
      BY <1>5, <2>3 DEF LoadRefreshToken, TypeOK, Request, Others
    <3>2. OneRequest' /\ Unregistered'
      BY <2>1, <3>1, OthersIdle DEF AloneInv, Unregistered, At
    <3> QED
      BY <2>1, <3>1, <3>2, AloneKeeps DEF Others, At, Live, Unused
  <2> QED
    BY <2>2, <2>3
<1>6. CASE DeleteUserAndRelatedData(r)
  <2>1. /\ At(r, "remove") /\ ~At(r, "idle") /\ Return(r)
        /\ account' = "deleted" /\ password' = password
    BY <1>6 DEF DeleteUserAndRelatedData, At
  <2>2. account # "none"
    BY <2>1 DEF AloneInv, Unregistered
  <2>3. \A t \in Toks : ~Live(t)'
    BY <1>6 DEF DeleteUserAndRelatedData, Live, NoTok
  <2>4. \A m \in Mails : ~Unused(m)'
    BY <1>6 DEF DeleteUserAndRelatedData, Unused, NoMail
  <2> QED
    BY <2>1, <2>2, <2>3, <2>4, AloneReturn
<1>7. CASE AccountGone(r) \/ DeadlockVictim(r)
  <2>1. GivesUp(r) /\ ~At(r, "idle")
    BY <1>7, GivesUpStep DEF AccountGone, DeadlockVictim, Waits, At
  <2> QED
    BY <2>1, AloneReturn DEF GivesUp, Live, Unused
<1> QED
  BY <1>1, <1>2, <1>3, <1>4, <1>5, <1>6, <1>7 DEF Continue

LEMMA AloneNext ==
    ASSUME IInv, alone, AloneInv, [Next]_vars
    PROVE  AloneInv'
<1>1. TypeOK
  BY DEF IInv
<1>2. ASSUME NEW n \in Mails, Register(n) PROVE AloneInv'
  <2>1. /\ account = "none" /\ account' = "open"
        /\ UNCHANGED <<password, tok, req>>
        /\ mail' = [mail EXCEPT ![n] = [st |-> "unused", kind |-> "verify_email"]]
    BY <1>2 DEF Register
  <2>2. FreeMails = Mails /\ \A r \in Reqs : At(r, "idle")
    BY <2>1 DEF AloneInv, Unregistered
  <2>3. \A m \in Mails : Unused(m)' => m = n
    BY <1>1, <2>1, <2>2 DEF FreeMails, Unused, TypeOK
  <2>4. OneRequest' /\ Unregistered' /\ OneUnusedPerKind'
    BY <2>1, <2>2, <2>3 DEF OneRequest, Unregistered, OneUnusedPerKind, At
  <2>5. SeesSessions' /\ SeesMails' /\ NoStaleSession'
    BY <2>1, <2>2 DEF AloneInv, SeesSessions, SeesMails, NoStaleSession, At, Live
  <2> QED
    BY <2>4, <2>5 DEF AloneInv
<1>3. ASSUME NEW n \in Mails, VerifyEmail(n) PROVE AloneInv'
  <2>1. /\ account = "open" /\ UNCHANGED <<account, password, tok, req>>
        /\ \A m \in Mails : Unused(m)' => Unused(m) /\ mail'[m].kind = mail[m].kind
    BY <1>1, <1>3 DEF VerifyEmail, Unused, TypeOK, Mail
  <2>2. OneRequest' /\ Unregistered'
    BY <2>1 DEF AloneInv, OneRequest, Unregistered, At
  <2> QED
    BY <2>1, <2>2, AloneKeeps DEF Live
<1>4. ASSUME NEW t \in Toks, Logout(t) PROVE AloneInv'
  <2>1. /\ UNCHANGED <<account, password, mail, req>>
        /\ \A s \in Toks : Live(s)' => Live(s) /\ tok'[s].pw = tok[s].pw
    BY <1>1, <1>4 DEF Logout, Live, TypeOK, Token
  <2>2. OneRequest' /\ Unregistered'
    BY <2>1 DEF AloneInv, OneRequest, Unregistered, FreeMails, At
  <2> QED
    BY <2>1, <2>2, AloneKeeps DEF Unused
<1>5. ASSUME NEW r \in Reqs, Start(r) PROVE AloneInv'
  BY <1>1, <1>5, AloneStart
<1>6. ASSUME NEW r \in Reqs, Continue(r) PROVE AloneInv'
  BY <1>6, AloneContinue
<1>7. ASSUME NEW r \in Reqs, Abort(r) PROVE AloneInv'
  <2>1. GivesUp(r) /\ ~At(r, "idle")
    BY <1>1, <1>7, GivesUpStep DEF Abort
  <2> QED
    BY <1>1, <2>1, AloneReturn DEF GivesUp, Live, Unused
<1>8. ASSUME UNCHANGED <<account, password, tok, mail, req>> PROVE AloneInv'
  BY <1>8 DEF AloneInv, OneRequest, Unregistered, SeesSessions, NoStaleSession, SeesMails,
     OneUnusedPerKind, FreeMails, At, Live, Unused
<1>9. ASSUME NEW x \in Lapses, Expire(x) PROVE AloneInv'
  BY <1>8, <1>9 DEF Expire
<1> QED
  BY <1>2, <1>3, <1>4, <1>5, <1>6, <1>7, <1>8, <1>9 DEF Next, vars

\* One request at a time: a change or a reset of the password leaves no session of an
\* earlier one, and each kind of e-mailed token has one that is good at most.
THEOREM ReplacedAloneHolds == Spec => []ReplacedAlone
<1> DEFINE Inv == alone => AloneInv
<1>1. Init => Inv
  BY AloneInit
<1>2. IInv /\ Inv /\ [Next]_vars => Inv'
  <2>1. [Next]_vars => alone' = alone
    BY DEF Next, vars
  <2> QED
    BY <2>1, AloneNext
<1>3. Inv => ReplacedAlone
  BY DEF AloneInv, ReplacedAlone
<1> HIDE DEF Inv
<1> QED
  BY <1>1, <1>2, <1>3, Invariance, PTL DEF Spec
=============================================================================
