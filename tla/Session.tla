------------------------------ MODULE Session ------------------------------
(***************************************************************************)
(* The session of one browser tab: api/client.ts (calls, 401, one shared   *)
(* refresh, second attempt), store/authStore.ts (log-in, log-out,          *)
(* hydration, verification, account), the cookie that survives a reload,   *)
(* and the server's rotation of refresh tokens.                            *)
(*                                                                         *)
(* A member of Toks is a pair of tokens issued together; `live` is about   *)
(* its refresh token, `expired` about its access token.  isAuthenticated   *)
(* is written together with accessToken and is accessToken # None.         *)
(***************************************************************************)
EXTENDS Naturals, FiniteSets

CONSTANTS
    Calls,      \* calls of apiRequest that may be under way together
    Toks,       \* bound: the token pairs the server can issue
    Users,
    None,
    Owner,      \* whom a pair belongs to
    Kinds,      \* kinds of calls, out of AllKinds
    Scenes      \* sets of events that may happen in one behaviour

\* "get" stands for every call whose answer leaves the session alone.
AllKinds  == {"get", "me", "profile", "password", "delete", "resend"}
\* An access token runs out; a call or its answer is lost; the server refuses;
\* a refresh token is revoked elsewhere; another tab renews; the page reloads; an
\* e-mailed link is opened; the password is changed or the account deleted.
AllEvents == {"expire", "lose", "refuse", "revoke", "tab", "reload", "verify", "account"}

ASSUME SessionAssumption ==
    /\ None \notin Calls \cup Toks \cup Users
    /\ Owner \in [Toks -> Users]
    /\ Kinds \subseteq AllKinds /\ Scenes \subseteq SUBSET AllEvents

VARIABLES
    issued, live, expired,   \* the server's tokens
    activated,               \* users with a verified address
    cookie,                  \* refresh_token
    user, accessToken, isActivated,
    page,                    \* where the tab is
    call,                    \* calls under way
    rotation,                \* POST /auth/refresh under way, by who asked
    flow,                    \* actions of authStore under way
    scene,                   \* what may happen in this behaviour
    overtaken                \* ghost: a sign-out came before an answer that writes the session

server  == <<issued, live, activated>>
session == <<cookie, user, accessToken, isActivated>>
vars    == <<issued, live, expired, activated, cookie, user, accessToken,
             isActivated, page, call, rotation, flow, scene, overtaken>>

Pages  == {"public", "guest", "app", "verify"}
Askers == {"shared", "hydrate", "verify"}
Flows  == {"login", "logout", "hydrate", "verify"}

NoCall     == [pc |-> "idle", kind |-> "get", token |-> None, body |-> None]
NoRotation == [st |-> "none", sent |-> None, got |-> None]
NoFlow     == [pc |-> "idle", who |-> None]

CallType == [pc : {"idle", "sent", "waiting", "retried"}, kind : AllKinds,
             token : Toks \cup {None}, body : Toks \cup {None}]
RotationType == [st : {"none", "sent", "granted", "failed"},
                 sent : Toks \cup {None}, got : Toks \cup {None}]
FlowType == [pc : {"idle", "start", "sent", "registering", "rotating", "me"},
             who : Toks \cup Users \cup {None}]

TypeOK ==
    /\ issued \subseteq Toks /\ live \subseteq issued /\ expired \subseteq issued
    /\ activated \subseteq Users
    /\ cookie \in Toks \cup {None} /\ accessToken \in Toks \cup {None}
    /\ user \in Users \cup {None} /\ isActivated \in BOOLEAN
    /\ page \in Pages
    /\ call \in [Calls -> CallType]
    /\ rotation \in [Askers -> RotationType]
    /\ flow \in [Flows -> FlowType]
    /\ scene \in Scenes
    /\ overtaken \in BOOLEAN

-----------------------------------------------------------------------------
Waiting == {c \in Calls : call[c].pc = "waiting"}

\* App renders nothing until hydrate is through.
Hydrating == flow["hydrate"].pc # "idle"

\* The route guards: a guest is sent to /login, a user to /dashboard.
ProtectedRoute(p, t) == IF p = "app" /\ t = None THEN "guest" ELSE p
PublicRoute(p, t)    == IF p = "guest" /\ t # None THEN "app" ELSE p
Routed(p, t)         == PublicRoute(ProtectedRoute(p, t), t)

\* The modal that covers the application until the address is verified.
EmailModalOpen == accessToken # None /\ ~isActivated /\ page # "verify"

\* Answers under way that will write cookie, user or accessToken.
Writers == \/ \E r \in Askers : rotation[r].st # "none"
           \/ \E c \in Calls : call[c].pc # "idle" /\ call[c].kind \in {"me", "profile"}
           \/ flow["verify"].pc = "me"

Ask(r)    == rotation' = [rotation EXCEPT ![r] = [st |-> "sent", sent |-> cookie, got |-> None]]
Settle(r) == rotation' = [rotation EXCEPT ![r] = NoRotation]
Go(f, pc, w) == flow' = [flow EXCEPT ![f] = [pc |-> pc, who |-> w]]
EndCall(c)   == call' = [call EXCEPT ![c] = NoCall]

\* setCookie, then set: the tab is u's, with the pair t.
SignedIn(u, t) ==
    /\ cookie' = t /\ accessToken' = t
    /\ user' = u /\ isActivated' = (u \in activated)
    /\ page' = Routed(page, t)
    /\ UNCHANGED overtaken

\* Mutant: the profile stays in the store.
SignedOutKeepsUser ==
    /\ cookie' = None /\ accessToken' = None
    /\ UNCHANGED <<user, isActivated>>
    /\ page' = Routed(page, None)
    /\ overtaken' = (overtaken \/ Writers')

\* removeCookie, then set: last in an action, it looks at what is left under way.
SignedOut ==
    /\ cookie' = None /\ accessToken' = None
    /\ user' = None /\ isActivated' = FALSE
    /\ page' = Routed(page, None)
    /\ overtaken' = (overtaken \/ Writers')

\* Mutant: the server hands out a pair that it has not stored.
IssueUnstored(u, t, S) ==
    /\ t \in Toks \ issued /\ Owner[t] = u
    /\ issued' = issued
    /\ live' = (live \ S) \cup {t}

\* The server stores a new pair of u in place of S.
Issue(u, t, S) ==
    /\ t \in Toks \ issued /\ Owner[t] = u
    /\ issued' = issued \cup {t}
    /\ live' = (live \ S) \cup {t}

-----------------------------------------------------------------------------
(* apiRequest.                                                             *)

\* changePassword and deleteAccount put the cookie into the body.
CarriesCookie(k) == k \in {"password", "delete"}

\* Who may ask: effects do as soon as there is a token, forms only where they
\* are shown and not covered.
MayStart(k) ==
    /\ accessToken # None /\ ~Hydrating
    /\ k = "resend" => ~isActivated
    /\ k \in {"profile", "password", "delete"} => page = "app" /\ ~EmailModalOpen
    /\ CarriesCookie(k) => "account" \in scene

\* One form at a time: its button is disabled while it is being saved.
Start(c, k) ==
    /\ call[c].pc = "idle" /\ MayStart(k)
    /\ k \in {"get", "me"} \/ \A d \in Calls : call[d].pc = "idle" \/ call[d].kind # k
    /\ CarriesCookie(k) => cookie # None
    /\ call' = [call EXCEPT ![c] =
           [pc |-> "sent", kind |-> k, token |-> accessToken,
            body |-> IF CarriesCookie(k) THEN cookie ELSE None]]
    /\ UNCHANGED <<server, expired, scene, session, page, rotation, flow, overtaken>>

\* What the server makes of the call.
Accepted(c) == /\ call[c].token \notin expired
               /\ CarriesCookie(call[c].kind) =>
                      /\ call[c].body \in live
                      /\ Owner[call[c].body] = Owner[call[c].token]

\* The caller's continuation on an answer that is ok.
Answered(c) ==
    LET k == call[c].kind
        u == Owner[call[c].token]
    IN /\ EndCall(c)
       /\ UNCHANGED <<issued, expired, scene, activated, rotation, flow>>
       /\ \/ /\ k \in {"me", "profile"}
             /\ user' = u /\ isActivated' = (u \in activated)
             /\ UNCHANGED <<live, cookie, accessToken, page, overtaken>>
          \/ /\ k = "password"       \* the server keeps the session in the body only
             /\ live' = live \ {t \in Toks : Owner[t] = u /\ t # call[c].body}
             /\ UNCHANGED <<session, page, overtaken>>
          \/ /\ k = "delete"
             /\ live' = live \ {t \in Toks : Owner[t] = u}
             /\ SignedOut
          \/ /\ k \in {"get", "resend"}
             /\ UNCHANGED <<live, session, page, overtaken>>

Answer(c) == call[c].pc = "sent" /\ Accepted(c) /\ Answered(c)

\* An error other than 401, a 401 of a path that is not renewed, or no answer.
Fails(c) == \/ call[c].token \in expired /\ call[c].kind = "resend"
            \/ call[c].token \notin expired /\ (~Accepted(c) \/ "refuse" \in scene)
            \/ "lose" \in scene

Fail(c) ==
    /\ call[c].pc = "sent" /\ Fails(c)
    /\ EndCall(c)
    /\ UNCHANGED <<server, expired, scene, session, page, rotation, flow, overtaken>>

IsUnauthorized(c) == call[c].pc = "sent" /\ call[c].token \in expired /\ call[c].kind # "resend"

Wait(c) == call' = [call EXCEPT ![c].pc = "waiting"]

\* Mutant: a 401 does not look for a refresh that is under way.
UnauthorizedAsksAgain(c) ==
    /\ IsUnauthorized(c) /\ cookie # None
    /\ Wait(c) /\ Ask("shared")
    /\ UNCHANGED <<server, expired, scene, session, page, flow, overtaken>>

\* Mutant: without a cookie the handler never settles.
UnauthorizedHangs(c) ==
    /\ IsUnauthorized(c)
    /\ Wait(c)
    /\ IF cookie = None \/ rotation["shared"].st # "none"
       THEN UNCHANGED rotation
       ELSE Ask("shared")
    /\ UNCHANGED <<server, expired, scene, session, page, flow, overtaken>>

\* 401: wait for the refresh that is under way, or start it.  Without a cookie
\* the handler rejects before it sends anything, and onAuthFailure follows.
Unauthorized(c) ==
    /\ IsUnauthorized(c)
    /\ UNCHANGED <<server, expired, scene, flow>>
    /\ \/ /\ rotation["shared"].st # "none"
          /\ Wait(c) /\ UNCHANGED <<rotation, session, page, overtaken>>
       \/ /\ rotation["shared"].st = "none" /\ cookie # None
          /\ Wait(c) /\ Ask("shared") /\ UNCHANGED <<session, page, overtaken>>
       \/ /\ rotation["shared"].st = "none" /\ cookie = None
          /\ EndCall(c) /\ UNCHANGED rotation /\ SignedOut

\* Mutant: the second attempt takes the token of the first.
RenewedOldToken ==
    LET t == rotation["shared"].got IN
    /\ rotation["shared"].st = "granted"
    /\ Settle("shared")
    /\ cookie' = t /\ accessToken' = t
    /\ page' = Routed(page, t)
    /\ call' = [c \in Calls |-> IF c \in Waiting THEN [call[c] EXCEPT !.pc = "retried"] ELSE call[c]]
    /\ UNCHANGED <<server, expired, scene, user, isActivated, flow, overtaken>>

\* The second attempt of the call q.
Again(q, t) == [q EXCEPT !.pc = "retried", !.token = t]

\* The refresh handler stores the pair; every call that waits goes out again.
Renewed ==
    LET t == rotation["shared"].got IN
    /\ rotation["shared"].st = "granted"
    /\ Settle("shared")
    /\ cookie' = t /\ accessToken' = t
    /\ page' = Routed(page, t)
    /\ call' = [c \in Calls |-> IF c \in Waiting THEN Again(call[c], t) ELSE call[c]]
    /\ UNCHANGED <<server, expired, scene, user, isActivated, flow, overtaken>>

\* Every call that waits rejects, and each calls onAuthFailure.
RenewalFailed ==
    /\ rotation["shared"].st = "failed"
    /\ Settle("shared")
    /\ call' = [c \in Calls |-> IF c \in Waiting THEN NoCall ELSE call[c]]
    /\ UNCHANGED <<server, expired, scene, flow>>
    /\ SignedOut

RetryAnswer(c) == call[c].pc = "retried" /\ Accepted(c) /\ Answered(c)

\* Any failure of the second attempt calls onAuthFailure too.
RetryFails(c) ==
    /\ call[c].pc = "retried"
    /\ ~Accepted(c) \/ scene \cap {"refuse", "lose"} # {}
    /\ EndCall(c)
    /\ UNCHANGED <<server, expired, scene, rotation, flow>>
    /\ SignedOut

-----------------------------------------------------------------------------
(* POST /auth/refresh: the server rotates a live token, once.              *)

Grant(r, t) ==
    /\ rotation[r].st = "sent" /\ rotation[r].sent \in live
    /\ Issue(Owner[rotation[r].sent], t, {rotation[r].sent})
    /\ rotation' = [rotation EXCEPT ![r].st = "granted", ![r].got = t]
    /\ UNCHANGED <<expired, scene, activated, session, page, call, flow, overtaken>>

Deny(r) ==
    /\ \/ rotation[r].st = "sent" /\ rotation[r].sent \notin live
       \/ rotation[r].st \in {"sent", "granted"} /\ "lose" \in scene
    /\ rotation' = [rotation EXCEPT ![r] = [NoRotation EXCEPT !.st = "failed"]]
    /\ UNCHANGED <<server, expired, scene, session, page, call, flow, overtaken>>

-----------------------------------------------------------------------------
(* authStore.                                                              *)

\* The form of /login or, by way of a registration, of /register.
Login(u) ==
    /\ page = "guest" /\ accessToken = None /\ ~Hydrating
    /\ flow["login"].pc = "idle"
    /\ \E pc \in {"sent", "registering"} : Go("login", pc, u)
    /\ UNCHANGED <<server, expired, scene, session, page, call, rotation, overtaken>>

Registered ==
    /\ flow["login"].pc = "registering"
    /\ Go("login", "sent", flow["login"].who)
    /\ UNCHANGED <<server, expired, scene, session, page, call, rotation, overtaken>>

LoginAnswer(t) ==
    /\ flow["login"].pc = "sent"
    /\ Issue(flow["login"].who, t, {})
    /\ Go("login", "idle", None)
    /\ SignedIn(flow["login"].who, t)
    /\ UNCHANGED <<expired, scene, activated, call, rotation>>

LoginFails ==
    /\ flow["login"].pc \in {"sent", "registering"}
    /\ scene \cap {"refuse", "lose"} # {}
    /\ Go("login", "idle", None)
    /\ UNCHANGED <<server, expired, scene, session, page, call, rotation, overtaken>>

\* The menu of the header goes to the landing page at once, the modal does not.
Logout ==
    /\ accessToken # None /\ ~Hydrating
    /\ flow["logout"].pc = "idle"
    /\ Go("logout", "sent", cookie)
    /\ page' \in IF EmailModalOpen THEN {page} ELSE {"public"}
    /\ UNCHANGED <<server, expired, scene, session, call, rotation, overtaken>>

\* Whatever the answer is.
LogoutAnswer ==
    /\ flow["logout"].pc = "sent"
    /\ \/ live' = live \ {flow["logout"].who}
       \/ live' = live /\ "lose" \in scene
    /\ Go("logout", "idle", None)
    /\ UNCHANGED <<issued, expired, scene, activated, call, rotation>>
    /\ SignedOut

\* What begins when the page p is loaded; u is whose e-mailed link is opened on the
\* page "verify".
Loading(p, u) ==
    [f \in Flows |-> IF f = "hydrate" THEN [pc |-> "start", who |-> None]
                     ELSE IF f = "verify" /\ p = "verify" THEN [pc |-> "start", who |-> u]
                     ELSE NoFlow]

\* The page loads: memory is gone, the cookie is not.
Load(p, u) ==
    /\ user' = None /\ accessToken' = None /\ isActivated' = FALSE
    /\ page' = p
    /\ call' = [c \in Calls |-> NoCall]
    /\ rotation' = [r \in Askers |-> NoRotation]
    /\ flow' = Loading(p, u)
    /\ overtaken' = FALSE

Reload(p, u) ==
    /\ "reload" \in scene /\ ~Hydrating /\ (p = "verify" => "verify" \in scene)
    /\ Load(p, u)
    /\ UNCHANGED <<server, expired, scene, cookie>>

Hydrate ==
    /\ flow["hydrate"].pc = "start"
    /\ IF cookie = None
       THEN /\ Go("hydrate", "idle", None)
            /\ page' = Routed(page, None)
            /\ UNCHANGED rotation
       ELSE /\ Go("hydrate", "rotating", None)
            /\ Ask("hydrate")
            /\ UNCHANGED page
    /\ UNCHANGED <<server, expired, scene, session, call, overtaken>>

\* The refresh was answered: the cookie is set, getMe goes out.
Rotated(f) ==
    /\ flow[f].pc = "rotating" /\ rotation[f].st = "granted"
    /\ cookie' = rotation[f].got
    /\ Settle(f)
    /\ Go(f, "me", rotation[f].got)
    /\ UNCHANGED <<server, expired, scene, user, accessToken, isActivated, page, call, overtaken>>

\* getMe with a pair just issued: it has not run out yet.
RotatedMe(f) ==
    LET t == flow[f].who IN
    /\ flow[f].pc = "me"
    /\ Go(f, "idle", None)
    /\ user' = Owner[t] /\ accessToken' = t
    /\ isActivated' = (Owner[t] \in activated)
    /\ page' = Routed(page, t)
    /\ UNCHANGED <<server, expired, scene, cookie, call, rotation, overtaken>>

FlowFails(f) == \/ flow[f].pc = "rotating" /\ rotation[f].st = "failed"
                \/ flow[f].pc = "me" /\ scene \cap {"lose", "refuse"} # {}

HydrateFails ==
    /\ FlowFails("hydrate")
    /\ Settle("hydrate")
    /\ Go("hydrate", "idle", None)
    /\ UNCHANGED <<server, expired, scene, call>>
    /\ SignedOut

\* VerifyEmailPage posts the token of the link, once.
Verify ==
    /\ flow["verify"].pc = "start" /\ ~Hydrating
    /\ Go("verify", "sent", flow["verify"].who)
    /\ UNCHANGED <<server, expired, scene, session, page, call, rotation, overtaken>>

\* Signed in here, as anybody: rotate, so that the new pair says activated.
VerifyAnswer ==
    /\ flow["verify"].pc = "sent" /\ flow["verify"].who \notin activated
    /\ activated' = activated \cup {flow["verify"].who}
    /\ IF accessToken = None
       THEN Go("verify", "idle", None) /\ UNCHANGED rotation
       ELSE Go("verify", "rotating", None) /\ Ask("verify")
    /\ UNCHANGED <<issued, live, expired, scene, session, page, call, overtaken>>

\* The link has run out or is used, or the rotation failed: nothing changes.
VerifyFails ==
    /\ \/ flow["verify"].pc = "sent"
          /\ (flow["verify"].who \in activated \/ scene \cap {"lose", "refuse"} # {})
       \/ FlowFails("verify")
    /\ Go("verify", "idle", None)
    /\ Settle("verify")
    /\ UNCHANGED <<server, expired, scene, session, page, call, overtaken>>

\* A link of the application; the modal covers all of them.
Navigate(p) ==
    /\ ~Hydrating /\ ~EmailModalOpen
    /\ p # "verify" /\ page' = Routed(p, accessToken) /\ page' # page
    /\ UNCHANGED <<server, expired, scene, session, call, rotation, flow, overtaken>>

-----------------------------------------------------------------------------
(* The rest of the world.                                                  *)

\* A pair outlives the attempt it was issued for.
Expire(t) ==
    /\ "expire" \in scene /\ t \notin expired
    /\ t = accessToken \/ \E c \in Calls : call[c].pc = "sent" /\ call[c].token = t
    /\ t # None /\ \A c \in Calls : call[c].pc = "retried" => call[c].token # t
    /\ expired' = expired \cup {t}
    /\ UNCHANGED <<server, scene, session, page, call, rotation, flow, overtaken>>

Revoke(t) ==
    /\ "revoke" \in scene /\ t \in live
    /\ live' = live \ {t}
    /\ UNCHANGED <<issued, activated, expired, scene, session, page, call, rotation, flow, overtaken>>

\* Another tab has the same cookie, and a refreshPromise of its own.
OtherTab(t) ==
    /\ "tab" \in scene /\ cookie \in live
    /\ Issue(Owner[cookie], t, {cookie})
    /\ cookie' = t
    /\ UNCHANGED <<activated, expired, scene, user, accessToken, isActivated, page, call,
                   rotation, flow, overtaken>>

-----------------------------------------------------------------------------
Init ==
    /\ issued \in {{}} \cup {{t} : t \in Toks} /\ live = issued /\ expired = {}
    /\ cookie \in issued \cup {None} /\ (issued # {} => cookie # None)
    /\ activated \in SUBSET Users
    /\ user = None /\ accessToken = None /\ isActivated = FALSE
    /\ scene \in Scenes
    /\ page \in IF "verify" \in scene THEN Pages ELSE Pages \ {"verify"}
    /\ call = [c \in Calls |-> NoCall]
    /\ rotation = [r \in Askers |-> NoRotation]
    /\ \E u \in Users : flow = Loading(page, u)
    /\ overtaken = FALSE

CallStep(c) == Answer(c) \/ Fail(c) \/ Unauthorized(c) \/ RetryAnswer(c) \/ RetryFails(c)
RotationStep(r) == Deny(r) \/ \E t \in Toks : Grant(r, t)
LoginStep == Registered \/ LoginFails \/ \E t \in Toks : LoginAnswer(t)
HydrateStep == Hydrate \/ Rotated("hydrate") \/ RotatedMe("hydrate") \/ HydrateFails
VerifyStep == Verify \/ VerifyAnswer \/ Rotated("verify") \/ RotatedMe("verify") \/ VerifyFails

Next ==
    \/ \E c \in Calls, k \in Kinds : Start(c, k)
    \/ \E c \in Calls : CallStep(c)
    \/ \E r \in Askers : RotationStep(r)
    \/ Renewed \/ RenewalFailed
    \/ \E u \in Users : Login(u)
    \/ LoginStep \/ Logout \/ LogoutAnswer
    \/ HydrateStep \/ VerifyStep
    \/ \E p \in Pages, u \in Users : Reload(p, u)
    \/ \E p \in Pages : Navigate(p)
    \/ \E t \in Toks : Expire(t) \/ Revoke(t) \/ OtherTab(t)

Spec == Init /\ [][Next]_vars

-----------------------------------------------------------------------------
\* A call waits if and only if the refresh they share is under way: nobody is
\* forgotten when it settles (client.ts: refreshPromise, finally).
NobodyForgotten == Waiting # {} <=> rotation["shared"].st # "none"

\* Unless a sign-out came before an answer that writes the session, the cookie,
\* the access token and the user shown are one user's (authStore.ts: every set).
OwnersAgree ==
    ~overtaken =>
        /\ accessToken = None <=> user = None
        /\ accessToken # None => /\ Owner[accessToken] = user
                                 /\ cookie # None /\ Owner[cookie] = user

\* Nothing but time happens to the session: what the cookie holds can be
\* exchanged, or its exchange is under way (client.ts, authStore.ts: setCookie
\* after every refresh).
Calm == scene \subseteq {"expire"}

CookieLive == Calm /\ cookie # None /\ (\A r \in Askers : rotation[r].st = "none") => cookie \in live

\* Who is signed in, and with what, is one session.
OneSession == OwnersAgree /\ CookieLive

\* In that case a session ends by a log-out only, however many calls meet the
\* end of an access token (client.ts: refreshPromise).
SignedOutByUser ==
    [][Calm /\ ~overtaken /\ accessToken # None /\ accessToken' = None =>
           flow["logout"].pc = "sent"]_vars

\* The calls and the refresh they share are a Renewals.
Phase(pc) == IF pc = "waiting" THEN "held" ELSE IF pc = "retried" THEN "again" ELSE pc

Abstract == INSTANCE Renewals WITH
    phase <- [c \in Calls |-> Phase(call[c].pc)],
    token <- [c \in Calls |-> call[c].token]

RenewalsSpec == Abstract!Spec

\* Every call ends, and every action of the store.
CallsEnd ==
    /\ \A c \in Calls : call[c].pc # "idle" ~> call[c].pc = "idle"
    /\ \A f \in Flows : flow[f].pc # "idle" ~> flow[f].pc = "idle"
=============================================================================
