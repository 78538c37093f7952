--------------------------- MODULE SessionProofs ---------------------------
(***************************************************************************)
(* For any users, calls and pairs of tokens: types, that the calls and the *)
(* refresh they share are a Renewals, that who is signed in is one session *)
(* and that a session nothing disturbs ends by a log-out only.             *)
(***************************************************************************)
EXTENDS Session, TLAPS

\* Who holds a token holds one that was issued, and the link that is opened on
\* the page "verify" is a user's.
Sources ==
    /\ accessToken \in issued \cup {None}
    /\ \A c \in Calls : call[c].pc # "idle" => call[c].token \in issued
    /\ \A f \in Flows : flow[f].pc = "me" => flow[f].who \in issued
    /\ \A r \in Askers : rotation[r].st = "granted" => rotation[r].got \in issued
    /\ flow["verify"].pc \in {"start", "sent"} => flow["verify"].who \in Users

\* The pair that a refresh has been answered with is new: nobody uses it yet, and
\* no two refreshes have the same.
Distinct ==
    \A r \in Askers : rotation[r].st = "granted" =>
        /\ rotation[r].got \notin expired \cup {accessToken}
        /\ \A c \in Calls : call[c].pc # "idle" => call[c].token # rotation[r].got
        /\ \A f \in Flows : flow[f].pc = "me" => flow[f].who # rotation[r].got
        /\ \A q \in Askers :
               q # r /\ rotation[q].st = "granted" => rotation[q].got # rotation[r].got

IInv == TypeOK /\ Sources /\ Distinct /\ NobodyForgotten

-----------------------------------------------------------------------------
LEMMA RoutedPage == \A t : \A p \in Pages : Routed(p, t) \in Pages
  BY DEF Routed, PublicRoute, ProtectedRoute, Pages

\* What a sign-out leaves.
LEMMA SignedOutTyped ==
  ASSUME TypeOK, SignedOut
  PROVE  /\ cookie' = None /\ accessToken' = None /\ user' = None /\ isActivated' = FALSE
         /\ page' \in Pages /\ overtaken' \in BOOLEAN
  BY RoutedPage DEF TypeOK, SignedOut

LEMMA AgainTyped ==
  ASSUME NEW q \in CallType, NEW t \in Toks \cup {None}
  PROVE  /\ Again(q, t) \in CallType /\ Again(q, t).pc = "retried"
         /\ Again(q, t).token = t /\ Again(q, t).kind = q.kind
  BY DEF Again, CallType

\* What the refresh does to a call.
LEMMA RenewedCalls ==
  ASSUME TypeOK, Renewed, NEW c \in Calls
  PROVE  /\ call'[c] \in CallType
         /\ call'[c].pc # "idle" => call[c].pc # "idle"
         /\ call'[c].token \in {call[c].token, rotation["shared"].got}
         /\ call'[c].kind = call[c].kind
         /\ call'[c].pc # "waiting"
         /\ IF call[c].pc = "waiting"
            THEN call'[c].pc = "retried" /\ call'[c].token = rotation["shared"].got
            ELSE call'[c] = call[c]
<1>1. rotation["shared"].got \in Toks \cup {None} /\ call[c] \in CallType
  BY DEF TypeOK, RotationType, Askers
<1>2. CASE call[c].pc = "waiting"
  BY <1>1, <1>2, AgainTyped DEF Renewed, Waiting
<1>3. CASE call[c].pc # "waiting"
  BY <1>1, <1>3 DEF Renewed, Waiting
<1> QED
  BY <1>2, <1>3

\* The continuation of a call, whichever attempt was answered.
LEMMA AnsweredTyped ==
  ASSUME TypeOK, Sources, NEW c \in Calls, call[c].pc # "idle", Answered(c)
  PROVE  TypeOK' /\ Sources'
<1>1. EndCall(c) /\ UNCHANGED <<issued, expired, scene, activated, rotation, flow>>
  BY DEF Answered
<1>2. /\ call' \in [Calls -> CallType]
      /\ \A d \in Calls : call'[d].pc # "idle" => call[d].pc # "idle" /\ call'[d] = call[d]
  BY <1>1 DEF EndCall, NoCall, TypeOK, CallType, AllKinds
<1> DEFINE k == call[c].kind
           u == Owner[call[c].token]
<1>3. k \in AllKinds /\ u \in Users
  BY SessionAssumption DEF TypeOK, Sources, CallType
<1>4. CASE k \in {"me", "profile"}
  <2>1. /\ user' = u /\ isActivated' = (u \in activated)
        /\ UNCHANGED <<live, cookie, accessToken, page, overtaken>>
    BY <1>4 DEF Answered
  <2>2. isActivated' \in BOOLEAN
    BY <2>1
  <2> QED
    BY <1>1, <1>3, <1>2, <2>1, <2>2 DEF TypeOK, Sources
<1>5. CASE k = "password"
  BY <1>1, <1>3, <1>2, <1>5 DEF Answered, TypeOK, Sources, session
<1>6. CASE k = "delete"
  <2>1. SignedOut /\ live' \subseteq live
    BY <1>6 DEF Answered
  <2> QED
    BY <1>1, <1>2, <2>1, SignedOutTyped DEF TypeOK, Sources
<1>7. CASE k \in {"get", "resend"}
  BY <1>1, <1>3, <1>2, <1>7 DEF Answered, TypeOK, Sources, session
<1> QED
  BY <1>3, <1>4, <1>5, <1>6, <1>7 DEF AllKinds

LEMMA TypeStep == TypeOK /\ Sources /\ [Next]_vars => TypeOK' /\ Sources'
<1> SUFFICES ASSUME TypeOK /\ Sources, [Next]_vars
             PROVE  TypeOK' /\ Sources'
  OBVIOUS
<1>1. ASSUME NEW c \in Calls, NEW k \in Kinds, Start(c, k) PROVE TypeOK' /\ Sources'
  BY <1>1, SessionAssumption
     DEF Start, MayStart, CarriesCookie, server, session, TypeOK, Sources, CallType,
         RotationType, FlowType, Flows, Askers, Pages, AllKinds
<1>2. ASSUME NEW c \in Calls, Answer(c) PROVE TypeOK' /\ Sources'
  BY <1>2, AnsweredTyped DEF Answer
<1>3. ASSUME NEW c \in Calls, Fail(c) PROVE TypeOK' /\ Sources'
  BY <1>3, SessionAssumption
     DEF Fail, EndCall, NoCall, server, session, TypeOK, Sources, CallType, RotationType,
         FlowType, Flows, Askers, Pages, AllKinds
<1>4. ASSUME NEW c \in Calls, Unauthorized(c) PROVE TypeOK' /\ Sources'
  <2>1. UNCHANGED <<server, expired, scene, flow>>
    BY <1>4 DEF Unauthorized
  <2>2. CASE /\ Wait(c) /\ (UNCHANGED rotation \/ Ask("shared"))
              /\ UNCHANGED <<session, page, overtaken>>
    <3>1. /\ call' \in [Calls -> CallType]
          /\ \A d \in Calls : call'[d].token = call[d].token
      BY <2>2 DEF Wait, TypeOK, CallType
    <3>2. \A d \in Calls : call'[d].pc # "idle" => call[d].pc # "idle"
      BY <1>4, <2>2 DEF Wait, Unauthorized, IsUnauthorized, TypeOK, CallType
    <3>3. /\ rotation' \in [Askers -> RotationType]
          /\ \A r \in Askers : rotation'[r].st = "granted" => rotation'[r] = rotation[r]
      BY <2>2 DEF Ask, TypeOK, RotationType, Askers
    <3> QED
      BY <2>1, <2>2, <3>1, <3>2, <3>3 DEF TypeOK, Sources, server, session
  <2>3. CASE EndCall(c) /\ UNCHANGED rotation /\ SignedOut
    BY <2>1, <2>3, SignedOutTyped DEF EndCall, NoCall, TypeOK, Sources, server, CallType, AllKinds
  <2> QED
    BY <1>4, <2>2, <2>3 DEF Unauthorized
<1>5. ASSUME NEW c \in Calls, RetryAnswer(c) PROVE TypeOK' /\ Sources'
  BY <1>5, AnsweredTyped DEF RetryAnswer
<1>6. ASSUME NEW c \in Calls, RetryFails(c) PROVE TypeOK' /\ Sources'
  BY <1>6, SessionAssumption, SignedOutTyped
     DEF RetryFails, EndCall, NoCall, server, session, TypeOK, Sources, CallType,
         RotationType, FlowType, Flows, Askers, Pages, AllKinds
<1>7. ASSUME NEW r \in Askers, Deny(r) PROVE TypeOK' /\ Sources'
  BY <1>7, SessionAssumption
     DEF Deny, NoRotation, server, session, TypeOK, Sources, CallType, RotationType,
         FlowType, Flows, Askers, Pages, AllKinds
<1>8. ASSUME NEW r \in Askers, NEW t \in Toks, Grant(r, t) PROVE TypeOK' /\ Sources'
  BY <1>8, SessionAssumption
     DEF Grant, Issue, server, session, TypeOK, Sources, CallType, RotationType, FlowType,
         Flows, Askers, Pages, AllKinds
<1>9. CASE Renewed
  <2>1. call' \in [Calls -> CallType]
    BY <1>9, RenewedCalls DEF Renewed
  <2>2. rotation["shared"].got \in issued /\ accessToken' = rotation["shared"].got
    BY <1>9 DEF Renewed, Sources, Askers
  <2>3. /\ rotation' \in [Askers -> RotationType]
        /\ \A r \in Askers : rotation'[r].st = "granted" => rotation'[r] = rotation[r]
    BY <1>9 DEF Renewed, Settle, NoRotation, TypeOK, RotationType, Askers
  <2> QED
    BY <1>9, <2>1, <2>2, <2>3, RenewedCalls, RoutedPage
       DEF Renewed, TypeOK, Sources, server, Askers
<1>10. CASE RenewalFailed
  BY <1>10, SessionAssumption, SignedOutTyped
     DEF RenewalFailed, Settle, NoRotation, NoCall, Waiting, server, session, TypeOK,
         Sources, CallType, RotationType, FlowType, Flows, Askers, Pages, AllKinds
<1>11. ASSUME NEW u \in Users, Login(u) PROVE TypeOK' /\ Sources'
  BY <1>11, SessionAssumption
     DEF Login, Go, server, session, TypeOK, Sources, CallType, RotationType, FlowType,
         Flows, Askers, Pages, AllKinds
<1>12. CASE Registered
  BY <1>12, SessionAssumption
     DEF Registered, Go, server, session, TypeOK, Sources, CallType, RotationType,
         FlowType, Flows, Askers, Pages, AllKinds
<1>13. CASE LoginFails
  BY <1>13, SessionAssumption
     DEF LoginFails, Go, server, session, TypeOK, Sources, CallType, RotationType,
         FlowType, Flows, Askers, Pages, AllKinds
<1>14. ASSUME NEW t \in Toks, LoginAnswer(t) PROVE TypeOK' /\ Sources'
  BY <1>14, SessionAssumption, RoutedPage
     DEF LoginAnswer, Go, Issue, SignedIn, server, session, TypeOK, Sources, CallType,
         RotationType, FlowType, Flows, Askers, Pages, AllKinds
<1>15. CASE Logout
  BY <1>15, SessionAssumption, RoutedPage
     DEF Logout, Go, server, session, TypeOK, Sources, CallType, RotationType, FlowType,
         Flows, Askers, Pages, AllKinds
<1>16. CASE LogoutAnswer
  BY <1>16, SessionAssumption, SignedOutTyped
     DEF LogoutAnswer, Go, server, session, TypeOK, Sources, CallType, RotationType,
         FlowType, Flows, Askers, Pages, AllKinds
<1>17. CASE Hydrate
  BY <1>17, SessionAssumption, RoutedPage
     DEF Hydrate, Go, Ask, server, session, TypeOK, Sources, CallType, RotationType,
         FlowType, Flows, Askers, Pages, AllKinds
<1>18. ASSUME NEW f \in {"hydrate", "verify"}, Rotated(f) PROVE TypeOK' /\ Sources'
  BY <1>18, SessionAssumption
     DEF Rotated, Go, Settle, NoRotation, server, session, TypeOK, Sources, CallType,
         RotationType, FlowType, Flows, Askers, Pages, AllKinds
<1>19. ASSUME NEW f \in {"hydrate", "verify"}, RotatedMe(f) PROVE TypeOK' /\ Sources'
  BY <1>19, SessionAssumption, RoutedPage
     DEF RotatedMe, Go, server, session, TypeOK, Sources, CallType, RotationType,
         FlowType, Flows, Askers, Pages, AllKinds
<1>20. CASE HydrateFails
  BY <1>20, SessionAssumption, SignedOutTyped
     DEF HydrateFails, Go, Settle, NoRotation, server, session, TypeOK, Sources, CallType,
         RotationType, FlowType, Flows, Askers, Pages, AllKinds
<1>21. CASE Verify
  BY <1>21, SessionAssumption
     DEF Verify, Go, server, session, TypeOK, Sources, CallType, RotationType, FlowType,
         Flows, Askers, Pages, AllKinds
<1>22. CASE VerifyAnswer
  BY <1>22, SessionAssumption
     DEF VerifyAnswer, Go, Ask, server, session, TypeOK, Sources, CallType, RotationType,
         FlowType, Flows, Askers, Pages, AllKinds
<1>23. CASE VerifyFails
  BY <1>23, SessionAssumption
     DEF VerifyFails, Go, Settle, NoRotation, server, session, TypeOK, Sources, CallType,
         RotationType, FlowType, Flows, Askers, Pages, AllKinds
<1>24. ASSUME NEW p \in Pages, NEW u \in Users, Reload(p, u) PROVE TypeOK' /\ Sources'
  BY <1>24, SessionAssumption, RoutedPage
     DEF Reload, Load, Loading, NoCall, NoRotation, NoFlow, server, session, TypeOK,
         Sources, CallType, RotationType, FlowType, Flows, Askers, Pages, AllKinds
<1>25. ASSUME NEW p \in Pages, Navigate(p) PROVE TypeOK' /\ Sources'
  BY <1>25, SessionAssumption, RoutedPage
     DEF Navigate, server, session, TypeOK, Sources, CallType, RotationType, FlowType,
         Flows, Askers, Pages, AllKinds
<1>26. ASSUME NEW t \in Toks, Expire(t) PROVE TypeOK' /\ Sources'
  BY <1>26, SessionAssumption
     DEF Expire, server, session, TypeOK, Sources, CallType, RotationType, FlowType,
         Flows, Askers, Pages, AllKinds
<1>27. ASSUME NEW t \in Toks, Revoke(t) PROVE TypeOK' /\ Sources'
  BY <1>27, SessionAssumption
     DEF Revoke, server, session, TypeOK, Sources, CallType, RotationType, FlowType,
         Flows, Askers, Pages, AllKinds
<1>28. ASSUME NEW t \in Toks, OtherTab(t) PROVE TypeOK' /\ Sources'
  BY <1>28, SessionAssumption
     DEF OtherTab, Issue, server, session, TypeOK, Sources, CallType, RotationType,
         FlowType, Flows, Askers, Pages, AllKinds
<1>29. CASE UNCHANGED vars
  BY <1>29 DEF vars, TypeOK, Sources, CallType, RotationType, FlowType, Flows, Askers, Pages,
         AllKinds
<1> QED
  BY <1>1, <1>2, <1>3, <1>4, <1>5, <1>6, <1>7, <1>8, <1>9, <1>10, <1>11, <1>12, <1>13,
     <1>14, <1>15, <1>16, <1>17, <1>18, <1>19, <1>20, <1>21, <1>22, <1>23, <1>24, <1>25,
     <1>26, <1>27, <1>28, <1>29
     DEF Next, CallStep, RotationStep, LoginStep, HydrateStep, VerifyStep

LEMMA InitOK == Init => IInv
<1> SUFFICES ASSUME Init
             PROVE  IInv
  OBVIOUS
<1>1. \E u \in Users : flow = Loading(page, u)
  BY DEF Init
<1>2. /\ flow \in [Flows -> FlowType]
      /\ \A f \in Flows : flow[f].pc # "me"
      /\ flow["verify"].pc = "start" => flow["verify"].who \in Users
      /\ flow["verify"].pc # "sent"
  BY <1>1 DEF Loading, NoFlow, FlowType, Flows
<1>3. page \in Pages
  BY DEF Init
<1>4. TypeOK /\ Sources
  BY <1>2, <1>3, SessionAssumption
     DEF Init, TypeOK, Sources, NoCall, NoRotation, CallType, RotationType, AllKinds, Askers
<1>5. Distinct /\ NobodyForgotten
  BY DEF Init, Distinct, NobodyForgotten, Waiting, NoCall, NoRotation, Askers
<1> QED
  BY <1>4, <1>5 DEF IInv

\* A step that hands out no token and puts none to another use.
LEMMA DistinctKept ==
  ASSUME Distinct,
         expired' \subseteq expired, None \notin issued, Sources,
         accessToken' \in {accessToken, None},
         \A c \in Calls : call'[c].pc # "idle" => call[c].pc # "idle" /\ call'[c].token = call[c].token,
         \A f \in Flows : flow'[f].pc = "me" => flow'[f] = flow[f],
         \A r \in Askers : rotation'[r].st = "granted" => rotation'[r] = rotation[r]
  PROVE  Distinct'
  BY DEF Distinct, Sources

LEMMA DistinctStep == TypeOK /\ Sources /\ Distinct /\ [Next]_vars => Distinct'
<1> SUFFICES ASSUME TypeOK /\ Sources /\ Distinct, [Next]_vars
             PROVE  Distinct'
  OBVIOUS
<1>1. None \notin issued
  BY SessionAssumption DEF TypeOK
<1>2. ASSUME NEW c \in Calls, NEW k \in Kinds, Start(c, k) PROVE Distinct'
  BY <1>2, SessionAssumption
     DEF Start, MayStart, CarriesCookie, server, session, TypeOK, Sources, Distinct,
         CallType, RotationType, FlowType, Flows, Askers
<1>3. ASSUME NEW c \in Calls, Answer(c) PROVE Distinct'
  <2>1. EndCall(c) /\ UNCHANGED <<expired, rotation, flow>> /\ accessToken' \in {accessToken, None}
    BY <1>3 DEF Answer, Answered, SignedOut, session
  <2> QED
    BY <1>1, <2>1, DistinctKept DEF EndCall, NoCall, TypeOK, CallType
<1>4. ASSUME NEW c \in Calls, Fail(c) PROVE Distinct'
  BY <1>4, SessionAssumption
     DEF Fail, EndCall, NoCall, server, session, TypeOK, Sources, Distinct, CallType,
         RotationType, FlowType, Flows, Askers
<1>5. ASSUME NEW c \in Calls, Unauthorized(c) PROVE Distinct'
  <2>1. /\ EndCall(c) \/ Wait(c)
        /\ UNCHANGED rotation \/ Ask("shared")
        /\ UNCHANGED <<expired, flow>> /\ accessToken' \in {accessToken, None}
    BY <1>5 DEF Unauthorized, SignedOut, session
  <2>2. \A d \in Calls : call'[d].pc # "idle" => call[d].pc # "idle" /\ call'[d].token = call[d].token
    BY <1>5, <2>1 DEF Unauthorized, IsUnauthorized, EndCall, Wait, NoCall, TypeOK, CallType
  <2>3. \A r \in Askers : rotation'[r].st = "granted" => rotation'[r] = rotation[r]
    BY <2>1 DEF Ask, TypeOK, RotationType
  <2> QED
    BY <1>1, <2>1, <2>2, <2>3, DistinctKept
<1>6. ASSUME NEW c \in Calls, RetryAnswer(c) PROVE Distinct'
  <2>1. EndCall(c) /\ UNCHANGED <<expired, rotation, flow>> /\ accessToken' \in {accessToken, None}
    BY <1>6 DEF RetryAnswer, Answered, SignedOut, session
  <2> QED
    BY <1>1, <2>1, DistinctKept DEF EndCall, NoCall, TypeOK, CallType
<1>7. ASSUME NEW c \in Calls, RetryFails(c) PROVE Distinct'
  <2>1. EndCall(c) /\ UNCHANGED <<expired, rotation, flow>> /\ accessToken' = None
    BY <1>7 DEF RetryFails, SignedOut
  <2> QED
    BY <1>1, <2>1, DistinctKept DEF EndCall, NoCall, TypeOK, CallType
<1>8. ASSUME NEW r \in Askers, Deny(r) PROVE Distinct'
  BY <1>8, SessionAssumption
     DEF Deny, NoRotation, server, session, TypeOK, Sources, Distinct, CallType,
         RotationType, FlowType, Flows, Askers
<1>9. ASSUME NEW r \in Askers, NEW t \in Toks, Grant(r, t) PROVE Distinct'
  BY <1>9, SessionAssumption
     DEF Grant, Issue, server, session, TypeOK, Sources, Distinct, CallType, RotationType,
         FlowType, Flows, Askers
<1>10. CASE Renewed
  <2> DEFINE t == rotation["shared"].got
  <2>1. /\ accessToken' = t /\ UNCHANGED <<expired, flow>>
        /\ rotation["shared"].st = "granted"
    BY <1>10 DEF Renewed
  <2>2. \A c \in Calls : call'[c].pc # "idle" =>
            call[c].pc # "idle" /\ call'[c].token \in {call[c].token, t}
    BY <1>10, RenewedCalls
  <2>3. \A r \in Askers : rotation'[r].st = "granted" => r # "shared" /\ rotation'[r] = rotation[r]
    BY <1>10 DEF Renewed, Settle, NoRotation, TypeOK, RotationType, Askers
  <2>4. "shared" \in Askers
    BY DEF Askers
  <2> QED
    BY <2>1, <2>2, <2>3, <2>4 DEF Distinct
<1>11. CASE RenewalFailed
  <2>1. /\ Settle("shared") /\ UNCHANGED <<expired, flow>> /\ accessToken' = None
        /\ call' = [c \in Calls |-> IF c \in Waiting THEN NoCall ELSE call[c]]
    BY <1>11 DEF RenewalFailed, SignedOut
  <2> QED
    BY <1>1, <2>1, DistinctKept DEF Settle, NoRotation, NoCall, TypeOK, RotationType, Askers
<1>12. ASSUME NEW u \in Users, Login(u) PROVE Distinct'
  BY <1>12, SessionAssumption
     DEF Login, Go, server, session, TypeOK, Sources, Distinct, CallType, RotationType,
         FlowType, Flows, Askers
<1>13. CASE Registered
  BY <1>13, SessionAssumption
     DEF Registered, Go, server, session, TypeOK, Sources, Distinct, CallType,
         RotationType, FlowType, Flows, Askers
<1>14. CASE LoginFails
  BY <1>14, SessionAssumption
     DEF LoginFails, Go, server, session, TypeOK, Sources, Distinct, CallType,
         RotationType, FlowType, Flows, Askers
<1>15. ASSUME NEW t \in Toks, LoginAnswer(t) PROVE Distinct'
  BY <1>15, SessionAssumption
     DEF LoginAnswer, Go, Issue, SignedIn, server, session, TypeOK, Sources, Distinct,
         CallType, RotationType, FlowType, Flows, Askers
<1>16. CASE Logout
  BY <1>16, SessionAssumption
     DEF Logout, Go, server, session, TypeOK, Sources, Distinct, CallType, RotationType,
         FlowType, Flows, Askers
<1>17. CASE LogoutAnswer
  <2>1. /\ Go("logout", "idle", None) /\ UNCHANGED <<expired, call, rotation>>
        /\ accessToken' = None
    BY <1>17 DEF LogoutAnswer, SignedOut
  <2> QED
    BY <1>1, <2>1, DistinctKept DEF Go, TypeOK, FlowType, Flows
<1>18. CASE Hydrate
  BY <1>18, SessionAssumption
     DEF Hydrate, Go, Ask, server, session, TypeOK, Sources, Distinct, CallType,
         RotationType, FlowType, Flows, Askers
<1>19. ASSUME NEW f \in {"hydrate", "verify"}, Rotated(f) PROVE Distinct'
  BY <1>19, SessionAssumption
     DEF Rotated, Go, Settle, NoRotation, server, session, TypeOK, Sources, Distinct,
         CallType, RotationType, FlowType, Flows, Askers
<1>20. ASSUME NEW f \in {"hydrate", "verify"}, RotatedMe(f) PROVE Distinct'
  BY <1>20, SessionAssumption
     DEF RotatedMe, Go, server, session, TypeOK, Sources, Distinct, CallType,
         RotationType, FlowType, Flows, Askers
<1>21. CASE HydrateFails
  <2>1. /\ Go("hydrate", "idle", None) /\ Settle("hydrate") /\ UNCHANGED <<expired, call>>
        /\ accessToken' = None
    BY <1>21 DEF HydrateFails, SignedOut
  <2> QED
    BY <1>1, <2>1, DistinctKept
       DEF Go, Settle, NoRotation, TypeOK, FlowType, Flows, RotationType, Askers
<1>22. CASE Verify
  BY <1>22, SessionAssumption
     DEF Verify, Go, server, session, TypeOK, Sources, Distinct, CallType, RotationType,
         FlowType, Flows, Askers
<1>23. CASE VerifyAnswer
  BY <1>23, SessionAssumption
     DEF VerifyAnswer, Go, Ask, server, session, TypeOK, Sources, Distinct, CallType,
         RotationType, FlowType, Flows, Askers
<1>24. CASE VerifyFails
  BY <1>24, SessionAssumption
     DEF VerifyFails, Go, Settle, NoRotation, server, session, TypeOK, Sources, Distinct,
         CallType, RotationType, FlowType, Flows, Askers
<1>25. ASSUME NEW p \in Pages, NEW u \in Users, Reload(p, u) PROVE Distinct'
  BY <1>25, SessionAssumption
     DEF Reload, Load, Loading, NoCall, NoRotation, NoFlow, server, session, TypeOK,
         Sources, Distinct, CallType, RotationType, FlowType, Flows, Askers
<1>26. ASSUME NEW p \in Pages, Navigate(p) PROVE Distinct'
  BY <1>26, SessionAssumption
     DEF Navigate, server, session, TypeOK, Sources, Distinct, CallType, RotationType,
         FlowType, Flows, Askers
<1>27. ASSUME NEW t \in Toks, Expire(t) PROVE Distinct'
  BY <1>27, SessionAssumption
     DEF Expire, server, session, TypeOK, Sources, Distinct, CallType, RotationType,
         FlowType, Flows, Askers
<1>28. ASSUME NEW t \in Toks, Revoke(t) PROVE Distinct'
  BY <1>28, SessionAssumption
     DEF Revoke, server, session, TypeOK, Sources, Distinct, CallType, RotationType,
         FlowType, Flows, Askers
<1>29. ASSUME NEW t \in Toks, OtherTab(t) PROVE Distinct'
  BY <1>29, SessionAssumption
     DEF OtherTab, Issue, server, session, TypeOK, Sources, Distinct, CallType,
         RotationType, FlowType, Flows, Askers
<1>30. CASE UNCHANGED vars
  BY <1>30 DEF vars, TypeOK, Sources, Distinct, CallType, RotationType, FlowType, Flows, Askers
<1> QED
  BY <1>2, <1>3, <1>4, <1>5, <1>6, <1>7, <1>8, <1>9, <1>10, <1>11, <1>12, <1>13, <1>14,
     <1>15, <1>16, <1>17, <1>18, <1>19, <1>20, <1>21, <1>22, <1>23, <1>24, <1>25, <1>26,
     <1>27, <1>28, <1>29, <1>30
     DEF Next, CallStep, RotationStep, LoginStep, HydrateStep, VerifyStep

LEMMA NobodyStep == TypeOK /\ NobodyForgotten /\ [Next]_vars => NobodyForgotten'
<1> SUFFICES ASSUME TypeOK /\ NobodyForgotten, [Next]_vars
             PROVE  NobodyForgotten'
  OBVIOUS
<1>1. ASSUME NEW c \in Calls, NEW k \in Kinds, Start(c, k) PROVE NobodyForgotten'
  BY <1>1 DEF Start, MayStart, CarriesCookie, server, session, TypeOK, NobodyForgotten,
         Waiting, CallType, RotationType, Askers
<1>2. ASSUME NEW c \in Calls, Answer(c) PROVE NobodyForgotten'
  BY <1>2 DEF Answer, Answered, EndCall, NoCall, server, session, TypeOK, NobodyForgotten,
         Waiting, CallType, RotationType, Askers
<1>3. ASSUME NEW c \in Calls, Fail(c) PROVE NobodyForgotten'
  BY <1>3 DEF Fail, EndCall, NoCall, server, session, TypeOK, NobodyForgotten, Waiting,
         CallType, RotationType, Askers
<1>4. ASSUME NEW c \in Calls, Unauthorized(c) PROVE NobodyForgotten'
  BY <1>4 DEF Unauthorized, IsUnauthorized, Wait, Ask, EndCall, NoCall, server, session,
         TypeOK, NobodyForgotten, Waiting, CallType, RotationType, Askers
<1>5. ASSUME NEW c \in Calls, RetryAnswer(c) PROVE NobodyForgotten'
  BY <1>5 DEF RetryAnswer, Answered, EndCall, NoCall, server, session, TypeOK, NobodyForgotten,
         Waiting, CallType, RotationType, Askers
<1>6. ASSUME NEW c \in Calls, RetryFails(c) PROVE NobodyForgotten'
  BY <1>6 DEF RetryFails, EndCall, NoCall, server, session, TypeOK, NobodyForgotten, Waiting,
         CallType, RotationType, Askers
<1>7. ASSUME NEW r \in Askers, Deny(r) PROVE NobodyForgotten'
  BY <1>7 DEF Deny, NoRotation, server, session, TypeOK, NobodyForgotten, Waiting, CallType,
         RotationType, Askers
<1>8. ASSUME NEW r \in Askers, NEW t \in Toks, Grant(r, t) PROVE NobodyForgotten'
  BY <1>8 DEF Grant, Issue, server, session, TypeOK, NobodyForgotten, Waiting, CallType,
         RotationType, Askers
<1>9. CASE Renewed
  BY <1>9, RenewedCalls
     DEF Renewed, Settle, NoRotation, TypeOK, NobodyForgotten, Waiting, RotationType,
         Askers
<1>10. CASE RenewalFailed
  BY <1>10 DEF RenewalFailed, Settle, NoRotation, NoCall, Waiting, server, session, TypeOK,
         NobodyForgotten, Waiting, CallType, RotationType, Askers
<1>11. ASSUME NEW u \in Users, Login(u) PROVE NobodyForgotten'
  BY <1>11 DEF Login, Go, server, session, TypeOK, NobodyForgotten, Waiting, CallType,
         RotationType, Askers
<1>12. CASE Registered
  BY <1>12 DEF Registered, Go, server, session, TypeOK, NobodyForgotten, Waiting, CallType,
         RotationType, Askers
<1>13. CASE LoginFails
  BY <1>13 DEF LoginFails, Go, server, session, TypeOK, NobodyForgotten, Waiting, CallType,
         RotationType, Askers
<1>14. ASSUME NEW t \in Toks, LoginAnswer(t) PROVE NobodyForgotten'
  BY <1>14 DEF LoginAnswer, Go, Issue, SignedIn, server, session, TypeOK, NobodyForgotten,
         Waiting, CallType, RotationType, Askers
<1>15. CASE Logout
  BY <1>15 DEF Logout, Go, server, session, TypeOK, NobodyForgotten, Waiting, CallType,
         RotationType, Askers
<1>16. CASE LogoutAnswer
  BY <1>16 DEF LogoutAnswer, Go, server, session, TypeOK, NobodyForgotten, Waiting, CallType,
         RotationType, Askers
<1>17. CASE Hydrate
  BY <1>17 DEF Hydrate, Go, Ask, server, session, TypeOK, NobodyForgotten, Waiting, CallType,
         RotationType, Askers
<1>18. ASSUME NEW f \in {"hydrate", "verify"}, Rotated(f) PROVE NobodyForgotten'
  BY <1>18 DEF Rotated, Go, Settle, NoRotation, server, session, TypeOK, NobodyForgotten,
         Waiting, CallType, RotationType, Askers
<1>19. ASSUME NEW f \in {"hydrate", "verify"}, RotatedMe(f) PROVE NobodyForgotten'
  BY <1>19 DEF RotatedMe, Go, server, session, TypeOK, NobodyForgotten, Waiting, CallType,
         RotationType, Askers
<1>20. CASE HydrateFails
  BY <1>20 DEF HydrateFails, Go, Settle, NoRotation, server, session, TypeOK, NobodyForgotten,
         Waiting, CallType, RotationType, Askers
<1>21. CASE Verify
  BY <1>21 DEF Verify, Go, server, session, TypeOK, NobodyForgotten, Waiting, CallType,
         RotationType, Askers
<1>22. CASE VerifyAnswer
  BY <1>22 DEF VerifyAnswer, Go, Ask, server, session, TypeOK, NobodyForgotten, Waiting,
         CallType, RotationType, Askers
<1>23. CASE VerifyFails
  BY <1>23 DEF VerifyFails, Go, Settle, NoRotation, server, session, TypeOK, NobodyForgotten,
         Waiting, CallType, RotationType, Askers
<1>24. ASSUME NEW p \in Pages, NEW u \in Users, Reload(p, u) PROVE NobodyForgotten'
  BY <1>24 DEF Reload, Load, Loading, NoCall, NoRotation, NoFlow, server, session, TypeOK,
         NobodyForgotten, Waiting, CallType, RotationType, Askers
<1>25. ASSUME NEW p \in Pages, Navigate(p) PROVE NobodyForgotten'
  BY <1>25 DEF Navigate, server, session, TypeOK, NobodyForgotten, Waiting, CallType,
         RotationType, Askers
<1>26. ASSUME NEW t \in Toks, Expire(t) PROVE NobodyForgotten'
  BY <1>26 DEF Expire, server, session, TypeOK, NobodyForgotten, Waiting, CallType,
         RotationType, Askers
<1>27. ASSUME NEW t \in Toks, Revoke(t) PROVE NobodyForgotten'
  BY <1>27 DEF Revoke, server, session, TypeOK, NobodyForgotten, Waiting, CallType,
         RotationType, Askers
<1>28. ASSUME NEW t \in Toks, OtherTab(t) PROVE NobodyForgotten'
  BY <1>28 DEF OtherTab, Issue, server, session, TypeOK, NobodyForgotten, Waiting, CallType,
         RotationType, Askers
<1>29. CASE UNCHANGED vars
  BY <1>29 DEF vars, TypeOK, NobodyForgotten, Waiting, CallType, RotationType, Askers
<1> QED
  BY <1>1, <1>2, <1>3, <1>4, <1>5, <1>6, <1>7, <1>8, <1>9, <1>10, <1>11, <1>12, <1>13,
     <1>14, <1>15, <1>16, <1>17, <1>18, <1>19, <1>20, <1>21, <1>22, <1>23, <1>24, <1>25,
     <1>26, <1>27, <1>28, <1>29
     DEF Next, CallStep, RotationStep, LoginStep, HydrateStep, VerifyStep

LEMMA InvStep == IInv /\ [Next]_vars => IInv'
  BY TypeStep, DistinctStep, NobodyStep DEF IInv

\* Types are right, whoever holds a token holds an issued one, and no call is forgotten.
LEMMA Invariance == Spec => []IInv
<1>1. Init => IInv
  BY InitOK
<1>2. IInv /\ [Next]_vars => IInv'
  BY InvStep
<1> QED
  BY <1>1, <1>2, PTL DEF Spec

\* The variables hold what authStore.ts, client.ts and the server may put there.
THEOREM TypeCorrect == Spec => []TypeOK
<1>1. IInv => TypeOK
  BY DEF IInv
<1> QED
  BY <1>1, Invariance, PTL

-----------------------------------------------------------------------------
(* The refinement: phases and tokens of calls.                             *)

LEMMA EndFinishes ==
  ASSUME TypeOK, NEW c \in Calls, call[c].pc \in {"sent", "retried"}, EndCall(c)
  PROVE  Abstract!Finish(c)
  BY DEF EndCall, NoCall, TypeOK, Abstract!Finish, Abstract!End, Phase

LEMMA SameCalls == UNCHANGED call => UNCHANGED Abstract!vars
  BY DEF Abstract!vars

LEMMA AbstractStep == IInv /\ [Next]_vars => [Abstract!Next]_Abstract!vars
<1> SUFFICES ASSUME IInv, [Next]_vars
             PROVE  [Abstract!Next]_Abstract!vars
  OBVIOUS
<1> USE DEF IInv
<1>1. ASSUME NEW c \in Calls, NEW k \in Kinds, Start(c, k) PROVE [Abstract!Next]_Abstract!vars
  <2> DEFINE q == [pc |-> "sent", kind |-> k, token |-> accessToken,
                   body |-> IF CarriesCookie(k) THEN cookie ELSE None]
  <2>1. call[c].pc = "idle" /\ accessToken \in Toks /\ call' = [call EXCEPT ![c] = q]
    BY <1>1 DEF Start, MayStart, TypeOK
  <2>2. q.pc = "sent" /\ q.token = accessToken
    OBVIOUS
  <2> HIDE DEF q
  <2>3. call'[c] = q /\ \A d \in Calls : d # c => call'[d] = call[d]
    BY <2>1 DEF TypeOK
  <2>4. PICK v \in Toks : v = accessToken
    BY <2>1
  <2>5. /\ Phase(call[c].pc) = "idle" /\ Phase(call'[c].pc) = "sent"
        /\ \A d \in Calls : d # c => Phase(call'[d].pc) = Phase(call[d].pc)
    BY <2>1, <2>2, <2>3 DEF Phase
  <2>6. [d \in Calls |-> Phase(call[d].pc)]' = [[d \in Calls |-> Phase(call[d].pc)] EXCEPT ![c] = "sent"]
    BY <2>5
  <2>7. [d \in Calls |-> call[d].token]' = [[d \in Calls |-> call[d].token] EXCEPT ![c] = v]
    BY <2>2, <2>3, <2>4
  <2>8. Abstract!Send(c, v)
    BY <2>5, <2>6, <2>7 DEF Abstract!Send
  <2> QED
    BY <2>8 DEF Abstract!Next
<1>2. ASSUME NEW c \in Calls, Answer(c) PROVE [Abstract!Next]_Abstract!vars
  BY <1>2, EndFinishes DEF Answer, Answered, Abstract!Next
<1>3. ASSUME NEW c \in Calls, Fail(c) PROVE [Abstract!Next]_Abstract!vars
  BY <1>3, EndFinishes DEF Fail, Abstract!Next
<1>4. ASSUME NEW c \in Calls, Unauthorized(c) PROVE [Abstract!Next]_Abstract!vars
  <2>1. call[c].pc = "sent" /\ (EndCall(c) \/ Wait(c))
    BY <1>4 DEF Unauthorized, IsUnauthorized
  <2>2. CASE EndCall(c)
    BY <2>1, <2>2, EndFinishes DEF Abstract!Next
  <2>3. CASE Wait(c)
    BY <2>1, <2>3 DEF Wait, TypeOK, CallType, Phase, Abstract!Next, Abstract!Hold
  <2> QED
    BY <2>1, <2>2, <2>3
<1>5. ASSUME NEW c \in Calls, RetryAnswer(c) PROVE [Abstract!Next]_Abstract!vars
  BY <1>5, EndFinishes DEF RetryAnswer, Answered, Abstract!Next
<1>6. ASSUME NEW c \in Calls, RetryFails(c) PROVE [Abstract!Next]_Abstract!vars
  BY <1>6, EndFinishes DEF RetryFails, Abstract!Next
<1>7. ASSUME NEW r \in Askers, Deny(r) PROVE [Abstract!Next]_Abstract!vars
  BY <1>7, SameCalls DEF Deny
<1>8. ASSUME NEW r \in Askers, NEW t \in Toks, Grant(r, t) PROVE [Abstract!Next]_Abstract!vars
  BY <1>8, SameCalls DEF Grant
<1>9. CASE Renewed
  <2>1. "shared" \in Askers /\ rotation["shared"].st = "granted"
    BY <1>9 DEF Renewed, Askers
  <2>2. PICK t \in Toks : t = rotation["shared"].got
    BY <2>1 DEF TypeOK, Sources
  <2>3. Abstract!Held = Waiting
    BY DEF Abstract!Held, Waiting, TypeOK, CallType, Phase
  <2>4. Waiting # {}
    BY <2>1 DEF NobodyForgotten
  <2>5. \A c \in Waiting : call[c].token # t
    BY <2>1, <2>2 DEF Distinct, Waiting
  <2>6. ASSUME NEW c \in Calls
        PROVE  IF c \in Waiting THEN Phase(call'[c].pc) = "again" /\ call'[c].token = t
                                ELSE call'[c] = call[c]
    BY <1>9, <2>2, RenewedCalls DEF Phase, Waiting
  <2>7. /\ [c \in Calls |-> Phase(call[c].pc)]'
              = [c \in Calls |-> IF c \in Abstract!Held THEN "again"
                                 ELSE [d \in Calls |-> Phase(call[d].pc)][c]]
        /\ [c \in Calls |-> call[c].token]'
              = [c \in Calls |-> IF c \in Abstract!Held THEN t
                                 ELSE [d \in Calls |-> call[d].token][c]]
    BY <2>3, <2>6
  <2>8. Abstract!Renew(t)
    <3>1. \A c \in Abstract!Held : [d \in Calls |-> call[d].token][c] # t
      BY <2>3, <2>5 DEF Waiting
    <3> QED
      BY <2>3, <2>4, <2>7, <3>1 DEF Abstract!Renew
  <2> QED
    BY <2>8 DEF Abstract!Next
<1>10. CASE RenewalFailed
  <2>1. Abstract!Held = Waiting
    BY DEF Abstract!Held, Waiting, TypeOK, CallType, Phase
  <2>2. Waiting # {}
    BY <1>10 DEF RenewalFailed, NobodyForgotten
  <2>3. call' = [c \in Calls |-> IF c \in Waiting THEN NoCall ELSE call[c]]
    BY <1>10 DEF RenewalFailed
  <2>4. Abstract!GiveUp
    BY <2>1, <2>2, <2>3 DEF Abstract!GiveUp, Abstract!End, Phase, NoCall
  <2> QED
    BY <2>4 DEF Abstract!Next
<1>11. ASSUME NEW u \in Users, Login(u) PROVE [Abstract!Next]_Abstract!vars
  BY <1>11, SameCalls DEF Login
<1>12. CASE Registered
  BY <1>12, SameCalls DEF Registered
<1>13. CASE LoginFails
  BY <1>13, SameCalls DEF LoginFails
<1>14. ASSUME NEW t \in Toks, LoginAnswer(t) PROVE [Abstract!Next]_Abstract!vars
  BY <1>14, SameCalls DEF LoginAnswer
<1>15. CASE Logout
  BY <1>15, SameCalls DEF Logout
<1>16. CASE LogoutAnswer
  BY <1>16, SameCalls DEF LogoutAnswer
<1>17. CASE Hydrate
  BY <1>17, SameCalls DEF Hydrate
<1>18. ASSUME NEW f \in {"hydrate", "verify"}, Rotated(f) PROVE [Abstract!Next]_Abstract!vars
  BY <1>18, SameCalls DEF Rotated
<1>19. ASSUME NEW f \in {"hydrate", "verify"}, RotatedMe(f) PROVE [Abstract!Next]_Abstract!vars
  BY <1>19, SameCalls DEF RotatedMe
<1>20. CASE HydrateFails
  BY <1>20, SameCalls DEF HydrateFails
<1>21. CASE Verify
  BY <1>21, SameCalls DEF Verify
<1>22. CASE VerifyAnswer
  BY <1>22, SameCalls DEF VerifyAnswer
<1>23. CASE VerifyFails
  BY <1>23, SameCalls DEF VerifyFails
<1>24. ASSUME NEW p \in Pages, NEW u \in Users, Reload(p, u) PROVE [Abstract!Next]_Abstract!vars
  BY <1>24 DEF Reload, Load, NoCall, Phase, Abstract!Next, Abstract!Leave, Abstract!End
<1>25. ASSUME NEW p \in Pages, Navigate(p) PROVE [Abstract!Next]_Abstract!vars
  BY <1>25, SameCalls DEF Navigate
<1>26. ASSUME NEW t \in Toks, Expire(t) PROVE [Abstract!Next]_Abstract!vars
  BY <1>26, SameCalls DEF Expire
<1>27. ASSUME NEW t \in Toks, Revoke(t) PROVE [Abstract!Next]_Abstract!vars
  BY <1>27, SameCalls DEF Revoke
<1>28. ASSUME NEW t \in Toks, OtherTab(t) PROVE [Abstract!Next]_Abstract!vars
  BY <1>28, SameCalls DEF OtherTab
<1>29. CASE UNCHANGED vars
  BY <1>29, SameCalls DEF vars
<1> QED
  BY <1>1, <1>2, <1>3, <1>4, <1>5, <1>6, <1>7, <1>8, <1>9, <1>10, <1>11, <1>12, <1>13,
     <1>14, <1>15, <1>16, <1>17, <1>18, <1>19, <1>20, <1>21, <1>22, <1>23, <1>24, <1>25,
     <1>26, <1>27, <1>28, <1>29
     DEF Next, CallStep, RotationStep, LoginStep, HydrateStep, VerifyStep

\* However many calls meet the end of an access token, they share one refresh: all that
\* wait are sent once more with its token, which none of them has tried, or all end, and
\* nothing waits for ever because nobody renews (client.ts: refreshPromise).
THEOREM ImplementsRenewals == Spec => RenewalsSpec
<1>1. Init => Abstract!Init
  BY DEF Init, Abstract!Init, NoCall, Phase
<1>2. IInv /\ [Next]_vars => [Abstract!Next]_Abstract!vars
  BY AbstractStep
<1> QED
  BY <1>1, <1>2, Invariance, PTL DEF Spec, RenewalsSpec, Abstract!Spec

-----------------------------------------------------------------------------
(* Who is signed in, and with what.                                        *)

\* While App waits for hydrate, nothing else has begun.
AloneWhileHydrating ==
    /\ rotation["hydrate"].st # "none" <=> flow["hydrate"].pc = "rotating"
    /\ flow["hydrate"].pc \in {"idle", "start", "rotating", "me"}
    /\ Hydrating =>
           /\ accessToken = None /\ ~overtaken
           /\ \A c \in Calls : call[c].pc = "idle"
           /\ rotation["shared"].st = "none" /\ rotation["verify"].st = "none"
           /\ flow["login"].pc = "idle" /\ flow["logout"].pc = "idle"
           /\ flow["verify"].pc \in {"idle", "start"}

LEMMA HydratingStep == TypeOK /\ AloneWhileHydrating /\ [Next]_vars => AloneWhileHydrating'
<1> SUFFICES ASSUME TypeOK /\ AloneWhileHydrating, [Next]_vars
             PROVE  AloneWhileHydrating'
  OBVIOUS
<1> USE DEF TypeOK, CallType, RotationType, FlowType, Flows, Askers, AloneWhileHydrating,
            Hydrating
<1>1. ASSUME NEW c \in Calls, NEW k \in Kinds, Start(c, k) PROVE AloneWhileHydrating'
  BY <1>1 DEF Start, MayStart, CarriesCookie, server, session
<1>2. ASSUME NEW c \in Calls, Answer(c) PROVE AloneWhileHydrating'
  BY <1>2 DEF Answer, Answered, EndCall, NoCall, server, session
<1>3. ASSUME NEW c \in Calls, Fail(c) PROVE AloneWhileHydrating'
  BY <1>3 DEF Fail, EndCall, NoCall, server, session
<1>4. ASSUME NEW c \in Calls, Unauthorized(c) PROVE AloneWhileHydrating'
  BY <1>4 DEF Unauthorized, IsUnauthorized, Wait, Ask, EndCall, NoCall, server, session
<1>5. ASSUME NEW c \in Calls, RetryAnswer(c) PROVE AloneWhileHydrating'
  BY <1>5 DEF RetryAnswer, Answered, EndCall, NoCall, server, session
<1>6. ASSUME NEW c \in Calls, RetryFails(c) PROVE AloneWhileHydrating'
  BY <1>6 DEF RetryFails, EndCall, NoCall, server, session
<1>7. ASSUME NEW r \in Askers, Deny(r) PROVE AloneWhileHydrating'
  BY <1>7 DEF Deny, NoRotation, server, session
<1>8. ASSUME NEW r \in Askers, NEW t \in Toks, Grant(r, t) PROVE AloneWhileHydrating'
  BY <1>8 DEF Grant, Issue, server, session
<1>9. CASE Renewed
  BY <1>9 DEF Renewed, Settle, NoRotation, Waiting, server, session
<1>10. CASE RenewalFailed
  BY <1>10 DEF RenewalFailed, Settle, NoRotation, NoCall, Waiting, server, session
<1>11. ASSUME NEW u \in Users, Login(u) PROVE AloneWhileHydrating'
  BY <1>11 DEF Login, Go, server, session
<1>12. CASE Registered
  BY <1>12 DEF Registered, Go, server, session
<1>13. CASE LoginFails
  BY <1>13 DEF LoginFails, Go, server, session
<1>14. ASSUME NEW t \in Toks, LoginAnswer(t) PROVE AloneWhileHydrating'
  BY <1>14 DEF LoginAnswer, Go, Issue, SignedIn, server, session
<1>15. CASE Logout
  BY <1>15 DEF Logout, Go, server, session
<1>16. CASE LogoutAnswer
  BY <1>16 DEF LogoutAnswer, Go, server, session
<1>17. CASE Hydrate
  BY <1>17 DEF Hydrate, Go, Ask, server, session
<1>18. ASSUME NEW f \in {"hydrate", "verify"}, Rotated(f) PROVE AloneWhileHydrating'
  BY <1>18 DEF Rotated, Go, Settle, NoRotation, server, session
<1>19. ASSUME NEW f \in {"hydrate", "verify"}, RotatedMe(f) PROVE AloneWhileHydrating'
  BY <1>19 DEF RotatedMe, Go, server, session
<1>20. CASE HydrateFails
  BY <1>20 DEF HydrateFails, Go, Settle, NoRotation, server, session
<1>21. CASE Verify
  BY <1>21 DEF Verify, Go, server, session
<1>22. CASE VerifyAnswer
  BY <1>22 DEF VerifyAnswer, Go, Ask, server, session
<1>23. CASE VerifyFails
  BY <1>23 DEF VerifyFails, Go, Settle, NoRotation, server, session
<1>24. ASSUME NEW p \in Pages, NEW u \in Users, Reload(p, u) PROVE AloneWhileHydrating'
  BY <1>24 DEF Reload, Load, Loading, NoCall, NoRotation, NoFlow, server, session
<1>25. ASSUME NEW p \in Pages, Navigate(p) PROVE AloneWhileHydrating'
  BY <1>25 DEF Navigate, server, session
<1>26. ASSUME NEW t \in Toks, Expire(t) PROVE AloneWhileHydrating'
  BY <1>26 DEF Expire, server, session
<1>27. ASSUME NEW t \in Toks, Revoke(t) PROVE AloneWhileHydrating'
  BY <1>27 DEF Revoke, server, session
<1>28. ASSUME NEW t \in Toks, OtherTab(t) PROVE AloneWhileHydrating'
  BY <1>28 DEF OtherTab, Issue, server, session
<1>29. CASE UNCHANGED vars
  BY <1>29 DEF vars
<1> HIDE DEF TypeOK, CallType, RotationType, FlowType, Flows, Askers, AloneWhileHydrating,
             Hydrating
<1> QED
  BY <1>1, <1>2, <1>3, <1>4, <1>5, <1>6, <1>7, <1>8, <1>9, <1>10, <1>11, <1>12, <1>13,
     <1>14, <1>15, <1>16, <1>17, <1>18, <1>19, <1>20, <1>21, <1>22, <1>23, <1>24, <1>25,
     <1>26, <1>27, <1>28, <1>29
     DEF Next, CallStep, RotationStep, LoginStep, HydrateStep, VerifyStep

\* Until a sign-out comes before an answer that writes the session: whatever may still
\* write it is of the user who is signed in, or of the cookie while App waits for hydrate.
OneOwner ==
    /\ accessToken = None <=> user = None
    /\ user # None => Owner[accessToken] = user /\ cookie # None /\ Owner[cookie] = user
    /\ user = None /\ cookie # None => Hydrating
    /\ \A r \in {"shared", "verify"} :
           /\ rotation[r].st = "sent" =>
                  user # None /\ rotation[r].sent # None /\ Owner[rotation[r].sent] = user
           /\ rotation[r].st = "granted" => user # None /\ Owner[rotation[r].got] = user
    /\ \A c \in Calls : call[c].pc # "idle" /\ call[c].kind \in {"me", "profile"} =>
           user # None /\ Owner[call[c].token] = user
    /\ flow["verify"].pc = "me" => user # None /\ Owner[flow["verify"].who] = user
    /\ flow["login"].pc # "idle" => user = None
    /\ rotation["hydrate"].st = "sent" =>
           /\ cookie # None /\ rotation["hydrate"].sent # None
           /\ Owner[rotation["hydrate"].sent] = Owner[cookie]
    /\ rotation["hydrate"].st = "granted" =>
           cookie # None /\ Owner[rotation["hydrate"].got] = Owner[cookie]
    /\ flow["hydrate"].pc = "me" => cookie # None /\ Owner[flow["hydrate"].who] = Owner[cookie]

Owners == ~overtaken => OneOwner

\* A sign-out that comes before no answer.
LEMMA SignedOutOwners ==
  ASSUME TypeOK, SignedOut, ~Hydrating'
  PROVE  Owners'
  BY DEF SignedOut, Writers, Owners, OneOwner, Hydrating, Askers, TypeOK

\* The continuation of a call, whichever attempt was answered.
LEMMA AnsweredOwners ==
  ASSUME IInv, AloneWhileHydrating, Owners, NEW c \in Calls, call[c].pc # "idle", Answered(c)
  PROVE  Owners'
<1>1. EndCall(c) /\ UNCHANGED <<issued, expired, scene, activated, rotation, flow>>
  BY DEF Answered
<1>2. /\ ~Hydrating'
      /\ \A d \in Calls : call'[d].pc # "idle" => call'[d] = call[d]
  BY <1>1 DEF EndCall, NoCall, IInv, TypeOK, AloneWhileHydrating, Hydrating
<1>3. CASE call[c].kind \in {"me", "profile"}
  <2>1. user' = Owner[call[c].token] /\ UNCHANGED <<cookie, accessToken, overtaken>>
    BY <1>3 DEF Answered
  <2>2. ~overtaken => user' = user
    BY <1>3, <2>1 DEF Owners, OneOwner
  <2> QED
    BY <1>1, <1>2, <2>1, <2>2 DEF Owners, OneOwner, Hydrating
<1>4. CASE call[c].kind = "delete"
  BY <1>2, <1>4, SignedOutOwners DEF Answered, IInv
<1>5. CASE call[c].kind \in {"get", "password", "resend"}
  <2>1. UNCHANGED <<session, overtaken>>
    BY <1>5 DEF Answered, session
  <2> QED
    BY <1>1, <1>2, <2>1 DEF session, Owners, OneOwner, Hydrating
<1> QED
  BY <1>3, <1>4, <1>5 DEF IInv, TypeOK, CallType, AllKinds

LEMMA OwnersStep == IInv /\ AloneWhileHydrating /\ Owners /\ [Next]_vars => Owners'
<1> SUFFICES ASSUME IInv /\ AloneWhileHydrating /\ Owners, [Next]_vars
             PROVE  Owners'
  OBVIOUS
<1> USE SessionAssumption DEF IInv, Sources, TypeOK, CallType, RotationType, FlowType,
                              Flows, Askers, AloneWhileHydrating, Hydrating, Owners,
                              OneOwner
<1>1. ASSUME NEW c \in Calls, NEW k \in Kinds, Start(c, k) PROVE Owners'
  BY <1>1 DEF Start, MayStart, CarriesCookie, server, session
<1>2. ASSUME NEW c \in Calls, Answer(c) PROVE Owners'
  BY <1>2, AnsweredOwners DEF Answer
<1>3. ASSUME NEW c \in Calls, Fail(c) PROVE Owners'
  BY <1>3 DEF Fail, EndCall, NoCall, server, session
<1>4. ASSUME NEW c \in Calls, Unauthorized(c) PROVE Owners'
  <2>1. ~Hydrating' /\ call[c].pc = "sent"
    BY <1>4 DEF Unauthorized, IsUnauthorized
  <2>2. CASE SignedOut
    BY <2>1, <2>2, SignedOutOwners
  <2>3. CASE UNCHANGED <<session, overtaken>> /\ Wait(c) /\ UNCHANGED rotation
    BY <1>4, <2>3 DEF Unauthorized, IsUnauthorized, Wait, session
  <2>4. CASE UNCHANGED <<session, overtaken>> /\ Wait(c) /\ Ask("shared") /\ cookie # None
    BY <1>4, <2>1, <2>4 DEF Unauthorized, IsUnauthorized, Wait, Ask, session
  <2> QED
    BY <1>4, <2>2, <2>3, <2>4 DEF Unauthorized
<1>5. ASSUME NEW c \in Calls, RetryAnswer(c) PROVE Owners'
  BY <1>5, AnsweredOwners DEF RetryAnswer
<1>6. ASSUME NEW c \in Calls, RetryFails(c) PROVE Owners'
  <2>1. ~Hydrating'
    BY <1>6 DEF RetryFails
  <2> QED
    BY <1>6, <2>1, SignedOutOwners DEF RetryFails
<1>7. ASSUME NEW r \in Askers, Deny(r) PROVE Owners'
  BY <1>7 DEF Deny, NoRotation, server, session
<1>8. ASSUME NEW r \in Askers, NEW t \in Toks, Grant(r, t) PROVE Owners'
  BY <1>8 DEF Grant, Issue, server, session
<1>9. CASE Renewed
  <2>1. /\ rotation' = [rotation EXCEPT !["shared"] = NoRotation]
        /\ cookie' = rotation["shared"].got /\ accessToken' = cookie'
        /\ UNCHANGED <<user, flow, overtaken>>
    BY <1>9 DEF Renewed, Settle
  <2>2. ASSUME NEW c \in Calls PROVE
          /\ call'[c].pc # "idle" => call[c].pc # "idle"
          /\ call'[c].kind = call[c].kind
          /\ call'[c].token \in {call[c].token, rotation["shared"].got}
    BY <1>9, RenewedCalls
  <2>3. ~overtaken => user # None /\ Owner[cookie'] = user /\ cookie' # None
    BY <1>9, <2>1 DEF Renewed, Sources
  <2> QED
    BY <1>9, <2>1, <2>2, <2>3 DEF NoRotation
<1>10. CASE RenewalFailed
  <2>1. ~Hydrating'
    BY <1>10 DEF RenewalFailed
  <2> QED
    BY <1>10, <2>1, SignedOutOwners DEF RenewalFailed
<1>11. ASSUME NEW u \in Users, Login(u) PROVE Owners'
  BY <1>11 DEF Login, Go, server, session
<1>12. CASE Registered
  BY <1>12 DEF Registered, Go, server, session
<1>13. CASE LoginFails
  BY <1>13 DEF LoginFails, Go, server, session
<1>14. ASSUME NEW t \in Toks, LoginAnswer(t) PROVE Owners'
  BY <1>14 DEF LoginAnswer, Go, Issue, SignedIn, server, session
<1>15. CASE Logout
  BY <1>15 DEF Logout, Go, server, session
<1>16. CASE LogoutAnswer
  <2>1. ~Hydrating'
    BY <1>16 DEF LogoutAnswer, Go
  <2> QED
    BY <1>16, <2>1, SignedOutOwners DEF LogoutAnswer
<1>17. CASE Hydrate
  BY <1>17 DEF Hydrate, Go, Ask, server, session
<1>18. ASSUME NEW f \in {"hydrate", "verify"}, Rotated(f) PROVE Owners'
  BY <1>18 DEF Rotated, Go, Settle, NoRotation, server, session
<1>19. ASSUME NEW f \in {"hydrate", "verify"}, RotatedMe(f) PROVE Owners'
  BY <1>19 DEF RotatedMe, Go, server, session
<1>20. CASE HydrateFails
  <2>1. ~Hydrating'
    BY <1>20 DEF HydrateFails, Go
  <2> QED
    BY <1>20, <2>1, SignedOutOwners DEF HydrateFails
<1>21. CASE Verify
  BY <1>21 DEF Verify, Go, server, session
<1>22. CASE VerifyAnswer
  BY <1>22 DEF VerifyAnswer, Go, Ask, server, session
<1>23. CASE VerifyFails
  BY <1>23 DEF VerifyFails, Go, Settle, NoRotation, server, session
<1>24. ASSUME NEW p \in Pages, NEW u \in Users, Reload(p, u) PROVE Owners'
  BY <1>24 DEF Reload, Load, Loading, NoCall, NoRotation, NoFlow, server, session
<1>25. ASSUME NEW p \in Pages, Navigate(p) PROVE Owners'
  BY <1>25 DEF Navigate, server, session
<1>26. ASSUME NEW t \in Toks, Expire(t) PROVE Owners'
  BY <1>26 DEF Expire, server, session
<1>27. ASSUME NEW t \in Toks, Revoke(t) PROVE Owners'
  BY <1>27 DEF Revoke, server, session
<1>28. ASSUME NEW t \in Toks, OtherTab(t) PROVE Owners'
  BY <1>28 DEF OtherTab, Issue, server, session
<1>29. CASE UNCHANGED vars
  BY <1>29 DEF vars
<1> HIDE DEF IInv, Sources, TypeOK, CallType, RotationType, FlowType, Flows, Askers,
             AloneWhileHydrating, Hydrating, Owners, OneOwner
<1> QED
  BY <1>1, <1>2, <1>3, <1>4, <1>5, <1>6, <1>7, <1>8, <1>9, <1>10, <1>11, <1>12, <1>13,
     <1>14, <1>15, <1>16, <1>17, <1>18, <1>19, <1>20, <1>21, <1>22, <1>23, <1>24, <1>25,
     <1>26, <1>27, <1>28, <1>29
     DEF Next, CallStep, RotationStep, LoginStep, HydrateStep, VerifyStep

-----------------------------------------------------------------------------
(* Nothing but time happens.                                               *)

\* A pair just granted is not in the cookie, and nobody has sent it.
Unseen ==
    /\ cookie \in issued \cup {None}
    /\ flow["logout"].who \in issued \cup {None}
    /\ \A r \in Askers : rotation[r].sent \in issued \cup {None}
    /\ \A r \in Askers : rotation[r].st = "granted" =>
           /\ rotation[r].got \notin {cookie, flow["logout"].who}
           /\ \A q \in Askers : rotation[q].sent # rotation[r].got

\* What a 401 does.
LEMMA UnauthorizedDoes ==
  ASSUME TypeOK, NEW c \in Calls, Unauthorized(c)
  PROVE  /\ call[c].pc = "sent" /\ UNCHANGED <<server, expired, scene, flow>>
         /\ \A d \in Calls : call'[d].pc # "idle" =>
                /\ call[d].pc # "idle" /\ call'[d].kind = call[d].kind
                /\ call'[d].token = call[d].token
                /\ call'[d].pc = "retried" => call[d].pc = "retried"
         /\ \/ UNCHANGED <<rotation, session, page, overtaken>>
            \/ /\ Ask("shared") /\ cookie # None /\ rotation["shared"].st = "none"
               /\ UNCHANGED <<session, page, overtaken>>
            \/ UNCHANGED rotation /\ cookie = None /\ SignedOut
  BY DEF Unauthorized, IsUnauthorized, Wait, EndCall, NoCall, TypeOK, CallType

\* What the answer to a refresh does.
LEMMA GrantDoes ==
  ASSUME TypeOK, NEW r \in Askers, NEW t \in Toks, Grant(r, t)
  PROVE  /\ rotation[r].st = "sent" /\ rotation[r].sent \in live
         /\ rotation'[r].st = "granted" /\ rotation'[r].got = t
         /\ rotation'[r].sent = rotation[r].sent
         /\ \A q \in Askers : q # r => rotation'[q] = rotation[q]
  BY DEF Grant, TypeOK, RotationType

LEMMA AnsweredUnseen ==
  ASSUME IInv, Unseen, NEW c \in Calls, Answered(c)
  PROVE  Unseen'
<1>1. UNCHANGED <<issued, rotation, flow>> /\ cookie' \in {cookie, None}
  BY DEF Answered, SignedOut, session
<1>2. \A r \in Askers : rotation[r].st = "granted" => rotation[r].got # None
  BY SessionAssumption DEF IInv, TypeOK, Sources
<1> QED
  BY <1>1, <1>2 DEF Unseen

LEMMA UnseenStep == IInv /\ Unseen /\ [Next]_vars => Unseen'
<1> SUFFICES ASSUME IInv /\ Unseen, [Next]_vars
             PROVE  Unseen'
  OBVIOUS
<1> USE SessionAssumption DEF IInv, Sources, Distinct, TypeOK, CallType, RotationType,
                              FlowType, Flows, Askers, Unseen
<1>1. \A r \in Askers : rotation[r].st = "granted" => rotation[r].got # None
  OBVIOUS
<1>2. ASSUME NEW c \in Calls, NEW k \in Kinds, Start(c, k) PROVE Unseen'
  BY <1>2 DEF Start, MayStart, CarriesCookie, server, session
<1>3. ASSUME NEW c \in Calls, Answer(c) PROVE Unseen'
  BY <1>3, AnsweredUnseen DEF Answer
<1>4. ASSUME NEW c \in Calls, Fail(c) PROVE Unseen'
  BY <1>4 DEF Fail, EndCall, NoCall, server, session
<1>5. ASSUME NEW c \in Calls, Unauthorized(c) PROVE Unseen'
  <2>1. CASE UNCHANGED <<rotation, session, page, overtaken>>
    BY <1>5, <2>1, UnauthorizedDoes DEF session, server
  <2>2. CASE Ask("shared") /\ cookie # None /\ UNCHANGED <<session, page, overtaken>>
    BY <1>5, <2>2, UnauthorizedDoes DEF Ask, session, server
  <2>3. CASE UNCHANGED rotation /\ cookie = None /\ SignedOut
    BY <1>5, <2>3, <1>1, UnauthorizedDoes DEF SignedOut, server
  <2> QED
    BY <1>5, <2>1, <2>2, <2>3, UnauthorizedDoes
<1>6. ASSUME NEW c \in Calls, RetryAnswer(c) PROVE Unseen'
  BY <1>6, AnsweredUnseen DEF RetryAnswer
<1>7. ASSUME NEW c \in Calls, RetryFails(c) PROVE Unseen'
  BY <1>7, <1>1 DEF RetryFails, EndCall, NoCall, SignedOut, server
<1>8. ASSUME NEW r \in Askers, Deny(r) PROVE Unseen'
  BY <1>8 DEF Deny, NoRotation, server, session
<1>9. ASSUME NEW r \in Askers, NEW t \in Toks, Grant(r, t) PROVE Unseen'
  <2>1. t \notin issued /\ issued' = issued \cup {t} /\ UNCHANGED <<cookie, flow>>
    BY <1>9 DEF Grant, Issue, session
  <2> QED
    BY <1>9, <2>1, GrantDoes
<1>10. CASE Renewed
  <2>1. /\ rotation["shared"].st = "granted" /\ cookie' = rotation["shared"].got
        /\ \A r \in Askers : rotation'[r] = IF r = "shared" THEN NoRotation ELSE rotation[r]
        /\ flow' = flow /\ issued' = issued
    BY <1>10 DEF Renewed, Settle, server
  <2> QED
    BY <1>10, <2>1 DEF NoRotation
<1>11. CASE RenewalFailed
  BY <1>11, <1>1 DEF RenewalFailed, Settle, NoRotation, NoCall, Waiting, SignedOut, server
<1>12. ASSUME NEW u \in Users, Login(u) PROVE Unseen'
  BY <1>12 DEF Login, Go, server, session
<1>13. CASE Registered
  BY <1>13 DEF Registered, Go, server, session
<1>14. CASE LoginFails
  BY <1>14 DEF LoginFails, Go, server, session
<1>15. ASSUME NEW t \in Toks, LoginAnswer(t) PROVE Unseen'
  <2>1. /\ t \notin issued /\ issued' = issued \cup {t} /\ cookie' = t
        /\ flow'["logout"] = flow["logout"] /\ rotation' = rotation
    BY <1>15 DEF LoginAnswer, Issue, SignedIn, Go
  <2> QED
    BY <1>15, <2>1
<1>16. CASE Logout
  BY <1>16 DEF Logout, Go, server, session
<1>17. CASE LogoutAnswer
  BY <1>17, <1>1 DEF LogoutAnswer, Go, SignedOut
<1>18. CASE Hydrate
  BY <1>18 DEF Hydrate, Go, Ask, server, session
<1>19. ASSUME NEW f \in {"hydrate", "verify"}, Rotated(f) PROVE Unseen'
  <2>1. /\ rotation[f].st = "granted" /\ f \in Askers
        /\ \A r \in Askers : rotation'[r] = IF r = f THEN NoRotation ELSE rotation[r]
        /\ flow'["logout"] = flow["logout"] /\ issued' = issued /\ cookie' = rotation[f].got
    BY <1>19 DEF Rotated, Go, Settle, server
  <2> QED
    BY <1>19, <2>1 DEF NoRotation
<1>20. ASSUME NEW f \in {"hydrate", "verify"}, RotatedMe(f) PROVE Unseen'
  BY <1>20 DEF RotatedMe, Go, server, session
<1>21. CASE HydrateFails
  BY <1>21, <1>1 DEF HydrateFails, FlowFails, Settle, NoRotation, Go, SignedOut, server
<1>22. CASE Verify
  BY <1>22 DEF Verify, Go, server, session
<1>23. CASE VerifyAnswer
  BY <1>23 DEF VerifyAnswer, Go, Ask, server, session
<1>24. CASE VerifyFails
  BY <1>24 DEF VerifyFails, Go, Settle, NoRotation, server, session
<1>25. ASSUME NEW p \in Pages, NEW u \in Users, Reload(p, u) PROVE Unseen'
  BY <1>25 DEF Reload, Load, Loading, NoCall, NoRotation, NoFlow, server, session
<1>26. ASSUME NEW p \in Pages, Navigate(p) PROVE Unseen'
  BY <1>26 DEF Navigate, server, session
<1>27. ASSUME NEW t \in Toks, Expire(t) PROVE Unseen'
  BY <1>27 DEF Expire, server, session
<1>28. ASSUME NEW t \in Toks, Revoke(t) PROVE Unseen'
  BY <1>28 DEF Revoke, server, session
<1>29. ASSUME NEW t \in Toks, OtherTab(t) PROVE Unseen'
  BY <1>29 DEF OtherTab, Issue, server, session
<1>30. CASE UNCHANGED vars
  BY <1>30 DEF vars
<1> HIDE DEF IInv, Sources, Distinct, TypeOK, CallType, RotationType, FlowType, Flows,
             Askers, Unseen
<1> QED
  BY <1>2, <1>3, <1>4, <1>5, <1>6, <1>7, <1>8, <1>9, <1>10, <1>11, <1>12, <1>13, <1>14,
     <1>15, <1>16, <1>17, <1>18, <1>19, <1>20, <1>21, <1>22, <1>23, <1>24, <1>25, <1>26,
     <1>27, <1>28, <1>29, <1>30
     DEF Next, CallStep, RotationStep, LoginStep, HydrateStep, VerifyStep

\* What the cookie holds can be exchanged, or its exchange is under way and, unless
\* a log-out overtook it, cannot be refused; nothing that could end the session begins.
Undisturbed ==
    Calm =>
        /\ flow["verify"].pc = "idle" /\ rotation["verify"].st = "none"
        /\ \A c \in Calls : call[c].pc # "idle" => ~CarriesCookie(call[c].kind)
        /\ \A c \in Calls : call[c].pc = "retried" => call[c].token \notin expired
        /\ \A r \in Askers : rotation[r].st = "granted" => rotation[r].got \in live
        /\ cookie # None /\ (\A r \in Askers : rotation[r].st = "none") => cookie \in live
        /\ ~overtaken => \A r \in Askers :
               rotation[r].st # "failed" /\ (rotation[r].st = "sent" => rotation[r].sent \in live)

\* The continuation of a call that does not carry the cookie.
LEMMA AnsweredUndisturbed ==
  ASSUME IInv, Undisturbed, NEW c \in Calls, call[c].pc # "idle", Answered(c)
  PROVE  Undisturbed'
<1>1. EndCall(c) /\ UNCHANGED <<expired, scene, rotation, flow>>
  BY DEF Answered
<1>2. \A d \in Calls : call'[d].pc # "idle" => call'[d] = call[d]
  BY <1>1 DEF EndCall, NoCall, IInv, TypeOK
<1>3. Calm => UNCHANGED <<live, cookie, overtaken>>
  BY DEF Answered, Undisturbed, CarriesCookie, session
<1> QED
  BY <1>1, <1>2, <1>3 DEF Undisturbed, Calm

LEMMA UndisturbedStep ==
  IInv /\ AloneWhileHydrating /\ Unseen /\ Undisturbed /\ [Next]_vars => Undisturbed'
<1> SUFFICES ASSUME IInv /\ AloneWhileHydrating /\ Unseen /\ Undisturbed, [Next]_vars
             PROVE  Undisturbed'
  OBVIOUS
<1> USE SessionAssumption DEF IInv, Sources, Distinct, TypeOK, CallType, RotationType,
                              FlowType, Flows, Askers, Unseen, AloneWhileHydrating,
                              Hydrating, Undisturbed, Calm, CarriesCookie
<1>1. ASSUME NEW c \in Calls, NEW k \in Kinds, Start(c, k) PROVE Undisturbed'
  BY <1>1 DEF Start, MayStart, CarriesCookie, server, session
<1>2. ASSUME NEW c \in Calls, Answer(c) PROVE Undisturbed'
  BY <1>2, AnsweredUndisturbed DEF Answer
<1>3. ASSUME NEW c \in Calls, Fail(c) PROVE Undisturbed'
  BY <1>3 DEF Fail, EndCall, NoCall, server, session
<1>4. ASSUME NEW c \in Calls, Unauthorized(c) PROVE Undisturbed'
  <2> DEFINE Kept == \A d \in Calls : call'[d].pc # "idle" =>
                        /\ call[d].pc # "idle" /\ call'[d].kind = call[d].kind
                        /\ call'[d].token = call[d].token
                        /\ call'[d].pc = "retried" => call[d].pc = "retried"
  <2>1. Kept /\ UNCHANGED <<live, expired, scene, flow>>
    BY <1>4, UnauthorizedDoes DEF server
  <2>2. CASE UNCHANGED <<rotation, session, page, overtaken>>
    BY <2>1, <2>2 DEF session
  <2>3. CASE /\ Ask("shared") /\ cookie # None /\ rotation["shared"].st = "none"
             /\ UNCHANGED <<session, page, overtaken>>
    <3>1. ~Hydrating
      BY <1>4 DEF Unauthorized, IsUnauthorized
    <3>2. Calm => \A r \in Askers : rotation[r].st = "none"
      BY <2>3, <3>1
    <3>3. /\ cookie' = cookie /\ overtaken' = overtaken
          /\ \A r \in Askers : rotation'[r] =
                 IF r = "shared" THEN [st |-> "sent", sent |-> cookie, got |-> None] ELSE rotation[r]
      BY <2>3 DEF Ask, session
    <3> QED
      BY <2>1, <2>3, <3>1, <3>2, <3>3
  <2>4. CASE UNCHANGED rotation /\ cookie = None /\ SignedOut
    BY <2>1, <2>4 DEF SignedOut
  <2> QED
    BY <1>4, <2>2, <2>3, <2>4, UnauthorizedDoes
<1>5. ASSUME NEW c \in Calls, RetryAnswer(c) PROVE Undisturbed'
  BY <1>5, AnsweredUndisturbed DEF RetryAnswer
<1>6. ASSUME NEW c \in Calls, RetryFails(c) PROVE Undisturbed'
  BY <1>6 DEF RetryFails, EndCall, NoCall, SignedOut, server
<1>7. ASSUME NEW r \in Askers, Deny(r) PROVE Undisturbed'
  BY <1>7 DEF Deny, NoRotation, server, session
<1>8. ASSUME NEW r \in Askers, NEW t \in Toks, Grant(r, t) PROVE Undisturbed'
  <2>1. /\ t \notin issued /\ live' = (live \ {rotation[r].sent}) \cup {t}
        /\ UNCHANGED <<scene, flow, call, expired, cookie, overtaken>>
    BY <1>8 DEF Grant, Issue, session
  <2> QED
    BY <1>8, <2>1, GrantDoes
<1>9. CASE Renewed
  <2>1. /\ rotation["shared"].st = "granted" /\ cookie' = rotation["shared"].got
        /\ \A r \in Askers : rotation'[r] = IF r = "shared" THEN NoRotation ELSE rotation[r]
        /\ UNCHANGED <<live, flow, expired, scene, overtaken>>
    BY <1>9 DEF Renewed, Settle, server
  <2> QED
    BY <1>9, <2>1, RenewedCalls DEF NoRotation
<1>10. CASE RenewalFailed
  BY <1>10 DEF RenewalFailed, Settle, NoRotation, NoCall, Waiting, SignedOut, server
<1>11. ASSUME NEW u \in Users, Login(u) PROVE Undisturbed'
  BY <1>11 DEF Login, Go, server, session
<1>12. CASE Registered
  BY <1>12 DEF Registered, Go, server, session
<1>13. CASE LoginFails
  BY <1>13 DEF LoginFails, Go, server, session
<1>14. ASSUME NEW t \in Toks, LoginAnswer(t) PROVE Undisturbed'
  <2>1. /\ live' = live \cup {t} /\ cookie' = t
        /\ flow'["verify"] = flow["verify"] /\ UNCHANGED <<rotation, scene, call, expired, overtaken>>
    BY <1>14 DEF LoginAnswer, Issue, SignedIn, Go
  <2> QED
    BY <1>14, <2>1
<1>15. CASE Logout
  BY <1>15 DEF Logout, Go, server, session
<1>16. CASE LogoutAnswer
  BY <1>16 DEF LogoutAnswer, Go, SignedOut, Writers
<1>17. CASE Hydrate
  BY <1>17 DEF Hydrate, Go, Ask, server, session
<1>18. ASSUME NEW f \in {"hydrate", "verify"}, Rotated(f) PROVE Undisturbed'
  <2>1. /\ rotation[f].st = "granted" /\ f \in Askers
        /\ \A r \in Askers : rotation'[r] = IF r = f THEN NoRotation ELSE rotation[r]
        /\ flow["verify"].pc = "idle" => flow'["verify"] = flow["verify"]
        /\ cookie' = rotation[f].got /\ UNCHANGED <<live, scene, call, expired, overtaken>>
    BY <1>18 DEF Rotated, Go, Settle, server
  <2> QED
    BY <1>18, <2>1 DEF NoRotation
<1>19. ASSUME NEW f \in {"hydrate", "verify"}, RotatedMe(f) PROVE Undisturbed'
  BY <1>19 DEF RotatedMe, Go, server, session
<1>20. CASE HydrateFails
  BY <1>20 DEF HydrateFails, FlowFails, Settle, NoRotation, Go, SignedOut, server
<1>21. CASE Verify
  BY <1>21 DEF Verify, Go, server, session
<1>22. CASE VerifyAnswer
  BY <1>22 DEF VerifyAnswer, Go, Ask, server, session
<1>23. CASE VerifyFails
  BY <1>23 DEF VerifyFails, Go, Settle, NoRotation, server, session
<1>24. ASSUME NEW p \in Pages, NEW u \in Users, Reload(p, u) PROVE Undisturbed'
  BY <1>24 DEF Reload, Load, Loading, NoCall, NoRotation, NoFlow, server, session
<1>25. ASSUME NEW p \in Pages, Navigate(p) PROVE Undisturbed'
  BY <1>25 DEF Navigate, server, session
<1>26. ASSUME NEW t \in Toks, Expire(t) PROVE Undisturbed'
  BY <1>26 DEF Expire, server, session
<1>27. ASSUME NEW t \in Toks, Revoke(t) PROVE Undisturbed'
  BY <1>27 DEF Revoke, server, session
<1>28. ASSUME NEW t \in Toks, OtherTab(t) PROVE Undisturbed'
  BY <1>28 DEF OtherTab, Issue, server, session
<1>29. CASE UNCHANGED vars
  BY <1>29 DEF vars
<1> HIDE DEF IInv, Sources, Distinct, TypeOK, CallType, RotationType, FlowType, Flows,
             Askers, Unseen, AloneWhileHydrating, Hydrating, Undisturbed, Calm,
             CarriesCookie
<1> QED
  BY <1>1, <1>2, <1>3, <1>4, <1>5, <1>6, <1>7, <1>8, <1>9, <1>10, <1>11, <1>12, <1>13,
     <1>14, <1>15, <1>16, <1>17, <1>18, <1>19, <1>20, <1>21, <1>22, <1>23, <1>24, <1>25,
     <1>26, <1>27, <1>28, <1>29
     DEF Next, CallStep, RotationStep, LoginStep, HydrateStep, VerifyStep

\* The session ends without being overtaken, while nothing but time happens: that
\* is the answer to a log-out.
LEMMA EndsByLogout ==
  ASSUME IInv, AloneWhileHydrating, Owners, Undisturbed, Next,
         Calm, ~overtaken, accessToken # None, accessToken' = None
  PROVE  flow["logout"].pc = "sent"
<1> USE SessionAssumption DEF IInv, Sources, TypeOK, CallType, RotationType, FlowType,
                              Flows, Askers
<1>1. /\ ~Hydrating /\ cookie # None /\ \A r \in Askers : rotation[r].st # "failed"
      /\ \A c \in Calls : call[c].pc # "idle" => ~CarriesCookie(call[c].kind)
      /\ \A c \in Calls : call[c].pc = "retried" => call[c].token \notin expired
      /\ \A r \in Askers : rotation[r].st = "granted" => rotation[r].got # None
      /\ scene \subseteq {"expire"}
  BY DEF AloneWhileHydrating, Owners, OneOwner, Undisturbed, Calm
<1>2. ASSUME NEW c \in Calls, NEW k \in Kinds, Start(c, k) PROVE accessToken' # None
  BY <1>1, <1>2 DEF Start, session
<1>3. ASSUME NEW c \in Calls, Answer(c) PROVE accessToken' # None
  BY <1>1, <1>3 DEF Answer, Answered, CarriesCookie, session
<1>4. ASSUME NEW c \in Calls, Fail(c) PROVE accessToken' # None
  BY <1>1, <1>4 DEF Fail, session
<1>5. ASSUME NEW c \in Calls, Unauthorized(c) PROVE accessToken' # None
  BY <1>1, <1>5 DEF Unauthorized, session
<1>6. ASSUME NEW c \in Calls, RetryAnswer(c) PROVE accessToken' # None
  BY <1>1, <1>6 DEF RetryAnswer, Answered, CarriesCookie, session
<1>7. ASSUME NEW c \in Calls, RetryFails(c) PROVE accessToken' # None
  BY <1>1, <1>7 DEF RetryFails, Accepted, session
<1>8. ASSUME NEW r \in Askers, Deny(r) PROVE accessToken' # None
  BY <1>1, <1>8 DEF Deny, session
<1>9. ASSUME NEW r \in Askers, NEW t \in Toks, Grant(r, t) PROVE accessToken' # None
  BY <1>1, <1>9 DEF Grant, session
<1>10. ASSUME Renewed PROVE accessToken' # None
  BY <1>1, <1>10 DEF Renewed, session
<1>11. ASSUME RenewalFailed PROVE accessToken' # None
  BY <1>1, <1>11 DEF RenewalFailed, session
<1>12. ASSUME NEW u \in Users, Login(u) PROVE accessToken' # None
  BY <1>1, <1>12 DEF Login, session
<1>13. ASSUME Registered PROVE accessToken' # None
  BY <1>1, <1>13 DEF Registered, session
<1>14. ASSUME LoginFails PROVE accessToken' # None
  BY <1>1, <1>14 DEF LoginFails, session
<1>15. ASSUME NEW t \in Toks, LoginAnswer(t) PROVE accessToken' # None
  BY <1>1, <1>15 DEF LoginAnswer, SignedIn, session
<1>16. ASSUME Logout PROVE accessToken' # None
  BY <1>1, <1>16 DEF Logout, session
<1>17. ASSUME LogoutAnswer PROVE flow["logout"].pc = "sent"
  BY <1>1, <1>17 DEF LogoutAnswer, session
<1>18. ASSUME Hydrate PROVE accessToken' # None
  BY <1>1, <1>18 DEF Hydrate, session
<1>19. ASSUME NEW f \in {"hydrate", "verify"}, Rotated(f) PROVE accessToken' # None
  BY <1>1, <1>19 DEF Rotated, session
<1>20. ASSUME NEW f \in {"hydrate", "verify"}, RotatedMe(f) PROVE accessToken' # None
  BY <1>1, <1>20 DEF RotatedMe, session
<1>21. ASSUME HydrateFails PROVE accessToken' # None
  BY <1>1, <1>21 DEF HydrateFails, FlowFails, Hydrating, session
<1>22. ASSUME Verify PROVE accessToken' # None
  BY <1>1, <1>22 DEF Verify, session
<1>23. ASSUME VerifyAnswer PROVE accessToken' # None
  BY <1>1, <1>23 DEF VerifyAnswer, session
<1>24. ASSUME VerifyFails PROVE accessToken' # None
  BY <1>1, <1>24 DEF VerifyFails, session
<1>25. ASSUME NEW p \in Pages, NEW u \in Users, Reload(p, u) PROVE accessToken' # None
  BY <1>1, <1>25 DEF Reload, session
<1>26. ASSUME NEW p \in Pages, Navigate(p) PROVE accessToken' # None
  BY <1>1, <1>26 DEF Navigate, session
<1>27. ASSUME NEW t \in Toks, Expire(t) PROVE accessToken' # None
  BY <1>1, <1>27 DEF Expire, session
<1>28. ASSUME NEW t \in Toks, Revoke(t) PROVE accessToken' # None
  BY <1>1, <1>28 DEF Revoke, session
<1>29. ASSUME NEW t \in Toks, OtherTab(t) PROVE accessToken' # None
  BY <1>1, <1>29 DEF OtherTab, session
<1> QED
  BY <1>2, <1>3, <1>4, <1>5, <1>6, <1>7, <1>8, <1>9, <1>10, <1>11, <1>12, <1>13, <1>14,
     <1>15, <1>16, <1>17, <1>18, <1>19, <1>20, <1>21, <1>22, <1>23, <1>24, <1>25, <1>26,
     <1>27, <1>28, <1>29
     DEF Next, CallStep, RotationStep, LoginStep, HydrateStep, VerifyStep

-----------------------------------------------------------------------------
Owned == IInv /\ AloneWhileHydrating /\ Owners /\ Unseen /\ Undisturbed

LEMMA InitOwned == Init => Owned
<1> SUFFICES ASSUME Init PROVE Owned
  OBVIOUS
<1>1. IInv
  BY InitOK
<1>2. PICK u \in Users : flow = Loading(page, u)
  BY DEF Init
<1>3. flow["hydrate"].pc = "start" /\ flow["login"] = NoFlow /\ flow["logout"] = NoFlow
      /\ flow["verify"].pc \in {"idle", "start"}
      /\ ("verify" \notin scene => flow["verify"].pc = "idle")
  BY <1>2 DEF Init, Loading, Flows, NoFlow
<1> QED
  BY <1>1, <1>3, SessionAssumption
     DEF Init, Owned, NoCall, NoRotation, NoFlow, AloneWhileHydrating, Hydrating, Owners, OneOwner,
         Unseen, Undisturbed, Calm, Askers

LEMMA OwnedAlways == Spec => []Owned
<1>1. Owned /\ [Next]_vars => Owned'
  BY InvStep, HydratingStep, OwnersStep, UnseenStep, UndisturbedStep DEF Owned, IInv
<1> QED
  BY <1>1, InitOwned, PTL DEF Spec

\* Who is signed in, and with what, is one session.
THEOREM SessionIsOne == Spec => []OneSession
<1>1. Owned => OneSession
  BY DEF Owned, OneSession, OwnersAgree, CookieLive, Owners, OneOwner, Undisturbed
<1> QED
  BY <1>1, OwnedAlways, PTL

\* A session that nothing disturbs ends by a log-out only.
THEOREM OnlyUserSignsOut == Spec => SignedOutByUser
<1>1. Owned /\ [Next]_vars =>
        [Calm /\ ~overtaken /\ accessToken # None /\ accessToken' = None =>
             flow["logout"].pc = "sent"]_vars
  BY EndsByLogout DEF Owned
<1> QED
  BY <1>1, OwnedAlways, PTL DEF Spec, SignedOutByUser
============================================================================
