---------------------------- MODULE MCFavorites ----------------------------
(* A small instance of Favorites for TLC, and one of ListPages and one of    *)
(* Members beside it: a behaviour is of one of them.                        *)
EXTENDS Lists

CONSTANTS f1, f2, f3, u1, u2, t1, t2, t3, r1, r2, l1, l2, l3,
          e1, e2, e3, a1, a2, p1, p2, w1, w2, Which

VARIABLE which

all == <<which, vars, listVars, membersVars>>

MCOwner == [t \in Toks |-> IF t = t3 THEN u2 ELSE u1]
MCSectionOf == [e \in Entries |-> IF e = e3 THEN "directories" ELSE "files"]
MCRank      == [e \in Entries |-> IF e = e1 THEN 1 ELSE IF e = e2 THEN 2 ELSE 3]

\* Which user, token or slot it is makes no difference at the start.
MCInit == /\ Init /\ ListInit /\ MembersInit /\ which \in Which
          /\ accessToken \in {t1, None}
          /\ scene # "sessions" => favs[u2] = {}
          /\ scene = "sessions" => favs = [u \in Users |-> IF u = u1 THEN {f1} ELSE {f2}]
          /\ loads[l2].pc = "idle" /\ loads[l3].pc = "idle"
          /\ ask[a2] = NoAsk
          /\ which # "favorites" => scene = "waits" /\ favs[u1] = {}
          /\ which = "lists" /\ ~calm => there = {e1, e2} /\ answered = {}
          /\ which # "lists" => kind = "shared" /\ calm /\ there = {}
          /\ role[p1] = "viewer" /\ role[p2] \in {"viewer", NoRole}
          /\ which # "settings" => shared
          /\ ~shared \/ ~gentle => role[p2] = NoRole
          /\ which # "settings" \/ ~gentle => mayManage
          /\ which \notin {"settings", "search"} => gentle /\ role[p2] = NoRole

\* The pages of settings and UserSearch are not on the screen together.
MCNext == \/ which = "favorites" /\ Next /\ UNCHANGED <<which, listVars, membersVars>>
          \/ which = "lists" /\ ListNext /\ UNCHANGED <<which, vars, membersVars>>
          \/ /\ which \in {"settings", "search"}
             /\ MembersNext
             /\ IF which = "search" THEN UNCHANGED settingsVars ELSE UNCHANGED <<searchVars, inviteVars>>
             /\ UNCHANGED <<which, vars, listVars>>

MCSpec == /\ MCInit /\ [][MCNext]_all
          /\ \A l \in Loads : WF_loads(which = "favorites" /\ LoadStep(l))
          /\ \A k \in Asks : WF_ask(which = "lists" /\ AskStep(k))
          /\ \A w \in Works : WF_work(which \in {"settings", "search"} /\ WorkStep(w))

\* What has begun to load ends: isLoading of the store and of the pages.
LoadingsEnd == /\ which = "favorites" => LoadingEnds
               /\ which = "lists"     => ListLoadingEnds
               /\ which \in {"settings", "search"} => MembersEnd
=============================================================================
