----------------------------- MODULE Favorites -----------------------------
(***************************************************************************)
(* store/favoritesStore.ts and the pages that use it: the set of favorites *)
(* that the stars show, which only DashboardPage loads, the list that      *)
(* FavoritesPage loads for itself, the toggles of any page, which change   *)
(* the set before the server answers, and the toasts that undo them.       *)
(***************************************************************************)
EXTENDS Naturals, FiniteSets

CONSTANTS
    Files, Users, Toks, None,
    Owner,         \* whose access token it is
    Reqs, Loads,   \* bounds: toggles and loads under way
    Scenes         \* what a behaviour is about

ASSUME FavoritesAssumption ==
    /\ Owner \in [Toks -> Users]
    /\ None \notin Files \cup Toks \cup Loads
    /\ Scenes \subseteq {"waits", "fresh", "toggles", "sessions"}

VARIABLES
    favs,          \* the server: favorite_files
    accessToken,
    page,
    store,         \* favoriteIds, loadedToken, isLoading and inFlight
    listed,        \* files of FavoritesPage
    loads,
    toggles,
    offers,        \* toasts that offer to undo
    late,          \* a load outlived the session that asked for it
    forgotten,     \* favorites that were added once more, which failed
    scene

vars == <<favs, accessToken, page, store, listed, loads, toggles, offers, late, forgotten, scene>>

Pages    == {"login", "dashboard", "favorites", "directory", "file"}
NoLoad   == [pc |-> "idle", for |-> "store", token |-> None, answer |-> {}]
NoToggle == [pc |-> "idle", file |-> None, add |-> FALSE, from |-> "file", token |-> None,
             why |-> "click"]
EmptyStore == [ids |-> {}, loaded |-> None, isLoading |-> FALSE, inFlight |-> None]

TypeOK ==
    /\ favs \in [Users -> SUBSET Files]
    /\ accessToken \in Toks \cup {None} /\ page \in Pages
    /\ store \in [ids : SUBSET Files, loaded : Toks \cup {None}, isLoading : BOOLEAN,
                  inFlight : Loads \cup {None}]
    /\ listed \subseteq Files
    /\ loads \in [Loads -> [pc : {"idle", "asked", "answered"}, for : {"store", "page"},
                            token : Toks \cup {None}, answer : SUBSET Files]]
    /\ toggles \in [Reqs -> [pc : {"idle", "sent", "adding"}, file : Files \cup {None},
                             add : BOOLEAN, from : Pages, token : Toks \cup {None},
                             why : {"click", "undo", "upload"}]]
    /\ offers \subseteq [file : Files, from : Pages, added : BOOLEAN, token : Toks]
    /\ late \in BOOLEAN /\ forgotten \subseteq Files /\ scene \in Scenes

-----------------------------------------------------------------------------
Quiet   == /\ \A l \in Loads : loads[l].pc = "idle"
           /\ \A r \in Reqs : toggles[r].pc = "idle"
\* The user waits for answers, and is alone.
Patient == scene \in {"waits", "fresh"}
Ready   == Patient => Quiet
Mine    == favs[Owner[accessToken]]
Toggled(f) == \E r \in Reqs : toggles[r].pc # "idle" /\ toggles[r].file = f

-----------------------------------------------------------------------------
(* Loads.                                                                  *)

Ask(l, for, t) ==
    loads' = [loads EXCEPT ![l] = [pc |-> "asked", for |-> for, token |-> t, answer |-> {}]]

\* loadFavorites(t, force) of the store, which is st when it is called.
LoadStore(st, t, force) ==
    IF \/ ~force /\ st.loaded = t /\ ~st.isLoading
       \/ st.inFlight # None
    THEN store' = st /\ UNCHANGED loads
    ELSE \E l \in Loads :
             /\ loads[l].pc = "idle"
             /\ store' = [st EXCEPT !.isLoading = TRUE, !.inFlight = l]
             /\ Ask(l, "store", t)

\* loadFavorites of the page.
LoadPage(st, t) ==
    /\ \E l \in Loads : loads[l].pc = "idle" /\ Ask(l, "page", t)
    /\ store' = st

\* loadDashboardData, and refreshDashboard after a toggle.
LoadDashboard(st, t)    == LoadStore(st, t, FALSE)
RefreshDashboard(st, t) == LoadStore(st, t, TRUE)

\* What a page does about favorites when it is opened, or its token changes.
Mounted(p, st, t) ==
    CASE p = "dashboard" -> LoadDashboard(st, t)
      [] p = "favorites" -> LoadPage(st, t)
      [] OTHER           -> store' = st /\ UNCHANGED loads

\* The server reads, and its answer comes later.
Read(l) ==
    /\ loads[l].pc = "asked"
    /\ loads' = [loads EXCEPT ![l].pc = "answered", ![l].answer = favs[Owner[loads[l].token]]]
    /\ UNCHANGED <<favs, accessToken, page, store, listed, toggles, offers, late, forgotten, scene>>

\* The finally of a load of the store clears inFlight, whoever's it is.
Settled(st) == [st EXCEPT !.isLoading = FALSE, !.inFlight = None]

Loaded(l) ==
    LET q == loads[l] IN
    /\ q.pc = "answered"
    /\ IF q.for = "store"
       THEN /\ store' = Settled([store EXCEPT !.ids = q.answer, !.loaded = q.token])
            /\ forgotten' = {} /\ UNCHANGED listed
       ELSE listed' = q.answer /\ UNCHANGED <<store, forgotten>>
    /\ loads' = [loads EXCEPT ![l] = NoLoad]
    /\ UNCHANGED <<favs, accessToken, page, toggles, offers, late, scene>>

LoadFails(l) ==
    /\ loads[l].pc = "asked"
    /\ store' = IF loads[l].for = "store" THEN Settled(store) ELSE store
    /\ loads' = [loads EXCEPT ![l] = NoLoad]
    /\ UNCHANGED <<favs, accessToken, page, listed, toggles, offers, late, forgotten, scene>>

-----------------------------------------------------------------------------
(* Toggles.                                                                *)

\* toggleFavorite of the store: the set changes at once.
Flipped(f) == [store EXCEPT !.ids = IF f \in @ THEN @ \ {f} ELSE @ \cup {f}]
Send(r, f, from, t, why) ==
    toggles' = [toggles EXCEPT ![r] = [pc |-> "sent", file |-> f, add |-> f \notin store.ids,
                                       from |-> from, token |-> t, why |-> why]]

Free(r, f) == toggles[r].pc = "idle" /\ ~Toggled(f)

\* A star is clicked.
Toggles(r, f) ==
    /\ Free(r, f) /\ Ready
    /\ store' = Flipped(f) /\ Send(r, f, page, accessToken, "click")
    /\ UNCHANGED <<favs, accessToken, page, loads, offers, late, forgotten, scene>>

ToggleOnDashboard(r, f) == page = "dashboard" /\ Toggles(r, f) /\ UNCHANGED listed
ToggleInDirectory(r, f) == page = "directory" /\ Toggles(r, f) /\ UNCHANGED listed

\* MyLinksPage is alike: neither offers to undo.
ToggleOfFile(r, f) == page = "file" /\ Toggles(r, f) /\ UNCHANGED listed

\* FavoritesPage removes the file from its list before the answer.
ToggleListed(r, f) ==
    /\ page = "favorites" /\ f \in listed /\ Toggles(r, f)
    /\ listed' = listed \ {f}

Toggle(r, f) == \/ ToggleOnDashboard(r, f) \/ ToggleInDirectory(r, f)
                \/ ToggleOfFile(r, f) \/ ToggleListed(r, f)

\* A toast works once, wherever the user has gone; it keeps the token.
Undo(r, o) ==
    /\ Free(r, o.file) /\ Ready /\ o \in offers
    /\ store' = Flipped(o.file) /\ Send(r, o.file, o.from, o.token, "undo")
    /\ offers' = offers \ {o}
    /\ UNCHANGED <<favs, accessToken, page, listed, loads, late, forgotten, scene>>

Dismiss(o) ==
    /\ o \in offers /\ Ready
    /\ offers' = offers \ {o}
    /\ UNCHANGED <<favs, accessToken, page, store, listed, loads, toggles, late, forgotten, scene>>

\* GlobalDropZone on FavoritesPage: an uploaded file, which nobody has seen yet, is
\* added; then it is toggled, and the list loaded again without waiting.
Upload(r, f) ==
    /\ Free(r, f) /\ Ready /\ page = "favorites" /\ f \notin Mine /\ f \notin store.ids
    /\ \A o \in offers : o.file # f
    /\ toggles' = [toggles EXCEPT ![r] = [pc |-> "adding", file |-> f, add |-> TRUE,
                       from |-> "favorites", token |-> accessToken, why |-> "upload"]]
    /\ UNCHANGED <<favs, accessToken, page, store, listed, loads, offers, late, forgotten, scene>>

Added(r) ==
    LET q == toggles[r] IN
    /\ q.pc = "adding"
    /\ favs' = [favs EXCEPT ![Owner[q.token]] = @ \cup {q.file}]
    /\ Send(r, q.file, q.from, q.token, "upload")
    /\ IF page = "favorites" THEN LoadPage(Flipped(q.file), q.token)
                             ELSE store' = Flipped(q.file) /\ UNCHANGED loads
    /\ UNCHANGED <<accessToken, page, listed, offers, late, forgotten, scene>>

AddFails(r) ==
    /\ toggles[r].pc = "adding"
    /\ toggles' = [toggles EXCEPT ![r] = NoToggle]
    /\ UNCHANGED <<favs, accessToken, page, store, listed, loads, offers, late, forgotten, scene>>

Offer(q) == IF q.why # "click" \/ q.from \in {"file", "login"} THEN {}
            ELSE {[file |-> q.file, from |-> q.from, added |-> q.add, token |-> q.token]}

\* POST and DELETE do nothing to a file that is, or is not, a favorite already.
\* DashboardPage loads the store again; FavoritesPage appends what was undone.
Done(r) ==
    LET q == toggles[r] IN
    /\ q.pc = "sent"
    /\ favs' = [favs EXCEPT ![Owner[q.token]] =
                    IF q.add THEN @ \cup {q.file} ELSE @ \ {q.file}]
    /\ listed' = IF q.why = "undo" /\ q.from = "favorites" /\ page = "favorites"
                 THEN listed \cup {q.file} ELSE listed
    /\ IF q.from = "dashboard" THEN RefreshDashboard(store, q.token)
                               ELSE UNCHANGED <<store, loads>>
    /\ offers' = offers \cup Offer(q)
    /\ toggles' = [toggles EXCEPT ![r] = NoToggle]
    /\ UNCHANGED <<accessToken, page, late, forgotten, scene>>

\* Mutant: the arguments are swapped.
RolledBackToken(q) ==
    [store EXCEPT !.ids = IF q.add THEN @ \ {q.token} ELSE @ \cup {q.token}]

RolledBack(q) ==
    [store EXCEPT !.ids = IF q.add THEN @ \ {q.file} ELSE @ \cup {q.file}]

\* Mutant: the set is left as it was changed.
FailKeeps(r) ==
    LET q == toggles[r] IN
    /\ q.pc = "sent"
    /\ CASE q.from = "dashboard"                      -> RefreshDashboard(store, q.token)
         [] q.from = "favorites" /\ q.why = "click" -> LoadPage(store, q.token)
         [] OTHER                                    -> UNCHANGED <<store, loads>>
    /\ toggles' = [toggles EXCEPT ![r] = NoToggle]
    /\ UNCHANGED <<favs, accessToken, page, listed, offers, late, forgotten, scene>>

\* Only this file is put back; the page loads what it shows again.
Fail(r) ==
    LET q == toggles[r] IN
    /\ q.pc = "sent"
    /\ CASE q.from = "dashboard"                      -> RefreshDashboard(RolledBack(q), q.token)
         [] q.from = "favorites" /\ q.why = "click" -> LoadPage(RolledBack(q), q.token)
         [] OTHER                                    -> store' = RolledBack(q) /\ UNCHANGED loads
    /\ toggles' = [toggles EXCEPT ![r] = NoToggle]
    /\ forgotten' = IF q.add /\ q.file \in favs[Owner[q.token]]
                    THEN forgotten \cup {q.file} ELSE forgotten
    /\ UNCHANGED <<favs, accessToken, page, listed, offers, late, scene>>

-----------------------------------------------------------------------------
(* Sessions and pages.                                                     *)

\* A user who waits lets the toasts go first.
Open(p) ==
    /\ page # "login" /\ p \notin {page, "login"} /\ Ready
    /\ Patient => offers = {}
    /\ page' = p /\ listed' = {}
    /\ Mounted(p, store, accessToken)
    /\ UNCHANGED <<favs, accessToken, toggles, offers, late, forgotten, scene>>

\* Mutant: log-in leaves the favorites of whoever was here before.
LoginKeeps(t) ==
    /\ accessToken = None
    /\ accessToken' = t /\ page' = "dashboard"
    /\ Mounted("dashboard", store, t)
    /\ UNCHANGED <<favs, listed, toggles, offers, late, forgotten, scene>>

\* login resets the store.
Login(t) ==
    /\ accessToken = None
    /\ accessToken' = t /\ page' = "dashboard"
    /\ Mounted("dashboard", EmptyStore, t)
    /\ UNCHANGED <<favs, listed, toggles, offers, late, forgotten, scene>>

\* The session ends: logout resets the store, onAuthFailure and deleteAccount do
\* not.  What is under way goes on.
Logout ==
    /\ accessToken # None /\ \A r \in Reqs : toggles[r].pc = "idle"
    /\ accessToken' = None /\ page' = "login" /\ listed' = {}
    /\ store' \in {EmptyStore, store}
    /\ late' = (late \/ ~Quiet)
    /\ UNCHANGED <<favs, loads, toggles, offers, forgotten, scene>>

\* The access token is renewed: the page on the screen loads again.
Renew(t) ==
    /\ accessToken # None /\ t # accessToken /\ Owner[t] = Owner[accessToken]
    /\ accessToken' = t
    /\ Mounted(page, store, t)
    /\ UNCHANGED <<favs, page, listed, toggles, offers, late, forgotten, scene>>

Init ==
    /\ favs \in [Users -> SUBSET Files]
    /\ scene \in Scenes
    /\ accessToken \in Toks \cup {None}
    /\ (accessToken = None) <=> (scene = "sessions")
    /\ store = IF scene = "toggles"
               THEN [EmptyStore EXCEPT !.ids = Mine, !.loaded = accessToken] ELSE EmptyStore
    /\ page = CASE scene = "sessions" -> "login" [] scene = "toggles" -> "file"
                [] OTHER -> "favorites"
    /\ listed = {} /\ toggles = [r \in Reqs |-> NoToggle] /\ offers = {} /\ late = FALSE /\ forgotten = {}
    /\ IF page = "favorites"
       THEN \E l \in Loads : loads = [k \in Loads |-> IF k = l
                THEN [NoLoad EXCEPT !.pc = "asked", !.for = "page", !.token = accessToken]
                ELSE NoLoad]
       ELSE loads = [l \in Loads |-> NoLoad]

LoadStep(l) == Read(l) \/ Loaded(l) \/ LoadFails(l)

\* The scene "toggles" stays on one page, "sessions" has no toggles.
Next ==
    \/ \E l \in Loads : LoadStep(l)
    \/ \E r \in Reqs : Added(r) \/ AddFails(r) \/ Done(r) \/ Fail(r)
    \/ /\ scene # "sessions"
       /\ \E r \in Reqs : \/ \E f \in Files : Toggle(r, f) \/ Upload(r, f)
                          \/ \E o \in offers : Undo(r, o)
    \/ \E o \in offers : Dismiss(o)
    \/ /\ scene # "toggles"
       /\ \E p \in Pages : Open(p)
    \/ /\ scene = "sessions"
       /\ (\E t \in Toks : Login(t) \/ Renew(t)) \/ Logout

Spec == Init /\ [][Next]_vars /\ \A l \in Loads : WF_vars(LoadStep(l))

-----------------------------------------------------------------------------
\* Stars are changed before the server answers, several at a time, and put back one by
\* one when it refuses: a file with no toggle under way has the star that the server
\* knows of (favoritesStore.toggleFavorite).  And for a user who waits: once the store
\* has been loaded, whatever is toggled, undone, refused or uploaded on whatever page
\* leaves the stars, and the list of FavoritesPage, as the server has them, until the
\* second of the two times that GlobalDropZone adds an upload fails.
FavoritesFollowServer ==
    /\ scene = "toggles" =>
           \A f \in Files : Toggled(f) \/ (f \in store.ids <=> f \in Mine)
    /\ scene = "waits" /\ Quiet /\ store.loaded # None /\ forgotten = {} =>
           /\ store.ids = Mine
           /\ page = "favorites" => listed \subseteq Mine

\* The stars are never another user's, unless an answer came after the session
\* that had asked for it was over (reset of the store).
StarsAreOwn ==
    ~late /\ accessToken # None /\ store.loaded # None => Owner[store.loaded] = Owner[accessToken]

\* The toast says that the file is not a favorite any more (FavoritesPage).
RemovedIsRemoved ==
    Quiet => \A o \in offers : o.from = "favorites" => o.file \notin Mine

\* The spinner of the stars goes away.
LoadingEnds == store.isLoading ~> ~store.isLoading
=============================================================================
